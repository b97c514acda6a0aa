---------------------------- MODULE MCDagService ----------------------------
(***************************************************************************)
(* Lists of keys and of blocks for DagService: a repeated key, and a CID c  *)
(* that is not safe.                                                        *)
(***************************************************************************)
EXTENDS DagService

CONSTANTS a, b, c

RepeatedKeys == {<<a, b, a>>, <<c>>}
AddedBlocks == {<<a>>, <<a, c>>}
RemovedBlocks == <<a>>

(* A session over anything but a SessionExchange has no fetcher, whatever    *)
(* the exchange is: one such setup stands for all.  checkFirst only concerns *)
(* the adders, which do not look at the session: one setup is without it.    *)
AllSetups ==
    ({"nil", "plain", "client"} \X {FALSE} \X {TRUE})
        \cup {<<"session", TRUE, TRUE>>, <<"client", TRUE, FALSE>>}
=============================================================================
