-------------------------- MODULE MCBitswapClient --------------------------
(***************************************************************************)
(* Small sets of callers for BitswapClient.                                 *)
(***************************************************************************)
EXTENDS BitswapClient

CONSTANTS g1, g2, x, y

SameCid == [g \in Gets |-> x]

NoStream == <<>>
StreamOfTwo == <<x, y>>
=============================================================================
