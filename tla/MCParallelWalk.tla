--------------------------- MODULE MCParallelWalk ---------------------------
(***************************************************************************)
(* Small DAGs for WalkDepth.                                                *)
(***************************************************************************)
EXTENDS WalkDepth

CONSTANTS r, a, b, c, d

Unlimited == -1

(* r -> a, b, a (a repeated link);  a -> c;  b -> c, d;  c, d leaves         *)
DiamondLinks == [x \in Cids |-> CASE x = r -> <<a, b, a>>
                                  [] x = a -> <<c>>
                                  [] x = b -> <<c, d>>
                                  [] OTHER -> <<>>]

(* r -> a -> b -> c -> d with the short cut r -> b and a repeated link: the  *)
(* depth b is first seen at, and with a limit of 2 whether c is seen at all, *)
(* depend on the schedule unless b is explored again.                        *)
ShortcutLinks == [x \in Cids |-> CASE x = r -> <<a, b, a>>
                                   [] x = a -> <<b>>
                                   [] x = b -> <<c>>
                                   [] x = c -> <<d>>
                                   [] OTHER -> <<>>]
=============================================================================
