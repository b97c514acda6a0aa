---------------------------- MODULE MCNodeGetter ----------------------------
(***************************************************************************)
(* Two calls for one block and one for another.                             *)
(***************************************************************************)
EXTENDS NodeGetter

CONSTANTS k1, k2, k3, h1, h2

SharedHash == [k \in Calls |-> IF k = k3 THEN h2 ELSE h1]
=============================================================================
