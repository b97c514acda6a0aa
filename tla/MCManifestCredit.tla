-------------------------- MODULE MCManifestCredit --------------------------
(***************************************************************************)
(* A few CIDs for Manifetch, two of them of one multihash.  The CID bogus   *)
(* is not in the DAG, which is a -> b, c and b -> c.                        *)
(***************************************************************************)
EXTENDS Manifetch

CONSTANTS a, b, c, bogus

SharedHash == [x \in Cids |-> IF x = b THEN a ELSE x]

Triangle == [x \in Cids |-> CASE x = a -> {b, c} [] x = b -> {c} [] OTHER -> {}]
=============================================================================
