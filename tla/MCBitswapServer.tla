-------------------------- MODULE MCBitswapServer --------------------------
(***************************************************************************)
(* Wantlists of one entry each (GetBlock and GetBlocksCh send these), and   *)
(* one wantlist of two entries (GetBlocks).                                 *)
(***************************************************************************)
EXTENDS BitswapServer

CONSTANTS m1, m2, m3, e1, e2, e3

OneEach == [e \in Entries |-> CASE e = e1 -> m1 [] e = e2 -> m2 [] OTHER -> m3]
AllInOne == [e \in Entries |-> m1]
=============================================================================
