----------------------------- MODULE MCTestPlan -----------------------------
(***************************************************************************)
(* Every test case with two instances, the ones that treat a third instance *)
(* differently, or have more than one client, with three.                   *)
(***************************************************************************)
EXTENDS TestPlan

SmallPlans ==
    [case : Cases, n : {2}] \cup
    [case : {"tcp", "graphsync", "bitswap1toN", "kubo"}, n : {3}]
=============================================================================
