------------------------------ MODULE DagWalk ------------------------------
(***************************************************************************)
(* What Walk, WalkDepth and FetchGraph promise: nodes are visited one at a  *)
(* time, only when a walked node links to them; a walk that returns no      *)
(* error has visited everything within the depth limit, except below nodes  *)
(* whose error the ErrorHandler swallowed; and nothing is visited once the  *)
(* walk has returned.                                                       *)
(***************************************************************************)
EXTENDS Merkledag

VARIABLES
    set,      \* set[c]: the depth c was last visited at, or NotSeen
    ignored,  \* the nodes whose getLinks error was swallowed
    result    \* "running", then what the walk returned: "nil" or "error"

vars == <<set, ignored, result>>

Seen(c) == set[c] # NotSeen

(* c's links are walked: it was visited, or it is the skipped root.         *)
Expanded(c) == Seen(c) \/ (SkipRoot /\ c = Root)

DepthOf(c) == IF SkipRoot /\ c = Root THEN 0 ELSE set[c]

WithinLimit(d) == DepthLim < 0 \/ d <= DepthLim

(* l needs no visit at depth d any more *)
Satisfied(l, d) == Seen(l) /\ (DepthLim < 0 \/ set[l] <= d)

(* c may be visited at depth d: it is the root, or a walked node links to it *)
Linked(c, d) ==
    \/ c = Root /\ d = 0
    \/ \E p \in Cids : Expanded(p) /\ c \in LinkSet(p) /\ DepthOf(p) < d

Complete ==
    /\ SkipRoot \/ Seen(Root)
    /\ \A c \in Cids \ ignored :
          Expanded(c) /\ WithinLimit(DepthOf(c) + 1) =>
              \A l \in LinkSet(c) : Satisfied(l, DepthOf(c) + 1)

TypeOK ==
    /\ set \in [Cids -> Nat \cup {NotSeen}]
    /\ ignored \subseteq Cids
    /\ result \in {"running", "nil", "error"}

Init ==
    /\ set = [c \in Cids |-> NotSeen]
    /\ ignored = {}
    /\ result = "running"

Visit(c, d) ==
    /\ result = "running"
    /\ d \in Nat
    /\ Visits(set, c, d)
    /\ Linked(c, d)
    /\ set' = [set EXCEPT ![c] = d]
    /\ UNCHANGED <<ignored, result>>

Ignore(c) ==
    /\ result = "running"
    /\ Handler \in {"IgnoreErrors", "IgnoreMissing"}
    /\ Expanded(c)
    /\ ignored' = ignored \cup {c}
    /\ UNCHANGED <<set, result>>

Finish ==
    /\ result = "running"
    /\ Complete
    /\ result' = "nil"
    /\ UNCHANGED <<set, ignored>>

Fail ==
    /\ result = "running"
    /\ result' = "error"
    /\ UNCHANGED <<set, ignored>>

Next ==
    \/ \E c \in Cids : Visit(c, set'[c])
    \/ \E c \in Cids : Ignore(c)
    \/ Finish
    \/ Fail

Spec == Init /\ [][Next]_vars
=============================================================================
