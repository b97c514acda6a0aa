----------------------------- MODULE Merkledag -----------------------------
(***************************************************************************)
(* What the two graph walks of bitswap/mdag/mdag.go share: the DAG they    *)
(* walk, the options they are given, the visit function and the result of  *)
(* getLinks.  A CID is a model value; a block is only its list of links.   *)
(***************************************************************************)
EXTENDS Integers, Sequences

CONSTANTS
    Cids,       \* the CIDs of the DAG
    Undef,      \* cid.Undef, the zero CID
    Root,       \* the CID the walk starts from
    Links,      \* Links[c]: the links of node c, in order, duplicates allowed
    Missing,    \* the CIDs getLinks cannot find
    DepthLim,   \* depthLim; a negative number means no limit
    SkipRoot,   \* walkOptions.SkipRoot
    Handler     \* walkOptions.ErrorHandler: the option that installed it

ASSUME DagAssumption ==
    /\ Root \in Cids
    /\ Undef \notin Cids
    /\ Links \in [Cids -> Seq(Cids)]
    /\ Missing \subseteq Cids

ASSUME OptionAssumption ==
    /\ DepthLim \in Int
    /\ SkipRoot \in BOOLEAN
    /\ Handler \in {"none", "IgnoreErrors", "IgnoreMissing", "OnMissing"}

(* A depth recorded in the map "set" of FetchGraphWithDepthLimit, or the    *)
(* absence of the key.  The sets of Walk's callers only record membership,  *)
(* which is what a negative DepthLim makes of the map.                      *)
NotSeen == -1

(* cidDepth, and its zero value *)
Task == [cid : Cids \cup {Undef}, depth : Nat]
ZeroTask == [cid |-> Undef, depth |-> 0]
Defined(t) == t.cid # Undef

LinkSet(c) == {Links[c][i] : i \in 1..Len(Links[c])}

(* Deliberately wrong variants, which the checks must tell from Visits: a    *)
(* node met again at a smaller depth is not explored again; ...              *)
VisitsFirstDepth(s, c, d) ==
    /\ DepthLim >= 0 => d <= DepthLim
    /\ s[c] = NotSeen

(* ... and a node is walked whenever it is met.                              *)
VisitsAlways(s, c, d) == DepthLim >= 0 => d <= DepthLim

(* The two conditions of the visit function of FetchGraphWithDepthLimit,    *)
(* on the map s.                                                            *)
Visits(s, c, d) ==
    /\ ~ (s[c] # NotSeen /\ DepthLim < 0)
    /\ ~ (DepthLim >= 0 /\ d > DepthLim)
    /\ s[c] = NotSeen \/ s[c] > d

(* The error values a call of getLinks for c can return: GetLinksDirect     *)
(* reports an unknown node as format.ErrNotFound and passes every other     *)
(* error of the NodeGetter through, the one of a cancelled context included. *)
GetLinksErrors(c, ctxDone) ==
    (IF c \in Missing THEN {"notfound"} ELSE {"nil"})
        \cup (IF ctxDone THEN {"ctx"} ELSE {})

(* The error left after walkOptions.ErrorHandler has seen err.              *)
ErrorHandler(err) ==
    CASE Handler = "IgnoreErrors"  -> "nil"
      [] Handler = "IgnoreMissing" -> IF err = "notfound" THEN "nil" ELSE err
      [] OTHER -> err

(* The CIDs OnMissing's callback is given when the handler runs on (c, err). *)
MissingCallback(c, err) ==
    IF Handler = "OnMissing" /\ err = "notfound" THEN {c} ELSE {}
=============================================================================
