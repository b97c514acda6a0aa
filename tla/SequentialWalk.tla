--------------------------- MODULE SequentialWalk ---------------------------
(***************************************************************************)
(* sequentialWalkDepth of bitswap/mdag/mdag.go: the recursive walk, with    *)
(* the call stack as a variable.  A frame is one activation; its rest is    *)
(* what the loop over the links has still to walk.                          *)
(***************************************************************************)
EXTENDS Merkledag

VARIABLES
    set,         \* the map of the visit closure: CID -> depth
    ignored,     \* CIDs whose getLinks error the handler turned into nil
    callbacks,   \* the CIDs OnMissing's callback was called with
    ctxDone,     \* the caller's ctx is cancelled
    stack,       \* the activations, the innermost first
    seqval       \* the value the outermost call returned, "none" before

Call(c, d) == [cid |-> c, depth |-> d, at |-> "visit", rest |-> <<>>]

SeqInit ==
    /\ stack = <<Call(Root, 0)>>
    /\ seqval = "none"

Top == Head(stack)

At(label) == stack # <<>> /\ Top.at = label

(* The innermost activation goes on at another place *)
Continue(label, rest) ==
    /\ stack' = <<[Top EXCEPT !.at = label, !.rest = rest]>> \o Tail(stack)
    /\ UNCHANGED seqval

(* wrong: the result of the inner call is returned at once *)
ReturnNilToCaller ==
    /\ stack' = <<>>
    /\ seqval' = "nil"

(* The innermost activation returns nil to the loop of its caller.           *)
ReturnNil ==
    /\ stack' = Tail(stack)
    /\ seqval' = IF Tail(stack) = <<>> THEN "nil" ELSE seqval

(* The root is bypassed if the options say so; visit(root, depth) decides    *)
(* whether the links are wanted.                                             *)
SeqVisit ==
    /\ At("visit")
    /\ LET skipped == SkipRoot /\ Top.depth = 0
           wanted  == Visits(set, Top.cid, Top.depth) IN
       /\ IF skipped \/ wanted THEN Continue("links", <<>>) ELSE ReturnNil
       /\ set' = IF ~ skipped /\ wanted THEN [set EXCEPT ![Top.cid] = Top.depth] ELSE set
    /\ UNCHANGED <<ignored, callbacks, ctxDone>>

(* getLinks(ctx, root), and the error handler, which is called with the node *)
(* itself.  An error returns from every activation.                          *)
SeqGetLinks ==
    /\ At("links")
    /\ \E err \in GetLinksErrors(Top.cid, ctxDone) :
         LET left == IF err = "nil" THEN "nil" ELSE ErrorHandler(err) IN
         /\ callbacks' = callbacks \cup MissingCallback(Top.cid, err)
         /\ ignored' = IF err # "nil" /\ left = "nil" THEN ignored \cup {Top.cid} ELSE ignored
         /\ IF left = "nil"
              THEN Continue("range", IF err = "nil" THEN Links[Top.cid] ELSE <<>>)
              ELSE stack' = <<>> /\ seqval' = left
    /\ UNCHANGED <<set, ctxDone>>

(* wrong: only the first link is walked *)
SeqRangeOnce ==
    /\ At("range")
    /\ IF Top.rest = <<>>
         THEN ReturnNil
         ELSE /\ stack' = <<Call(Head(Top.rest), Top.depth + 1)>> \o Tail(stack)
              /\ UNCHANGED seqval
    /\ UNCHANGED <<set, ignored, callbacks, ctxDone>>

(* for _, lnk := range links: the next link, or the end of the loop          *)
SeqRange ==
    /\ At("range")
    /\ IF Top.rest = <<>>
         THEN ReturnNil
         ELSE /\ stack' = <<Call(Head(Top.rest), Top.depth + 1),
                            [Top EXCEPT !.rest = Tail(Top.rest)]>> \o Tail(stack)
              /\ UNCHANGED seqval
    /\ UNCHANGED <<set, ignored, callbacks, ctxDone>>

SeqStep == SeqVisit \/ SeqGetLinks \/ SeqRange

SeqResult == CASE seqval = "none" -> "running"
               [] seqval = "nil"  -> "nil"
               [] OTHER           -> "error"

DW == INSTANCE DagWalk WITH result <- SeqResult

(* The sequential walk keeps the same promise as the parallel one: it visits *)
(* only linked nodes, and returns nil only when everything within the limit  *)
(* was visited or lies below a node whose error was swallowed.               *)
SequentialImplementsDagWalk == DW!Spec

(* "WalkGraph will walk the dag in order (depth first)": a visited node      *)
(* whose activation is over has had all its links walked, down to the limit, *)
(* before anything else was visited.                                         *)
DepthFirst ==
    seqval \in {"none", "nil"} =>
        \A c \in Cids \ ignored :
            /\ DW!Seen(c)
            /\ \A i \in 1..Len(stack) : stack[i].cid # c
            /\ DW!WithinLimit(set[c] + 1)
            => \A l \in LinkSet(c) : DW!Satisfied(l, set[c] + 1)
=============================================================================
