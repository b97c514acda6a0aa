-------------------------- MODULE WalkDepthProofs --------------------------
(***************************************************************************)
(* Either walk WalkDepth chooses implements DagWalk, and the sequential one *)
(* is depth first, for every DAG, depth limit and option.  While the        *)
(* parallel walk runs the invariant of ParallelWalkProofs holds; the        *)
(* sequential one has an invariant of its own, about its call stack.        *)
(***************************************************************************)
EXTENDS WalkDepth, ParallelWalkProofs, SequenceTheorems, WellFoundedInduction

(* One activation of sequentialWalkDepth                                     *)
Frame == [cid : Cids, depth : Nat, at : {"visit", "links", "range"}, rest : Seq(Cids)]

SeqType ==
    /\ TypeOK
    /\ stack \in Seq(Frame)
    /\ seqval \in {"none", "nil", "notfound", "ctx"}
    /\ seqval = "none" <=> Len(stack) > 0

(* What is about to be visited is linked to; what is being walked has been   *)
(* visited, at that depth or a smaller one, and is followed along its links. *)
FramesInv ==
    \A i \in 1..Len(stack) :
        /\ stack[i].depth = 0 => stack[i].cid = Root
        /\ stack[i].at = "visit" => DW!Linked(stack[i].cid, stack[i].depth)
        /\ stack[i].at # "visit" =>
              DW!Expanded(stack[i].cid) /\ DW!DepthOf(stack[i].cid) <= stack[i].depth
        /\ stack[i].at = "range" =>
              \A k \in 1..Len(stack[i].rest) : stack[i].rest[k] \in LinkSet(stack[i].cid)

(* The activation i is the one that owes c's links their visit.              *)
Owes(i, c) == stack[i].cid = c /\ (DepthLim < 0 \/ stack[i].depth <= DW!DepthOf(c))

(* The innermost activation is about to visit c at depth d.                  *)
Calling(c, d) ==
    Len(stack) > 0 /\ stack[1].at = "visit" /\ stack[1].cid = c /\ stack[1].depth = d

LinkCalled(c, l) == Len(stack) > 1 /\ Owes(2, c) /\ Calling(l, stack[2].depth + 1)

(* l is among the links the activation i has still to walk.                  *)
Ahead(i, l) ==
    \/ stack[i].at = "links"
    \/ stack[i].at = "range" /\ \E k \in 1..Len(stack[i].rest) : stack[i].rest[k] = l

(* The link l of c has been visited, is being visited by the activation that *)
(* c's called, or is still ahead of c's activation.                          *)
SeqCovered(c, l) ==
    \/ DW!Satisfied(l, DW!DepthOf(c) + 1)
    \/ LinkCalled(c, l)
    \/ \E i \in 1..Len(stack) : Owes(i, c) /\ Ahead(i, l)
    \/ SkipRoot /\ c = Root /\ Calling(Root, 0)

SeqCover ==
    /\ SkipRoot \/ DW!Seen(Root) \/ Calling(Root, 0)
    /\ \A c \in Cids \ ignored :
          DW!Expanded(c) /\ DW!WithinLimit(DW!DepthOf(c) + 1) =>
              \A l \in LinkSet(c) : SeqCovered(c, l)

(* The goroutines of the parallel walk are not there.                        *)
NoWorkers == NothingStranded /\ LockInv /\ FetchedOnce /\ mainPc = "loop"

SeqInv ==
    /\ SeqType
    /\ NoWorkers
    /\ FramesInv
    /\ seqval \in {"none", "nil"} => SeqCover

WalkInv ==
    /\ Parallel => IInv /\ OInv /\ seqval = "none"
    /\ ~ Parallel => SeqInv

-----------------------------------------------------------------------------
(* SequentialWalk and the DagWalk it instantiates read the definitions of    *)
(* Merkledag the way ParallelWalk does.                                      *)
LEMMA SameWalk ==
    /\ \A c : Seq1!DW!Seen(c) <=> DW!Seen(c)
    /\ \A c : Seq1!DW!Expanded(c) <=> DW!Expanded(c)
    /\ \A c : Seq1!DW!DepthOf(c) = DW!DepthOf(c)
    /\ \A d : Seq1!DW!WithinLimit(d) <=> DW!WithinLimit(d)
    /\ \A c, d : Seq1!DW!Satisfied(c, d) <=> DW!Satisfied(c, d)
    /\ \A c, d : Seq1!DW!Linked(c, d) <=> DW!Linked(c, d)
    /\ Seq1!DW!Complete <=> DW!Complete
<1>1. /\ \A c : Seq1!DW!Seen(c) <=> DW!Seen(c)
      /\ \A c : Seq1!DW!Expanded(c) <=> DW!Expanded(c)
      /\ \A c : Seq1!DW!DepthOf(c) = DW!DepthOf(c)
      /\ \A d : Seq1!DW!WithinLimit(d) <=> DW!WithinLimit(d)
      /\ \A c, d : Seq1!DW!Satisfied(c, d) <=> DW!Satisfied(c, d)
  BY DEF Seq1!DW!Seen, DW!Seen, Seq1!DW!NotSeen, DW!NotSeen, Seq1!DW!Expanded, DW!Expanded,
         Seq1!DW!DepthOf, DW!DepthOf, Seq1!DW!WithinLimit, DW!WithinLimit,
         Seq1!DW!Satisfied, DW!Satisfied
<1>2. \A c : Seq1!DW!LinkSet(c) = DW!LinkSet(c)
  BY DEF Seq1!DW!LinkSet, DW!LinkSet
<1>3. \A c, d : Seq1!DW!Linked(c, d) <=> DW!Linked(c, d)
  BY <1>1, <1>2 DEF Seq1!DW!Linked, DW!Linked
<1>4. Seq1!DW!Complete <=> DW!Complete
  BY <1>1, <1>2 DEF Seq1!DW!Complete, DW!Complete
<1> QED
  BY <1>1, <1>3, <1>4

LEMMA SameOptions ==
    /\ \A s, c, d : Seq1!Visits(s, c, d) <=> Visits(s, c, d)
    /\ \A s, c, d : Seq1!DW!Visits(s, c, d) <=> Visits(s, c, d)
    /\ \A c : Seq1!LinkSet(c) = LinkSet(c)
    /\ NotSeen = -1 /\ Seq1!DW!NotSeen = -1
BY DEF Seq1!Visits, Visits, Seq1!NotSeen, NotSeen, Seq1!DW!Visits, Seq1!DW!NotSeen,
       Seq1!LinkSet, LinkSet

LEMMA SeqResults ==
    /\ seqval = "none" => Seq1!SeqResult = "running"
    /\ seqval = "nil" => Seq1!SeqResult = "nil"
    /\ seqval \notin {"none", "nil"} => Seq1!SeqResult = "error"
BY DEF Seq1!SeqResult

-----------------------------------------------------------------------------
(* The innermost activation goes on at label.                                *)
Moved(label, rest) ==
    /\ stack' \in Seq(Frame) /\ Len(stack') = Len(stack) /\ seqval' = seqval
    /\ stack'[1].cid = stack[1].cid /\ stack'[1].depth = stack[1].depth
    /\ stack'[1].at = label /\ stack'[1].rest = rest
    /\ \A i \in 2..Len(stack) : stack'[i] = stack[i]

(* It returns nil.                                                           *)
Popped ==
    /\ stack' \in Seq(Frame) /\ Len(stack') = Len(stack) - 1
    /\ \A i \in 1..Len(stack) - 1 : stack'[i] = stack[i + 1]
    /\ seqval' = IF Len(stack) = 1 THEN "nil" ELSE seqval

(* It calls sequentialWalkDepth for (c, d), with rest still ahead.           *)
Pushed(c, d, rest) ==
    /\ stack' \in Seq(Frame) /\ Len(stack') = Len(stack) + 1 /\ seqval' = seqval
    /\ stack'[1].cid = c /\ stack'[1].depth = d /\ stack'[1].at = "visit"
    /\ stack'[2].cid = stack[1].cid /\ stack'[2].depth = stack[1].depth
    /\ stack'[2].at = "range" /\ stack'[2].rest = rest
    /\ \A i \in 2..Len(stack) : stack'[i + 1] = stack[i]

LEMMA TopType ==
    ASSUME SeqType, NEW label, Seq1!At(label)
    PROVE  /\ stack # <<>> /\ Len(stack) \in Nat \ {0} /\ seqval = "none"
           /\ Seq1!Top = stack[1] /\ stack[1] \in Frame /\ stack[1].at = label
           /\ Tail(stack) \in Seq(Frame) /\ Len(Tail(stack)) = Len(stack) - 1
           /\ \A i \in 1..Len(stack) - 1 : Tail(stack)[i] = stack[i + 1]
<1>1. stack \in Seq(Frame) /\ stack # <<>>
  BY DEF SeqType, Seq1!At
<1>2. Len(stack) \in Nat \ {0}
  BY <1>1, EmptySeq
<1>3. /\ Head(stack) = stack[1] /\ stack[1] \in Frame
      /\ Tail(stack) \in Seq(Frame) /\ Len(Tail(stack)) = Len(stack) - 1
      /\ \A i \in 1..Len(stack) - 1 : Tail(stack)[i] = stack[i + 1]
  BY <1>1, <1>2
<1>4. seqval = "none"
  BY <1>2 DEF SeqType
<1> QED
  BY <1>1, <1>2, <1>3, <1>4 DEF Seq1!At, Seq1!Top

LEMMA ContinueEffect ==
    ASSUME SeqType, NEW label, Seq1!At(label), NEW next2 \in {"links", "range"},
           NEW rest \in Seq(Cids), Seq1!Continue(next2, rest)
    PROVE  Moved(next2, rest)
<1> DEFINE f == [stack[1] EXCEPT !.at = next2, !.rest = rest]
<1>1. /\ f \in Frame /\ f.cid = stack[1].cid /\ f.depth = stack[1].depth
      /\ f.at = next2 /\ f.rest = rest
  BY TopType DEF Frame
<1>2. stack' = <<f>> \o Tail(stack) /\ seqval' = seqval
  BY TopType DEF Seq1!Continue
<1> HIDE DEF f
<1>3. /\ <<f>> \in Seq(Frame) /\ Len(<<f>>) = 1 /\ <<f>>[1] = f
  BY <1>1
<1>4. /\ <<f>> \o Tail(stack) \in Seq(Frame)
      /\ Len(<<f>> \o Tail(stack)) = 1 + Len(Tail(stack))
      /\ \A i \in 1..1 + Len(Tail(stack)) : (<<f>> \o Tail(stack))[i] =
            IF i <= 1 THEN <<f>>[i] ELSE Tail(stack)[i - 1]
  BY <1>3, TopType, ConcatProperties
<1>5. /\ Len(stack) \in Nat \ {0} /\ Len(Tail(stack)) = Len(stack) - 1
      /\ \A i \in 1..Len(stack) - 1 : Tail(stack)[i] = stack[i + 1]
  BY TopType
<1>6. Len(stack') = Len(stack) /\ stack'[1] = f
  BY <1>2, <1>3, <1>4, <1>5
<1>7. ASSUME NEW i \in 2..Len(stack) PROVE stack'[i] = stack[i]
  <2>1. /\ i \in 1..1 + Len(Tail(stack)) /\ ~ i <= 1
        /\ i - 1 \in 1..Len(stack) - 1 /\ (i - 1) + 1 = i
    BY <1>5
  <2>2. Tail(stack)[i - 1] = stack[i]
    BY <1>5, <2>1
  <2> QED
    BY <1>2, <1>4, <2>1, <2>2
<1> QED
  BY <1>1, <1>2, <1>4, <1>6, <1>7 DEF Moved

LEMMA ReturnEffect ==
    ASSUME SeqType, NEW label, Seq1!At(label), Seq1!ReturnNil
    PROVE  Popped
<1>1. Tail(stack) = <<>> <=> Len(stack) = 1
  <2>1. Len(stack) \in Nat /\ Len(Tail(stack)) = Len(stack) - 1
    BY TopType
  <2>2. CASE Tail(stack) = <<>>
    <3>1. PICK n : n = Len(stack)
      OBVIOUS
    <3>2. Len(Tail(stack)) = n - 1 /\ n \in Nat
      BY <2>1, <3>1
    <3>3. Len(<<>>) = n - 1 /\ Len(<<>>) = 0
      BY <2>2, <3>2, EmptySeq, Zenon
    <3>4. n = 1
      BY <3>2, <3>3
    <3> QED
      BY <2>2, <3>1, <3>4
  <2>3. CASE Tail(stack) # <<>>
    <3>1. Len(Tail(stack)) \in Nat \ {0}
      BY <2>3, TopType, EmptySeq
    <3> QED
      BY <2>1, <2>3, <3>1
  <2> QED
    BY <2>2, <2>3
<1> QED
  BY <1>1, TopType DEF Seq1!ReturnNil, Popped

LEMMA VisitCases ==
    ASSUME SeqType, Seq1!SeqVisit
    PROVE  /\ stack[1] \in Frame /\ Len(stack) \in Nat \ {0} /\ stack[1].at = "visit"
           /\ seqval = "none" /\ UNCHANGED <<ignored, callbacks, ctxDone>>
           /\ \/ /\ SkipRoot /\ stack[1].depth = 0
                 /\ set' = set /\ Moved("links", <<>>)
              \/ /\ ~ (SkipRoot /\ stack[1].depth = 0)
                 /\ Visits(set, stack[1].cid, stack[1].depth)
                 /\ set' = [set EXCEPT ![stack[1].cid] = stack[1].depth]
                 /\ Moved("links", <<>>)
              \/ /\ ~ (SkipRoot /\ stack[1].depth = 0)
                 /\ ~ Visits(set, stack[1].cid, stack[1].depth)
                 /\ set' = set /\ Popped
<1>0. Seq1!At("visit")
  BY DEF Seq1!SeqVisit
<1>1. /\ Seq1!Top = stack[1] /\ stack[1] \in Frame /\ Len(stack) \in Nat \ {0}
      /\ stack[1].at = "visit" /\ seqval = "none"
  BY <1>0, TopType
<1>2. <<>> \in Seq(Cids)
  BY EmptySeq
<1>3. Seq1!Continue("links", <<>>) => Moved("links", <<>>)
  BY <1>0, <1>2, ContinueEffect
<1>4. Seq1!ReturnNil => Popped
  BY <1>0, ReturnEffect
<1>5. Seq1!Visits(set, stack[1].cid, stack[1].depth) <=> Visits(set, stack[1].cid, stack[1].depth)
  BY SameOptions
<1> QED
  BY <1>1, <1>3, <1>4, <1>5 DEF Seq1!SeqVisit

(* The error getLinks leaves behind is not nil and stops the walk, or is      *)
(* swallowed and puts the node among the ignored ones.                       *)
LEMMA GetLinksCases ==
    ASSUME SeqType, Seq1!SeqGetLinks
    PROVE  /\ stack[1] \in Frame /\ Len(stack) \in Nat \ {0} /\ stack[1].at = "links"
           /\ seqval = "none" /\ UNCHANGED <<set, ctxDone>>
           /\ callbacks' \subseteq callbacks \cup {stack[1].cid}
           /\ \/ /\ ignored' = ignored /\ stack[1].cid \notin Missing
                 /\ Moved("range", Links[stack[1].cid])
              \/ /\ ignored' = ignored \cup {stack[1].cid}
                 /\ Handler \in {"IgnoreErrors", "IgnoreMissing"}
                 /\ Moved("range", <<>>)
              \/ /\ ignored' = ignored /\ stack' = <<>>
                 /\ seqval' \in {"notfound", "ctx"}
<1>0. Seq1!At("links")
  BY DEF Seq1!SeqGetLinks
<1>1. /\ Seq1!Top = stack[1] /\ stack[1] \in Frame /\ Len(stack) \in Nat \ {0}
      /\ stack[1].at = "links" /\ seqval = "none"
  BY <1>0, TopType
<1>2. <<>> \in Seq(Cids) /\ Links[stack[1].cid] \in Seq(Cids)
  BY <1>1, EmptySeq, DagAssumption DEF Frame
<1>3. /\ Seq1!Continue("range", <<>>) => Moved("range", <<>>)
      /\ Seq1!Continue("range", Links[stack[1].cid]) => Moved("range", Links[stack[1].cid])
  BY <1>0, <1>2, ContinueEffect
<1> DEFINE left(err) == IF err = "nil" THEN "nil" ELSE Seq1!ErrorHandler(err)
<1>4. PICK err \in Seq1!GetLinksErrors(stack[1].cid, ctxDone) :
         /\ callbacks' = callbacks \cup Seq1!MissingCallback(stack[1].cid, err)
         /\ ignored' = IF err # "nil" /\ left(err) = "nil"
                         THEN ignored \cup {stack[1].cid} ELSE ignored
         /\ IF left(err) = "nil"
              THEN Seq1!Continue("range", IF err = "nil" THEN Links[stack[1].cid] ELSE <<>>)
              ELSE stack' = <<>> /\ seqval' = left(err)
  BY <1>1 DEF Seq1!SeqGetLinks
<1>5. err \in {"nil", "notfound", "ctx"}
  BY <1>4 DEF Seq1!GetLinksErrors
<1>6. UNCHANGED <<set, ctxDone>> /\ callbacks' \subseteq callbacks \cup {stack[1].cid}
  BY <1>4 DEF Seq1!SeqGetLinks, Seq1!MissingCallback
<1>7. CASE err = "nil"
  <2>1. stack[1].cid \notin Missing
    BY <1>4, <1>7 DEF Seq1!GetLinksErrors
  <2> QED
    BY <1>1, <1>3, <1>4, <1>6, <1>7, <2>1
<1>8. CASE err # "nil"
  <2>1. /\ Seq1!ErrorHandler(err) \in {"nil", err}
        /\ Seq1!ErrorHandler(err) = "nil" => Handler \in {"IgnoreErrors", "IgnoreMissing"}
    BY <1>5, <1>8 DEF Seq1!ErrorHandler
  <2> QED
    BY <1>1, <1>3, <1>4, <1>5, <1>6, <1>8, <2>1
<1> QED
  BY <1>7, <1>8

LEMMA RangeCases ==
    ASSUME SeqType, Seq1!SeqRange
    PROVE  /\ stack[1] \in Frame /\ Len(stack) \in Nat \ {0} /\ stack[1].at = "range"
           /\ seqval = "none" /\ UNCHANGED <<set, ignored, callbacks, ctxDone>>
           /\ \/ stack[1].rest = <<>> /\ Popped
              \/ /\ stack[1].rest # <<>>
                 /\ Pushed(Head(stack[1].rest), stack[1].depth + 1, Tail(stack[1].rest))
<1>0. Seq1!At("range")
  BY DEF Seq1!SeqRange
<1>1. /\ Seq1!Top = stack[1] /\ stack[1] \in Frame /\ Len(stack) \in Nat \ {0}
      /\ stack[1].at = "range" /\ seqval = "none"
      /\ Tail(stack) \in Seq(Frame) /\ Len(Tail(stack)) = Len(stack) - 1
      /\ \A i \in 1..Len(stack) - 1 : Tail(stack)[i] = stack[i + 1]
  BY <1>0, TopType
<1>2. CASE stack[1].rest = <<>>
  BY <1>0, <1>1, <1>2, ReturnEffect DEF Seq1!SeqRange
<1>3. CASE stack[1].rest # <<>>
  <2> DEFINE f == Seq1!Call(Head(stack[1].rest), stack[1].depth + 1)
  <2> DEFINE g == [stack[1] EXCEPT !.rest = Tail(stack[1].rest)]
  <2>1. /\ stack[1].rest \in Seq(Cids) /\ stack[1].depth \in Nat /\ stack[1].cid \in Cids
    BY <1>1 DEF Frame
  <2>2. Head(stack[1].rest) \in Cids /\ Tail(stack[1].rest) \in Seq(Cids)
    BY <1>3, <2>1, HeadTailProperties
  <2>3. /\ f.cid = Head(stack[1].rest) /\ f.depth = stack[1].depth + 1 /\ f.at = "visit"
        /\ f \in Frame
    <3>1. stack[1].depth + 1 \in Nat /\ <<>> \in Seq(Cids)
      BY <2>1, EmptySeq
    <3> QED
      BY <2>2, <3>1 DEF Seq1!Call, Frame
  <2>4. /\ g.cid = stack[1].cid /\ g.depth = stack[1].depth /\ g.at = "range"
        /\ g.rest = Tail(stack[1].rest) /\ g \in Frame
    BY <1>1, <2>2 DEF Frame
  <2>5. stack' = <<f, g>> \o Tail(stack) /\ seqval' = seqval
    BY <1>1, <1>3 DEF Seq1!SeqRange
  <2>6. UNCHANGED <<set, ignored, callbacks, ctxDone>>
    BY DEF Seq1!SeqRange
  <2> HIDE DEF f, g
  <2>7. <<f, g>> \in Seq(Frame) /\ Len(<<f, g>>) = 2 /\ <<f, g>>[1] = f /\ <<f, g>>[2] = g
    BY <2>3, <2>4
  <2>8. /\ <<f, g>> \o Tail(stack) \in Seq(Frame)
        /\ Len(<<f, g>> \o Tail(stack)) = 2 + Len(Tail(stack))
        /\ \A i \in 1..2 + Len(Tail(stack)) : (<<f, g>> \o Tail(stack))[i] =
              IF i <= 2 THEN <<f, g>>[i] ELSE Tail(stack)[i - 2]
    BY <1>1, <2>7, ConcatProperties
  <2>9. Len(stack') = Len(stack) + 1 /\ stack'[1] = f /\ stack'[2] = g
    BY <1>1, <2>5, <2>7, <2>8
  <2>10. ASSUME NEW i \in 2..Len(stack) PROVE stack'[i + 1] = stack[i]
    <3>1. /\ i + 1 \in 1..2 + Len(Tail(stack)) /\ ~ i + 1 <= 2 /\ (i + 1) - 2 = i - 1
          /\ i - 1 \in 1..Len(stack) - 1 /\ (i - 1) + 1 = i
      BY <1>1
    <3>2. Tail(stack)[i - 1] = stack[i]
      BY <1>1, <3>1
    <3> QED
      BY <2>5, <2>8, <3>1, <3>2
  <2> QED
    BY <1>1, <1>3, <2>3, <2>4, <2>5, <2>6, <2>8, <2>9, <2>10 DEF Pushed
<1> QED
  BY <1>2, <1>3

-----------------------------------------------------------------------------
LEMMA SeqTypeStep ==
    ASSUME SeqType, Seq1!SeqStep, UNCHANGED <<mainVars, workerVars, visitlk>>
    PROVE  SeqType'
<1>0. TypeOK /\ stack \in Seq(Frame)
  BY DEF SeqType
<1>00. ASSUME NEW c, NEW d PROVE Visits(set, c, d) \in BOOLEAN
  BY DEF Visits
<1>1. ASSUME set' \in [Cids -> Nat \cup {NotSeen}], ignored' \subseteq Cids,
             callbacks' \subseteq Cids, ctxDone' = ctxDone
      PROVE  TypeOK'
  <2>1. links' \in [Workers -> Seq(Cids)] /\ todoQueue' \in Seq(Task)
    BY <1>0 DEF TypeOK, mainVars, workerVars
  <2>2. send' \in BOOLEAN /\ ctxDone' \in BOOLEAN
    BY <1>0, <1>1 DEF TypeOK, mainVars
  <2> QED
    BY <1>0, <1>1, <2>1, <2>2 DEF TypeOK, mainVars, workerVars
<1>2. /\ Len(stack) > 0 /\ Moved("links", <<>>) => seqval' = "none" <=> Len(stack') > 0
      /\ stack' \in Seq(Frame) => Len(stack') \in Nat
  BY DEF SeqType, Moved
<1>3. ASSUME seqval = "none", Len(stack) \in Nat \ {0}, Popped
      PROVE  /\ stack' \in Seq(Frame)
             /\ seqval' \in {"none", "nil", "notfound", "ctx"}
             /\ seqval' = "none" <=> Len(stack') > 0
  BY <1>3 DEF Popped
<1>4. ASSUME seqval = "none", Len(stack) \in Nat \ {0}, NEW label, NEW rest, Moved(label, rest)
      PROVE  /\ stack' \in Seq(Frame)
             /\ seqval' \in {"none", "nil", "notfound", "ctx"}
             /\ seqval' = "none" <=> Len(stack') > 0
  BY <1>4 DEF Moved
<1>5. CASE Seq1!SeqVisit
  <2>1. set' \in [Cids -> Nat \cup {NotSeen}]
    <3>1. stack[1].cid \in Cids /\ stack[1].depth \in Nat
      BY <1>5, VisitCases DEF Frame
    <3>2. set' = set \/ set' = [set EXCEPT ![stack[1].cid] = stack[1].depth]
      BY <1>5, VisitCases
    <3> QED
      BY <1>0, <3>1, <3>2 DEF TypeOK
  <2>2. TypeOK'
    BY <1>0, <1>1, <1>5, <2>1, VisitCases DEF TypeOK
  <2>3. Moved("links", <<>>) \/ Popped
    BY <1>5, VisitCases
  <2>4. seqval = "none" /\ Len(stack) \in Nat \ {0}
    BY <1>5, VisitCases
  <2> QED
    BY <1>3, <1>4, <2>2, <2>3, <2>4 DEF SeqType
<1>6. CASE Seq1!SeqGetLinks
  <2>1. stack[1].cid \in Cids
    BY <1>6, GetLinksCases DEF Frame
  <2>2. /\ ignored' = ignored \/ ignored' = ignored \cup {stack[1].cid}
        /\ callbacks' \subseteq callbacks \cup {stack[1].cid}
        /\ UNCHANGED <<set, ctxDone>>
        /\ seqval = "none" /\ Len(stack) \in Nat \ {0}
    BY <1>6, GetLinksCases
  <2>3. TypeOK'
    BY <1>0, <1>1, <2>1, <2>2 DEF TypeOK
  <2>4. CASE \E rest : Moved("range", rest)
    BY <1>4, <2>2, <2>3, <2>4 DEF SeqType
  <2>5. CASE stack' = <<>> /\ seqval' \in {"notfound", "ctx"}
    <3>1. stack' \in Seq(Frame) /\ ~ Len(stack') > 0
      BY <2>5, EmptySeq
    <3> QED
      BY <2>3, <2>5, <3>1 DEF SeqType
  <2> QED
    BY <1>6, <2>4, <2>5, GetLinksCases
<1>7. CASE Seq1!SeqRange
  <2>1. /\ UNCHANGED <<set, ignored, callbacks, ctxDone>>
        /\ seqval = "none" /\ Len(stack) \in Nat \ {0}
    BY <1>7, RangeCases
  <2>2. TypeOK'
    BY <1>0, <1>1, <2>1 DEF TypeOK
  <2>3. CASE Popped
    BY <1>3, <2>1, <2>2, <2>3 DEF SeqType
  <2>4. CASE \E c, d, rest : Pushed(c, d, rest)
    BY <2>1, <2>2, <2>4 DEF SeqType, Pushed
  <2> QED
    BY <1>7, <2>3, <2>4, RangeCases
<1> QED
  BY <1>5, <1>6, <1>7 DEF Seq1!SeqStep

(* The sequential walk lowers the depths it records, as the parallel one.    *)
LEMMA SeqLowered ==
    ASSUME SeqType, Seq1!SeqStep
    PROVE  Lowered
<1>0. set \in [Cids -> Nat \cup {-1}] /\ NotSeen = -1
  BY SameDag DEF SeqType, TypeOK
<1>1. CASE set' = set
  BY <1>0, <1>1 DEF Lowered
<1>2. CASE Seq1!SeqVisit /\ set' # set
  <2>1. /\ set' = [set EXCEPT ![stack[1].cid] = stack[1].depth]
        /\ Visits(set, stack[1].cid, stack[1].depth)
        /\ stack[1].cid \in Cids /\ stack[1].depth \in Nat
    BY <1>2, VisitCases DEF Frame
  <2>2. set[stack[1].cid] = -1 \/ set[stack[1].cid] > stack[1].depth
    BY <1>0, <2>1 DEF Visits
  <2> QED
    BY <1>0, <2>1, <2>2 DEF Lowered
<1> QED
  BY <1>1, <1>2, GetLinksCases, RangeCases DEF Seq1!SeqStep

(* FramesInv of one activation                                               *)
FrameOK(f) ==
    /\ f.depth = 0 => f.cid = Root
    /\ f.at = "visit" => DW!Linked(f.cid, f.depth)
    /\ f.at # "visit" => DW!Expanded(f.cid) /\ DW!DepthOf(f.cid) <= f.depth
    /\ f.at = "range" => \A k \in 1..Len(f.rest) : f.rest[k] \in LinkSet(f.cid)

LEMMA FrameKept ==
    ASSUME TypeOK, TypeOK', Lowered, NEW f \in Frame, FrameOK(f)
    PROVE  FrameOK(f)'
<1>1. f.cid \in Cids /\ f.depth \in Nat
  BY DEF Frame
<1>2. f.at # "visit" => DW!Expanded(f.cid)' /\ DW!DepthOf(f.cid)' <= f.depth
  <2> SUFFICES ASSUME f.at # "visit" PROVE DW!Expanded(f.cid)' /\ DW!DepthOf(f.cid)' <= f.depth
    OBVIOUS
  <2>1. /\ DW!Expanded(f.cid) /\ DW!DepthOf(f.cid) <= f.depth
        /\ DW!Expanded(f.cid)' /\ DW!DepthOf(f.cid)' <= DW!DepthOf(f.cid)
    BY <1>1, LoweredMono DEF FrameOK
  <2>2. DW!DepthOf(f.cid) \in Nat /\ DW!DepthOf(f.cid)' \in Nat
    BY <1>1, <2>1, SameDag DEF TypeOK, DW!Expanded, DW!DepthOf, DW!Seen
  <2> QED
    BY <1>1, <2>1, <2>2
<1>3. f.at = "visit" => DW!Linked(f.cid, f.depth)'
  BY <1>1, LoweredMono DEF FrameOK
<1> QED
  BY <1>2, <1>3 DEF FrameOK

LEMMA FramesStep ==
    ASSUME SeqType, SeqType', FramesInv, Seq1!SeqStep
    PROVE  FramesInv'
<1>0. /\ TypeOK /\ TypeOK' /\ Lowered /\ Len(stack) \in Nat
      /\ \A i \in 1..Len(stack) : stack[i] \in Frame
  <2>1. stack \in Seq(Frame) /\ TypeOK /\ TypeOK'
    BY DEF SeqType
  <2> QED
    BY <2>1, SeqLowered
<1>1. ASSUME NEW i \in 1..Len(stack), NEW f, f = stack[i]
      PROVE  f \in Frame /\ FrameOK(f) /\ FrameOK(f)'
  <2>1. f \in Frame /\ FrameOK(f)
    BY <1>0, <1>1 DEF FramesInv, FrameOK
  <2> QED
    BY <1>0, <2>1, FrameKept
<1>2. ASSUME \A i \in 1..Len(stack') : \A f \in Frame : f = stack'[i] => FrameOK(f)'
      PROVE  FramesInv'
  <2>1. \A i \in 1..Len(stack') : stack'[i] \in Frame
    BY DEF SeqType
  <2> SUFFICES ASSUME NEW i \in 1..Len(stack'), NEW f \in Frame, f = stack'[i]
               PROVE  /\ f.depth = 0 => f.cid = Root
                      /\ f.at = "visit" => DW!Linked(f.cid, f.depth)'
                      /\ f.at # "visit" => DW!Expanded(f.cid)' /\ DW!DepthOf(f.cid)' <= f.depth
                      /\ f.at = "range" => \A k \in 1..Len(f.rest) : f.rest[k] \in LinkSet(f.cid)
    BY <2>1 DEF FramesInv
  <2> QED
    BY <1>2 DEF FrameOK
<1>3. ASSUME Len(stack) > 0, NEW label, NEW rest, Moved(label, rest),
             \A f \in Frame : /\ f.cid = stack[1].cid /\ f.depth = stack[1].depth
                             /\ f.at = label /\ f.rest = rest
                             => FrameOK(f)'
      PROVE  FramesInv'
  <2>1. ASSUME NEW i \in 1..Len(stack'), NEW f \in Frame, f = stack'[i] PROVE FrameOK(f)'
    <3>1. CASE i = 1
      BY <1>3, <2>1, <3>1 DEF Moved
    <3>2. CASE i # 1
      <4>1. i \in 2..Len(stack) /\ i \in 1..Len(stack)
        BY <1>0, <1>3, <2>1, <3>2 DEF Moved
      <4>2. f = stack[i]
        BY <1>3, <2>1, <4>1 DEF Moved
      <4> QED
        BY <1>1, <4>1, <4>2
    <3> QED
      BY <3>1, <3>2
  <2> QED
    BY <1>2, <2>1
<1>4. ASSUME Len(stack) > 0, Popped PROVE FramesInv'
  <2>1. ASSUME NEW i \in 1..Len(stack'), NEW f \in Frame, f = stack'[i] PROVE FrameOK(f)'
    <3>1. i \in 1..Len(stack) - 1 /\ i + 1 \in 1..Len(stack)
      BY <1>0, <1>4 DEF Popped
    <3>2. f = stack[i + 1]
      BY <1>4, <2>1, <3>1 DEF Popped
    <3> QED
      BY <1>1, <3>1, <3>2
  <2> QED
    BY <1>2, <2>1
<1>5. CASE Seq1!SeqVisit
  <2>1. /\ Len(stack) > 0 /\ 1 \in 1..Len(stack)
        /\ stack[1].cid \in Cids /\ stack[1].depth \in Nat
    BY <1>0, <1>5, VisitCases DEF Frame
  <2>2. CASE Popped
    BY <1>4, <2>1, <2>2
  <2>3. CASE Moved("links", <<>>) /\ SkipRoot /\ stack[1].depth = 0
    <3>1. stack[1].cid = Root
      BY <2>1, <2>3 DEF FramesInv
    <3>2. DW!Expanded(Root)' /\ DW!DepthOf(Root)' = 0
      BY <2>3 DEF DW!Expanded, DW!DepthOf
    <3>3. ASSUME NEW f \in Frame, f.cid = stack[1].cid, f.depth = stack[1].depth, f.at = "links"
          PROVE  FrameOK(f)'
      BY <2>3, <3>1, <3>2, <3>3 DEF FrameOK
    <3> QED
      BY <1>3, <2>1, <2>3, <3>3
  <2>4. CASE /\ Moved("links", <<>>) /\ ~ (SkipRoot /\ stack[1].depth = 0)
             /\ set' = [set EXCEPT ![stack[1].cid] = stack[1].depth]
    <3>1. PICK c \in Cids, d \in Nat : c = stack[1].cid /\ d = stack[1].depth /\ set'[c] = d
      BY <1>0, <2>1, <2>4 DEF TypeOK
    <3>2. DW!Expanded(c)' /\ DW!DepthOf(c)' <= d
      BY <3>1, SameDag DEF DW!Expanded, DW!DepthOf, DW!Seen
    <3>3. ASSUME NEW f \in Frame, f.cid = stack[1].cid, f.depth = stack[1].depth, f.at = "links"
          PROVE  FrameOK(f)'
      <4>1. f.depth = 0 => f.cid = Root
        BY <2>1, <3>3 DEF FramesInv
      <4> QED
        BY <3>1, <3>2, <3>3, <4>1 DEF FrameOK
    <3> QED
      BY <1>3, <2>1, <2>4, <3>3
  <2> QED
    BY <1>5, <2>2, <2>3, <2>4, VisitCases
<1>6. CASE Seq1!SeqGetLinks
  <2>1. /\ Len(stack) > 0 /\ 1 \in 1..Len(stack) /\ stack[1].at = "links"
        /\ stack[1] \in Frame
    BY <1>0, <1>6, GetLinksCases
  <2>2. ASSUME NEW rest, rest = <<>> \/ rest = Links[stack[1].cid], Moved("range", rest)
        PROVE  FramesInv'
    <3>1. \A k \in 1..Len(rest) : rest[k] \in LinkSet(stack[1].cid)
      <4>1. CASE rest = <<>>
        <5>1. Len(rest) = 0
          BY <4>1, EmptySeq
        <5> QED
          BY <5>1
      <4>2. CASE rest = Links[stack[1].cid]
        BY <4>2 DEF LinkSet
      <4> QED
        BY <2>2, <4>1, <4>2
    <3>2. ASSUME NEW f \in Frame, f.cid = stack[1].cid, f.depth = stack[1].depth,
                 f.at = "range", f.rest = rest
          PROVE  FrameOK(f)'
      <4>2. PICK g \in Frame : g = stack[1]
        BY <2>1
      <4>3. FrameOK(g)'
        BY <1>1, <2>1, <4>2
      <4>4. /\ f.depth = 0 => f.cid = Root
            /\ DW!Expanded(f.cid)' /\ DW!DepthOf(f.cid)' <= f.depth
        BY <2>1, <3>2, <4>2, <4>3 DEF FrameOK
      <4> QED
        BY <3>1, <3>2, <4>4 DEF FrameOK
    <3> QED
      BY <1>3, <2>1, <2>2, <3>2
  <2>3. CASE stack' = <<>>
    <3>1. Len(stack') = 0
      BY <2>3
    <3> QED
      BY <3>1 DEF FramesInv
  <2> QED
    BY <1>6, <2>2, <2>3, GetLinksCases
<1>7. CASE Seq1!SeqRange
  <2>1. /\ Len(stack) > 0 /\ 1 \in 1..Len(stack) /\ stack[1].at = "range"
        /\ stack[1] \in Frame /\ set' = set
    BY <1>0, <1>7, RangeCases
  <2>2. CASE Popped
    BY <1>4, <2>1, <2>2
  <2>3. CASE /\ stack[1].rest # <<>>
             /\ Pushed(Head(stack[1].rest), stack[1].depth + 1, Tail(stack[1].rest))
    <3>0. PICK g \in Frame : g = stack[1]
      BY <2>1
    <3>1. g.rest \in Seq(Cids) /\ g.depth \in Nat /\ g.cid \in Cids /\ g.rest # <<>>
      BY <2>3, <3>0 DEF Frame
    <3>2. FrameOK(g)' /\ g.at = "range"
      BY <1>1, <2>1, <3>0
    <3>3. /\ Len(g.rest) \in Nat \ {0} /\ Head(g.rest) = g.rest[1]
          /\ Len(Tail(g.rest)) = Len(g.rest) - 1
          /\ \A k \in 1..Len(g.rest) - 1 : Tail(g.rest)[k] = g.rest[k + 1]
      BY <3>1
    <3>4. /\ Head(g.rest) \in LinkSet(g.cid)
          /\ \A k \in 1..Len(Tail(g.rest)) : Tail(g.rest)[k] \in LinkSet(g.cid)
      <4>1. /\ 1 \in 1..Len(g.rest)
            /\ \A k \in 1..Len(g.rest) - 1 : k + 1 \in 1..Len(g.rest)
        BY <3>3
      <4>2. \A k \in 1..Len(g.rest) : g.rest[k] \in LinkSet(g.cid)
        BY <3>2 DEF FrameOK
      <4> QED
        BY <3>3, <4>1, <4>2
    <3>5. ASSUME NEW f \in Frame, f.cid = Head(g.rest), f.depth = g.depth + 1, f.at = "visit"
          PROVE  FrameOK(f)'
      <4>1. DW!Expanded(g.cid)' /\ DW!DepthOf(g.cid)' <= g.depth
        BY <3>2 DEF FrameOK
      <4>2. DW!DepthOf(g.cid)' \in Nat
        BY <1>0, <3>1, <4>1, SameDag DEF TypeOK, DW!Expanded, DW!DepthOf, DW!Seen
      <4>3. DW!DepthOf(g.cid)' < g.depth + 1 /\ g.depth + 1 # 0
        BY <3>1, <4>1, <4>2
      <4>4. DW!Linked(Head(g.rest), g.depth + 1)'
        BY <3>1, <3>4, <4>1, <4>3, SameDag DEF DW!Linked
      <4> QED
        BY <3>5, <4>3, <4>4 DEF FrameOK
    <3>6. ASSUME NEW f \in Frame, f.cid = g.cid, f.depth = g.depth, f.at = "range",
                 f.rest = Tail(g.rest)
          PROVE  FrameOK(f)'
      BY <3>2, <3>4, <3>6 DEF FrameOK
    <3>7. ASSUME NEW i \in 1..Len(stack'), NEW f \in Frame, f = stack'[i] PROVE FrameOK(f)'
      <4>1. CASE i = 1
        BY <2>3, <3>0, <3>5, <3>7, <4>1 DEF Pushed
      <4>2. CASE i = 2
        BY <2>3, <3>0, <3>6, <3>7, <4>2 DEF Pushed
      <4>3. CASE i \notin {1, 2}
        <5>1. Len(stack') = Len(stack) + 1 /\ \A j \in 2..Len(stack) : stack'[j + 1] = stack[j]
          BY <2>3 DEF Pushed
        <5>2. PICK j \in 2..Len(stack) : i = j + 1 /\ j \in 1..Len(stack)
          <6>1. i - 1 \in 2..Len(stack) /\ i = (i - 1) + 1 /\ i - 1 \in 1..Len(stack)
            BY <1>0, <4>3, <5>1
          <6> QED
            BY <6>1
        <5>3. f = stack[j]
          BY <3>7, <5>1, <5>2
        <5> QED
          BY <1>1, <5>2, <5>3
      <4> QED
        BY <4>1, <4>2, <4>3
    <3> QED
      BY <1>2, <3>7
  <2> QED
    BY <1>7, <2>2, <2>3, RangeCases
<1> QED
  BY <1>5, <1>6, <1>7 DEF Seq1!SeqStep

-----------------------------------------------------------------------------
(* The activations other than the innermost one stay on the stack, and owe   *)
(* the same.                                                                 *)
LEMMA OwedBelow ==
    ASSUME Len(stack) \in Nat \ {0},
           \/ Popped \/ (\E label, rest : Moved(label, rest)) \/ (\E e, d, rest : Pushed(e, d, rest)),
           NEW c, DW!DepthOf(c)' = DW!DepthOf(c), NEW l,
           NEW i \in 1..Len(stack), i # 1, Owes(i, c), Ahead(i, l)
    PROVE  \E j \in 1..Len(stack') : Owes(j, c)' /\ Ahead(j, l)'
<1>1. i \in 2..Len(stack) /\ Len(stack) \in Nat
  OBVIOUS
<1>2. \E j \in 1..Len(stack') : stack'[j] = stack[i]
  <2>1. CASE Popped
    <3>1. i - 1 \in 1..Len(stack) - 1 /\ (i - 1) + 1 = i /\ i - 1 \in 1..Len(stack')
      BY <1>1, <2>1 DEF Popped
    <3>2. stack'[i - 1] = stack[i]
      BY <2>1, <3>1 DEF Popped
    <3> QED
      BY <3>1, <3>2
  <2>2. CASE \E label, rest : Moved(label, rest)
    BY <1>1, <2>2 DEF Moved
  <2>3. CASE \E e, d, rest : Pushed(e, d, rest)
    <3>1. i + 1 \in 1..Len(stack') /\ stack'[i + 1] = stack[i]
      BY <1>1, <2>3 DEF Pushed
    <3> QED
      BY <3>1
  <2> QED
    BY <2>1, <2>2, <2>3
<1>3. PICK j \in 1..Len(stack') : stack'[j] = stack[i]
  BY <1>2
<1> QED
  BY <1>3 DEF Owes, Ahead

(* A visit that records nothing leaves nothing to do at its depth.           *)
LEMMA RefusedIsSatisfied ==
    ASSUME TypeOK, NEW l \in Cids, NEW d \in Nat, NEW m \in Nat,
           ~ Visits(set, l, d), DepthLim < 0 \/ d <= m, DW!WithinLimit(m)
    PROVE  DW!Satisfied(l, m)
<1>1. set[l] \in Nat \cup {-1} /\ NotSeen = -1 /\ DW!NotSeen = -1 /\ DepthLim \in Int
  BY SameDag, OptionAssumption DEF TypeOK
<1> QED
  BY <1>1 DEF Visits, DW!Satisfied, DW!Seen, DW!WithinLimit

LEMMA SeqCoverStep ==
    ASSUME SeqType, SeqType', FramesInv, SeqCover, Seq1!SeqStep, seqval' \in {"none", "nil"}
    PROVE  SeqCover'
<1>0. /\ TypeOK /\ TypeOK' /\ Lowered /\ NotSeen = -1 /\ DW!NotSeen = -1
      /\ set \in [Cids -> Nat \cup {-1}]
  <2>1. TypeOK /\ TypeOK'
    BY DEF SeqType
  <2> QED
    BY <2>1, SeqLowered, SameDag DEF TypeOK
<1>1. ASSUME set' = set
      PROVE  /\ \A c : DW!Expanded(c)' <=> DW!Expanded(c)
             /\ \A c : DW!DepthOf(c)' = DW!DepthOf(c)
             /\ \A c : DW!Seen(c)' <=> DW!Seen(c)
             /\ \A d : DW!WithinLimit(d)' <=> DW!WithinLimit(d)
             /\ \A c, d : DW!Satisfied(c, d)' <=> DW!Satisfied(c, d)
  BY <1>1 DEF DW!Expanded, DW!DepthOf, DW!Seen, DW!WithinLimit, DW!Satisfied
<1>2. ASSUME NEW c \in Cids, DW!Expanded(c) PROVE DW!DepthOf(c) \in Nat
  BY <1>0, <1>2, DepthType
<1>3. ASSUME NEW c \in Cids \ ignored, DW!Expanded(c), DW!WithinLimit(DW!DepthOf(c) + 1),
             NEW l \in LinkSet(c)
      PROVE  /\ l \in Cids
             /\ SeqCovered(c, l)
  BY <1>3, LinkSetType DEF SeqCover
<1>4. ASSUME NEW i \in 1..Len(stack) PROVE stack[i].depth \in Nat
  <2>1. stack[i] \in Frame
    BY DEF SeqType
  <2> QED
    BY <2>1 DEF Frame
<1>5. CASE Seq1!SeqVisit
  <2>0. /\ Len(stack) \in Nat \ {0} /\ 1 \in 1..Len(stack) /\ stack[1].at = "visit"
        /\ stack[1].cid \in Cids /\ stack[1].depth \in Nat /\ ignored' = ignored
    BY <1>5, VisitCases DEF Frame
  <2>1. \A l : ~ Ahead(1, l)
    BY <2>0 DEF Ahead
  <2>2. CASE /\ SkipRoot /\ stack[1].depth = 0 /\ set' = set /\ Moved("links", <<>>)
    <3>1. ASSUME NEW c \in Cids \ ignored, DW!Expanded(c), DW!WithinLimit(DW!DepthOf(c) + 1),
                 NEW l \in LinkSet(c)
          PROVE  SeqCovered(c, l)'
      <4>0. SeqCovered(c, l) /\ DW!DepthOf(c)' = DW!DepthOf(c)
        BY <1>1, <1>3, <2>2, <3>1
      <4>1. CASE DW!Satisfied(l, DW!DepthOf(c) + 1)
        BY <1>1, <2>2, <4>1 DEF SeqCovered
      <4>2. CASE LinkCalled(c, l)
        <5>1. 2 \in 1..Len(stack) /\ stack[1].depth = stack[2].depth + 1
          BY <2>0, <4>2 DEF LinkCalled, Calling
        <5>2. stack[2].depth \in Nat
          BY <1>4, <5>1
        <5> QED
          BY <2>2, <5>1, <5>2
      <4>3. CASE \E i \in 1..Len(stack) : Owes(i, c) /\ Ahead(i, l)
        <5>1. PICK i \in 1..Len(stack) : Owes(i, c) /\ Ahead(i, l)
          BY <4>3
        <5>2. \E j \in 1..Len(stack') : Owes(j, c)' /\ Ahead(j, l)'
          BY <2>0, <2>1, <2>2, <4>0, <5>1, OwedBelow
        <5> QED
          BY <5>2 DEF SeqCovered
      <4>4. CASE SkipRoot /\ c = Root /\ Calling(Root, 0)
        <5>1. /\ 1 \in 1..Len(stack') /\ stack'[1].cid = c /\ stack'[1].depth = 0
              /\ stack'[1].at = "links"
          BY <2>0, <2>2, <4>4 DEF Moved, Calling
        <5>2. DW!DepthOf(c)' = 0
          BY <4>4 DEF DW!DepthOf
        <5>3. Owes(1, c)' /\ Ahead(1, l)'
          BY <5>1, <5>2 DEF Owes, Ahead
        <5> QED
          BY <5>1, <5>3 DEF SeqCovered
      <4> QED
        BY <4>0, <4>1, <4>2, <4>3, <4>4 DEF SeqCovered
    <3> QED
      BY <1>1, <2>0, <2>2, <3>1 DEF SeqCover
  <2>3. CASE /\ ~ (SkipRoot /\ stack[1].depth = 0)
             /\ ~ Visits(set, stack[1].cid, stack[1].depth)
             /\ set' = set /\ Popped
    <3>1. ASSUME NEW c \in Cids \ ignored, DW!Expanded(c), DW!WithinLimit(DW!DepthOf(c) + 1),
                 NEW l \in LinkSet(c)
          PROVE  SeqCovered(c, l)'
      <4>0. /\ SeqCovered(c, l) /\ DW!DepthOf(c)' = DW!DepthOf(c)
            /\ DW!DepthOf(c) \in Nat /\ l \in Cids
        BY <1>1, <1>2, <1>3, <2>3, <3>1
      <4>1. CASE DW!Satisfied(l, DW!DepthOf(c) + 1)
        BY <1>1, <2>3, <4>1 DEF SeqCovered
      <4>2. CASE LinkCalled(c, l)
        <5>1. /\ stack[1].cid = l /\ stack[1].depth = stack[2].depth + 1
              /\ DepthLim < 0 \/ stack[2].depth <= DW!DepthOf(c)
              /\ 2 \in 1..Len(stack)
          BY <2>0, <4>2 DEF LinkCalled, Calling, Owes
        <5>2. stack[2].depth \in Nat
          BY <1>4, <5>1
        <5>3. /\ DepthLim < 0 \/ stack[1].depth <= DW!DepthOf(c) + 1
              /\ DW!DepthOf(c) + 1 \in Nat
          BY <4>0, <5>1, <5>2
        <5>4. DW!Satisfied(l, DW!DepthOf(c) + 1)
          BY <1>0, <2>0, <2>3, <3>1, <4>0, <5>1, <5>3, RefusedIsSatisfied
        <5> QED
          BY <1>1, <2>3, <5>4 DEF SeqCovered
      <4>3. CASE \E i \in 1..Len(stack) : Owes(i, c) /\ Ahead(i, l)
        <5>1. PICK i \in 1..Len(stack) : Owes(i, c) /\ Ahead(i, l)
          BY <4>3
        <5>2. \E j \in 1..Len(stack') : Owes(j, c)' /\ Ahead(j, l)'
          BY <2>0, <2>1, <2>3, <4>0, <5>1, OwedBelow
        <5> QED
          BY <5>2 DEF SeqCovered
      <4>4. ~ (SkipRoot /\ c = Root /\ Calling(Root, 0))
        BY <2>3 DEF Calling
      <4> QED
        BY <4>0, <4>1, <4>2, <4>3, <4>4 DEF SeqCovered
    <3>2. ASSUME Calling(Root, 0), ~ SkipRoot PROVE DW!Seen(Root)
      <4>1. ~ Visits(set, Root, 0) /\ set[Root] \in Nat \cup {-1} /\ DepthLim \in Int
        BY <1>0, <2>3, <3>2, DagAssumption, OptionAssumption DEF Calling
      <4> QED
        BY <1>0, <4>1 DEF Visits, DW!Seen
    <3> QED
      BY <1>1, <2>0, <2>3, <3>1, <3>2 DEF SeqCover
  <2>4. CASE /\ ~ (SkipRoot /\ stack[1].depth = 0)
             /\ set' = [set EXCEPT ![stack[1].cid] = stack[1].depth]
             /\ Moved("links", <<>>)
    <3>0. PICK e \in Cids, d \in Nat :
             /\ e = stack[1].cid /\ d = stack[1].depth
             /\ set' = [set EXCEPT ![e] = d] /\ set'[e] = d
             /\ \A c \in Cids : c # e => set'[c] = set[c]
      BY <1>0, <2>0, <2>4
    <3>1. ASSUME NEW c \in Cids \ ignored, DW!Expanded(c)',
                 DW!WithinLimit(DW!DepthOf(c) + 1)', NEW l \in LinkSet(c)
          PROVE  SeqCovered(c, l)'
      <4>1. CASE c = e /\ ~ (SkipRoot /\ c = Root)
        <5>1. DW!DepthOf(c)' = d
          BY <3>0, <4>1 DEF DW!DepthOf
        <5>2. /\ 1 \in 1..Len(stack') /\ stack'[1].cid = c /\ stack'[1].depth = d
              /\ stack'[1].at = "links"
          BY <2>0, <2>4, <3>0, <4>1 DEF Moved
        <5>3. Owes(1, c)' /\ Ahead(1, l)'
          BY <5>1, <5>2 DEF Owes, Ahead
        <5> QED
          BY <5>2, <5>3 DEF SeqCovered
      <4>2. CASE c # e \/ (SkipRoot /\ c = Root)
        <5>0. /\ DW!Expanded(c) /\ DW!DepthOf(c)' = DW!DepthOf(c)
              /\ DW!WithinLimit(DW!DepthOf(c) + 1)
          BY <3>0, <3>1, <4>2 DEF DW!Expanded, DW!DepthOf, DW!Seen, DW!WithinLimit
        <5>1. SeqCovered(c, l) /\ l \in Cids /\ DW!DepthOf(c) \in Nat
          BY <1>2, <1>3, <3>1, <5>0
        <5>2. DW!DepthOf(c) + 1 \in Nat
          BY <5>1
        <5>3. CASE DW!Satisfied(l, DW!DepthOf(c) + 1)
          <6>1. PICK m \in Nat : m = DW!DepthOf(c) + 1 /\ m = DW!DepthOf(c)' + 1
            BY <5>0, <5>2
          <6>2. DW!Satisfied(l, m)'
            BY <1>0, <5>1, <5>3, <6>1, LoweredMono
          <6> QED
            BY <6>1, <6>2 DEF SeqCovered
        <5>4. CASE LinkCalled(c, l)
          <6>1. /\ e = l /\ d = stack[2].depth + 1
                /\ DepthLim < 0 \/ stack[2].depth <= DW!DepthOf(c)
                /\ 2 \in 1..Len(stack)
            BY <2>0, <3>0, <5>4 DEF LinkCalled, Calling, Owes
          <6>2. stack[2].depth \in Nat
            BY <1>4, <6>1
          <6>3. PICK m \in Nat : m = DW!DepthOf(c) + 1 /\ m = DW!DepthOf(c)' + 1
            BY <5>0, <5>2
          <6>4. DepthLim < 0 \/ d <= m
            BY <5>1, <6>1, <6>2, <6>3
          <6>5. DW!Satisfied(l, m)'
            BY <1>0, <3>0, <6>1, <6>4 DEF DW!Satisfied, DW!Seen
          <6> QED
            BY <6>3, <6>5 DEF SeqCovered
        <5>5. CASE \E i \in 1..Len(stack) : Owes(i, c) /\ Ahead(i, l)
          <6>1. PICK i \in 1..Len(stack) : Owes(i, c) /\ Ahead(i, l)
            BY <5>5
          <6>2. \E j \in 1..Len(stack') : Owes(j, c)' /\ Ahead(j, l)'
            BY <2>0, <2>1, <2>4, <5>0, <6>1, OwedBelow
          <6> QED
            BY <6>2 DEF SeqCovered
        <5>6. ~ (SkipRoot /\ c = Root /\ Calling(Root, 0))
          BY <2>4 DEF Calling
        <5> QED
          BY <5>1, <5>3, <5>4, <5>5, <5>6 DEF SeqCovered
      <4> QED
        BY <4>1, <4>2
    <3>2. SkipRoot \/ DW!Seen(Root)'
      <4>1. CASE DW!Seen(Root)
        BY <1>0, <4>1, DagAssumption DEF Lowered, DW!Seen
      <4>2. CASE Calling(Root, 0)
        BY <1>0, <3>0, <4>2 DEF Calling, DW!Seen
      <4> QED
        BY <4>1, <4>2 DEF SeqCover
    <3> QED
      BY <2>0, <3>1, <3>2 DEF SeqCover
  <2> QED
    BY <1>5, <2>2, <2>3, <2>4, VisitCases
<1>6. CASE Seq1!SeqGetLinks
  <2>0. /\ Len(stack) \in Nat \ {0} /\ 1 \in 1..Len(stack) /\ stack[1].at = "links"
        /\ set' = set /\ ignored \subseteq ignored'
    BY <1>6, GetLinksCases
  <2>1. PICK rest : /\ Moved("range", rest)
                    /\ rest = Links[stack[1].cid] \/ stack[1].cid \in ignored'
    BY <1>6, GetLinksCases
  <2>2. ASSUME NEW c \in Cids \ ignored', DW!Expanded(c), DW!WithinLimit(DW!DepthOf(c) + 1),
               NEW l \in LinkSet(c)
        PROVE  SeqCovered(c, l)'
    <3>0. SeqCovered(c, l) /\ DW!DepthOf(c)' = DW!DepthOf(c)
      BY <1>1, <1>3, <2>0, <2>2
    <3>1. CASE DW!Satisfied(l, DW!DepthOf(c) + 1)
      BY <1>1, <2>0, <3>1 DEF SeqCovered
    <3>2. ASSUME NEW i \in 1..Len(stack), Owes(i, c), Ahead(i, l)
          PROVE  \E j \in 1..Len(stack') : Owes(j, c)' /\ Ahead(j, l)'
      <4>1. CASE i = 1
        <5>1. /\ stack[1].cid = c /\ rest = Links[c]
              /\ 1 \in 1..Len(stack') /\ stack'[1].cid = c /\ stack'[1].depth = stack[1].depth
              /\ stack'[1].at = "range" /\ stack'[1].rest = Links[c]
          BY <2>0, <2>1, <3>2, <4>1 DEF Owes, Moved
        <5>2. Owes(1, c)'
          BY <3>0, <3>2, <4>1, <5>1 DEF Owes
        <5>3. Ahead(1, l)'
          BY <2>2, <5>1 DEF Ahead, LinkSet
        <5> QED
          BY <5>1, <5>2, <5>3
      <4>2. CASE i # 1
        BY <2>0, <2>1, <3>0, <3>2, <4>2, OwedBelow
      <4> QED
        BY <4>1, <4>2
    <3>3. ~ Calling(Root, 0) /\ ~ LinkCalled(c, l)
      BY <2>0 DEF Calling, LinkCalled
    <3> QED
      BY <3>0, <3>1, <3>2, <3>3 DEF SeqCovered
  <2>3. ~ Calling(Root, 0)
    BY <2>0 DEF Calling
  <2> QED
    BY <1>1, <2>0, <2>2, <2>3 DEF SeqCover
<1>7. CASE Seq1!SeqRange
  <2>0. /\ Len(stack) \in Nat \ {0} /\ 1 \in 1..Len(stack) /\ stack[1].at = "range"
        /\ stack[1] \in Frame /\ set' = set /\ ignored' = ignored
    BY <1>7, RangeCases
  <2>1. /\ Popped \/ \E e, d, rest : Pushed(e, d, rest)
    BY <1>7, RangeCases
  <2>2. ASSUME NEW c \in Cids \ ignored, DW!Expanded(c), DW!WithinLimit(DW!DepthOf(c) + 1),
               NEW l \in LinkSet(c)
        PROVE  SeqCovered(c, l)'
    <3>0. SeqCovered(c, l) /\ DW!DepthOf(c)' = DW!DepthOf(c)
      BY <1>1, <1>3, <2>0, <2>2
    <3>1. CASE DW!Satisfied(l, DW!DepthOf(c) + 1)
      BY <1>1, <2>0, <3>1 DEF SeqCovered
    <3>2. ASSUME NEW i \in 1..Len(stack), Owes(i, c), Ahead(i, l)
          PROVE  SeqCovered(c, l)'
      <4>1. CASE i = 1
        <5>1. PICK r \in Seq(Cids) : r = stack[1].rest
          BY <2>0 DEF Frame
        <5>2. PICK k \in 1..Len(r) : r[k] = l
          BY <2>0, <3>2, <4>1, <5>1 DEF Ahead
        <5>3. r # <<>> /\ Len(r) \in Nat \ {0}
          <6>1. Len(r) \in Nat \ {0}
            BY <5>1, <5>2
          <6>2. Len(<<>>) = 0
            BY EmptySeq
          <6> QED
            BY <6>1, <6>2
        <5>4. Pushed(Head(r), stack[1].depth + 1, Tail(r))
          BY <1>7, <5>1, <5>3, RangeCases
        <5>5. /\ Head(r) = r[1] /\ Len(Tail(r)) = Len(r) - 1
              /\ \A j \in 1..Len(r) - 1 : Tail(r)[j] = r[j + 1]
          BY <5>1, <5>3
        <5>6. /\ Len(stack') > 1 /\ 2 \in 1..Len(stack')
              /\ stack'[1].cid = r[1] /\ stack'[1].depth = stack[1].depth + 1
              /\ stack'[1].at = "visit"
              /\ stack'[2].cid = stack[1].cid /\ stack'[2].depth = stack[1].depth
              /\ stack'[2].at = "range" /\ stack'[2].rest = Tail(r)
          BY <2>0, <5>4, <5>5 DEF Pushed
        <5>7. Owes(2, c)'
          BY <3>0, <3>2, <4>1, <5>6 DEF Owes
        <5>8. CASE k = 1
          <6>1. Calling(l, stack[2].depth + 1)'
            BY <5>2, <5>6, <5>8 DEF Calling
          <6>2. LinkCalled(c, l)'
            BY <5>6, <5>7, <6>1 DEF LinkCalled
          <6> QED
            BY <6>2 DEF SeqCovered
        <5>9. CASE k # 1
          <6>1. k - 1 \in 1..Len(r) - 1 /\ (k - 1) + 1 = k
            BY <5>3, <5>9
          <6>2. k - 1 \in 1..Len(stack'[2].rest) /\ stack'[2].rest[k - 1] = l
            BY <5>2, <5>5, <5>6, <6>1
          <6>3. Ahead(2, l)'
            BY <5>6, <6>2 DEF Ahead
          <6> QED
            BY <5>6, <5>7, <6>3 DEF SeqCovered
        <5> QED
          BY <5>8, <5>9
      <4>2. CASE i # 1
        <5>1. \E j \in 1..Len(stack') : Owes(j, c)' /\ Ahead(j, l)'
          BY <2>0, <2>1, <3>0, <3>2, <4>2, OwedBelow
        <5> QED
          BY <5>1 DEF SeqCovered
      <4> QED
        BY <4>1, <4>2
    <3>3. ~ Calling(Root, 0) /\ ~ LinkCalled(c, l)
      BY <2>0 DEF Calling, LinkCalled
    <3> QED
      BY <3>0, <3>1, <3>2, <3>3 DEF SeqCovered
  <2>3. ~ Calling(Root, 0)
    BY <2>0 DEF Calling
  <2> QED
    BY <1>1, <2>0, <2>2, <2>3 DEF SeqCover
<1> QED
  BY <1>5, <1>6, <1>7 DEF Seq1!SeqStep

-----------------------------------------------------------------------------
LEMMA InitWalkInv == WalkDepthInit => WalkInv
<1> SUFFICES ASSUME WalkDepthInit PROVE WalkInv
  OBVIOUS
<1>1. IInv /\ OInv /\ Init
  BY InitIInv, InitOInv DEF WalkDepthInit
<1>2. seqval = "none" /\ stack = <<Seq1!Call(Root, 0)>>
  BY DEF WalkDepthInit, Seq1!SeqInit
<1>3. PICK f : f = Seq1!Call(Root, 0)
  OBVIOUS
<1>4. f \in Frame /\ f.cid = Root /\ f.depth = 0 /\ f.at = "visit"
  BY <1>3, EmptySeq, DagAssumption DEF Seq1!Call, Frame
<1>5. stack \in Seq(Frame) /\ Len(stack) = 1 /\ stack[1] = f
  BY <1>2, <1>3, <1>4
<1>6. SeqType
  BY <1>1, <1>2, <1>5 DEF SeqType, IInv, BInv
<1>7. FramesInv
  BY <1>4, <1>5 DEF FramesInv, DW!Linked
<1>8. SeqCover
  <2>1. Calling(Root, 0)
    BY <1>4, <1>5 DEF Calling
  <2>2. \A c \in Cids : DW!Expanded(c) => SkipRoot /\ c = Root
    BY <1>1, SameDag DEF Init, DW!Expanded, DW!Seen
  <2> QED
    BY <2>1, <2>2 DEF SeqCover, SeqCovered
<1>9. NoWorkers
  BY <1>1 DEF NoWorkers, IInv, BInv, OInv, Init
<1> QED
  BY <1>1, <1>2, <1>6, <1>7, <1>8, <1>9 DEF WalkInv, SeqInv

(* The choice between the walks is made once.                                *)
LEMMA ChoiceStep ==
    ASSUME [WalkDepthNext]_walkDepthVars
    PROVE  /\ Parallel' <=> Parallel
           /\ Parallel => [Next]_vars /\ UNCHANGED seqval
           /\ ~ Parallel =>
                /\ UNCHANGED <<mainVars, workerVars, visitlk>>
                /\ Seq1!SeqStep \/ UNCHANGED <<set, ignored, callbacks, stack, seqval>>
                /\ ctxDone' \in {ctxDone, TRUE}
<1>1. CASE ParallelStep
  BY <1>1 DEF ParallelStep, Parallel, Next
<1>2. CASE SequentialStep
  <2>1. ctxDone' = ctxDone
    BY <1>2 DEF SequentialStep, Seq1!SeqStep, Seq1!SeqVisit, Seq1!SeqGetLinks, Seq1!SeqRange
  <2> QED
    BY <1>2, <2>1 DEF SequentialStep, Parallel
<1>3. CASE Cancel
  BY <1>3 DEF Cancel, CancelCtx, Parallel, Next, walkVars
<1>4. CASE WalkDepthReturned \/ UNCHANGED walkDepthVars
  BY <1>4 DEF WalkDepthReturned, walkDepthVars, Parallel, vars, walkVars
<1> QED
  BY <1>1, <1>2, <1>3, <1>4 DEF WalkDepthNext

LEMMA NextWalkInv == WalkInv /\ [WalkDepthNext]_walkDepthVars => WalkInv'
<1> SUFFICES ASSUME WalkInv, [WalkDepthNext]_walkDepthVars PROVE WalkInv'
  OBVIOUS
<1>1. CASE Parallel
  <2>1. IInv /\ OInv /\ seqval = "none" /\ Parallel'
    BY <1>1, ChoiceStep DEF WalkInv
  <2>2. [Next]_vars /\ seqval' = "none"
    BY <1>1, <2>1, ChoiceStep
  <2>3. IInv' /\ OInv'
    BY <2>1, <2>2, NextIInv, NextOInv DEF IInv
  <2> QED
    BY <2>1, <2>2, <2>3 DEF WalkInv
<1>2. CASE ~ Parallel
  <2>1. SeqInv /\ ~ Parallel'
    BY <1>2, ChoiceStep DEF WalkInv
  <2>2. UNCHANGED <<mainVars, workerVars, visitlk>>
    BY <1>2, ChoiceStep
  <2>3. NoWorkers'
    BY <2>1, <2>2 DEF SeqInv, NoWorkers, NothingStranded, LockInv, FetchedOnce, mainVars, workerVars
  <2>4. CASE Seq1!SeqStep
    <3>1. SeqType'
      BY <2>1, <2>2, <2>4, SeqTypeStep DEF SeqInv
    <3>2. FramesInv'
      BY <2>1, <2>4, <3>1, FramesStep DEF SeqInv
    <3>3. seqval = "none"
      BY <2>1, <2>4, VisitCases, GetLinksCases, RangeCases DEF Seq1!SeqStep, SeqInv
    <3>4. seqval' \in {"none", "nil"} => SeqCover'
      BY <2>1, <2>4, <3>1, <3>3, SeqCoverStep DEF SeqInv
    <3> QED
      BY <2>1, <2>3, <3>1, <3>2, <3>4 DEF WalkInv, SeqInv
  <2>5. CASE UNCHANGED <<set, ignored, callbacks, stack, seqval>>
    <3>1. TypeOK'
      <4>1. TypeOK /\ ctxDone' \in {ctxDone, TRUE}
        BY <1>2, <2>1, ChoiceStep DEF SeqInv, SeqType
      <4>2. send' \in BOOLEAN /\ ctxDone' \in BOOLEAN
        BY <2>2, <4>1 DEF TypeOK, mainVars
      <4>3. links' \in [Workers -> Seq(Cids)] /\ todoQueue' \in Seq(Task)
        BY <2>2, <4>1 DEF TypeOK, mainVars, workerVars
      <4> QED
        BY <2>2, <2>5, <4>1, <4>2, <4>3 DEF TypeOK, mainVars, workerVars
    <3>2. SeqType'
      BY <2>1, <2>5, <3>1 DEF SeqInv, SeqType
    <3>3. FramesInv'
      BY <2>1, <2>5 DEF SeqInv, FramesInv, DW!Linked, DW!Expanded, DW!DepthOf, DW!Seen
    <3>4. seqval' \in {"none", "nil"} => SeqCover'
      BY <2>1, <2>5 DEF SeqInv, SeqCover, SeqCovered, LinkCalled, Ahead, Owes, Calling,
                        DW!Satisfied, DW!WithinLimit, DW!Expanded, DW!DepthOf, DW!Seen
    <3> QED
      BY <2>1, <2>3, <3>2, <3>3, <3>4 DEF WalkInv, SeqInv
  <2> QED
    BY <1>2, <2>4, <2>5, ChoiceStep
<1> QED
  BY <1>1, <1>2

LEMMA AlwaysWalkInv == WalkDepthSpec => []WalkInv
BY InitWalkInv, NextWalkInv, PTL DEF WalkDepthSpec

(* Whichever walk runs, the visits of parallelWalkDepth do not overlap, it   *)
(* fetches nothing twice at a time and strands no work.                      *)
THEOREM WalkDepthIsSafe ==
    WalkDepthSpec => [](TypeOK /\ VisitExclusive /\ FetchedOnce /\ NothingStranded)
<1>1. WalkInv => TypeOK /\ VisitExclusive /\ FetchedOnce /\ NothingStranded
  BY DEF WalkInv, IInv, BInv, OInv, SeqInv, SeqType, NoWorkers, LockInv, VisitExclusive
<1> QED
  BY <1>1, AlwaysWalkInv, PTL

(* "WalkGraph will walk the dag in order (depth first)": when an activation   *)
(* of sequentialWalkDepth is over, everything below its node within the      *)
(* limit has been visited, for every DAG and depth limit.                    *)
THEOREM SequentialIsDepthFirst == WalkDepthSpec => []DepthFirst
<1>1. WalkInv => DepthFirst
  <2> SUFFICES ASSUME SeqInv, seqval \in {"none", "nil"},
                      NEW c \in Cids \ ignored, DW!Seen(c),
                      \A i \in 1..Len(stack) : stack[i].cid # c,
                      DW!WithinLimit(set[c] + 1), NEW l \in LinkSet(c)
               PROVE  DW!Satisfied(l, set[c] + 1)
    BY SameWalk, SameOptions DEF WalkInv, DepthFirst, Seq1!DepthFirst
  <2>1. DW!Expanded(c) /\ set[c] \in Nat /\ DW!DepthOf(c) \in Nat /\ DW!DepthOf(c) <= set[c]
    BY SameDag DEF SeqInv, SeqType, TypeOK, DW!Seen, DW!Expanded, DW!DepthOf
  <2>2. DW!WithinLimit(DW!DepthOf(c) + 1)
    BY <2>1, OptionAssumption DEF DW!WithinLimit
  <2>3. SeqCovered(c, l) /\ l \in Cids /\ Len(stack) \in Nat
    <3>1. Len(stack) \in Nat
      BY DEF SeqInv, SeqType
    <3> QED
      BY <2>1, <2>2, <3>1, LinkSetType DEF SeqInv, SeqCover
  <2>4. ~ LinkCalled(c, l)
    BY <2>3 DEF LinkCalled, Owes
  <2>5. ~ \E i \in 1..Len(stack) : Owes(i, c)
    BY DEF Owes
  <2>6. ~ (c = Root /\ Calling(Root, 0))
    BY <2>3 DEF Calling
  <2>7. DW!Satisfied(l, DW!DepthOf(c) + 1)
    BY <2>3, <2>4, <2>5, <2>6 DEF SeqCovered
  <2>8. set[l] \in Nat \cup {-1}
    BY <2>3, SameDag DEF SeqInv, SeqType, TypeOK
  <2> QED
    BY <2>1, <2>7, <2>8, SameDag DEF DW!Satisfied, DW!Seen
<1> QED
  BY <1>1, AlwaysWalkInv, PTL

-----------------------------------------------------------------------------
(* A sequential walk that returned nil has walked everything.                *)
NilComplete == ~ Parallel /\ seqval = "nil" => DW!Complete

LEMMA SeqNilIsComplete == WalkInv => NilComplete
<1> SUFFICES ASSUME SeqInv, seqval = "nil" PROVE DW!Complete
  BY DEF WalkInv, NilComplete
<1>1. Len(stack) = 0
  BY DEF SeqInv, SeqType
<1>2. SeqCover
  BY DEF SeqInv
<1>3. ~ Calling(Root, 0) /\ \A c, l : ~ LinkCalled(c, l)
  BY <1>1 DEF Calling, LinkCalled
<1>4. \A c, l : SeqCovered(c, l) => DW!Satisfied(l, DW!DepthOf(c) + 1)
  BY <1>1, <1>3 DEF SeqCovered
<1> QED
  BY <1>2, <1>3, <1>4, SameDag DEF SeqCover, DW!Complete

(* What a step of the sequential walk does to the visited nodes: it visits   *)
(* one that is linked to, swallows an error, or changes nothing; in the last *)
(* case it may return.                                                       *)
LEMMA SeqStepCases ==
    ASSUME SeqInv, Seq1!SeqStep
    PROVE  \/ /\ ignored' = ignored /\ seqval' = seqval
              /\ \E c \in Cids : /\ set'[c] \in Nat /\ Visits(set, c, set'[c])
                                 /\ DW!Linked(c, set'[c])
                                 /\ set' = [set EXCEPT ![c] = set'[c]]
           \/ /\ set' = set /\ seqval' = seqval
              /\ Handler \in {"IgnoreErrors", "IgnoreMissing"}
              /\ \E c \in Cids : DW!Expanded(c) /\ ignored' = ignored \cup {c}
           \/ UNCHANGED <<set, ignored>>
<1>0. SeqType
  BY DEF SeqInv
<1>1. CASE Seq1!SeqVisit
  <2>1. /\ stack[1].cid \in Cids /\ stack[1].depth \in Nat /\ 1 \in 1..Len(stack)
        /\ stack[1].at = "visit" /\ ignored' = ignored
    BY <1>0, <1>1, VisitCases DEF Frame
  <2>2. CASE set' = set
    BY <2>1, <2>2
  <2>3. CASE set' # set
    <3>1. /\ Visits(set, stack[1].cid, stack[1].depth)
          /\ set' = [set EXCEPT ![stack[1].cid] = stack[1].depth]
          /\ Moved("links", <<>>)
      BY <1>0, <1>1, <2>3, VisitCases
    <3>2. DW!Linked(stack[1].cid, stack[1].depth)
      BY <2>1 DEF SeqInv, FramesInv
    <3>3. set'[stack[1].cid] = stack[1].depth
      BY <1>0, <2>1, <3>1 DEF SeqType, TypeOK
    <3> QED
      BY <2>1, <3>1, <3>2, <3>3 DEF Moved
  <2> QED
    BY <2>2, <2>3
<1>2. CASE Seq1!SeqGetLinks
  <2>1. /\ stack[1].cid \in Cids /\ 1 \in 1..Len(stack) /\ stack[1].at = "links" /\ set' = set
    BY <1>0, <1>2, GetLinksCases DEF Frame
  <2>2. DW!Expanded(stack[1].cid)
    BY <2>1 DEF SeqInv, FramesInv
  <2> QED
    BY <1>0, <1>2, <2>1, <2>2, GetLinksCases DEF Moved
<1>3. CASE Seq1!SeqRange
  BY <1>0, <1>3, RangeCases
<1> QED
  BY <1>1, <1>2, <1>3 DEF Seq1!SeqStep

LEMMA ParallelStepRefines ==
    ASSUME IInv, IInv', [Next]_vars, seqval = "none", seqval' = "none"
    PROVE  [Seq1!DW!Next]_Seq1!DW!vars
<1>1. [DW!Next]_DW!vars
  BY StepRefines
<1>2. Seq1!SeqResult = "running" /\ Seq1!SeqResult' = "running"
  BY DEF Seq1!SeqResult
<1>3. CASE UNCHANGED <<set, ignored>>
  BY <1>2, <1>3 DEF Seq1!DW!vars
<1>4. ASSUME NEW c \in Cids, DW!Visit(c, set'[c]) PROVE Seq1!DW!Next
  <2>1. Seq1!DW!Visit(c, set'[c])
    BY <1>2, <1>4, SameWalk, SameOptions, SameDag DEF DW!Visit, Seq1!DW!Visit
  <2> QED
    BY <2>1 DEF Seq1!DW!Next
<1>5. ASSUME NEW c \in Cids, DW!Ignore(c) PROVE Seq1!DW!Next
  <2>1. Seq1!DW!Ignore(c)
    BY <1>2, <1>5, SameWalk DEF DW!Ignore, Seq1!DW!Ignore
  <2> QED
    BY <2>1 DEF Seq1!DW!Next
<1> QED
  BY <1>1, <1>3, <1>4, <1>5 DEF DW!Next, DW!vars, DW!Finish, DW!Fail

LEMMA SequentialStepRefines ==
    ASSUME SeqInv, Seq1!SeqStep, ~ Parallel', NilComplete'
    PROVE  [Seq1!DW!Next]_Seq1!DW!vars
<1>1. seqval = "none" /\ Seq1!SeqResult = "running"
  <2>1. seqval = "none"
    BY VisitCases, GetLinksCases, RangeCases DEF Seq1!SeqStep, SeqInv
  <2> QED
    BY <2>1, SeqResults
<1>2. ASSUME seqval' = seqval PROVE Seq1!SeqResult' = "running"
  BY <1>1, <1>2 DEF Seq1!SeqResult
<1>3. ASSUME ignored' = ignored, seqval' = seqval, NEW c \in Cids, set'[c] \in Nat,
             Visits(set, c, set'[c]), DW!Linked(c, set'[c]), set' = [set EXCEPT ![c] = set'[c]]
      PROVE  Seq1!DW!Next
  <2>1. Seq1!DW!Visit(c, set'[c])
    BY <1>1, <1>2, <1>3, SameWalk, SameOptions DEF Seq1!DW!Visit
  <2> QED
    BY <2>1 DEF Seq1!DW!Next
<1>4. ASSUME set' = set, seqval' = seqval, Handler \in {"IgnoreErrors", "IgnoreMissing"},
             NEW c \in Cids, DW!Expanded(c), ignored' = ignored \cup {c}
      PROVE  Seq1!DW!Next
  <2>1. Seq1!DW!Ignore(c)
    BY <1>1, <1>2, <1>4, SameWalk DEF Seq1!DW!Ignore
  <2> QED
    BY <2>1 DEF Seq1!DW!Next
<1>5. ASSUME UNCHANGED <<set, ignored>> PROVE [Seq1!DW!Next]_Seq1!DW!vars
  <2>1. CASE seqval' = "none"
    BY <1>1, <1>2, <1>5, <2>1 DEF Seq1!DW!vars
  <2>2. CASE seqval' = "nil"
    <3>1. DW!Complete'
      BY <2>2 DEF NilComplete
    <3>2. DW!Complete
      BY <1>5, <3>1 DEF DW!Complete, DW!Seen, DW!Expanded, DW!DepthOf, DW!WithinLimit, DW!Satisfied
    <3>3. Seq1!SeqResult' = "nil"
      BY <2>2 DEF Seq1!SeqResult
    <3>4. Seq1!DW!Finish
      BY <1>1, <1>5, <3>2, <3>3, SameWalk DEF Seq1!DW!Finish
    <3> QED
      BY <3>4 DEF Seq1!DW!Next
  <2>3. CASE seqval' \notin {"none", "nil"}
    <3>1. Seq1!SeqResult' = "error"
      BY <2>3 DEF Seq1!SeqResult
    <3>2. Seq1!DW!Fail
      BY <1>1, <1>5, <3>1 DEF Seq1!DW!Fail
    <3> QED
      BY <3>2 DEF Seq1!DW!Next
  <2> QED
    BY <2>1, <2>2, <2>3
<1> QED
  BY <1>3, <1>4, <1>5, SeqStepCases

(* sequentialWalkDepth implements the abstract walk: what it visits is       *)
(* linked to, and it returns nil only after a complete walk, for every DAG,  *)
(* depth limit, option and cancellation.                                     *)
THEOREM SequentialWalkImplementsDagWalk == WalkDepthSpec => SequentialImplementsDagWalk
<1>1. WalkDepthInit => Seq1!DW!Init
  BY SameOptions, SeqResults DEF WalkDepthInit, Init, Seq1!SeqInit, Seq1!DW!Init
<1>2. ASSUME WalkInv, WalkInv', NilComplete', [WalkDepthNext]_walkDepthVars
      PROVE  [Seq1!DW!Next]_Seq1!DW!vars
  <2>1. CASE Parallel
    BY <1>2, <2>1, ChoiceStep, ParallelStepRefines DEF WalkInv
  <2>2. CASE ~ Parallel /\ Seq1!SeqStep
    BY <1>2, <2>2, ChoiceStep, SequentialStepRefines DEF WalkInv
  <2>3. CASE UNCHANGED <<set, ignored, seqval>>
    BY <2>3 DEF Seq1!DW!vars, Seq1!SeqResult
  <2> QED
    BY <1>2, <2>1, <2>2, <2>3, ChoiceStep
<1> QED
  BY <1>1, <1>2, AlwaysWalkInv, SeqNilIsComplete, PTL DEF WalkDepthSpec, SequentialImplementsDagWalk,
     Seq1!SequentialImplementsDagWalk, Seq1!DW!Spec

(* And parallelWalkDepth does where WalkDepth chooses it; where it does not, *)
(* the parallel walk is never over and the visits are those of the           *)
(* sequential one.                                                           *)
THEOREM ParallelWalkImplementsDagWalk == WalkDepthSpec => ImplementsDagWalk
<1>1. WalkDepthInit => DW!Init
  BY SameDag DEF WalkDepthInit, Init, DW!Init, Result
<1>2. ASSUME WalkInv, WalkInv', [WalkDepthNext]_walkDepthVars
      PROVE  [DW!Next]_DW!vars
  <2>1. CASE Parallel
    BY <1>2, <2>1, ChoiceStep, StepRefines DEF WalkInv
  <2>2. CASE ~ Parallel /\ Seq1!SeqStep
    <3>1. Result = "running" /\ Result' = "running"
      BY <1>2, <2>2, ChoiceStep DEF WalkInv, SeqInv, NoWorkers, Result, mainVars
    <3>2. ASSUME ignored' = ignored, NEW c \in Cids, set'[c] \in Nat, Visits(set, c, set'[c]),
                 DW!Linked(c, set'[c]), set' = [set EXCEPT ![c] = set'[c]]
          PROVE  DW!Next
      <4>1. DW!Visit(c, set'[c])
        BY <3>1, <3>2, SameDag DEF DW!Visit
      <4> QED
        BY <4>1 DEF DW!Next
    <3>3. ASSUME set' = set, Handler \in {"IgnoreErrors", "IgnoreMissing"},
                 NEW c \in Cids, DW!Expanded(c), ignored' = ignored \cup {c}
          PROVE  DW!Next
      <4>1. DW!Ignore(c)
        BY <3>1, <3>3 DEF DW!Ignore
      <4> QED
        BY <4>1 DEF DW!Next
    <3>4. CASE UNCHANGED <<set, ignored>>
      BY <3>1, <3>4 DEF DW!vars
    <3> QED
      BY <1>2, <2>2, <3>2, <3>3, <3>4, SeqStepCases DEF WalkInv
  <2>3. CASE ~ Parallel /\ UNCHANGED <<set, ignored>>
    BY <1>2, <2>3, ChoiceStep DEF DW!vars, Result, mainVars
  <2> QED
    BY <1>2, <2>1, <2>2, <2>3, ChoiceStep
<1> QED
  BY <1>1, <1>2, AlwaysWalkInv, PTL DEF WalkDepthSpec, ImplementsDagWalk, DW!Spec
-----------------------------------------------------------------------------
(* What the depths in the map mean.  A depth a node is met at is the length  *)
(* of a path to it, and beyond the root itself nothing is met before the     *)
(* root is in the map.                                                       *)
AtDepth(c, d) == Reaches(c, d) /\ (d > 0 /\ ~ SkipRoot => set[Root] = 0)

SetInv ==
    /\ \A c \in Cids : set[c] # NotSeen =>
          /\ Reaches(c, set[c])
          /\ DepthLim >= 0 => set[c] <= DepthLim
          /\ SkipRoot => set[c] > 0
    /\ ~ SkipRoot => set[Root] \in {NotSeen, 0}

(* What the coordinator and the workers of parallelWalkDepth hold            *)
PathInv ==
    /\ \A t \in Task : Defined(t) /\ Queued(t) => AtDepth(t.cid, t.depth)
    /\ \A w \in Workers : Active(w) => AtDepth(task[w].cid, task[w].depth)
    /\ \A w \in Workers : pc[w] \in {"lock", "visit"} /\ SkipRoot => task[w].depth > 0
    /\ \A w \in Workers : pc[w] = "out" /\ links[w] # <<>> =>
          task[w].cid \notin Missing /\ links[w] = Links[task[w].cid]

(* What the activations of sequentialWalkDepth hold                          *)
FramePath(f) ==
    /\ AtDepth(f.cid, f.depth)
    /\ f.at = "range" /\ f.rest # <<>> => f.cid \notin Missing

StackInv == \A i \in 1..Len(stack) : FramePath(stack[i])

DepthInv ==
    /\ SetInv
    /\ Parallel => PathInv
    /\ ~ Parallel => StackInv

(* A set of natural numbers has a least element.                             *)
LEMMA LeastNat ==
    ASSUME NEW T, T \subseteq Nat, T # {}
    PROVE  \E x \in T : \A y \in T : x <= y
<1> DEFINE R == {ss \in Nat \X Nat : ss[1] < ss[2]}
<1>1. IsWellFoundedOn(R, Nat)
  BY NatLessThanWellFounded, Zenon DEF OpToRel
<1>2. \A x, y \in Nat : y < x => <<y, x>> \in R
  OBVIOUS
<1> HIDE DEF R
<1>3. PICK x \in T : \A y \in T : ~ (<<y, x>> \in R)
  BY <1>1, WFMin
<1>4. \A y \in T : ~ (y < x) /\ y \in Nat /\ x \in Nat
  BY <1>2, <1>3
<1>5. \A y \in T : x <= y
  BY <1>4
<1> QED
  BY <1>5

(* The root is at the end of the empty path, and a path can be extended by a *)
(* link of a node that is found.                                             *)
LEMMA RootReached == Reaches(Root, 0) /\ \A x : Reaches(x, 0) => x = Root
<1>1. \A x : Reaches(x, 0) => x = Root
  BY DEF Reaches
<1> DEFINE p == [i \in 0..0 |-> Root]
<1>2. p \in [0..0 -> Cids] /\ p[0] = Root /\ \A i \in 0..0 - 1 : FALSE
  BY DagAssumption
<1> HIDE DEF p
<1>3. Reaches(Root, 0)
  BY <1>2 DEF Reaches
<1> QED
  BY <1>1, <1>3

LEMMA PathExtends ==
    ASSUME NEW x \in Cids, NEW n \in Nat, Reaches(x, n), x \notin Missing, NEW y \in LinkSet(x)
    PROVE  Reaches(y, n + 1)
<1>1. PICK p \in [0..n -> Cids] :
         /\ p[0] = Root /\ p[n] = x
         /\ \A i \in 0..n - 1 : p[i] \notin Missing /\ p[i + 1] \in LinkSet(p[i])
  BY DEF Reaches
<1>2. y \in Cids
  BY LinkSetType
<1> DEFINE q == [i \in 0..n + 1 |-> IF i <= n THEN p[i] ELSE y]
<1>3. q \in [0..n + 1 -> Cids]
  BY <1>2
<1>4. q[0] = Root /\ q[n + 1] = y
  BY <1>1
<1>5. ASSUME NEW i \in 0..(n + 1) - 1 PROVE q[i] \notin Missing /\ q[i + 1] \in LinkSet(q[i])
  <2>1. CASE i = n
    BY <1>1, <2>1
  <2>2. CASE i # n
    <3>1. i \in 0..n - 1
      BY <2>2
    <3>2. q[i] = p[i] /\ q[i + 1] = p[i + 1]
      BY <3>1
    <3> QED
      BY <1>1, <3>1, <3>2
  <2> QED
    BY <2>1, <2>2
<1> HIDE DEF q
<1> QED
  BY <1>3, <1>4, <1>5 DEF Reaches

(* A visit puts the length of a path into the map, and leaves the root's.    *)
LEMMA VisitDepth ==
    ASSUME TypeOK, SetInv, NEW c \in Cids, NEW d \in Nat, AtDepth(c, d), SkipRoot => d > 0,
           Visits(set, c, d), set' = [set EXCEPT ![c] = d]
    PROVE  SetInv' /\ \A e, f : AtDepth(e, f) => AtDepth(e, f)'
<1>0. /\ NotSeen = -1 /\ set \in [Cids -> Nat \cup {-1}] /\ DepthLim \in Int
      /\ SkipRoot \in BOOLEAN /\ Root \in Cids
  BY SameDag, OptionAssumption, DagAssumption DEF TypeOK
<1>1. \A e \in Cids : set'[e] = IF e = c THEN d ELSE set[e]
  BY <1>0
<1>2. /\ set[c] = NotSeen \/ set[c] > d
      /\ DepthLim >= 0 => d <= DepthLim
  BY <1>0 DEF Visits
<1>3. set[Root] = 0 => set'[Root] = 0
  BY <1>0, <1>1, <1>2
<1>4. ~ SkipRoot => set'[Root] \in {NotSeen, 0}
  <2>1. CASE c # Root
    BY <1>0, <1>1, <2>1 DEF SetInv
  <2>2. CASE c = Root /\ ~ SkipRoot
    <3>1. d > 0 => set[Root] = 0
      BY <2>2 DEF AtDepth
    <3>2. d = 0
      BY <1>0, <1>2, <2>2, <3>1
    <3> QED
      BY <1>0, <1>1, <2>2, <3>2
  <2> QED
    BY <2>1, <2>2
<1>5. ASSUME NEW e \in Cids, set'[e] # NotSeen
      PROVE  /\ Reaches(e, set'[e])
             /\ DepthLim >= 0 => set'[e] <= DepthLim
             /\ SkipRoot => set'[e] > 0
  BY <1>1, <1>2, <1>5 DEF SetInv, AtDepth
<1>6. SetInv'
  <2>1. \A e, f : Reaches(e, f)' <=> Reaches(e, f)
    BY DEF Reaches
  <2> QED
    BY <1>4, <1>5, <2>1 DEF SetInv
<1>7. ASSUME NEW e, NEW f, AtDepth(e, f) PROVE AtDepth(e, f)'
  BY <1>3, <1>7 DEF AtDepth, Reaches
<1> QED
  BY <1>6, <1>7

LEMMA DepthQuiet ==
    ASSUME set' = set
    PROVE  /\ SetInv => SetInv'
           /\ \A e, f : AtDepth(e, f) => AtDepth(e, f)'
BY DEF SetInv, AtDepth, Reaches

LEMMA PathQuiet ==
    ASSUME PathInv,
           \A e, f : AtDepth(e, f) => AtDepth(e, f)',
           \A t \in Task : Defined(t) /\ Queued(t)' => Queued(t),
           \A v \in Workers : Active(v)' => Active(v) /\ task'[v] = task[v],
           \A v \in Workers : pc'[v] \in {"lock", "visit"} => pc[v] \in {"lock", "visit"},
           \A v \in Workers : pc'[v] = "out" => pc[v] = "out" /\ links'[v] = links[v]
    PROVE  PathInv'
<1>1. \A t \in Task : Defined(t) /\ Queued(t)' => AtDepth(t.cid, t.depth)'
  BY DEF PathInv
<1>2. \A v \in Workers : Active(v)' => AtDepth(task[v].cid, task[v].depth)'
  BY DEF PathInv
<1>3. \A v \in Workers : pc'[v] \in {"lock", "visit"} /\ SkipRoot => task'[v].depth > 0
  BY DEF PathInv, Active
<1>4. \A v \in Workers : pc'[v] = "out" /\ links'[v] # <<>> =>
          task'[v].cid \notin Missing /\ links'[v] = Links[task'[v].cid]
  BY DEF PathInv, Active
<1> QED
  BY <1>1, <1>2, <1>3, <1>4 DEF PathInv

(* The links a worker delivers are one link further than its node; the root  *)
(* was visited before its links were fetched.                                *)
LEMMA LinksDepth ==
    ASSUME BInv, OInv, PathInv, NEW w \in Workers, pc[w] = "out",
           NEW l, NEW k \in 1..Len(links[w]), l = links[w][k]
    PROVE  AtDepth(l, task[w].depth + 1)
<1>0. /\ task[w].cid \in Cids /\ task[w].depth \in Nat /\ links[w] \in Seq(Cids)
      /\ SkipRoot \in BOOLEAN
  BY OptionAssumption DEF BInv, TypeOK, NothingStranded, Defined, Task
<1>1. links[w] # <<>>
  BY <1>0
<1>2. task[w].cid \notin Missing /\ links[w] = Links[task[w].cid]
  BY <1>1 DEF PathInv
<1>3. l \in LinkSet(task[w].cid)
  BY <1>2 DEF LinkSet
<1>4. AtDepth(task[w].cid, task[w].depth)
  BY DEF PathInv, Active
<1>5. Reaches(l, task[w].depth + 1)
  BY <1>0, <1>2, <1>3, <1>4, PathExtends DEF AtDepth
<1>6. ASSUME ~ SkipRoot PROVE set[Root] = 0
  <2>1. CASE task[w].depth > 0
    BY <1>4, <1>6, <2>1 DEF AtDepth
  <2>2. CASE task[w].depth = 0
    <3>1. task[w].cid = Root
      BY <1>4, <2>2, RootReached DEF AtDepth
    <3>2. set[Root] # NotSeen /\ set[Root] <= 0
      BY <1>6, <2>2, <3>1 DEF OInv, FetchInv, Fetching, Skipped
    <3>3. set[Root] \in Nat \cup {NotSeen}
      BY DagAssumption DEF BInv, TypeOK
    <3> QED
      BY <3>2, <3>3, SameDag
  <2> QED
    BY <1>0, <2>1, <2>2
<1> QED
  BY <1>5, <1>6 DEF AtDepth

LEMMA PathStep ==
    ASSUME BInv, OInv, SetInv, PathInv, [Next]_vars
    PROVE  SetInv' /\ PathInv'
<1>0. /\ TypeOK /\ NothingStranded
      /\ pc \in [Workers -> PcValues] /\ task \in [Workers -> Task]
      /\ links \in [Workers -> Seq(Cids)]
  BY DEF BInv, TypeOK
<1>1. ASSUME NEW w \in Workers, Feed(w) PROVE SetInv' /\ PathInv'
  <2>1. /\ set' = set /\ links' = links /\ pc[w] = "recv"
        /\ task' = [task EXCEPT ![w] = next]
        /\ pc' = [pc EXCEPT ![w] = IF SkipRoot /\ next.depth = 0 THEN "links" ELSE "lock"]
    BY <1>1 DEF Feed, walkVars
  <2>2. /\ Defined(next) /\ next \in Task /\ Queued(next)
        /\ \A t \in Task : Defined(t) /\ Queued(t)' => Queued(t)
    BY <1>0, <1>1, FeedEffect DEF TypeOK, Queued
  <2>3. \A e, f : AtDepth(e, f) => AtDepth(e, f)'
    BY <2>1, DepthQuiet
  <2>4. next.depth \in Nat /\ AtDepth(next.cid, next.depth)
    BY <2>2 DEF PathInv, Task
  <2>5. \A t \in Task : Defined(t) /\ Queued(t)' => AtDepth(t.cid, t.depth)'
    BY <2>2, <2>3 DEF PathInv
  <2>6. ASSUME NEW v \in Workers
        PROVE  /\ Active(v)' => AtDepth(task[v].cid, task[v].depth)'
               /\ pc'[v] \in {"lock", "visit"} /\ SkipRoot => task'[v].depth > 0
               /\ pc'[v] = "out" /\ links'[v] # <<>> =>
                     task'[v].cid \notin Missing /\ links'[v] = Links[task'[v].cid]
    <3>1. CASE v = w
      <4>1. task'[v] = next /\ pc'[v] \in {"links", "lock"}
            /\ (pc'[v] = "lock" => ~ (SkipRoot /\ next.depth = 0))
        BY <1>0, <2>1, <3>1
      <4> QED
        BY <2>3, <2>4, <4>1
    <3>2. CASE v # w
      <4>1. task'[v] = task[v] /\ pc'[v] = pc[v] /\ links'[v] = links[v]
        BY <1>0, <2>1, <3>2
      <4> QED
        BY <2>3, <4>1 DEF PathInv, Active
    <3> QED
      BY <3>1, <3>2
  <2>7. PathInv'
    BY <2>5, <2>6 DEF PathInv
  <2> QED
    BY <2>1, <2>7, DepthQuiet
<1>2. ASSUME NEW w \in Workers, CallVisit(w) PROVE SetInv' /\ PathInv'
  <2>1. /\ task' = task /\ links' = links /\ next' = next /\ todoQueue' = todoQueue
        /\ pc[w] = "visit"
    BY <1>2 DEF CallVisit, mainVars
  <2>2. task[w].cid \in Cids /\ task[w].depth \in Nat
    BY <1>2, VisitEffect
  <2>3. AtDepth(task[w].cid, task[w].depth) /\ (SkipRoot => task[w].depth > 0)
    BY <2>1 DEF PathInv, Active
  <2>4. SetInv' /\ \A e, f : AtDepth(e, f) => AtDepth(e, f)'
    <3>1. CASE Visits(set, task[w].cid, task[w].depth)
      <4>1. set' = [set EXCEPT ![task[w].cid] = task[w].depth]
        BY <1>2, <3>1 DEF CallVisit
      <4> QED
        BY <1>0, <2>2, <2>3, <3>1, <4>1, VisitDepth
    <3>2. CASE ~ Visits(set, task[w].cid, task[w].depth)
      <4>1. set' = set
        BY <1>2, <3>2 DEF CallVisit
      <4> QED
        BY <4>1, DepthQuiet
    <3> QED
      BY <3>1, <3>2
  <2>5. \A v \in Workers : /\ v # w => pc'[v] = pc[v]
                           /\ pc'[w] \in {"links", "done"}
    BY <1>0, <1>2 DEF CallVisit
  <2>6. PathInv'
    <3>1. \A t \in Task : Queued(t)' => Queued(t)
      BY <2>1 DEF Queued
    <3>2. /\ \A v \in Workers : Active(v)' => Active(v) /\ task'[v] = task[v]
          /\ \A v \in Workers : pc'[v] \in {"lock", "visit"} => pc[v] \in {"lock", "visit"}
          /\ \A v \in Workers : pc'[v] = "out" => pc[v] = "out" /\ links'[v] = links[v]
      BY <2>1, <2>5 DEF Active
    <3> QED
      BY <2>4, <3>1, <3>2, PathQuiet
  <2> QED
    BY <2>4, <2>6
<1>3. ASSUME NEW w \in Workers, CallGetLinks(w) PROVE SetInv' /\ PathInv'
  <2>1. /\ set' = set /\ task' = task /\ next' = next /\ todoQueue' = todoQueue
        /\ pc[w] = "links"
    BY <1>3 DEF CallGetLinks, mainVars
  <2>2. /\ pc'[w] \in {"out", "err"}
        /\ pc'[w] = "out" /\ links'[w] # <<>> =>
              task[w].cid \notin Missing /\ links'[w] = Links[task[w].cid]
        /\ \A v \in Workers : v # w => pc'[v] = pc[v] /\ links'[v] = links[v]
    BY <1>0, <1>3 DEF CallGetLinks, GetLinksErrors
  <2>3. \A e, f : AtDepth(e, f) => AtDepth(e, f)'
    BY <2>1, DepthQuiet
  <2>4. \A t \in Task : Defined(t) /\ Queued(t)' => AtDepth(t.cid, t.depth)'
    BY <2>1, <2>3 DEF PathInv, Queued
  <2>5. \A v \in Workers : Active(v)' => AtDepth(task[v].cid, task[v].depth)'
    BY <2>1, <2>2, <2>3 DEF PathInv, Active
  <2>6. \A v \in Workers : pc'[v] \in {"lock", "visit"} /\ SkipRoot => task'[v].depth > 0
    BY <2>1, <2>2 DEF PathInv
  <2>7. \A v \in Workers : pc'[v] = "out" /\ links'[v] # <<>> =>
            task'[v].cid \notin Missing /\ links'[v] = Links[task'[v].cid]
    BY <2>1, <2>2 DEF PathInv
  <2> QED
    BY <2>1, <2>4, <2>5, <2>6, <2>7, DepthQuiet DEF PathInv
<1>4. ASSUME NEW w \in Workers, ReceiveOut(w) PROVE SetInv' /\ PathInv'
  <2> DEFINE cds == CidDepths(links[w], task[w].depth + 1)
  <2>1. /\ set' = set /\ task' = task /\ links' = links /\ pc[w] = "out"
        /\ pc' = [pc EXCEPT ![w] = "done"]
    BY <1>4 DEF ReceiveOut, walkVars
  <2>2. \A e, f : AtDepth(e, f) => AtDepth(e, f)'
    BY <2>1, DepthQuiet
  <2>3. task[w].depth + 1 \in Nat /\ links[w] \in Seq(Cids)
    BY <1>0 DEF Task
  <2>4. /\ \A t \in Task : Queued(t)' => Queued(t) \/ \E k \in 1..Len(cds) : t = cds[k]
        /\ Len(cds) = Len(links[w])
        /\ \A k \in 1..Len(links[w]) : cds[k] = [cid |-> links[w][k], depth |-> task[w].depth + 1]
    BY <1>0, <1>4, <2>3, OutEffect, CidDepthsType
  <2> HIDE DEF cds
  <2>5. ASSUME NEW t \in Task, Defined(t), Queued(t)' PROVE AtDepth(t.cid, t.depth)'
    <3>1. CASE Queued(t)
      BY <2>2, <2>5, <3>1 DEF PathInv
    <3>2. CASE \E k \in 1..Len(cds) : t = cds[k]
      <4>1. PICK k \in 1..Len(links[w]) : t = [cid |-> links[w][k], depth |-> task[w].depth + 1]
        BY <2>4, <3>2
      <4>2. AtDepth(links[w][k], task[w].depth + 1)
        BY <2>1, LinksDepth
      <4>3. t.cid = links[w][k] /\ t.depth = task[w].depth + 1
        BY <4>1
      <4> QED
        BY <2>2, <4>2, <4>3
    <3> QED
      BY <2>4, <2>5, <3>1, <3>2
  <2>6. \A v \in Workers :
           /\ Active(v)' => Active(v)
           /\ pc'[v] \in {"lock", "visit"} => pc[v] \in {"lock", "visit"}
           /\ pc'[v] = "out" => pc[v] = "out"
    BY <1>0, <2>1 DEF Active
  <2>7. \A v \in Workers : Active(v)' => AtDepth(task[v].cid, task[v].depth)'
    BY <2>1, <2>2, <2>6 DEF PathInv
  <2>8. \A v \in Workers :
           /\ pc'[v] \in {"lock", "visit"} /\ SkipRoot => task'[v].depth > 0
           /\ pc'[v] = "out" /\ links'[v] # <<>> =>
                 task'[v].cid \notin Missing /\ links'[v] = Links[task'[v].cid]
    BY <2>1, <2>6 DEF PathInv
  <2> QED
    BY <2>1, <2>5, <2>7, <2>8, DepthQuiet DEF PathInv
<1>5. ASSUME NEW w \in Workers,
             \/ LockVisit(w) \/ ReceiveDone(w) \/ ReceiveErr(w)
             \/ Abandon(w) \/ SkipDone(w) \/ ExitWorker(w)
      PROVE  SetInv' /\ PathInv'
  <2>1. set' = set /\ next' = next /\ todoQueue' = todoQueue /\ links' = links
    BY <1>5 DEF LockVisit, ReceiveDone, ReceiveErr, Abandon, SkipDone, ExitWorker, walkVars, mainVars
  <2>2. /\ \A v \in Workers : Active(v)' => Active(v) /\ task'[v] = task[v]
        /\ \A v \in Workers : pc'[v] \in {"lock", "visit"} => pc[v] \in {"lock", "visit"}
        /\ \A v \in Workers : pc'[v] = "out" => pc[v] = "out"
    BY <1>0, <1>5 DEF LockVisit, ReceiveDone, ReceiveErr, Abandon, SkipDone, ExitWorker, Active
  <2>3. \A t \in Task : Queued(t)' => Queued(t)
    BY <2>1 DEF Queued
  <2> QED
    BY <2>1, <2>2, <2>3, DepthQuiet, PathQuiet
<1>6. CASE MainStep \/ CancelCtx \/ Returned \/ UNCHANGED vars
  <2>1. UNCHANGED <<set, next, todoQueue, links, pc, task>>
    BY <1>6 DEF MainStep, ReturnCtxErr, CloseFeed, CancelFetchers, WaitWorkers, CancelCtx,
                Returned, vars, walkVars, workerVars, mainVars
  <2>2. \A t \in Task : Queued(t)' => Queued(t)
    BY <2>1 DEF Queued
  <2>3. \A v \in Workers : Active(v)' => Active(v)
    BY <2>1 DEF Active
  <2> QED
    BY <2>1, <2>2, <2>3, DepthQuiet, PathQuiet
<1> QED
  BY <1>1, <1>2, <1>3, <1>4, <1>5, <1>6 DEF Next, WorkerStep

LEMMA MovedPath ==
    ASSUME StackInv, Len(stack) \in Nat \ {0}, \A e, f : AtDepth(e, f) => AtDepth(e, f)',
           NEW label, NEW rest, Moved(label, rest),
           label = "range" /\ rest # <<>> => stack[1].cid \notin Missing
    PROVE  StackInv'
<1> SUFFICES ASSUME NEW i \in 1..Len(stack') PROVE FramePath(stack[i])'
  BY DEF StackInv
<1>1. Len(stack') = Len(stack)
  BY DEF Moved
<1>2. CASE i = 1
  <2>1. AtDepth(stack[1].cid, stack[1].depth)
    BY DEF StackInv, FramePath
  <2>2. AtDepth(stack[1].cid, stack[1].depth)'
    BY <2>1 DEF Moved
  <2>3. stack'[1].at = label /\ stack'[1].rest = rest /\ stack'[1].cid = stack[1].cid
    BY DEF Moved
  <2> QED
    BY <1>2, <2>2, <2>3 DEF FramePath
<1>3. CASE i # 1
  <2>1. i \in 2..Len(stack) /\ i \in 1..Len(stack)
    BY <1>1, <1>3
  <2>2. stack'[i] = stack[i]
    BY <2>1 DEF Moved
  <2>3. FramePath(stack[i])
    BY <2>1 DEF StackInv
  <2> QED
    BY <2>2, <2>3 DEF FramePath
<1> QED
  BY <1>2, <1>3

LEMMA PoppedPath ==
    ASSUME StackInv, Len(stack) \in Nat \ {0}, \A e, f : AtDepth(e, f) => AtDepth(e, f)', Popped
    PROVE  StackInv'
<1> SUFFICES ASSUME NEW i \in 1..Len(stack') PROVE FramePath(stack[i])'
  BY DEF StackInv
<1>1. Len(stack') = Len(stack) - 1
  BY DEF Popped
<1>2. i \in 1..Len(stack) - 1 /\ i + 1 \in 1..Len(stack)
  BY <1>1
<1>3. stack'[i] = stack[i + 1]
  BY <1>2 DEF Popped
<1>4. FramePath(stack[i + 1])
  BY <1>2 DEF StackInv
<1> QED
  BY <1>3, <1>4 DEF FramePath

(* The call for a link is one link further than its caller.                  *)
LEMMA CallDepth ==
    ASSUME SeqType, FramesInv, StackInv, Len(stack) \in Nat \ {0}, stack[1].at = "range",
           stack[1].rest # <<>>
    PROVE  AtDepth(Head(stack[1].rest), stack[1].depth + 1)
<1>0. stack[1] \in Frame /\ 1 \in 1..Len(stack) /\ SkipRoot \in BOOLEAN /\ TypeOK
  BY OptionAssumption DEF SeqType
<1>1. /\ stack[1].cid \in Cids /\ stack[1].depth \in Nat /\ stack[1].rest \in Seq(Cids)
  BY <1>0 DEF Frame
<1>2. 1 \in 1..Len(stack[1].rest) /\ Head(stack[1].rest) = stack[1].rest[1]
  <2>1. Len(stack[1].rest) \in Nat \ {0}
    BY <1>1, EmptySeq
  <2> QED
    BY <1>1, <2>1
<1>3. Head(stack[1].rest) \in LinkSet(stack[1].cid)
  BY <1>0, <1>2 DEF FramesInv
<1>4. AtDepth(stack[1].cid, stack[1].depth) /\ stack[1].cid \notin Missing
  BY <1>0 DEF StackInv, FramePath
<1>5. Reaches(Head(stack[1].rest), stack[1].depth + 1)
  BY <1>1, <1>3, <1>4, PathExtends DEF AtDepth
<1>6. ASSUME ~ SkipRoot PROVE set[Root] = 0
  <2>1. CASE stack[1].depth > 0
    BY <1>4, <1>6, <2>1 DEF AtDepth
  <2>2. CASE stack[1].depth = 0
    <3>1. stack[1].cid = Root
      BY <1>4, <2>2, RootReached DEF AtDepth
    <3>2. DW!Expanded(stack[1].cid) /\ DW!DepthOf(stack[1].cid) <= stack[1].depth
      BY <1>0 DEF FramesInv
    <3>3. set[Root] # -1 /\ set[Root] <= 0
      BY <1>6, <2>2, <3>1, <3>2, SameDag DEF DW!Expanded, DW!DepthOf, DW!Seen
    <3>4. set[Root] \in Nat \cup {-1}
      BY <1>0, DagAssumption, SameDag DEF TypeOK
    <3> QED
      BY <3>3, <3>4
  <2> QED
    BY <1>1, <2>1, <2>2
<1> QED
  BY <1>5, <1>6 DEF AtDepth

LEMMA PushedPath ==
    ASSUME SeqType, FramesInv, StackInv, Len(stack) \in Nat \ {0}, stack[1].at = "range",
           stack[1].rest # <<>>, \A e, f : AtDepth(e, f) => AtDepth(e, f)',
           Pushed(Head(stack[1].rest), stack[1].depth + 1, Tail(stack[1].rest))
    PROVE  StackInv'
<1> SUFFICES ASSUME NEW i \in 1..Len(stack') PROVE FramePath(stack[i])'
  BY DEF StackInv
<1>0. Len(stack') = Len(stack) + 1 /\ 1 \in 1..Len(stack)
  BY DEF Pushed
<1>1. FramePath(stack[1])
  BY <1>0 DEF StackInv
<1>2. CASE i = 1
  <2>1. /\ stack'[1].cid = Head(stack[1].rest) /\ stack'[1].depth = stack[1].depth + 1
        /\ stack'[1].at = "visit"
    BY DEF Pushed
  <2>2. AtDepth(stack[1].cid, stack[1].depth)'
    BY <2>1, CallDepth
  <2> QED
    BY <1>2, <2>1, <2>2 DEF FramePath
<1>3. CASE i = 2
  <2>1. stack'[2].cid = stack[1].cid /\ stack'[2].depth = stack[1].depth
    BY DEF Pushed
  <2>2. AtDepth(stack[1].cid, stack[1].depth) /\ stack[1].cid \notin Missing
    BY <1>1 DEF FramePath
  <2>3. AtDepth(stack[2].cid, stack[2].depth)'
    BY <2>1, <2>2
  <2> QED
    BY <1>3, <2>1, <2>2, <2>3 DEF FramePath
<1>4. CASE i # 1 /\ i # 2
  <2>1. i - 1 \in 2..Len(stack) /\ i - 1 \in 1..Len(stack) /\ (i - 1) + 1 = i
    BY <1>0, <1>4
  <2>2. stack'[i] = stack[i - 1]
    BY <2>1 DEF Pushed
  <2>3. FramePath(stack[i - 1])
    BY <2>1 DEF StackInv
  <2> QED
    BY <2>2, <2>3 DEF FramePath
<1> QED
  BY <1>2, <1>3, <1>4

LEMMA StackStep ==
    ASSUME SeqType, FramesInv, SetInv, StackInv, Seq1!SeqStep
    PROVE  SetInv' /\ StackInv'
<1>1. CASE Seq1!SeqVisit
  <2>1. /\ stack[1] \in Frame /\ Len(stack) \in Nat \ {0} /\ 1 \in 1..Len(stack)
        /\ SkipRoot \in BOOLEAN /\ TypeOK
    BY <1>1, VisitCases, OptionAssumption DEF SeqType
  <2>2. /\ stack[1].cid \in Cids /\ stack[1].depth \in Nat
        /\ AtDepth(stack[1].cid, stack[1].depth)
    BY <2>1 DEF Frame, StackInv, FramePath
  <2>3. CASE set' = set /\ Moved("links", <<>>)
    BY <2>1, <2>3, DepthQuiet, MovedPath
  <2>4. CASE /\ ~ (SkipRoot /\ stack[1].depth = 0)
             /\ Visits(set, stack[1].cid, stack[1].depth)
             /\ set' = [set EXCEPT ![stack[1].cid] = stack[1].depth]
             /\ Moved("links", <<>>)
    <3>1. SkipRoot => stack[1].depth > 0
      BY <2>2, <2>4
    <3>2. SetInv' /\ \A e, f : AtDepth(e, f) => AtDepth(e, f)'
      BY <2>1, <2>2, <2>4, <3>1, VisitDepth
    <3> QED
      BY <2>1, <2>4, <3>2, MovedPath
  <2>5. CASE set' = set /\ Popped
    BY <2>1, <2>5, DepthQuiet, PoppedPath
  <2> QED
    BY <1>1, <2>3, <2>4, <2>5, VisitCases
<1>2. CASE Seq1!SeqGetLinks
  <2>1. Len(stack) \in Nat \ {0} /\ set' = set
    BY <1>2, GetLinksCases
  <2>2. SetInv' /\ \A e, f : AtDepth(e, f) => AtDepth(e, f)'
    BY <2>1, DepthQuiet
  <2>3. CASE stack[1].cid \notin Missing /\ Moved("range", Links[stack[1].cid])
    BY <2>1, <2>2, <2>3, MovedPath
  <2>4. CASE Moved("range", <<>>)
    BY <2>1, <2>2, <2>4, MovedPath
  <2>5. CASE stack' = <<>>
    BY <2>2, <2>5 DEF StackInv
  <2> QED
    BY <1>2, <2>3, <2>4, <2>5, GetLinksCases
<1>3. CASE Seq1!SeqRange
  <2>1. Len(stack) \in Nat \ {0} /\ set' = set /\ stack[1].at = "range"
    BY <1>3, RangeCases
  <2>2. SetInv' /\ \A e, f : AtDepth(e, f) => AtDepth(e, f)'
    BY <2>1, DepthQuiet
  <2> QED
    BY <1>3, <2>1, <2>2, RangeCases, PoppedPath, PushedPath
<1> QED
  BY <1>1, <1>2, <1>3 DEF Seq1!SeqStep

LEMMA InitDepthInv == WalkDepthInit => DepthInv
<1> SUFFICES ASSUME WalkDepthInit PROVE DepthInv
  OBVIOUS
<1>1. AtDepth(Root, 0)
  BY RootReached DEF AtDepth
<1>2. SetInv
  BY DagAssumption DEF WalkDepthInit, Init, SetInv
<1>3. PathInv
  <2>1. /\ next = [cid |-> Root, depth |-> 0] /\ todoQueue = <<>>
        /\ \A w \in Workers : pc[w] = "recv"
    BY DEF WalkDepthInit, Init
  <2>2. \A t : Queued(t) => t.cid = Root /\ t.depth = 0
    BY <2>1 DEF Queued
  <2> QED
    BY <1>1, <2>1, <2>2 DEF PathInv, Active
<1>4. StackInv
  <2>1. PICK f : f = Seq1!Call(Root, 0)
    OBVIOUS
  <2>2. f.cid = Root /\ f.depth = 0 /\ f.at = "visit"
    BY <2>1 DEF Seq1!Call
  <2>3. stack = <<f>>
    BY <2>1 DEF WalkDepthInit, Seq1!SeqInit
  <2>4. \A i \in 1..Len(stack) : stack[i] = f
    BY <2>3
  <2> QED
    BY <1>1, <2>2, <2>4 DEF StackInv, FramePath
<1> QED
  BY <1>2, <1>3, <1>4 DEF DepthInv

LEMMA NextDepthInv == WalkInv /\ DepthInv /\ [WalkDepthNext]_walkDepthVars => DepthInv'
<1> SUFFICES ASSUME WalkInv, DepthInv, [WalkDepthNext]_walkDepthVars PROVE DepthInv'
  OBVIOUS
<1>0. /\ Parallel' <=> Parallel
      /\ Parallel => [Next]_vars
      /\ ~ Parallel => Seq1!SeqStep \/ UNCHANGED <<set, stack>>
  BY ChoiceStep, Zenon
<1>1. CASE Parallel
  <2>1. SetInv' /\ PathInv'
    BY <1>0, <1>1, PathStep DEF WalkInv, DepthInv, IInv
  <2> QED
    BY <1>0, <1>1, <2>1 DEF DepthInv
<1>2. CASE ~ Parallel
  <2>1. SetInv /\ StackInv
    BY <1>2 DEF DepthInv
  <2>2. CASE Seq1!SeqStep
    <3>1. SeqType /\ FramesInv
      BY <1>2 DEF WalkInv, SeqInv
    <3>2. SetInv' /\ StackInv'
      BY <2>1, <2>2, <3>1, StackStep
    <3> QED
      BY <1>0, <1>2, <3>2 DEF DepthInv
  <2>3. CASE UNCHANGED <<set, stack>>
    <3>1. SetInv' /\ \A e, f : AtDepth(e, f) => AtDepth(e, f)'
      BY <2>1, <2>3, DepthQuiet
    <3>2. StackInv'
      BY <2>1, <2>3, <3>1 DEF StackInv, FramePath
    <3> QED
      BY <1>0, <1>2, <3>1, <3>2 DEF DepthInv
  <2> QED
    BY <1>0, <1>2, <2>2, <2>3
<1> QED
  BY <1>1, <1>2

(* After a complete walk nothing on a path of n links is deeper than its     *)
(* place on the path: a first node that were would be a link of one that is  *)
(* not.                                                                      *)
LEMMA PathBound ==
    ASSUME TypeOK, SetInv, DW!Complete, DepthLim >= 0, ignored \subseteq Missing,
           NEW x \in Cids, NEW n \in 0..DepthLim, Reaches(x, n), SkipRoot => n > 0
    PROVE  set[x] # NotSeen /\ set[x] <= n
<1>0. /\ NotSeen = -1 /\ DW!NotSeen = -1 /\ set \in [Cids -> Nat \cup {-1}] /\ DepthLim \in Int
      /\ n \in Nat /\ n <= DepthLim /\ SkipRoot \in BOOLEAN /\ Root \in Cids
  BY SameDag, OptionAssumption, DagAssumption DEF TypeOK
<1>1. PICK p \in [0..n -> Cids] :
         /\ p[0] = Root /\ p[n] = x
         /\ \A i \in 0..n - 1 : p[i] \notin Missing /\ p[i + 1] \in LinkSet(p[i])
  BY DEF Reaches
<1> DEFINE Good(i) == /\ DW!Expanded(p[i]) /\ DW!DepthOf(p[i]) <= i
                      /\ i > 0 \/ ~ SkipRoot => set[p[i]] # -1 /\ set[p[i]] <= i
<1> DEFINE T == {i \in 0..n : ~ Good(i)}
<1>2. Good(0)
  BY <1>0, <1>1 DEF DW!Complete, DW!Seen, DW!Expanded, DW!DepthOf, SetInv
<1>3. ASSUME NEW m \in 1..n, Good(m - 1) PROVE Good(m)
  <2>1. m - 1 \in 0..n - 1 /\ (m - 1) + 1 = m /\ m - 1 \in 0..n /\ m \in 0..n /\ m <= DepthLim
    BY <1>0
  <2>2. p[m - 1] \in Cids \ ignored /\ p[m] \in LinkSet(p[m - 1]) /\ p[m] \in Cids
    BY <1>1, <2>1
  <2>3. DW!Expanded(p[m - 1]) /\ DW!DepthOf(p[m - 1]) <= m - 1
    BY <1>3
  <2>4. DW!DepthOf(p[m - 1]) \in Nat
    BY <2>2, <2>3, DepthType
  <2>5. DW!WithinLimit(DW!DepthOf(p[m - 1]) + 1)
    BY <1>0, <2>1, <2>3, <2>4 DEF DW!WithinLimit
  <2>6. DW!Satisfied(p[m], DW!DepthOf(p[m - 1]) + 1)
    BY <2>2, <2>3, <2>5, SameDag DEF DW!Complete
  <2>7. set[p[m]] # -1 /\ set[p[m]] <= m /\ set[p[m]] \in Nat
    BY <1>0, <2>1, <2>2, <2>3, <2>4, <2>6 DEF DW!Satisfied, DW!Seen
  <2>8. DW!Expanded(p[m]) /\ DW!DepthOf(p[m]) <= m
    BY <1>0, <2>1, <2>7 DEF DW!Expanded, DW!Seen, DW!DepthOf
  <2> QED
    BY <2>7, <2>8
<1> HIDE DEF Good
<1>4. Good(n)
  <2> SUFFICES ASSUME T # {} PROVE FALSE
    BY <1>0
  <2>1. T \subseteq Nat
    BY <1>0
  <2>2. PICK m \in T : \A y \in T : m <= y
    BY <2>1, LeastNat
  <2>3. m \in 0..n /\ ~ Good(m)
    BY <2>2
  <2>4. m \in 1..n
    BY <1>0, <1>2, <2>3
  <2>5. m - 1 \in 0..n /\ ~ (m <= m - 1)
    BY <1>0, <2>4
  <2>6. Good(m - 1)
    BY <2>2, <2>5
  <2> QED
    BY <1>3, <2>3, <2>4, <2>6
<1> QED
  BY <1>0, <1>1, <1>4 DEF Good

LEMMA CompleteIsExact ==
    ASSUME TypeOK, SetInv, DW!Complete, DepthLim >= 0, ignored \subseteq Missing, NEW x \in Cids
    PROVE  set[x] = ReferenceDepth(x)
<1> DEFINE ns == {n \in 0..DepthLim : Reaches(x, n) /\ (SkipRoot => n > 0)}
<1>0. NotSeen = -1 /\ set[x] \in Nat \cup {-1} /\ DepthLim \in Int
  BY SameDag, OptionAssumption DEF TypeOK
<1>1. \A n \in ns : set[x] # NotSeen /\ set[x] <= n
  BY PathBound
<1>2. set[x] # NotSeen => set[x] \in ns
  BY <1>0 DEF SetInv
<1>3. ns \subseteq Nat
  BY <1>0
<1>4. ReferenceDepth(x) = IF ns = {} THEN NotSeen ELSE CHOOSE n \in ns : \A m \in ns : n <= m
  BY DEF ReferenceDepth
<1> HIDE DEF ns
<1>5. CASE set[x] = NotSeen
  BY <1>1, <1>4, <1>5
<1>6. CASE set[x] # NotSeen
  <2>1. set[x] \in ns /\ \A m \in ns : set[x] <= m
    BY <1>1, <1>2, <1>6
  <2>2. PICK k : k = CHOOSE n \in ns : \A m \in ns : n <= m
    OBVIOUS
  <2>3. k \in ns /\ \A m \in ns : k <= m
    BY <2>1, <2>2
  <2>4. k = set[x]
    BY <1>0, <1>3, <2>1, <2>3
  <2> QED
    BY <1>4, <2>1, <2>2, <2>4
<1> QED
  BY <1>5, <1>6

(* FetchGraphWithDepthLimit's map after a walk that returned nil: every CID  *)
(* within the limit has its distance from the root and no other CID is       *)
(* there, for every DAG, any number of workers and any order they report in; *)
(* so parallelWalkDepth and sequentialWalkDepth fetch the same nodes.        *)
THEOREM DepthsAreExact == WalkDepthSpec => []DepthsExact
<1>1. WalkInv /\ DepthInv => DepthsExact
  <2> SUFFICES ASSUME WalkInv, DepthInv, WalkResult = "nil", DepthLim >= 0,
                      ignored \subseteq Missing, NEW x \in Cids
               PROVE  set[x] = ReferenceDepth(x)
    BY Zenon DEF DepthsExact
  <2>1. DW!Complete
    <3>1. CASE Parallel
      BY <3>1, NilIsComplete DEF WalkInv, WalkResult, Result
    <3>2. CASE ~ Parallel
      <4>1. Seq1!SeqResult = "nil"
        BY <3>2 DEF WalkResult
      <4>2. seqval = "nil"
        BY <4>1, SeqResults
      <4> QED
        BY <3>2, <4>2, SeqNilIsComplete DEF NilComplete
    <3> QED
      BY <3>1, <3>2
  <2>2. TypeOK /\ SetInv
    BY DEF WalkInv, IInv, BInv, SeqInv, SeqType, DepthInv
  <2> QED
    BY <2>1, <2>2, CompleteIsExact
<1> QED
  BY <1>1, InitDepthInv, NextDepthInv, AlwaysWalkInv, PTL DEF WalkDepthSpec
-----------------------------------------------------------------------------
(* Until WalkDepth returns, the walk it has chosen can go on: a goroutine of *)
(* parallelWalkDepth, or the innermost activation of sequentialWalkDepth.    *)
WalkMoves ==
    WalkResult = "running" =>
        IF Parallel
          THEN MainCanStep \/ \E w \in Workers : WorkerCanStep(w)
          ELSE Seq1!At("visit") \/ Seq1!At("links") \/ Seq1!At("range")

(* WalkDepth never blocks itself, whichever walk it chooses, for every DAG,  *)
(* depth limit, option and number of workers: what is left of                *)
(* WalkDepthReturns is the fairness of the scheduler and that the work ends. *)
THEOREM WalkDepthNeverStuck == WalkDepthSpec => []WalkMoves
<1> DEFINE PLoop == Parallel => LoopInv
<1>1. WalkDepthInit => PLoop
  BY LoopInit DEF WalkDepthInit
<1>2. ASSUME WalkInv, PLoop, [WalkDepthNext]_walkDepthVars PROVE PLoop'
  <2>1. CASE Parallel
    <3>1. [Next]_vars /\ Parallel' /\ BInv
      BY <1>2, <2>1, ChoiceStep DEF WalkInv, IInv
    <3> QED
      BY <1>2, <2>1, <3>1, LoopStep
  <2>2. CASE ~ Parallel
    <3>1. ~ Parallel'
      BY <1>2, <2>2, ChoiceStep
    <3> QED
      BY <3>1
  <2> QED
    BY <2>1, <2>2
<1>3. ASSUME WalkInv, PLoop PROVE WalkMoves
  <2>1. CASE Parallel
    <3>1. SomeoneMoves
      BY <1>3, <2>1, MovesFromInv DEF WalkInv, IInv
    <3> QED
      BY <2>1, <3>1 DEF WalkMoves, WalkResult, Result, SomeoneMoves
  <2>2. CASE ~ Parallel
    <3> SUFFICES ASSUME WalkResult = "running"
                 PROVE  Seq1!At("visit") \/ Seq1!At("links") \/ Seq1!At("range")
      BY <2>2 DEF WalkMoves
    <3>1. SeqType
      BY <1>3, <2>2 DEF WalkInv, SeqInv
    <3>2. seqval = "none"
      BY <2>2, <3>1, Zenon DEF WalkResult, Seq1!SeqResult, SeqType
    <3>3. stack # <<>> /\ Head(stack) \in Frame
      BY <3>1, <3>2 DEF SeqType
    <3> QED
      BY <3>3 DEF Seq1!At, Seq1!Top, Frame
  <2> QED
    BY <2>1, <2>2
<1> QED
  BY <1>1, <1>2, <1>3, AlwaysWalkInv, PTL DEF WalkDepthSpec
=============================================================================
