------------------------- MODULE ParallelWalkProofs -------------------------
(***************************************************************************)
(* ParallelWalk keeps its safety invariants and implements DagWalk, for     *)
(* every DAG, every option and any number of workers.                       *)
(***************************************************************************)
EXTENDS ParallelWalk, FiniteSetTheorems, TLAPS

Queued(t) == next = t \/ \E k \in 1..Len(todoQueue) : todoQueue[k] = t

BeforeVisit(w, t) == pc[w] \in {"lock", "visit"} /\ task[w] = t

(* t waits for its visit: in the coordinator or in a worker.                 *)
Pending(t) == Queued(t) \/ \E w \in Workers : BeforeVisit(w, t)

Fetching(w) == pc[w] \in {"links", "err", "out"}

(* The workers a CID is under way in; one that returned early keeps its own. *)
Holding == {w \in Workers : Defined(task[w])}

(* The mutex visitlk belongs to the worker inside visit.                     *)
LockInv ==
    /\ \A w \in Workers : w \in visitlk <=> pc[w] = "visit"
    /\ \A v, w \in visitlk : v = w

(* The coordinator's program counter, its return value and its count.        *)
MainInv ==
    /\ mainPc = "loop" <=> retval = "none"
    /\ retval = "nil" => Holding = {} /\ ~ Defined(next)
    /\ mainPc = "returned" => \A w \in Workers : pc[w] = "exited"
    /\ inProgress >= Cardinality(Holding)

(* What an idle and a failed worker hold.                                    *)
WorkerInv ==
    /\ \A w \in Workers : pc[w] = "recv" => task[w] = ZeroTask
    /\ \A w \in Workers : pc[w] = "err" => errval[w] # "nil"

(* Whatever waits for its visit is linked to, and whatever is being fetched  *)
(* has been visited at that depth or higher up.                              *)
TaskInv ==
    /\ \A t \in Task : Defined(t) /\ Pending(t) => DW!Linked(t.cid, t.depth)
    /\ \A w \in Workers : Fetching(w) =>
          DW!Expanded(task[w].cid) /\ DW!DepthOf(task[w].cid) <= task[w].depth
    /\ \A w \in Workers : pc[w] = "out" =>
          \/ links[w] = Links[task[w].cid]
          \/ links[w] = <<>> /\ task[w].cid \in ignored

(* A visit of l waits that is due to c, or as good.                          *)
Waits(c, l) ==
    \E t \in Task : /\ Pending(t) /\ t.cid = l
                    /\ DepthLim < 0 \/ t.depth <= DW!DepthOf(c) + 1
                    /\ ~ (SkipRoot /\ t.depth = 0)

(* A worker is still to deliver the links of c, or left with them.           *)
Carried(c) ==
    \E w \in Workers : /\ pc[w] \in {"links", "err", "out", "exited"}
                       /\ task[w].cid = c
                       /\ DepthLim < 0 \/ task[w].depth <= DW!DepthOf(c)

RootNext == next = [cid |-> Root, depth |-> 0]

(* The link l of c is, or will be, visited at a depth of at most one more    *)
(* than c's: it was, it waits for its visit, or it is among the links a      *)
(* worker is still to deliver (or took with it when it returned).            *)
Covered(c, l) ==
    \/ DW!Satisfied(l, DW!DepthOf(c) + 1)
    \/ Waits(c, l)
    \/ Carried(c)
    \/ SkipRoot /\ c = Root /\ RootNext

CoverInv ==
    /\ SkipRoot \/ DW!Seen(Root) \/ Pending([cid |-> Root, depth |-> 0])
    /\ \A c \in Cids \ ignored :
          DW!Expanded(c) /\ DW!WithinLimit(DW!DepthOf(c) + 1) =>
              \A l \in LinkSet(c) : Covered(c, l)

BInv == TypeOK /\ NothingStranded /\ LockInv /\ WorkerInv /\ MainInv

IInv == BInv /\ TaskInv /\ CoverInv
-----------------------------------------------------------------------------
LEMMA CidDepthsType ==
    ASSUME NEW ls \in Seq(Cids), NEW n \in Nat
    PROVE  /\ CidDepths(ls, n) \in Seq(Task)
           /\ Len(CidDepths(ls, n)) = Len(ls)
           /\ \A k \in 1..Len(ls) : CidDepths(ls, n)[k] = [cid |-> ls[k], depth |-> n]
<1>1. Len(ls) \in Nat /\ \A k \in 1..Len(ls) : ls[k] \in Cids
  OBVIOUS
<1>2. \A k \in 1..Len(ls) : [cid |-> ls[k], depth |-> n] \in Task
  BY <1>1 DEF Task
<1> QED
  BY <1>1, <1>2 DEF CidDepths

LEMMA ZeroTaskType == ZeroTask \in Task /\ ~ Defined(ZeroTask)
BY DEF ZeroTask, Task, Defined

LEMMA RootTaskType == [cid |-> Root, depth |-> 0] \in Task
BY DagAssumption DEF Task

LEMMA TypeInit == Init => TypeOK
<1> SUFFICES ASSUME Init PROVE TypeOK
  OBVIOUS
<1>1. set \in [Cids -> Nat \cup {NotSeen}]
  BY DEF Init
<1>2. links \in [Workers -> Seq(Cids)] /\ todoQueue \in Seq(Task)
  BY DEF Init
<1>3. task \in [Workers -> Task] /\ next \in Task
  BY ZeroTaskType, RootTaskType DEF Init
<1>4. pc \in [Workers -> PcValues] /\ errval \in [Workers -> {"nil", "notfound", "ctx"}]
  BY DEF Init, PcValues
<1>5. send \in BOOLEAN /\ ctxDone \in BOOLEAN
  BY DEF Init
<1>6. /\ ignored \subseteq Cids /\ callbacks \subseteq Cids /\ visitlk \subseteq Workers
      /\ mainPc \in {"loop", "closefeed", "cancel", "wait", "returned"}
      /\ inProgress \in Int
      /\ retval \in {"none", "nil", "notfound", "ctx"}
  BY DEF Init
<1> QED
  BY <1>1, <1>2, <1>3, <1>4, <1>5, <1>6 DEF TypeOK

(* What ReceiveOut does to the queue: nothing that waits is lost, and exactly *)
(* the links of the worker are added.                                        *)
LEMMA OutEffect ==
    ASSUME TypeOK, NothingStranded, NEW w \in Workers, ReceiveOut(w),
           NEW cds, cds = CidDepths(links[w], task[w].depth + 1)
    PROVE  /\ cds \in Seq(Task) /\ Len(cds) = Len(links[w])
           /\ next' \in Task /\ todoQueue' \in Seq(Task) /\ send' \in BOOLEAN
           /\ \A t \in Task : Defined(t) /\ Queued(t) => Queued(t)'
           /\ \A t \in Task : Queued(t)' => Queued(t) \/ \E k \in 1..Len(cds) : t = cds[k]
           /\ \A k \in 1..Len(cds) : Queued(cds[k])'
           /\ send' <=> Defined(next')
           /\ ~ Defined(next') => todoQueue' = <<>>
           /\ \A k \in 1..Len(todoQueue') : Defined(todoQueue'[k])
<1>1. /\ task[w].depth + 1 \in Nat
      /\ links[w] \in Seq(Cids)
  BY DEF TypeOK, Task
<1>2. /\ cds \in Seq(Task) /\ Len(cds) = Len(links[w])
      /\ \A k \in 1..Len(cds) : Defined(cds[k])
  <2>0. /\ cds \in Seq(Task) /\ Len(cds) = Len(links[w])
        /\ \A k \in 1..Len(links[w]) : cds[k] = [cid |-> links[w][k], depth |-> task[w].depth + 1]
    BY <1>1, CidDepthsType
  <2>1. ASSUME NEW k \in 1..Len(cds) PROVE Defined(cds[k])
    <3>1. k \in 1..Len(links[w])
      BY <2>0
    <3>2. links[w][k] \in Cids
      BY <1>1, <3>1
    <3>3. cds[k] = [cid |-> links[w][k], depth |-> task[w].depth + 1]
      BY <2>0, <3>1
    <3>4. cds[k].cid = links[w][k]
      BY <3>3
    <3> QED
      BY <3>2, <3>4, DagAssumption DEF Defined
  <2> QED
    BY <2>0, <2>1
<1>3. todoQueue \in Seq(Task) /\ next \in Task /\ send \in BOOLEAN
  BY DEF TypeOK
<1>4. CASE ~ Defined(next) /\ cds # << >>
  <2>1. next' = Head(cds) /\ send' = TRUE /\ todoQueue' = todoQueue \o Tail(cds)
    BY <1>4 DEF ReceiveOut
  <2>2. todoQueue = << >>
    BY <1>4 DEF NothingStranded
  <2>3. /\ Len(cds) \in Nat \ {0} /\ Head(cds) = cds[1]
        /\ Tail(cds) \in Seq(Task) /\ Len(Tail(cds)) = Len(cds) - 1
        /\ \A k \in 1..(Len(cds) - 1) : Tail(cds)[k] = cds[k + 1]
    BY <1>2, <1>4
  <2>4. /\ todoQueue' \in Seq(Task) /\ Len(todoQueue') = Len(cds) - 1
        /\ \A k \in 1..(Len(cds) - 1) : todoQueue'[k] = cds[k + 1]
    BY <2>1, <2>2, <2>3
  <2>5. next' = cds[1] /\ next' \in Task /\ Defined(next')
    <3>1. next' = cds[1]
      BY <2>1, <2>3
    <3>2. 1 \in 1..Len(cds)
      BY <2>3
    <3>3. cds[1] \in Task
      BY <1>2, <3>2
    <3>4. Defined(cds[1])
      BY <1>2, <3>2
    <3> QED
      BY <3>1, <3>3, <3>4
  <2>6. \A t \in Task : Defined(t) => ~ Queued(t)
    BY <1>4, <2>2 DEF Queued
  <2>7. \A k \in 1..Len(cds) : Queued(cds[k])'
    <3> SUFFICES ASSUME NEW k \in 1..Len(cds)
                 PROVE  next' = cds[k] \/ \E j \in 1..Len(todoQueue') : todoQueue'[j] = cds[k]
      BY DEF Queued
    <3>1. CASE k = 1
      BY <2>5, <3>1
    <3>2. CASE k # 1
      <4>1. k - 1 \in 1..(Len(cds) - 1) /\ (k - 1) + 1 = k
        BY <2>3, <3>2
      <4> QED
        BY <2>4, <4>1
    <3> QED
      BY <3>1, <3>2
  <2>8. \A t \in Task : Queued(t)' => \E k \in 1..Len(cds) : t = cds[k]
    <3>1. 1 \in 1..Len(cds) /\ \A k \in 1..(Len(cds) - 1) : k + 1 \in 1..Len(cds)
      BY <2>3
    <3> QED
      BY <2>4, <2>5, <3>1 DEF Queued
  <2>9. \A k \in 1..Len(todoQueue') : Defined(todoQueue'[k])
    <3>1. \A k \in 1..(Len(cds) - 1) : k + 1 \in 1..Len(cds)
      BY <2>3
    <3> QED
      BY <1>2, <2>4, <3>1
  <2> QED
    BY <1>2, <2>1, <2>4, <2>5, <2>6, <2>7, <2>8, <2>9
<1>5. CASE ~ (~ Defined(next) /\ cds # << >>)
  <2>1. next' = next /\ send' = send /\ todoQueue' = todoQueue \o cds
    BY <1>5 DEF ReceiveOut
  <2>2. /\ todoQueue' \in Seq(Task) /\ Len(todoQueue') = Len(todoQueue) + Len(cds)
        /\ \A k \in 1..Len(todoQueue) : todoQueue'[k] = todoQueue[k]
        /\ \A k \in 1..Len(cds) : todoQueue'[Len(todoQueue) + k] = cds[k]
        /\ \A k \in (Len(todoQueue) + 1)..Len(todoQueue') : todoQueue'[k] = cds[k - Len(todoQueue)]
    BY <1>2, <1>3, <2>1
  <2>3. /\ Len(todoQueue) \in Nat /\ Len(cds) \in Nat
        /\ \A k \in 1..Len(todoQueue) : k \in 1..Len(todoQueue')
        /\ \A k \in 1..Len(cds) : Len(todoQueue) + k \in 1..Len(todoQueue')
        /\ \A k \in 1..Len(todoQueue') :
              \/ k \in 1..Len(todoQueue)
              \/ /\ k \in (Len(todoQueue) + 1)..Len(todoQueue')
                 /\ k - Len(todoQueue) \in 1..Len(cds)
    BY <1>2, <1>3, <2>2
  <2>4. \A t \in Task : Queued(t) => Queued(t)'
    BY <2>1, <2>2, <2>3 DEF Queued
  <2>5. \A k \in 1..Len(cds) : Queued(cds[k])'
    BY <2>2, <2>3 DEF Queued
  <2>6. \A t \in Task : Queued(t)' => Queued(t) \/ \E k \in 1..Len(cds) : t = cds[k]
    BY <2>1, <2>2, <2>3 DEF Queued
  <2>7. \A k \in 1..Len(todoQueue') : Defined(todoQueue'[k])
    BY <1>2, <2>2, <2>3 DEF NothingStranded
  <2>8. ~ Defined(next') => todoQueue' = << >>
    <3> SUFFICES ASSUME ~ Defined(next) PROVE todoQueue' = << >>
      BY <2>1
    <3>1. todoQueue = << >> /\ cds = << >>
      BY <1>5 DEF NothingStranded
    <3> QED
      BY <2>1, <3>1
  <2>9. send' <=> Defined(next')
    BY <2>1 DEF NothingStranded
  <2> QED
    BY <1>2, <1>3, <2>1, <2>2, <2>4, <2>5, <2>6, <2>7, <2>8, <2>9
<1> QED
  BY <1>4, <1>5

(* What Feed does to the queue: it takes next, and only next, off it.        *)
LEMMA FeedEffect ==
    ASSUME TypeOK, NothingStranded, NEW w \in Workers, Feed(w)
    PROVE  /\ Defined(next)
           /\ next' \in Task /\ todoQueue' \in Seq(Task) /\ send' \in BOOLEAN
           /\ \A t \in Task : Defined(t) /\ Queued(t) => t = next \/ Queued(t)'
           /\ \A t \in Task : Defined(t) /\ Queued(t)' => Queued(t)
           /\ send' <=> Defined(next')
           /\ ~ Defined(next') => todoQueue' = <<>>
           /\ \A k \in 1..Len(todoQueue') : Defined(todoQueue'[k])
<1>1. todoQueue \in Seq(Task) /\ Defined(next)
  BY DEF TypeOK, Feed, NothingStranded
<1>2. CASE todoQueue # << >>
  <2>1. next' = Head(todoQueue) /\ todoQueue' = Tail(todoQueue) /\ send' = send
    BY <1>2 DEF Feed
  <2>2. /\ Len(todoQueue) \in Nat \ {0} /\ Head(todoQueue) = todoQueue[1]
        /\ todoQueue[1] \in Task
        /\ Tail(todoQueue) \in Seq(Task) /\ Len(Tail(todoQueue)) = Len(todoQueue) - 1
        /\ \A k \in 1..(Len(todoQueue) - 1) : Tail(todoQueue)[k] = todoQueue[k + 1]
    BY <1>1, <1>2
  <2>3. /\ 1 \in 1..Len(todoQueue)
        /\ \A k \in 1..(Len(todoQueue) - 1) : k + 1 \in 1..Len(todoQueue)
        /\ \A k \in 1..Len(todoQueue) : k = 1 \/ (k - 1 \in 1..(Len(todoQueue) - 1) /\ (k - 1) + 1 = k)
    BY <2>2
  <2>4. \A t \in Task : Queued(t) => t = next \/ Queued(t)'
    BY <2>1, <2>2, <2>3 DEF Queued
  <2>5. \A t \in Task : Queued(t)' => Queued(t)
    BY <2>1, <2>2, <2>3 DEF Queued
  <2>6. Defined(next') /\ \A k \in 1..Len(todoQueue') : Defined(todoQueue'[k])
    BY <2>1, <2>2, <2>3 DEF NothingStranded
  <2>7. send' /\ send' \in BOOLEAN
    BY <2>1 DEF Feed, TypeOK
  <2> QED
    BY <1>1, <2>1, <2>2, <2>4, <2>5, <2>6, <2>7
<1>3. CASE todoQueue = << >>
  <2>1. next' = ZeroTask /\ todoQueue' = << >> /\ send' = FALSE
    BY <1>3 DEF Feed
  <2>2. Len(todoQueue') = 0 /\ Len(todoQueue) = 0 /\ todoQueue' \in Seq(Task)
    BY <1>3, <2>1
  <2>3. \A t \in Task : Queued(t) => t = next
    BY <2>2 DEF Queued
  <2>4. \A t \in Task : Defined(t) => ~ Queued(t)'
    BY <2>1, <2>2, ZeroTaskType DEF Queued
  <2>5. next' \in Task /\ ~ Defined(next') /\ ~ send' /\ send' \in BOOLEAN
    BY <2>1, ZeroTaskType
  <2>6. \A k \in 1..Len(todoQueue') : Defined(todoQueue'[k])
    BY <2>2
  <2> QED
    BY <1>1, <2>1, <2>2, <2>3, <2>4, <2>5, <2>6
<1> QED
  BY <1>2, <1>3

LEMMA TypeStep == TypeOK /\ NothingStranded /\ [Next]_vars => TypeOK'
<1> SUFFICES ASSUME TypeOK, NothingStranded, [Next]_vars PROVE TypeOK'
  OBVIOUS
<1> USE DEF TypeOK, PcValues
<1>1. ASSUME NEW w \in Workers, Feed(w) PROVE TypeOK'
  <2>2. next' \in Task /\ todoQueue' \in Seq(Task) /\ send' \in BOOLEAN
    BY <1>1, FeedEffect
  <2>3. task' \in [Workers -> Task] /\ pc' \in [Workers -> PcValues]
    BY <1>1 DEF Feed
  <2> QED
    BY <1>1, <2>2, <2>3 DEF Feed, walkVars
<1>2. ASSUME NEW w \in Workers, LockVisit(w) PROVE TypeOK'
  BY <1>2 DEF LockVisit, walkVars, mainVars
<1>3. ASSUME NEW w \in Workers, CallVisit(w) PROVE TypeOK'
  BY <1>3 DEF CallVisit, mainVars, Task, NothingStranded, Defined
<1>4. ASSUME NEW w \in Workers, CallGetLinks(w) PROVE TypeOK'
  <2>1. task[w].cid \in Cids
    BY <1>4 DEF CallGetLinks, NothingStranded, Defined, Task
  <2>2. Links[task[w].cid] \in Seq(Cids) /\ << >> \in Seq(Cids)
    BY <2>1, DagAssumption
  <2>3. PICK err \in {"nil", "notfound", "ctx"} :
          LET left == IF err = "nil" THEN "nil" ELSE ErrorHandler(err) IN
          /\ callbacks' = callbacks \cup MissingCallback(Root, err)
          /\ errval' = [errval EXCEPT ![w] = left]
          /\ links' = [links EXCEPT ![w] = IF err = "nil" THEN Links[task[w].cid] ELSE <<>>]
          /\ ignored' = IF err # "nil" /\ left = "nil"
                          THEN ignored \cup {task[w].cid} ELSE ignored
          /\ pc' = [pc EXCEPT ![w] = IF left = "nil" THEN "out" ELSE "err"]
    BY <1>4 DEF CallGetLinks, GetLinksErrors
  <2>4. ErrorHandler(err) \in {"nil", "notfound", "ctx"}
    BY OptionAssumption DEF ErrorHandler
  <2>5. MissingCallback(Root, err) \subseteq Cids
    BY DagAssumption DEF MissingCallback
  <2>6. errval' \in [Workers -> {"nil", "notfound", "ctx"}]
    BY <2>3, <2>4
  <2>7. links' \in [Workers -> Seq(Cids)]
    BY <2>2, <2>3
  <2>8. ignored' \subseteq Cids /\ callbacks' \subseteq Cids
    BY <2>1, <2>3, <2>5
  <2>9. pc' \in [Workers -> PcValues]
    BY <2>3
  <2> QED
    BY <1>4, <2>6, <2>7, <2>8, <2>9 DEF CallGetLinks, mainVars
<1>5. ASSUME NEW w \in Workers, ReceiveOut(w) PROVE TypeOK'
  <2>4. next' \in Task /\ todoQueue' \in Seq(Task) /\ send' \in BOOLEAN
    BY <1>5, OutEffect
  <2>5. pc' \in [Workers -> PcValues]
    BY <1>5 DEF ReceiveOut
  <2>6. UNCHANGED <<walkVars, ctxDone, visitlk, task, links, errval,
                    mainPc, inProgress, retval>>
    BY <1>5 DEF ReceiveOut
  <2> QED
    BY <2>4, <2>5, <2>6 DEF walkVars
<1>6. ASSUME NEW w \in Workers, ReceiveDone(w) PROVE TypeOK'
  BY <1>6, ZeroTaskType DEF ReceiveDone, walkVars
<1>7. ASSUME NEW w \in Workers, ReceiveErr(w) PROVE TypeOK'
  BY <1>7 DEF ReceiveErr, walkVars
<1>8. ASSUME NEW w \in Workers, Abandon(w) \/ ExitWorker(w) PROVE TypeOK'
  BY <1>8 DEF Abandon, ExitWorker, walkVars, mainVars
<1>9. ASSUME NEW w \in Workers, SkipDone(w) PROVE TypeOK'
  BY <1>9, ZeroTaskType DEF SkipDone, walkVars, mainVars
<1>10. CASE MainStep
  BY <1>10 DEF MainStep, ReturnCtxErr, CloseFeed, CancelFetchers, WaitWorkers, walkVars, workerVars
<1>11. CASE CancelCtx
  BY <1>11 DEF CancelCtx, walkVars, mainVars, workerVars
<1>12. CASE Returned \/ UNCHANGED vars
  BY <1>12 DEF Returned, vars, walkVars, mainVars, workerVars
<1> QED
  BY <1>1, <1>2, <1>3, <1>4, <1>5, <1>6, <1>7, <1>8, <1>9, <1>10, <1>11, <1>12
     DEF Next, WorkerStep
-----------------------------------------------------------------------------
LEMMA StrandedStep == TypeOK /\ NothingStranded /\ [Next]_vars => NothingStranded'
<1> SUFFICES ASSUME TypeOK, NothingStranded, [Next]_vars PROVE NothingStranded'
  OBVIOUS
<1> DEFINE Carries(w) ==
      pc[w] \in {"lock", "visit", "links", "err", "out", "done"} => Defined(task[w])
<1>0. /\ pc \in [Workers -> PcValues] /\ task \in [Workers -> Task]
      /\ \A w \in Workers : Carries(w)
  BY DEF TypeOK, NothingStranded
<1>1. ASSUME NEW w \in Workers, Feed(w) PROVE NothingStranded'
  <2>1. \A v \in Workers : Carries(v)'
    BY <1>0, <1>1, FeedEffect DEF Feed
  <2> QED
    BY <1>1, <2>1, FeedEffect DEF NothingStranded
<1>2. ASSUME NEW w \in Workers, ReceiveOut(w) PROVE NothingStranded'
  <2>1. \A v \in Workers : Carries(v)'
    BY <1>0, <1>2 DEF ReceiveOut
  <2> QED
    BY <1>2, <2>1, OutEffect DEF NothingStranded
<1>3. ASSUME NEW w \in Workers,
             \/ LockVisit(w) \/ CallVisit(w) \/ CallGetLinks(w) \/ Abandon(w)
             \/ SkipDone(w) \/ ExitWorker(w) \/ ReceiveDone(w) \/ ReceiveErr(w)
      PROVE  NothingStranded'
  <2>1. \A v \in Workers : Carries(v)'
    BY <1>0, <1>3 DEF LockVisit, CallVisit, CallGetLinks, Abandon, SkipDone, ExitWorker,
                      ReceiveDone, ReceiveErr
  <2>2. UNCHANGED <<next, send, todoQueue>>
    BY <1>3 DEF LockVisit, CallVisit, CallGetLinks, Abandon, SkipDone, ExitWorker,
                ReceiveDone, ReceiveErr, mainVars
  <2> QED
    BY <2>1, <2>2 DEF NothingStranded
<1>4. CASE MainStep
  BY <1>4 DEF MainStep, ReturnCtxErr, CloseFeed, CancelFetchers, WaitWorkers,
              workerVars, NothingStranded
<1>5. CASE CancelCtx \/ Returned \/ UNCHANGED vars
  BY <1>5 DEF CancelCtx, Returned, vars, mainVars, workerVars, NothingStranded
<1> QED
  BY <1>1, <1>2, <1>3, <1>4, <1>5 DEF Next, WorkerStep

LEMMA LockStep == TypeOK /\ LockInv /\ [Next]_vars => LockInv'
<1> SUFFICES ASSUME TypeOK, LockInv, [Next]_vars PROVE LockInv'
  OBVIOUS
<1>0. pc \in [Workers -> PcValues] /\ visitlk \subseteq Workers
  BY DEF TypeOK
<1>1. ASSUME NEW w \in Workers, LockVisit(w) PROVE LockInv'
  BY <1>0, <1>1 DEF LockVisit, LockInv
<1>2. ASSUME NEW w \in Workers, CallVisit(w) PROVE LockInv'
  BY <1>0, <1>2 DEF CallVisit, LockInv
<1>3. ASSUME NEW w \in Workers, Feed(w) \/ CallGetLinks(w) \/ ReceiveOut(w)
      PROVE  LockInv'
  BY <1>0, <1>3 DEF Feed, CallGetLinks, ReceiveOut, LockInv
<1>4. ASSUME NEW w \in Workers,
             ReceiveDone(w) \/ ReceiveErr(w) \/ Abandon(w) \/ SkipDone(w) \/ ExitWorker(w)
      PROVE  LockInv'
  BY <1>0, <1>4 DEF ReceiveDone, ReceiveErr, Abandon, SkipDone, ExitWorker, LockInv
<1>5. CASE MainStep \/ CancelCtx \/ Returned \/ UNCHANGED vars
  BY <1>5 DEF MainStep, ReturnCtxErr, CloseFeed, CancelFetchers, WaitWorkers, CancelCtx,
              Returned, vars, workerVars, LockInv
<1> QED
  BY <1>1, <1>2, <1>3, <1>4, <1>5 DEF Next, WorkerStep

LEMMA WorkerStepInv == TypeOK /\ WorkerInv /\ [Next]_vars => WorkerInv'
<1> SUFFICES ASSUME TypeOK, WorkerInv, [Next]_vars PROVE WorkerInv'
  OBVIOUS
<1>0. /\ pc \in [Workers -> PcValues] /\ task \in [Workers -> Task]
      /\ errval \in [Workers -> {"nil", "notfound", "ctx"}]
  BY DEF TypeOK
<1>1. ASSUME NEW w \in Workers, Feed(w) \/ ReceiveDone(w) \/ SkipDone(w)
      PROVE  WorkerInv'
  BY <1>0, <1>1 DEF Feed, ReceiveDone, SkipDone, WorkerInv
<1>2. ASSUME NEW w \in Workers, CallGetLinks(w)
      PROVE  WorkerInv'
  <2>1. PICK left : /\ errval' = [errval EXCEPT ![w] = left]
                    /\ pc' = [pc EXCEPT ![w] = IF left = "nil" THEN "out" ELSE "err"]
                    /\ task' = task
    BY <1>2 DEF CallGetLinks
  <2> QED
    BY <1>0, <2>1 DEF WorkerInv
<1>3. ASSUME NEW w \in Workers,
             \/ LockVisit(w) \/ CallVisit(w) \/ ReceiveOut(w) \/ ReceiveErr(w)
             \/ Abandon(w) \/ ExitWorker(w)
      PROVE  WorkerInv'
  BY <1>0, <1>3 DEF LockVisit, CallVisit, ReceiveOut, ReceiveErr, Abandon, ExitWorker, WorkerInv
<1>4. CASE MainStep \/ CancelCtx \/ Returned \/ UNCHANGED vars
  BY <1>4 DEF MainStep, ReturnCtxErr, CloseFeed, CancelFetchers, WaitWorkers, CancelCtx,
              Returned, vars, workerVars, WorkerInv
<1> QED
  BY <1>1, <1>2, <1>3, <1>4 DEF Next, WorkerStep

(* The coordinator counts at least the CIDs that are under way: it returns   *)
(* nil only when there is none.  After a cancellation it may count more.     *)
LEMMA MainStepInv ==
    ASSUME TypeOK, NothingStranded, WorkerInv, MainInv, [Next]_vars
    PROVE  MainInv'
<1>0. /\ pc \in [Workers -> PcValues] /\ task \in [Workers -> Task]
      /\ inProgress \in Int
  BY DEF TypeOK
<1>1. IsFiniteSet(Holding) /\ Cardinality(Holding) \in Nat
  BY WorkerAssumption, FS_Subset, FS_CardinalityType DEF Holding
<1>2. ASSUME NEW w \in Workers, Feed(w) PROVE MainInv'
  <2>1. w \notin Holding /\ Holding' = Holding \cup {w}
    BY <1>0, <1>2, FeedEffect, ZeroTaskType DEF Feed, Holding, WorkerInv
  <2>2. Cardinality(Holding') = Cardinality(Holding) + 1
    BY <1>1, <2>1, FS_AddElement
  <2>3. inProgress' = inProgress + 1 /\ mainPc' = "loop" /\ mainPc = "loop" /\ retval' = retval
    BY <1>2 DEF Feed
  <2>4. inProgress' >= Cardinality(Holding')
    BY <1>0, <1>1, <2>2, <2>3 DEF MainInv
  <2> QED
    BY <2>3, <2>4 DEF MainInv
<1>3. ASSUME NEW w \in Workers, ReceiveDone(w) PROVE MainInv'
  <2>1. w \in Holding /\ Holding' = Holding \ {w}
    BY <1>0, <1>3, ZeroTaskType DEF ReceiveDone, Holding, NothingStranded
  <2>2. Cardinality(Holding') = Cardinality(Holding) - 1 /\ IsFiniteSet(Holding')
    BY <1>1, <2>1, FS_RemoveElement
  <2>3. inProgress' = inProgress - 1 /\ mainPc = "loop" /\ next' = next
    BY <1>3 DEF ReceiveDone
  <2>4. inProgress' >= Cardinality(Holding')
    BY <1>0, <1>1, <2>2, <2>3 DEF MainInv
  <2>5. CASE inProgress' = 0 /\ ~ Defined(next)
    <3>1. Cardinality(Holding') = 0
      BY <1>1, <2>2, <2>4, <2>5, FS_CardinalityType
    <3>2. Holding' = {}
      BY <2>2, <3>1, FS_EmptySet
    <3>3. mainPc' = "closefeed" /\ retval' = "nil"
      BY <1>3, <2>5 DEF ReceiveDone
    <3> QED
      BY <2>3, <2>4, <2>5, <3>2, <3>3 DEF MainInv
  <2>6. CASE ~ (inProgress' = 0 /\ ~ Defined(next))
    <3>1. mainPc' = mainPc /\ retval' = retval
      BY <1>3, <2>6 DEF ReceiveDone
    <3> QED
      BY <2>3, <2>4, <3>1 DEF MainInv
  <2> QED
    BY <2>5, <2>6
<1>4. ASSUME NEW w \in Workers, SkipDone(w) PROVE MainInv'
  <2>1. w \in Holding /\ Holding' = Holding \ {w}
    BY <1>0, <1>4, ZeroTaskType DEF SkipDone, Holding, NothingStranded
  <2>2. Cardinality(Holding') = Cardinality(Holding) - 1 /\ IsFiniteSet(Holding')
    BY <1>1, <2>1, FS_RemoveElement
  <2>3. UNCHANGED <<inProgress, mainPc, retval, next>>
    BY <1>4 DEF SkipDone, mainVars
  <2>4. mainPc # "returned"
    BY <1>4 DEF SkipDone, MainInv
  <2>5. inProgress' >= Cardinality(Holding')
    BY <1>0, <1>1, <2>2, <2>3 DEF MainInv
  <2> QED
    BY <2>1, <2>3, <2>4, <2>5 DEF MainInv
<1>5. ASSUME NEW w \in Workers, ReceiveErr(w) PROVE MainInv'
  <2>1. Holding' = Holding /\ inProgress' = inProgress
    BY <1>5 DEF ReceiveErr, Holding
  <2>2. mainPc' = "closefeed" /\ retval' # "nil" /\ retval' # "none"
    BY <1>5 DEF ReceiveErr, WorkerInv, TypeOK
  <2> QED
    BY <2>1, <2>2 DEF MainInv
<1>6. ASSUME NEW w \in Workers, ReceiveOut(w) PROVE MainInv'
  <2>1. Holding' = Holding /\ UNCHANGED <<inProgress, mainPc, retval>> /\ mainPc = "loop"
    BY <1>6 DEF ReceiveOut, Holding
  <2> QED
    BY <2>1 DEF MainInv
<1>7. ASSUME NEW w \in Workers,
             \/ LockVisit(w) \/ CallVisit(w) \/ CallGetLinks(w) \/ Abandon(w) \/ ExitWorker(w)
      PROVE  MainInv'
  <2>1. Holding' = Holding /\ UNCHANGED <<inProgress, mainPc, retval, next>>
    BY <1>7 DEF LockVisit, CallVisit, CallGetLinks, Abandon, ExitWorker, mainVars, Holding
  <2>2. pc[w] # "exited"
    BY <1>7 DEF LockVisit, CallVisit, CallGetLinks, Abandon, ExitWorker
  <2>3. mainPc # "returned"
    BY <2>2 DEF MainInv
  <2> QED
    BY <2>1, <2>3 DEF MainInv
<1>8. CASE ReturnCtxErr \/ CloseFeed \/ CancelFetchers \/ WaitWorkers
  <2>1. Holding' = Holding /\ UNCHANGED <<inProgress, next, pc>>
    BY <1>8 DEF ReturnCtxErr, CloseFeed, CancelFetchers, WaitWorkers, workerVars, Holding
  <2> QED
    BY <1>8, <2>1 DEF ReturnCtxErr, CloseFeed, CancelFetchers, WaitWorkers, MainInv
<1>9. CASE CancelCtx \/ Returned \/ UNCHANGED vars
  <2>1. Holding' = Holding /\ UNCHANGED <<inProgress, next, pc, mainPc, retval>>
    BY <1>9 DEF CancelCtx, Returned, vars, mainVars, workerVars, Holding
  <2> QED
    BY <2>1 DEF MainInv
<1> QED
  BY <1>2, <1>3, <1>4, <1>5, <1>6, <1>7, <1>8, <1>9 DEF Next, WorkerStep, MainStep

(* The part of the inductive invariant that needs no more than itself.       *)
LEMMA InitBInv == Init => BInv
<1> SUFFICES ASSUME Init PROVE NothingStranded /\ LockInv /\ WorkerInv /\ MainInv
  BY TypeInit DEF BInv
<1>1. Defined(next) /\ send
  BY DagAssumption DEF Init, Defined
<1>2. NothingStranded /\ LockInv /\ WorkerInv
  BY <1>1 DEF Init, NothingStranded, LockInv, WorkerInv
<1>3. Holding = {}
  BY ZeroTaskType DEF Init, Holding
<1>4. MainInv
  BY <1>3, FS_EmptySet DEF Init, MainInv
<1> QED
  BY <1>2, <1>4

LEMMA NextBInv == BInv /\ [Next]_vars => BInv'
BY TypeStep, StrandedStep, LockStep, WorkerStepInv, MainStepInv DEF BInv

LEMMA BasicInv == Spec => []BInv
BY InitBInv, NextBInv, PTL DEF Spec

(* The variables of parallelWalkDepth keep their types.                      *)
THEOREM TypeCorrect == Spec => []TypeOK
<1>1. BInv => TypeOK
  BY DEF BInv
<1> QED
  BY <1>1, BasicInv, PTL

(* The nil channel send strands no work, and cid.Undef is never walked.      *)
THEOREM NothingIsStranded == Spec => []NothingStranded
<1>1. BInv => NothingStranded
  BY DEF BInv
<1> QED
  BY <1>1, BasicInv, PTL

(* The promise of the options Concurrent and Concurrency: the calls of visit *)
(* do not overlap, however many workers there are.                           *)
THEOREM VisitIsExclusive == Spec => []VisitExclusive
<1>1. BInv => VisitExclusive
  BY DEF BInv, LockInv, VisitExclusive
<1> QED
  BY <1>1, BasicInv, PTL
-----------------------------------------------------------------------------
(* DagWalk reads the definitions of Merkledag the way ParallelWalk does.      *)
LEMMA SameDag ==
    /\ NotSeen = -1 /\ DW!NotSeen = -1
    /\ \A c : DW!LinkSet(c) = LinkSet(c)
    /\ \A s, c, d : DW!Visits(s, c, d) <=> Visits(s, c, d)
BY DEF NotSeen, DW!NotSeen, LinkSet, DW!LinkSet, Visits, DW!Visits

(* The set of visited nodes grows and their depths shrink.                   *)
Lowered ==
    \A c \in Cids : set[c] # NotSeen => set'[c] # NotSeen /\ set'[c] <= set[c]

LEMMA DepthType ==
    ASSUME TypeOK, NEW c \in Cids, DW!Expanded(c)
    PROVE  DW!DepthOf(c) \in Nat
BY SameDag DEF TypeOK, DW!Expanded, DW!DepthOf, DW!Seen

LEMMA LinkSetType == \A c \in Cids : LinkSet(c) \subseteq Cids
<1> SUFFICES ASSUME NEW c \in Cids, NEW k \in 1..Len(Links[c]) PROVE Links[c][k] \in Cids
  BY DEF LinkSet
<1>1. Links[c] \in Seq(Cids)
  BY DagAssumption
<1> QED
  BY <1>1

LEMMA LoweredMono ==
    ASSUME TypeOK, TypeOK', Lowered
    PROVE  /\ \A c \in Cids : DW!Expanded(c) =>
                 DW!Expanded(c)' /\ DW!DepthOf(c)' <= DW!DepthOf(c)
           /\ \A c \in Cids, d \in Nat : DW!Linked(c, d) => DW!Linked(c, d)'
           /\ \A c \in Cids, d \in Nat : DW!Satisfied(c, d) => DW!Satisfied(c, d)'
<1>1. \A c \in Cids : DW!Expanded(c) => DW!Expanded(c)' /\ DW!DepthOf(c)' <= DW!DepthOf(c)
  BY SameDag DEF TypeOK, Lowered, DW!Expanded, DW!DepthOf, DW!Seen
<1>2. ASSUME NEW c \in Cids, NEW d \in Nat, DW!Linked(c, d) PROVE DW!Linked(c, d)'
  <2>1. CASE c = Root /\ d = 0
    BY <2>1 DEF DW!Linked
  <2>2. ASSUME NEW p \in Cids, DW!Expanded(p), c \in LinkSet(p), DW!DepthOf(p) < d
        PROVE  DW!Linked(c, d)'
    <3>1. DW!Expanded(p)' /\ DW!DepthOf(p)' <= DW!DepthOf(p)
      BY <1>1, <2>2
    <3>3. DW!DepthOf(p) \in Nat /\ DW!DepthOf(p)' \in Nat
      BY <2>2, <3>1, SameDag DEF TypeOK, DW!Expanded, DW!DepthOf, DW!Seen
    <3>2. DW!DepthOf(p)' < d
      BY <2>2, <3>1, <3>3
    <3> QED
      BY <2>2, <3>1, <3>2, SameDag DEF DW!Linked
  <2> QED
    BY <1>2, <2>1, <2>2, SameDag DEF DW!Linked
<1>3. ASSUME NEW c \in Cids, NEW d \in Nat, DW!Satisfied(c, d) PROVE DW!Satisfied(c, d)'
  BY <1>3, SameDag DEF Lowered, DW!Satisfied, DW!Seen, TypeOK
<1> QED
  BY <1>1, <1>2, <1>3

LEMMA VisitEffect ==
    ASSUME BInv, NEW w \in Workers, CallVisit(w)
    PROVE  /\ task[w].cid \in Cids /\ task[w].depth \in Nat
           /\ Lowered
           /\ \A c \in Cids : c # task[w].cid => set'[c] = set[c]
<1>1. task[w].cid \in Cids /\ task[w].depth \in Nat
  BY DEF BInv, TypeOK, NothingStranded, CallVisit, Defined, Task
<1>2. CASE Visits(set, task[w].cid, task[w].depth)
  <2>1. set' = [set EXCEPT ![task[w].cid] = task[w].depth]
    BY <1>2 DEF CallVisit
  <2>2. set \in [Cids -> Nat \cup {-1}]
    BY SameDag DEF BInv, TypeOK
  <2>3. set[task[w].cid] = -1 \/ set[task[w].cid] > task[w].depth
    BY <1>2, SameDag DEF Visits
  <2>4. Lowered
    BY <1>1, <2>1, <2>2, <2>3, SameDag DEF Lowered
  <2> QED
    BY <1>1, <2>1, <2>2, <2>4
<1>3. CASE ~ Visits(set, task[w].cid, task[w].depth)
  BY <1>1, <1>3 DEF BInv, TypeOK, CallVisit, Lowered, NotSeen
<1> QED
  BY <1>1, <1>2, <1>3

-----------------------------------------------------------------------------
(* A step that leaves set alone, adds nothing to what waits and starts no    *)
(* fetch keeps TaskInv.                                                      *)
LEMMA TaskQuiet ==
    ASSUME TypeOK, TaskInv,
           set' = set,
           \A t \in Task : Defined(t) /\ Pending(t)' => Pending(t),
           \A v \in Workers : Fetching(v)' =>
              /\ Fetching(v) /\ task'[v] = task[v]
              /\ pc'[v] = "out" => pc[v] = "out" /\ links'[v] = links[v],
           ignored \subseteq ignored'
    PROVE  TaskInv'
<1>0. \A c : /\ DW!Expanded(c) => DW!Expanded(c)'
             /\ DW!DepthOf(c)' = DW!DepthOf(c)
  BY DEF DW!Expanded, DW!DepthOf, DW!Seen
<1>1. ASSUME NEW c, NEW d, DW!Linked(c, d) PROVE DW!Linked(c, d)'
  BY <1>0, <1>1 DEF DW!Linked
<1>2. (\A t \in Task : Defined(t) /\ Pending(t) => DW!Linked(t.cid, t.depth))'
  <2> SUFFICES ASSUME NEW t \in Task, Defined(t), Pending(t)'
               PROVE  DW!Linked(t.cid, t.depth)'
    OBVIOUS
  <2>1. DW!Linked(t.cid, t.depth)
    BY DEF TaskInv
  <2> QED
    BY <1>1, <2>1
<1>3. (\A w \in Workers : Fetching(w) =>
          DW!Expanded(task[w].cid) /\ DW!DepthOf(task[w].cid) <= task[w].depth)'
  <2> SUFFICES ASSUME NEW w \in Workers, Fetching(w)'
               PROVE  DW!Expanded(task[w].cid)' /\ DW!DepthOf(task[w].cid)' <= task'[w].depth
    OBVIOUS
  <2> QED
    BY DEF TaskInv, DW!Expanded, DW!DepthOf, DW!Seen
<1>4. (\A w \in Workers : pc[w] = "out" =>
          \/ links[w] = Links[task[w].cid]
          \/ links[w] = <<>> /\ task[w].cid \in ignored)'
  BY DEF TaskInv, Fetching
<1> QED
  BY <1>2, <1>3, <1>4 DEF TaskInv

LEMMA TaskStep ==
    ASSUME BInv, BInv', TaskInv, [Next]_vars
    PROVE  TaskInv'
<1>0. /\ TypeOK /\ TypeOK' /\ NothingStranded
      /\ pc \in [Workers -> PcValues] /\ task \in [Workers -> Task]
      /\ links \in [Workers -> Seq(Cids)]
  BY DEF BInv, TypeOK
<1>1. ASSUME NEW w \in Workers, Feed(w) PROVE TaskInv'
  <2>1. \A t \in Task : Defined(t) /\ Pending(t)' => Pending(t)
    <3>1. \A t \in Task : Defined(t) /\ Queued(t)' => Queued(t)
      BY <1>0, <1>1, FeedEffect
    <3>2. \A t \in Task, v \in Workers : BeforeVisit(v, t)' => t = next \/ BeforeVisit(v, t)
      BY <1>0, <1>1 DEF Feed, BeforeVisit
    <3> QED
      BY <3>1, <3>2 DEF Pending, Queued
  <2>2. CASE ~ (SkipRoot /\ next.depth = 0)
    <3>1. /\ set' = set /\ ignored' = ignored /\ links' = links
          /\ \A v \in Workers : Fetching(v)' => pc'[v] = pc[v] /\ task'[v] = task[v]
      BY <1>0, <1>1, <2>2 DEF Feed, walkVars, Fetching
    <3>2. \A v \in Workers : Fetching(v)' =>
              /\ Fetching(v) /\ task'[v] = task[v]
              /\ pc'[v] = "out" => pc[v] = "out" /\ links'[v] = links[v]
      BY <3>1 DEF Fetching
    <3> QED
      BY <1>0, <2>1, <3>1, <3>2, TaskQuiet
  <2>3. CASE SkipRoot /\ next.depth = 0
    <3>1. /\ set' = set /\ ignored' = ignored /\ links' = links
          /\ pc' = [pc EXCEPT ![w] = "links"] /\ task' = [task EXCEPT ![w] = next]
      BY <1>1, <2>3 DEF Feed, walkVars
    <3>2. next \in Task /\ next.cid \in Cids /\ Defined(next) /\ Pending(next)
      BY <1>0, <1>1, FeedEffect DEF TypeOK, Task, Defined, Pending, Queued
    <3>3. DW!Linked(next.cid, 0)
      BY <2>3, <3>2 DEF TaskInv
    <3>4. next.cid = Root
      <4>1. \A p \in Cids : DW!Expanded(p) => ~ (DW!DepthOf(p) < 0)
        BY <1>0, DepthType
      <4> QED
        BY <3>3, <4>1 DEF DW!Linked
    <3>5. (\A t \in Task : Defined(t) /\ Pending(t) => DW!Linked(t.cid, t.depth))'
      <4> SUFFICES ASSUME NEW t \in Task, Defined(t), Pending(t)'
                   PROVE  DW!Linked(t.cid, t.depth)'
        OBVIOUS
      <4>1. DW!Linked(t.cid, t.depth)
        BY <2>1 DEF TaskInv
      <4> QED
        BY <3>1, <4>1 DEF DW!Linked, DW!Expanded, DW!DepthOf, DW!Seen
    <3>6. ASSUME NEW v \in Workers, Fetching(v)'
          PROVE  DW!Expanded(task[v].cid)' /\ DW!DepthOf(task[v].cid)' <= task'[v].depth
      <4>1. CASE v = w
        <5>1. task'[v] = next
          BY <1>0, <3>1, <4>1
        <5> QED
          BY <2>3, <3>4, <5>1 DEF DW!Expanded, DW!DepthOf
      <4>2. CASE v # w
        <5>1. Fetching(v) /\ task'[v] = task[v]
          BY <1>0, <3>1, <3>6, <4>2 DEF Fetching
        <5> QED
          BY <3>1, <5>1 DEF TaskInv, DW!Expanded, DW!DepthOf, DW!Seen
      <4> QED
        BY <4>1, <4>2
    <3>7. (\A v \in Workers : pc[v] = "out" =>
              \/ links[v] = Links[task[v].cid]
              \/ links[v] = <<>> /\ task[v].cid \in ignored)'
      BY <1>0, <3>1 DEF TaskInv
    <3> QED
      BY <3>5, <3>6, <3>7 DEF TaskInv
  <2> QED
    BY <2>2, <2>3
<1>2. ASSUME NEW w \in Workers, CallVisit(w) PROVE TaskInv'
  <2>0. /\ task[w].cid \in Cids /\ task[w].depth \in Nat
        /\ \A c \in Cids : DW!Expanded(c) =>
              DW!Expanded(c)' /\ DW!DepthOf(c)' <= DW!DepthOf(c)
        /\ \A c \in Cids, d \in Nat : DW!Linked(c, d) => DW!Linked(c, d)'
    BY <1>0, <1>2, VisitEffect, LoweredMono
  <2>1. /\ task' = task /\ links' = links /\ ignored' = ignored
        /\ next' = next /\ todoQueue' = todoQueue
        /\ \A v \in Workers : v # w => pc'[v] = pc[v]
        /\ pc'[w] \in {"links", "done"}
    BY <1>0, <1>2 DEF CallVisit, mainVars
  <2>2. ASSUME NEW t \in Task, Defined(t), Pending(t)'
        PROVE  DW!Linked(t.cid, t.depth)'
    <3>1. Pending(t)
      BY <2>1, <2>2 DEF Pending, Queued, BeforeVisit
    <3>2. t.cid \in Cids /\ t.depth \in Nat
      BY <2>2 DEF Task, Defined
    <3> QED
      BY <2>0, <2>2, <3>1, <3>2 DEF TaskInv
  <2>3. ASSUME NEW v \in Workers, Fetching(v)'
        PROVE  DW!Expanded(task[v].cid)' /\ DW!DepthOf(task[v].cid)' <= task'[v].depth
    <3>1. CASE v = w
      <4>1. Visits(set, task[w].cid, task[w].depth)
        BY <1>0, <1>2, <2>3, <3>1 DEF CallVisit, Fetching
      <4>2. set' = [set EXCEPT ![task[w].cid] = task[w].depth]
        BY <1>2, <4>1 DEF CallVisit
      <4>3. set'[task[w].cid] = task[w].depth
        BY <1>0, <2>0, <4>2 DEF TypeOK
      <4> QED
        BY <2>0, <2>1, <3>1, <4>3, SameDag DEF DW!Expanded, DW!DepthOf, DW!Seen
    <3>2. CASE v # w
      <4>1. Fetching(v)
        BY <2>1, <2>3, <3>2 DEF Fetching
      <4>2. task[v].cid \in Cids /\ task[v].depth \in Nat
        BY <1>0, <4>1 DEF Fetching, NothingStranded, Task, Defined
      <4>3. DW!Expanded(task[v].cid) /\ DW!DepthOf(task[v].cid) <= task[v].depth
        BY <4>1 DEF TaskInv
      <4>4. DW!DepthOf(task[v].cid) \in Nat
        BY <1>0, <4>2, <4>3, DepthType
      <4>5. DW!Expanded(task[v].cid)' /\ DW!DepthOf(task[v].cid)' <= DW!DepthOf(task[v].cid)
        <5>1. ASSUME NEW c, c = task[v].cid
              PROVE  DW!Expanded(c)' /\ DW!DepthOf(c)' <= DW!DepthOf(c)
          BY <2>0, <4>2, <4>3, <5>1
        <5> QED
          BY <2>1, <5>1 DEF DW!Expanded, DW!DepthOf, DW!Seen
      <4>6. DW!DepthOf(task[v].cid)' \in Nat
        BY <1>0, <2>1, <4>2, <4>5, SameDag DEF TypeOK, DW!Expanded, DW!DepthOf, DW!Seen
      <4> QED
        BY <2>1, <4>2, <4>3, <4>4, <4>5, <4>6
    <3> QED
      BY <3>1, <3>2
  <2>4. (\A v \in Workers : pc[v] = "out" =>
            \/ links[v] = Links[task[v].cid]
            \/ links[v] = <<>> /\ task[v].cid \in ignored)'
    BY <2>1 DEF TaskInv
  <2> QED
    BY <2>2, <2>3, <2>4 DEF TaskInv
<1>3. ASSUME NEW w \in Workers, CallGetLinks(w) PROVE TaskInv'
  <2>1. /\ task' = task /\ set' = set /\ ignored \subseteq ignored'
        /\ next' = next /\ todoQueue' = todoQueue
        /\ \A v \in Workers : v # w => pc'[v] = pc[v] /\ links'[v] = links[v]
        /\ pc[w] = "links" /\ pc'[w] \in {"out", "err"}
        /\ pc'[w] = "out" =>
              \/ links'[w] = Links[task[w].cid]
              \/ links'[w] = <<>> /\ task[w].cid \in ignored'
    BY <1>0, <1>3 DEF CallGetLinks, mainVars
  <2>2. ASSUME NEW t \in Task, Defined(t), Pending(t)'
        PROVE  DW!Linked(t.cid, t.depth)'
    <3>1. Pending(t)
      BY <2>1, <2>2 DEF Pending, Queued, BeforeVisit
    <3>2. DW!Linked(t.cid, t.depth)
      BY <2>2, <3>1 DEF TaskInv
    <3> QED
      BY <2>1, <3>2 DEF DW!Linked, DW!Expanded, DW!DepthOf, DW!Seen
  <2>3. ASSUME NEW v \in Workers, Fetching(v)'
        PROVE  DW!Expanded(task[v].cid)' /\ DW!DepthOf(task[v].cid)' <= task'[v].depth
    <3>1. Fetching(v)
      BY <2>1, <2>3 DEF Fetching
    <3> QED
      BY <2>1, <3>1 DEF TaskInv, DW!Expanded, DW!DepthOf, DW!Seen
  <2>4. (\A v \in Workers : pc[v] = "out" =>
            \/ links[v] = Links[task[v].cid]
            \/ links[v] = <<>> /\ task[v].cid \in ignored)'
    BY <2>1 DEF TaskInv
  <2> QED
    BY <2>2, <2>3, <2>4 DEF TaskInv
<1>4. ASSUME NEW w \in Workers, ReceiveOut(w) PROVE TaskInv'
  <2> DEFINE cds == CidDepths(links[w], task[w].depth + 1)
  <2>1. /\ set' = set /\ ignored' = ignored /\ links' = links /\ task' = task
        /\ pc' = [pc EXCEPT ![w] = "done"] /\ pc[w] = "out"
    BY <1>4 DEF ReceiveOut, walkVars
  <2>2. /\ task[w].cid \in Cids /\ task[w].depth \in Nat /\ links[w] \in Seq(Cids)
        /\ DW!Expanded(task[w].cid) /\ DW!DepthOf(task[w].cid) <= task[w].depth
    BY <1>0, <2>1 DEF NothingStranded, Task, Defined, TaskInv, Fetching
  <2>3. ASSUME NEW k \in 1..Len(links[w]) PROVE DW!Linked(links[w][k], task[w].depth + 1)
    <3>1. links[w] = Links[task[w].cid]
      <4>1. CASE links[w] = << >>
        <5>1. Len(links[w]) = 0
          BY <4>1
        <5> QED
          BY <2>3, <5>1
      <4> QED
        BY <2>1, <4>1 DEF TaskInv
    <3>2. links[w][k] \in LinkSet(task[w].cid)
      BY <3>1 DEF LinkSet
    <3>3. DW!DepthOf(task[w].cid) < task[w].depth + 1
      BY <1>0, <2>2, DepthType
    <3> QED
      BY <2>2, <3>2, <3>3, SameDag DEF DW!Linked
  <2>4. ASSUME NEW t \in Task, Defined(t), Pending(t)'
        PROVE  DW!Linked(t.cid, t.depth)'
    <3>0. \A u \in Task : Queued(u)' => Queued(u) \/ \E k \in 1..Len(cds) : u = cds[k]
      BY <1>0, <1>4, OutEffect
    <3>1. Pending(t) \/ \E k \in 1..Len(cds) : t = cds[k]
      <4>1. \A v \in Workers : BeforeVisit(v, t)' => BeforeVisit(v, t)
        BY <1>0, <2>1 DEF BeforeVisit
      <4> QED
        BY <2>4, <3>0, <4>1 DEF Pending
    <3>2. DW!Linked(t.cid, t.depth)
      <4>1. CASE Pending(t)
        BY <2>4, <4>1 DEF TaskInv
      <4>2. ASSUME NEW k \in 1..Len(cds), t = cds[k] PROVE DW!Linked(t.cid, t.depth)
        <5>1. Len(cds) = Len(links[w]) /\ task[w].depth + 1 \in Nat
          BY <2>2, CidDepthsType
        <5>2. cds[k] = [cid |-> links[w][k], depth |-> task[w].depth + 1]
          BY <2>2, <4>2, <5>1, CidDepthsType
        <5>3. t.cid = links[w][k] /\ t.depth = task[w].depth + 1
          BY <4>2, <5>2
        <5> QED
          BY <2>3, <4>2, <5>1, <5>3
      <4> QED
        BY <3>1, <4>1, <4>2
    <3> QED
      BY <2>1, <3>2 DEF DW!Linked, DW!Expanded, DW!DepthOf, DW!Seen
  <2>5. ASSUME NEW v \in Workers, Fetching(v)'
        PROVE  DW!Expanded(task[v].cid)' /\ DW!DepthOf(task[v].cid)' <= task'[v].depth
    <3>1. Fetching(v)
      BY <1>0, <2>1, <2>5 DEF Fetching
    <3> QED
      BY <2>1, <3>1 DEF TaskInv, DW!Expanded, DW!DepthOf, DW!Seen
  <2>6. (\A v \in Workers : pc[v] = "out" =>
            \/ links[v] = Links[task[v].cid]
            \/ links[v] = <<>> /\ task[v].cid \in ignored)'
    BY <1>0, <2>1 DEF TaskInv
  <2> QED
    BY <2>4, <2>5, <2>6 DEF TaskInv
<1>5. ASSUME NEW w \in Workers,
             \/ LockVisit(w) \/ ReceiveDone(w) \/ ReceiveErr(w) \/ Abandon(w)
             \/ SkipDone(w) \/ ExitWorker(w)
      PROVE  TaskInv'
  <2>1. UNCHANGED <<set, ignored, links, next, todoQueue>>
    BY <1>5 DEF LockVisit, ReceiveDone, ReceiveErr, Abandon, SkipDone, ExitWorker,
                walkVars, mainVars
  <2>2. \A v \in Workers, t \in Task : BeforeVisit(v, t)' => BeforeVisit(v, t)
    BY <1>0, <1>5 DEF LockVisit, ReceiveDone, ReceiveErr, Abandon, SkipDone, ExitWorker, BeforeVisit
  <2>3. \A v \in Workers : Fetching(v)' =>
              /\ Fetching(v) /\ task'[v] = task[v]
              /\ pc'[v] = "out" => pc[v] = "out" /\ links'[v] = links[v]
    BY <1>0, <1>5, <2>1 DEF LockVisit, ReceiveDone, ReceiveErr, Abandon, SkipDone, ExitWorker, Fetching
  <2>4. \A t \in Task : Pending(t)' => Pending(t)
    BY <2>1, <2>2 DEF Pending, Queued
  <2> QED
    BY <1>0, <2>1, <2>3, <2>4, TaskQuiet
<1>6. CASE MainStep \/ CancelCtx \/ Returned \/ UNCHANGED vars
  <2>1. UNCHANGED <<set, ignored, links, next, todoQueue, pc, task>>
    BY <1>6 DEF MainStep, ReturnCtxErr, CloseFeed, CancelFetchers, WaitWorkers, CancelCtx,
                Returned, vars, walkVars, mainVars, workerVars
  <2>2. \A t \in Task : Pending(t)' => Pending(t)
    BY <2>1 DEF Pending, Queued, BeforeVisit
  <2>3. \A v \in Workers : Fetching(v)' =>
              /\ Fetching(v) /\ task'[v] = task[v]
              /\ pc'[v] = "out" => pc[v] = "out" /\ links'[v] = links[v]
    BY <2>1 DEF Fetching
  <2> QED
    BY <1>0, <2>1, <2>2, <2>3, TaskQuiet
<1> QED
  BY <1>1, <1>2, <1>3, <1>4, <1>5, <1>6 DEF Next, WorkerStep

-----------------------------------------------------------------------------
(* A step that leaves set alone, loses nothing that waits and no worker's    *)
(* links keeps CoverInv.                                                     *)
LEMMA CoverQuiet ==
    ASSUME TypeOK, CoverInv,
           set' = set, ignored \subseteq ignored',
           \A t \in Task : Defined(t) /\ Pending(t) /\ ~ (SkipRoot /\ t.depth = 0) => Pending(t)',
           \A c \in Cids \ ignored' : Carried(c) => \A l \in LinkSet(c) : Carried(c)' \/ Waits(c, l)',
           SkipRoot /\ RootNext => Carried(Root)' \/ RootNext'
    PROVE  CoverInv'
<1>0. \A c, d : /\ DW!Seen(c)' <=> DW!Seen(c)
                /\ DW!Expanded(c)' <=> DW!Expanded(c)
                /\ DW!DepthOf(c)' = DW!DepthOf(c)
  BY DEF DW!Expanded, DW!DepthOf, DW!Seen
<1>1. SkipRoot \/ DW!Seen(Root)' \/ Pending([cid |-> Root, depth |-> 0])'
  <2>1. Defined([cid |-> Root, depth |-> 0])
    BY DagAssumption DEF Defined
  <2> QED
    BY <1>0, <2>1, RootTaskType DEF CoverInv
<1>2. ASSUME NEW c \in Cids \ ignored', DW!Expanded(c)',
             DW!WithinLimit(DW!DepthOf(c) + 1)', NEW l \in LinkSet(c)
      PROVE  Covered(c, l)'
  <2>1. Covered(c, l)
    <3>1. c \in Cids \ ignored /\ DW!Expanded(c)
      BY <1>0, <1>2
    <3>2. DW!WithinLimit(DW!DepthOf(c) + 1)
      BY <1>0, <1>2 DEF DW!WithinLimit
    <3> QED
      BY <3>1, <3>2 DEF CoverInv
  <2>2. CASE DW!Satisfied(l, DW!DepthOf(c) + 1)
    <3>1. DW!Satisfied(l, DW!DepthOf(c) + 1)'
      BY <2>2 DEF DW!Satisfied, DW!DepthOf, DW!Seen
    <3> QED
      BY <3>1 DEF Covered
  <2>3. CASE Waits(c, l)
    <3>1. PICK t \in Task : /\ Pending(t) /\ t.cid = l
                            /\ DepthLim < 0 \/ t.depth <= DW!DepthOf(c) + 1
                            /\ ~ (SkipRoot /\ t.depth = 0)
      BY <2>3 DEF Waits
    <3>2. Defined(t)
      BY <3>1, LinkSetType, DagAssumption DEF Defined
    <3>3. Pending(t)'
      BY <3>1, <3>2
    <3>4. Waits(c, l)'
      BY <1>0, <3>1, <3>3 DEF Waits
    <3> QED
      BY <3>4 DEF Covered
  <2>4. CASE Carried(c)
    BY <1>2, <2>4 DEF Covered
  <2>5. CASE SkipRoot /\ c = Root /\ RootNext
    BY <2>5 DEF Covered
  <2> QED
    BY <2>1, <2>2, <2>3, <2>4, <2>5 DEF Covered
<1> QED
  BY <1>1, <1>2 DEF CoverInv

LEMMA CarriedKept ==
    ASSUME set' = set,
           NEW c \in Cids,
           \A v \in Workers :
              pc[v] \in {"links", "err", "out", "exited"} /\ task[v].cid = c =>
                 pc'[v] \in {"links", "err", "out", "exited"} /\ task'[v] = task[v],
           Carried(c)
    PROVE  Carried(c)'
BY DEF Carried, DW!DepthOf

LEMMA CoverFeed ==
    ASSUME BInv, CoverInv, NEW w \in Workers, Feed(w)
    PROVE  CoverInv'
<1>0. /\ TypeOK /\ NothingStranded
      /\ pc \in [Workers -> PcValues] /\ task \in [Workers -> Task]
  BY DEF BInv, TypeOK
<1>1. /\ set' = set /\ ignored' = ignored /\ pc[w] = "recv"
      /\ task' = [task EXCEPT ![w] = next]
      /\ pc' = [pc EXCEPT ![w] = IF SkipRoot /\ next.depth = 0 THEN "links" ELSE "lock"]
  BY DEF Feed, walkVars
<1>2. ASSUME NEW t \in Task, Defined(t), Pending(t), ~ (SkipRoot /\ t.depth = 0)
      PROVE  Pending(t)'
  <2>1. CASE t = next
    <3>1. BeforeVisit(w, t)'
      BY <1>0, <1>1, <1>2, <2>1 DEF BeforeVisit
    <3> QED
      BY <3>1 DEF Pending
  <2>2. CASE Queued(t) /\ t # next
    BY <1>0, <1>2, <2>2, FeedEffect DEF Pending
  <2>3. ASSUME NEW v \in Workers, BeforeVisit(v, t) PROVE Pending(t)'
    <3>1. BeforeVisit(v, t)'
      BY <1>0, <1>1, <2>3 DEF BeforeVisit
    <3> QED
      BY <3>1 DEF Pending
  <2> QED
    BY <1>2, <2>1, <2>2, <2>3 DEF Pending
<1>3. ASSUME NEW c \in Cids, Carried(c) PROVE Carried(c)'
  BY <1>0, <1>1, <1>3, CarriedKept
<1>4. ASSUME SkipRoot, RootNext PROVE Carried(Root)'
  <2>1. next.cid = Root /\ next.depth = 0
    BY <1>4 DEF RootNext
  <2>2. pc'[w] = "links" /\ task'[w] = next
    BY <1>0, <1>1, <1>4, <2>1
  <2>3. DW!DepthOf(Root)' = 0
    BY <1>4 DEF DW!DepthOf
  <2> QED
    BY <2>1, <2>2, <2>3 DEF Carried
<1> QED
  BY <1>0, <1>1, <1>2, <1>3, <1>4, CoverQuiet

LEMMA CoverOut ==
    ASSUME BInv, TaskInv, CoverInv, NEW w \in Workers, ReceiveOut(w)
    PROVE  CoverInv'
<1>0. /\ TypeOK /\ NothingStranded
      /\ pc \in [Workers -> PcValues] /\ task \in [Workers -> Task]
      /\ links \in [Workers -> Seq(Cids)]
  BY DEF BInv, TypeOK
<1>1. /\ set' = set /\ ignored' = ignored /\ task' = task /\ pc[w] = "out"
      /\ pc' = [pc EXCEPT ![w] = "done"]
  BY DEF ReceiveOut, walkVars
<1>2. ASSUME NEW t \in Task, Defined(t), Pending(t) PROVE Pending(t)'
  <2>1. CASE Queued(t)
    BY <1>0, <1>2, <2>1, OutEffect DEF Pending
  <2>2. ASSUME NEW v \in Workers, BeforeVisit(v, t) PROVE Pending(t)'
    <3>1. BeforeVisit(v, t)'
      BY <1>0, <1>1, <2>2 DEF BeforeVisit
    <3> QED
      BY <3>1 DEF Pending
  <2> QED
    BY <1>2, <2>1, <2>2 DEF Pending
<1>3. ASSUME NEW c \in Cids \ ignored', Carried(c), NEW l \in LinkSet(c)
      PROVE  Carried(c)' \/ Waits(c, l)'
  <2>1. PICK v \in Workers : /\ pc[v] \in {"links", "err", "out", "exited"}
                             /\ task[v].cid = c
                             /\ DepthLim < 0 \/ task[v].depth <= DW!DepthOf(c)
    BY <1>3 DEF Carried
  <2>2. CASE v # w
    <3>1. pc'[v] = pc[v] /\ task'[v] = task[v]
      BY <1>0, <1>1, <2>2
    <3> QED
      BY <1>1, <2>1, <3>1 DEF Carried, DW!DepthOf
  <2>3. CASE v = w
    <3>1. links[w] = Links[c]
      BY <1>1, <1>3, <2>1, <2>3 DEF TaskInv
    <3>2. PICK k \in 1..Len(links[w]) : l = links[w][k]
      BY <3>1 DEF LinkSet
    <3>3. task[w].depth \in Nat /\ links[w] \in Seq(Cids)
      BY <1>0 DEF Task
    <3>4. PICK x : x = CidDepths(links[w], task[w].depth + 1)
      OBVIOUS
    <3>5. x \in Seq(Task) /\ Len(x) = Len(links[w]) /\ \A n \in 1..Len(x) : Queued(x[n])'
      BY <1>0, <3>4, OutEffect
    <3>6. x[k] = [cid |-> l, depth |-> task[w].depth + 1]
      BY <3>2, <3>3, <3>4, CidDepthsType
    <3>7. PICK t \in Task : t = x[k] /\ Queued(t)'
      BY <3>2, <3>5
    <3>8. t.cid = l /\ t.depth = task[w].depth + 1
      BY <3>6, <3>7
    <3>9. DW!DepthOf(c) \in Int /\ DW!DepthOf(c)' = DW!DepthOf(c)
      BY <1>0, <1>1, SameDag DEF TypeOK, DW!DepthOf
    <3>10. /\ DepthLim < 0 \/ t.depth <= DW!DepthOf(c)' + 1
           /\ ~ (SkipRoot /\ t.depth = 0)
      BY <2>1, <2>3, <3>3, <3>8, <3>9
    <3> QED
      BY <3>7, <3>8, <3>10 DEF Waits, Pending
  <2> QED
    BY <2>2, <2>3
<1>4. RootNext => RootNext'
  <2>1. RootNext => Defined(next)
    BY DagAssumption DEF RootNext, Defined
  <2>2. Defined(next) => next' = next
    BY DEF ReceiveOut
  <2> QED
    BY <2>1, <2>2 DEF RootNext
<1> QED
  BY <1>0, <1>1, <1>2, <1>3, <1>4, CoverQuiet

(* The visit of a worker settles the task it holds: the node is visited now, *)
(* or it had been already, high enough.                                      *)
LEMMA VisitSettles ==
    ASSUME BInv, NEW w \in Workers, CallVisit(w),
           NEW d \in Nat, DepthLim < 0 \/ (task[w].depth <= d /\ d <= DepthLim)
    PROVE  DW!Satisfied(task[w].cid, d)'
<1>0. /\ task[w].cid \in Cids /\ task[w].depth \in Nat /\ task' = task
      /\ set \in [Cids -> Nat \cup {-1}] /\ DepthLim \in Int
  BY VisitEffect, SameDag, OptionAssumption DEF BInv, TypeOK, CallVisit
<1>1. CASE Visits(set, task[w].cid, task[w].depth)
  <2>1. set'[task[w].cid] = task[w].depth
    BY <1>0, <1>1 DEF CallVisit
  <2> QED
    BY <1>0, <2>1, SameDag DEF DW!Satisfied, DW!Seen
<1>2. CASE ~ Visits(set, task[w].cid, task[w].depth)
  <2>1. set' = set
    BY <1>2 DEF CallVisit
  <2>2. set[task[w].cid] # -1 /\ (DepthLim < 0 \/ set[task[w].cid] <= d)
    BY <1>0, <1>2, SameDag DEF Visits
  <2> QED
    BY <1>0, <2>1, <2>2, SameDag DEF DW!Satisfied, DW!Seen
<1> QED
  BY <1>1, <1>2

LEMMA CoverVisit ==
    ASSUME BInv, BInv', TaskInv, CoverInv, NEW w \in Workers, CallVisit(w)
    PROVE  CoverInv'
<1>0. /\ TypeOK /\ TypeOK' /\ NothingStranded
      /\ pc \in [Workers -> PcValues] /\ task \in [Workers -> Task]
      /\ set \in [Cids -> Nat \cup {-1}] /\ DepthLim \in Int
  BY SameDag, OptionAssumption DEF BInv, TypeOK
<1>1. /\ ignored' = ignored /\ task' = task /\ next' = next /\ todoQueue' = todoQueue
      /\ pc[w] = "visit" /\ pc'[w] \in {"links", "done"}
      /\ \A v \in Workers : v # w => pc'[v] = pc[v]
  BY <1>0 DEF CallVisit, mainVars
<1>2. /\ task[w].cid \in Cids /\ task[w].depth \in Nat
      /\ \A c \in Cids : c # task[w].cid => set'[c] = set[c]
      /\ \A c \in Cids, d \in Nat : DW!Satisfied(c, d) => DW!Satisfied(c, d)'
  BY <1>0, VisitEffect, LoweredMono
<1>3. \A t \in Task : Pending(t) => t = task[w] \/ Pending(t)'
  BY <1>1 DEF Pending, Queued, BeforeVisit
<1>4. SkipRoot \/ DW!Seen(Root)' \/ Pending([cid |-> Root, depth |-> 0])'
  <2> SUFFICES ASSUME ~ SkipRoot PROVE DW!Seen(Root)' \/ Pending([cid |-> Root, depth |-> 0])'
    OBVIOUS
  <2>1. CASE DW!Seen(Root)
    BY <2>1, VisitEffect, DagAssumption, SameDag DEF Lowered, DW!Seen
  <2>2. CASE task[w] = [cid |-> Root, depth |-> 0]
    <3>1. task[w].cid = Root /\ task[w].depth = 0 /\ (DepthLim < 0 \/ 0 <= DepthLim)
      BY <1>0, <2>2
    <3>2. DW!Satisfied(task[w].cid, 0)'
      BY <3>1, VisitSettles
    <3> QED
      BY <1>1, <3>1, <3>2 DEF DW!Satisfied, DW!Seen
  <2>3. CASE Pending([cid |-> Root, depth |-> 0]) /\ task[w] # [cid |-> Root, depth |-> 0]
    BY <1>3, <2>3, RootTaskType
  <2> QED
    BY <2>1, <2>2, <2>3 DEF CoverInv
<1>5. ASSUME NEW c \in Cids \ ignored', DW!Expanded(c)',
             DW!WithinLimit(DW!DepthOf(c) + 1)', NEW l \in LinkSet(c)
      PROVE  Covered(c, l)'
  <2>1. CASE c = task[w].cid /\ pc'[w] = "links" /\ ~ (SkipRoot /\ c = Root)
    <3>1. set'[c] = task[w].depth
      BY <1>0, <1>2, <2>1 DEF CallVisit
    <3>2. DW!DepthOf(c)' = task[w].depth
      BY <2>1, <3>1 DEF DW!DepthOf
    <3>3. Carried(c)'
      BY <1>1, <1>2, <2>1, <3>2 DEF Carried
    <3> QED
      BY <3>3 DEF Covered
  <2>2. CASE ~ (c = task[w].cid /\ pc'[w] = "links" /\ ~ (SkipRoot /\ c = Root))
    <3>1. (SkipRoot /\ c = Root) \/ set'[c] = set[c]
      BY <1>0, <1>2, <2>2 DEF CallVisit
    <3>2. DW!Expanded(c) /\ DW!DepthOf(c)' = DW!DepthOf(c)
      BY <1>5, <3>1 DEF DW!Expanded, DW!DepthOf, DW!Seen
    <3>3. DW!DepthOf(c) \in Nat
      BY <1>0, <3>2, DepthType
    <3>4. DW!WithinLimit(DW!DepthOf(c) + 1)
      BY <1>5, <3>2 DEF DW!WithinLimit
    <3>5. Covered(c, l)
      BY <1>1, <1>5, <3>2, <3>4 DEF CoverInv
    <3>6. l \in Cids
      BY <1>5, LinkSetType
    <3>7. PICK d \in Nat : d = DW!DepthOf(c) + 1
      BY <3>3
    <3>8. ASSUME DW!Satisfied(l, d)' PROVE Covered(c, l)'
      <4>1. DW!Satisfied(l, DW!DepthOf(c) + 1)'
        BY <3>2, <3>7, <3>8 DEF DW!Satisfied, DW!Seen
      <4> QED
        BY <4>1 DEF Covered
    <3>9. CASE DW!Satisfied(l, DW!DepthOf(c) + 1)
      BY <1>2, <3>6, <3>7, <3>8, <3>9
    <3>10. CASE Waits(c, l)
      <4>1. PICK t \in Task : /\ Pending(t) /\ t.cid = l
                              /\ DepthLim < 0 \/ t.depth <= DW!DepthOf(c) + 1
                              /\ ~ (SkipRoot /\ t.depth = 0)
        BY <3>10 DEF Waits
      <4>2. CASE t = task[w]
        <5>1. DepthLim < 0 \/ (task[w].depth <= d /\ d <= DepthLim)
          BY <3>4, <3>7, <4>1, <4>2 DEF DW!WithinLimit
        <5>2. DW!Satisfied(task[w].cid, d)'
          BY <5>1, VisitSettles
        <5>3. DW!Satisfied(l, d)'
          BY <1>1, <4>1, <4>2, <5>2 DEF DW!Satisfied, DW!Seen
        <5> QED
          BY <3>8, <5>3
      <4>3. CASE Pending(t)'
        <5>1. Waits(c, l)'
          BY <3>2, <4>1, <4>3 DEF Waits
        <5> QED
          BY <5>1 DEF Covered
      <4> QED
        BY <1>3, <4>1, <4>2, <4>3
    <3>11. CASE Carried(c)
      <4>1. Carried(c)'
        BY <1>1, <3>2, <3>11 DEF Carried
      <4> QED
        BY <4>1 DEF Covered
    <3>12. CASE SkipRoot /\ c = Root /\ RootNext
      BY <1>1, <3>12 DEF Covered, RootNext
    <3> QED
      BY <3>5, <3>9, <3>10, <3>11, <3>12 DEF Covered
  <2> QED
    BY <2>1, <2>2
<1> QED
  BY <1>4, <1>5 DEF CoverInv

LEMMA CoverStep ==
    ASSUME BInv, BInv', TaskInv, CoverInv, [Next]_vars
    PROVE  CoverInv'
<1>0. /\ TypeOK /\ pc \in [Workers -> PcValues] /\ task \in [Workers -> Task]
  BY DEF BInv, TypeOK
<1>1. ASSUME NEW w \in Workers, CallGetLinks(w) PROVE CoverInv'
  <2>1. /\ task' = task /\ set' = set /\ ignored \subseteq ignored'
        /\ next' = next /\ todoQueue' = todoQueue
        /\ pc[w] = "links" /\ pc'[w] \in {"out", "err"}
        /\ \A v \in Workers : v # w => pc'[v] = pc[v]
    BY <1>0, <1>1 DEF CallGetLinks, mainVars
  <2>2. \A t \in Task : Pending(t) => Pending(t)'
    BY <2>1 DEF Pending, Queued, BeforeVisit
  <2>3. \A c \in Cids : Carried(c) => Carried(c)'
    BY <2>1, CarriedKept
  <2>4. RootNext => RootNext'
    BY <2>1 DEF RootNext
  <2> QED
    BY <1>0, <2>1, <2>2, <2>3, <2>4, CoverQuiet
<1>2. ASSUME NEW w \in Workers,
             \/ LockVisit(w) \/ ReceiveDone(w) \/ ReceiveErr(w) \/ Abandon(w)
             \/ SkipDone(w) \/ ExitWorker(w)
      PROVE  CoverInv'
  <2>1. UNCHANGED <<set, ignored, next, todoQueue>>
    BY <1>2 DEF LockVisit, ReceiveDone, ReceiveErr, Abandon, SkipDone, ExitWorker,
                walkVars, mainVars
  <2>2. \A v \in Workers, t \in Task : BeforeVisit(v, t) => BeforeVisit(v, t)'
    BY <1>0, <1>2 DEF LockVisit, ReceiveDone, ReceiveErr, Abandon, SkipDone, ExitWorker, BeforeVisit
  <2>3. \A t \in Task : Pending(t) => Pending(t)'
    BY <2>1, <2>2 DEF Pending, Queued
  <2>4. \A v \in Workers :
           pc[v] \in {"links", "err", "out", "exited"} =>
              pc'[v] \in {"links", "err", "out", "exited"} /\ task'[v] = task[v]
    BY <1>0, <1>2 DEF LockVisit, ReceiveDone, ReceiveErr, Abandon, SkipDone, ExitWorker
  <2>5. \A c \in Cids : Carried(c) => Carried(c)'
    BY <2>1, <2>4, CarriedKept
  <2>6. RootNext => RootNext'
    BY <2>1 DEF RootNext
  <2> QED
    BY <1>0, <2>1, <2>3, <2>5, <2>6, CoverQuiet
<1>3. CASE MainStep \/ CancelCtx \/ Returned \/ UNCHANGED vars
  <2>1. UNCHANGED <<set, ignored, next, todoQueue, pc, task>>
    BY <1>3 DEF MainStep, ReturnCtxErr, CloseFeed, CancelFetchers, WaitWorkers, CancelCtx,
                Returned, vars, walkVars, mainVars, workerVars
  <2>2. \A t \in Task : Pending(t) => Pending(t)'
    BY <2>1 DEF Pending, Queued, BeforeVisit
  <2>3. \A c \in Cids : Carried(c) => Carried(c)'
    BY <2>1, CarriedKept
  <2>4. RootNext => RootNext'
    BY <2>1 DEF RootNext
  <2> QED
    BY <1>0, <2>1, <2>2, <2>3, <2>4, CoverQuiet
<1> QED
  BY <1>1, <1>2, <1>3, CoverFeed, CoverOut, CoverVisit DEF Next, WorkerStep

LEMMA InitIInv == Init => IInv
<1> SUFFICES ASSUME Init PROVE TaskInv /\ CoverInv
  BY InitBInv DEF IInv
<1>1. \A t : Pending(t) <=> t = [cid |-> Root, depth |-> 0]
  BY DEF Init, Pending, Queued, BeforeVisit
<1>2. TaskInv
  BY <1>1 DEF Init, TaskInv, Fetching, DW!Linked
<1>3. \A c \in Cids : DW!Expanded(c) => SkipRoot /\ c = Root
  BY SameDag DEF Init, DW!Expanded, DW!Seen
<1>4. CoverInv
  BY <1>1, <1>3 DEF Init, CoverInv, Covered, RootNext
<1> QED
  BY <1>2, <1>4

LEMMA NextIInv == IInv /\ [Next]_vars => IInv'
BY NextBInv, TaskStep, CoverStep DEF IInv

LEMMA AlwaysIInv == Spec => []IInv
BY InitIInv, NextIInv, PTL DEF Spec

-----------------------------------------------------------------------------
(* A coordinator that has decided to return nil has walked everything.       *)
LEMMA NilIsComplete ==
    ASSUME IInv, retval = "nil"
    PROVE  DW!Complete
<1>1. Holding = {} /\ ~ Defined(next) /\ todoQueue = << >>
  BY DEF IInv, BInv, MainInv, NothingStranded
<1>2. \A w \in Workers : ~ Defined(task[w])
  BY <1>1 DEF Holding
<1>3. ASSUME NEW t \in Task, Defined(t), Pending(t) PROVE FALSE
  BY <1>1, <1>2, <1>3 DEF Pending, Queued, BeforeVisit
<1>4. SkipRoot \/ DW!Seen(Root)
  <2>1. Defined([cid |-> Root, depth |-> 0])
    BY DagAssumption DEF Defined
  <2> QED
    BY <1>3, <2>1, RootTaskType DEF IInv, CoverInv
<1>5. ASSUME NEW c \in Cids \ ignored, DW!Expanded(c), DW!WithinLimit(DW!DepthOf(c) + 1),
             NEW l \in LinkSet(c)
      PROVE  DW!Satisfied(l, DW!DepthOf(c) + 1)
  <2>1. Covered(c, l)
    BY <1>5 DEF IInv, CoverInv
  <2>2. l \in Cids
    BY LinkSetType
  <2>3. ~ Waits(c, l)
    BY <1>3, <2>2, DagAssumption DEF Waits, Defined
  <2>4. ~ Carried(c)
    BY <1>2, DagAssumption DEF Carried, Defined
  <2>5. ~ RootNext
    BY <1>1, DagAssumption DEF RootNext, Defined
  <2> QED
    BY <2>1, <2>3, <2>4, <2>5 DEF Covered
<1> QED
  BY <1>4, <1>5, SameDag DEF DW!Complete

LEMMA StepRefines ==
    ASSUME IInv, IInv', [Next]_vars
    PROVE  [DW!Next]_DW!vars
<1>0. BInv /\ TypeOK /\ MainInv
  BY DEF IInv, BInv
<1>1. ASSUME NEW w \in Workers, CallVisit(w) PROVE [DW!Next]_DW!vars
  <2>1. Result = "running" /\ Result' = Result
    BY <1>0, <1>1 DEF CallVisit, mainVars, MainInv, Result
  <2>2. CASE Visits(set, task[w].cid, task[w].depth)
    <3>1. PICK c \in Cids, d \in Nat : c = task[w].cid /\ d = task[w].depth /\ task[w] \in Task
      BY <1>0, <1>1, VisitEffect DEF TypeOK
    <3>2. set' = [set EXCEPT ![c] = d] /\ set'[c] = d /\ ignored' = ignored
      BY <1>0, <1>1, <2>2, <3>1 DEF CallVisit, TypeOK
    <3>3. DW!Visits(set, c, d)
      BY <2>2, <3>1, SameDag
    <3>4. DW!Linked(c, d)
      <4>1. Pending(task[w]) /\ Defined(task[w])
        BY <1>1, <1>0 DEF CallVisit, Pending, BeforeVisit, BInv, NothingStranded
      <4> QED
        BY <3>1, <4>1 DEF IInv, TaskInv
    <3>5. DW!Visit(c, set'[c])
      BY <2>1, <3>2, <3>3, <3>4 DEF DW!Visit
    <3> QED
      BY <3>5 DEF DW!Next
  <2>3. CASE ~ Visits(set, task[w].cid, task[w].depth)
    BY <1>1, <2>1, <2>3 DEF CallVisit, DW!vars
  <2> QED
    BY <2>2, <2>3
<1>2. ASSUME NEW w \in Workers, CallGetLinks(w) PROVE [DW!Next]_DW!vars
  <2>1. Result = "running" /\ Result' = Result /\ set' = set
    BY <1>0, <1>2 DEF CallGetLinks, mainVars, MainInv, Result
  <2>2. CASE ignored' = ignored
    BY <2>1, <2>2 DEF DW!vars
  <2>3. CASE ignored' # ignored
    <3>1. /\ ignored' = ignored \cup {task[w].cid}
          /\ \E err \in {"notfound", "ctx"} : ErrorHandler(err) = "nil"
      BY <1>2, <2>3 DEF CallGetLinks, GetLinksErrors
    <3>2. Handler \in {"IgnoreErrors", "IgnoreMissing"}
      BY <3>1, OptionAssumption DEF ErrorHandler
    <3>3. task[w].cid \in Cids /\ DW!Expanded(task[w].cid)
      BY <1>0, <1>2 DEF CallGetLinks, BInv, TypeOK, NothingStranded, Defined, Task,
                        IInv, TaskInv, Fetching
    <3>4. DW!Ignore(task[w].cid)
      BY <2>1, <3>1, <3>2, <3>3 DEF DW!Ignore
    <3> QED
      BY <3>3, <3>4 DEF DW!Next
  <2> QED
    BY <2>2, <2>3
<1>3. CASE WaitWorkers
  <2>1. /\ mainPc = "wait" /\ mainPc' = "returned" /\ retval' = retval
        /\ set' = set /\ ignored' = ignored /\ Result = "running"
    BY <1>3 DEF WaitWorkers, walkVars, Result
  <2>2. CASE retval = "nil"
    <3>1. Result' = "nil"
      BY <2>1, <2>2 DEF Result
    <3>2. DW!Finish
      BY <2>1, <2>2, <3>1, NilIsComplete DEF DW!Finish
    <3> QED
      BY <3>2 DEF DW!Next
  <2>3. CASE retval # "nil"
    <3>1. Result' = "error"
      BY <2>1, <2>3 DEF Result
    <3>2. DW!Fail
      BY <2>1, <3>1 DEF DW!Fail
    <3> QED
      BY <3>2 DEF DW!Next
  <2> QED
    BY <2>2, <2>3
<1>4. ASSUME NEW w \in Workers,
             \/ Feed(w) \/ LockVisit(w) \/ ReceiveOut(w) \/ Abandon(w) \/ SkipDone(w) \/ ExitWorker(w)
      PROVE  [DW!Next]_DW!vars
  <2>1. UNCHANGED <<set, ignored, mainPc, retval>>
    BY <1>4 DEF Feed, LockVisit, ReceiveOut, Abandon, SkipDone, ExitWorker, walkVars, mainVars
  <2> QED
    BY <2>1 DEF DW!vars, Result
<1>5. ASSUME NEW w \in Workers, ReceiveDone(w) \/ ReceiveErr(w) PROVE [DW!Next]_DW!vars
  <2>1. UNCHANGED <<set, ignored>> /\ mainPc # "returned" /\ mainPc' # "returned"
    BY <1>5 DEF ReceiveDone, ReceiveErr, walkVars
  <2> QED
    BY <2>1 DEF DW!vars, Result
<1>6. CASE ReturnCtxErr \/ CloseFeed \/ CancelFetchers
  <2>1. UNCHANGED <<set, ignored>> /\ mainPc # "returned" /\ mainPc' # "returned"
    BY <1>6 DEF ReturnCtxErr, CloseFeed, CancelFetchers, walkVars
  <2> QED
    BY <2>1 DEF DW!vars, Result
<1>7. CASE CancelCtx \/ Returned \/ UNCHANGED vars
  <2>1. UNCHANGED <<set, ignored, mainPc, retval>>
    BY <1>7 DEF CancelCtx, Returned, vars, walkVars, mainVars
  <2> QED
    BY <2>1 DEF DW!vars, Result
<1> QED
  BY <1>1, <1>2, <1>3, <1>4, <1>5, <1>6, <1>7 DEF Next, WorkerStep, MainStep

(* parallelWalkDepth implements the abstract walk for every DAG, every depth *)
(* limit, every option and any number of workers: what it visits is linked   *)
(* to, it returns nil only after a complete walk, whatever cancellations and *)
(* errors happen, and it visits nothing once it has returned.                *)
THEOREM WalkImplementsDagWalk == Spec => ImplementsDagWalk
<1>1. Init => DW!Init
  BY SameDag DEF Init, DW!Init, Result
<1> QED
  BY <1>1, AlwaysIInv, StepRefines, PTL DEF Spec, ImplementsDagWalk, DW!Spec

-----------------------------------------------------------------------------
Idle(w) == pc[w] \in {"recv", "exited"}

Active(w) == pc[w] \in {"lock", "visit", "links", "err", "out"}

(* As long as the root waits for a worker or is walked by one there is       *)
(* nothing else to walk; this is what makes bypassing the visit of the root  *)
(* (SkipRoot) safe.                                                          *)
RootAlone ==
    /\ \A k \in 1..Len(todoQueue) : todoQueue[k].depth > 0
    /\ Defined(next) /\ next.depth = 0 => todoQueue = <<>> /\ \A w \in Workers : Idle(w)
    /\ \A w \in Workers : Active(w) /\ task[w].depth = 0 =>
          ~ Defined(next) /\ \A v \in Workers \ {w} : Idle(v)

Skipped(t) == SkipRoot /\ t.depth = 0

(* What is being fetched was visited, at that depth or later at a smaller one. *)
FetchInv ==
    \A w \in Workers : Fetching(w) /\ ~ Skipped(task[w]) =>
        /\ task[w].cid \in Cids
        /\ set[task[w].cid] # NotSeen
        /\ set[task[w].cid] <= task[w].depth

OInv == RootAlone /\ FetchInv /\ FetchedOnce

(* What a worker's step leaves of its place: an active worker keeps its task, *)
(* and a worker becomes active only through Feed.                            *)
LEMMA ActiveStep ==
    ASSUME TypeOK, NEW w \in Workers, WorkerStep(w), ~ Feed(w)
    PROVE  /\ \A v \in Workers \ {w} : pc'[v] = pc[v] /\ task'[v] = task[v]
           /\ Active(w)' => Active(w) /\ task'[w] = task[w]
           /\ Idle(w) => Idle(w)'
           /\ Idle(w) => ~ ReceiveOut(w)
<1>0. pc \in [Workers -> PcValues] /\ task \in [Workers -> Task]
  BY DEF TypeOK
<1>1. CASE CallGetLinks(w)
  <2>1. /\ pc[w] = "links" /\ task' = task
        /\ \E left : pc' = [pc EXCEPT ![w] = IF left = "nil" THEN "out" ELSE "err"]
    BY <1>1 DEF CallGetLinks
  <2> QED
    BY <1>0, <2>1 DEF Active, Idle, ReceiveOut
<1>2. CASE LockVisit(w) \/ CallVisit(w) \/ ReceiveOut(w)
  BY <1>0, <1>2 DEF LockVisit, CallVisit, ReceiveOut, Active, Idle
<1>3. CASE ReceiveDone(w) \/ ReceiveErr(w) \/ Abandon(w) \/ SkipDone(w) \/ ExitWorker(w)
  BY <1>0, <1>3 DEF ReceiveDone, ReceiveErr, Abandon, SkipDone, ExitWorker, ReceiveOut, Active, Idle
<1> QED
  BY <1>1, <1>2, <1>3 DEF WorkerStep

LEMMA RootAloneStep ==
    ASSUME BInv, RootAlone, [Next]_vars
    PROVE  RootAlone'
<1>0. /\ TypeOK /\ NothingStranded
      /\ pc \in [Workers -> PcValues] /\ task \in [Workers -> Task]
      /\ todoQueue \in Seq(Task) /\ next \in Task
  BY DEF BInv, TypeOK
<1>1. ASSUME NEW w \in Workers, Feed(w) PROVE RootAlone'
  <2>1. /\ Defined(next) /\ pc[w] = "recv" /\ task'[w] = next
        /\ \A v \in Workers \ {w} : pc'[v] = pc[v] /\ task'[v] = task[v]
    BY <1>0, <1>1, FeedEffect DEF Feed
  <2>2. \A v \in Workers : Active(v) => task[v].depth # 0
    BY <2>1 DEF RootAlone
  <2>3. CASE todoQueue # <<>>
    <3>1. /\ next' = todoQueue[1] /\ todoQueue' = Tail(todoQueue)
          /\ Len(todoQueue) \in Nat \ {0} /\ Len(todoQueue') = Len(todoQueue) - 1
          /\ \A k \in 1..(Len(todoQueue) - 1) : todoQueue'[k] = todoQueue[k + 1]
      <4>1. next' = Head(todoQueue) /\ todoQueue' = Tail(todoQueue)
        BY <1>1, <2>3 DEF Feed
      <4>2. /\ Len(todoQueue) \in Nat \ {0} /\ Head(todoQueue) = todoQueue[1]
            /\ Len(Tail(todoQueue)) = Len(todoQueue) - 1
            /\ \A k \in 1..(Len(todoQueue) - 1) : Tail(todoQueue)[k] = todoQueue[k + 1]
        BY <1>0, <2>3
      <4> QED
        BY <4>1, <4>2
    <3>2. /\ 1 \in 1..Len(todoQueue)
          /\ \A k \in 1..(Len(todoQueue) - 1) : k + 1 \in 1..Len(todoQueue)
      BY <3>1
    <3>3. next'.depth > 0 /\ \A k \in 1..Len(todoQueue') : todoQueue'[k].depth > 0
      BY <3>1, <3>2 DEF RootAlone
    <3>4. next.depth # 0
      BY <2>1, <2>3 DEF RootAlone
    <3>5. \A v \in Workers : Active(v)' => task'[v].depth # 0
      BY <2>1, <2>2, <3>4 DEF Active
    <3> QED
      BY <3>3, <3>5 DEF RootAlone
  <2>4. CASE todoQueue = <<>>
    <3>1. ~ Defined(next') /\ todoQueue' = <<>>
      BY <1>1, <2>4, ZeroTaskType DEF Feed
    <3>2. Len(todoQueue') = 0
      BY <3>1
    <3>3. ASSUME NEW v \in Workers, Active(v)', task'[v].depth = 0
          PROVE  \A u \in Workers \ {v} : Idle(u)'
      <4>1. v = w /\ next.depth = 0
        BY <2>1, <2>2, <3>3 DEF Active
      <4>2. \A u \in Workers : Idle(u)
        BY <2>1, <4>1 DEF RootAlone
      <4> QED
        BY <2>1, <4>1, <4>2 DEF Idle
    <3> QED
      BY <3>1, <3>2, <3>3 DEF RootAlone
  <2> QED
    BY <2>3, <2>4
<1>2. ASSUME NEW w \in Workers, ReceiveOut(w) PROVE RootAlone'
  <2> DEFINE cds == CidDepths(links[w], task[w].depth + 1)
  <2>0. /\ links[w] \in Seq(Cids) /\ task[w].depth \in Nat
    BY <1>0 DEF TypeOK, Task
  <2>1. /\ cds \in Seq(Task)
        /\ \A k \in 1..Len(cds) : cds[k].depth > 0
    <3>1. /\ task[w].depth + 1 \in Nat /\ task[w].depth + 1 > 0
      BY <2>0
    <3>2. /\ cds \in Seq(Task) /\ Len(cds) = Len(links[w])
          /\ \A k \in 1..Len(links[w]) :
                cds[k] = [cid |-> links[w][k], depth |-> task[w].depth + 1]
      BY <2>0, <3>1, CidDepthsType
    <3> HIDE DEF cds
    <3>3. ASSUME NEW k \in 1..Len(cds) PROVE cds[k].depth = task[w].depth + 1
      <4>1. cds[k] = [cid |-> links[w][k], depth |-> task[w].depth + 1]
        BY <3>2
      <4> QED
        BY <4>1
    <3> QED
      BY <3>1, <3>2, <3>3
  <2>2. /\ pc[w] = "out" /\ pc'[w] = "done" /\ task' = task
        /\ \A v \in Workers \ {w} : pc'[v] = pc[v]
    BY <1>0, <1>2 DEF ReceiveOut
  <2>3. ASSUME NEW v \in Workers, Active(v)' PROVE task'[v].depth # 0
    <3>1. v # w /\ Active(v)
      BY <2>2, <2>3 DEF Active
    <3>2. ~ Idle(w)
      BY <2>2 DEF Idle
    <3> QED
      BY <2>2, <3>1, <3>2 DEF RootAlone
  <2>4. ~ (Defined(next) /\ next.depth = 0)
    BY <2>2 DEF RootAlone, Idle
  <2>5. /\ \A k \in 1..Len(todoQueue') : todoQueue'[k].depth > 0
        /\ ~ (Defined(next') /\ next'.depth = 0)
    <3>1. CASE ~ Defined(next) /\ cds # <<>>
      <4>1. next' = Head(cds) /\ todoQueue' = todoQueue \o Tail(cds)
        BY <1>2, <3>1 DEF ReceiveOut
      <4>2. /\ Len(cds) \in Nat \ {0} /\ Head(cds) = cds[1] /\ Len(Tail(cds)) = Len(cds) - 1
            /\ Tail(cds) \in Seq(Task)
            /\ \A k \in 1..Len(cds) - 1 : Tail(cds)[k] = cds[k + 1]
        BY <2>1, <3>1
      <4>3. /\ 1 \in 1..Len(cds)
            /\ \A k \in 1..Len(cds) - 1 : k + 1 \in 1..Len(cds)
        BY <4>2
      <4>4. Head(cds).depth > 0 /\ \A k \in 1..Len(Tail(cds)) : Tail(cds)[k].depth > 0
        BY <2>1, <4>2, <4>3
      <4>5. ASSUME NEW k \in 1..Len(todoQueue') PROVE todoQueue'[k].depth > 0
        <5>1. \/ k \in 1..Len(todoQueue) /\ todoQueue'[k] = todoQueue[k]
              \/ /\ k - Len(todoQueue) \in 1..Len(Tail(cds))
                 /\ todoQueue'[k] = Tail(cds)[k - Len(todoQueue)]
          BY <1>0, <4>1, <4>2
        <5> QED
          BY <4>4, <5>1 DEF RootAlone
      <4> QED
        BY <4>1, <4>4, <4>5
    <3>2. CASE Defined(next) \/ cds = <<>>
      <4>1. next' = next /\ todoQueue' = todoQueue \o cds
        BY <1>2, <3>2 DEF ReceiveOut
      <4>2. ASSUME NEW k \in 1..Len(todoQueue') PROVE todoQueue'[k].depth > 0
        <5>1. \/ k \in 1..Len(todoQueue) /\ todoQueue'[k] = todoQueue[k]
              \/ /\ k - Len(todoQueue) \in 1..Len(cds)
                 /\ todoQueue'[k] = cds[k - Len(todoQueue)]
          BY <1>0, <2>1, <4>1
        <5> QED
          BY <2>1, <5>1 DEF RootAlone
      <4> QED
        BY <2>4, <4>1, <4>2
    <3> QED
      BY <3>1, <3>2
  <2> QED
    BY <2>3, <2>5 DEF RootAlone
<1>3. ASSUME NEW w \in Workers, WorkerStep(w), ~ Feed(w), ~ ReceiveOut(w) PROVE RootAlone'
  <2>1. next' = next /\ todoQueue' = todoQueue
    BY <1>3 DEF WorkerStep, LockVisit, CallVisit, CallGetLinks, ReceiveDone, ReceiveErr, Abandon,
                SkipDone, ExitWorker, mainVars
  <2>2. /\ \A v \in Workers : Idle(v) => Idle(v)'
        /\ \A v \in Workers : Active(v)' => Active(v) /\ task'[v] = task[v]
    BY <1>0, <1>3, ActiveStep DEF Idle, Active
  <2> QED
    BY <2>1, <2>2 DEF RootAlone
<1>4. CASE MainStep \/ CancelCtx \/ Returned \/ UNCHANGED vars
  BY <1>4 DEF MainStep, ReturnCtxErr, CloseFeed, CancelFetchers, WaitWorkers, CancelCtx,
              Returned, vars, mainVars, workerVars, RootAlone, Idle, Active
<1> QED
  BY <1>1, <1>2, <1>3, <1>4 DEF Next

LEMMA FetchStep ==
    ASSUME BInv, RootAlone, FetchInv, FetchedOnce, [Next]_vars
    PROVE  FetchInv' /\ FetchedOnce'
<1>0. /\ TypeOK /\ NothingStranded /\ NotSeen = -1
      /\ pc \in [Workers -> PcValues] /\ task \in [Workers -> Task]
      /\ set \in [Cids -> Nat \cup {-1}]
  BY SameDag DEF BInv, TypeOK
<1>1. ASSUME NEW w \in Workers, Feed(w) PROVE FetchInv' /\ FetchedOnce'
  <2>1. /\ Defined(next) /\ pc[w] = "recv" /\ task'[w] = next /\ set' = set
        /\ \A v \in Workers \ {w} : pc'[v] = pc[v] /\ task'[v] = task[v]
        /\ pc'[w] = IF SkipRoot /\ next.depth = 0 THEN "links" ELSE "lock"
    BY <1>0, <1>1, FeedEffect DEF Feed, walkVars
  <2>2. FetchInv'
    BY <2>1 DEF FetchInv, Fetching, Skipped
  <2>3. ASSUME Fetching(w)' PROVE \A v \in Workers \ {w} : ~ Fetching(v)'
    <3>1. next.depth = 0
      BY <2>1, <2>3 DEF Fetching
    <3> QED
      BY <2>1, <3>1 DEF RootAlone, Idle, Fetching
  <2> QED
    BY <2>1, <2>2, <2>3 DEF FetchedOnce, Fetching
<1>2. ASSUME NEW w \in Workers, CallVisit(w) PROVE FetchInv' /\ FetchedOnce'
  <2>1. /\ task' = task /\ pc[w] = "visit"
        /\ \A v \in Workers \ {w} : pc'[v] = pc[v]
        /\ task[w].cid \in Cids /\ task[w].depth \in Nat
        /\ Lowered
    BY <1>0, <1>2, VisitEffect DEF CallVisit
  <2>2. CASE ~ Visits(set, task[w].cid, task[w].depth)
    <3>1. pc'[w] = "done" /\ set' = set
      BY <1>0, <1>2, <2>2 DEF CallVisit
    <3> QED
      BY <2>1, <3>1 DEF FetchInv, FetchedOnce, Fetching
  <2>3. CASE Visits(set, task[w].cid, task[w].depth)
    <3>1. pc'[w] = "links" /\ set' = [set EXCEPT ![task[w].cid] = task[w].depth]
      BY <1>0, <1>2, <2>3 DEF CallVisit
    <3>2. ASSUME NEW v \in Workers \ {w}, Fetching(v)
          PROVE  /\ ~ Skipped(task[v])
                 /\ task[v].depth \in Nat
                 /\ task[v] # task[w]
                 /\ DepthLim < 0 => task[v].cid # task[w].cid
      <4>1. ~ Skipped(task[v])
        BY <2>1, <3>2 DEF RootAlone, Idle, Active, Fetching, Skipped
      <4>2. /\ task[v].cid \in Cids /\ task[v].depth \in Nat
            /\ set[task[v].cid] # -1 /\ set[task[v].cid] <= task[v].depth
        BY <1>0, <3>2, <4>1 DEF FetchInv, Task
      <4>3. ASSUME task[v].cid = task[w].cid
            PROVE  ~ DepthLim < 0 /\ task[v].depth # task[w].depth
        <5>1. /\ set[task[w].cid] \in Nat /\ set[task[w].cid] <= task[v].depth
          BY <1>0, <2>1, <4>2, <4>3
        <5>2. ~ DepthLim < 0 /\ set[task[w].cid] > task[w].depth
          BY <1>0, <2>1, <2>3, <5>1 DEF Visits
        <5> QED
          BY <2>1, <4>2, <5>1, <5>2
      <4> QED
        BY <4>1, <4>2, <4>3
    <3>3. FetchInv'
      <4> SUFFICES ASSUME NEW v \in Workers, Fetching(v)', ~ Skipped(task[v])
                   PROVE  /\ task[v].cid \in Cids
                          /\ set'[task[v].cid] # NotSeen
                          /\ set'[task[v].cid] <= task[v].depth
        BY <2>1 DEF FetchInv, Skipped
      <4>1. CASE v = w
        BY <1>0, <2>1, <3>1, <4>1
      <4>2. CASE v # w
        <5>1. Fetching(v)
          BY <2>1, <4>2 DEF Fetching
        <5>2. /\ task[v].cid \in Cids /\ set[task[v].cid] # NotSeen
              /\ set[task[v].cid] <= task[v].depth /\ task[v].depth \in Nat
          BY <3>2, <4>2, <5>1 DEF FetchInv
        <5>3. set'[task[v].cid] # NotSeen /\ set'[task[v].cid] <= set[task[v].cid]
          BY <2>1, <5>2 DEF Lowered
        <5>4. set'[task[v].cid] \in Nat /\ set[task[v].cid] \in Nat
          BY <1>0, <2>1, <3>1, <5>2, <5>3
        <5> QED
          BY <5>2, <5>3, <5>4
      <4> QED
        BY <4>1, <4>2
    <3>4. FetchedOnce'
      <4> SUFFICES ASSUME NEW v \in Workers, NEW u \in Workers, v # u, Fetching(v)', Fetching(u)'
                   PROVE  task[v] # task[u] /\ (DepthLim < 0 => task[v].cid # task[u].cid)
        BY <2>1 DEF FetchedOnce, Fetching
      <4>1. CASE v # w /\ u # w
        BY <2>1, <4>1 DEF FetchedOnce, Fetching
      <4>2. CASE u = w
        <5>1. Fetching(v)
          BY <2>1, <4>2 DEF Fetching
        <5> QED
          BY <3>2, <4>2, <5>1
      <4>3. CASE v = w
        <5>1. Fetching(u)
          BY <2>1, <4>3 DEF Fetching
        <5> QED
          BY <3>2, <4>3, <5>1
      <4> QED
        BY <4>1, <4>2, <4>3
    <3> QED
      BY <3>3, <3>4
  <2> QED
    BY <2>2, <2>3
<1>3. ASSUME set' = set, \A v \in Workers : Fetching(v)' => Fetching(v) /\ task'[v] = task[v]
      PROVE  FetchInv' /\ FetchedOnce'
  BY <1>3 DEF FetchInv, FetchedOnce, Fetching, Skipped
<1>4. ASSUME NEW w \in Workers, WorkerStep(w), ~ Feed(w), ~ CallVisit(w)
      PROVE  FetchInv' /\ FetchedOnce'
  <2>1. set' = set
    BY <1>4 DEF WorkerStep, LockVisit, CallGetLinks, ReceiveOut, ReceiveDone, ReceiveErr, Abandon,
                SkipDone, ExitWorker, walkVars
  <2>2. Fetching(w)' => Fetching(w)
    BY <1>0, <1>4 DEF WorkerStep, LockVisit, CallGetLinks, ReceiveOut, ReceiveDone, ReceiveErr,
                      Abandon, SkipDone, ExitWorker, Fetching
  <2>3. \A v \in Workers : Fetching(v)' => Fetching(v) /\ task'[v] = task[v]
    BY <1>0, <1>4, <2>2, ActiveStep DEF Fetching, Active
  <2> QED
    BY <1>3, <2>1, <2>3
<1>5. CASE MainStep \/ CancelCtx \/ Returned \/ UNCHANGED vars
  <2>1. UNCHANGED <<set, pc, task>>
    BY <1>5 DEF MainStep, ReturnCtxErr, CloseFeed, CancelFetchers, WaitWorkers, CancelCtx,
                Returned, vars, walkVars, workerVars
  <2> QED
    BY <1>3, <2>1 DEF Fetching
<1> QED
  BY <1>1, <1>2, <1>4, <1>5 DEF Next

LEMMA InitOInv == Init => OInv
<1> SUFFICES ASSUME Init PROVE OInv
  OBVIOUS
<1>1. \A w \in Workers : pc[w] = "recv"
  BY DEF Init
<1>2. todoQueue = <<>> /\ Len(todoQueue) = 0
  BY DEF Init
<1> QED
  BY <1>1, <1>2 DEF OInv, RootAlone, FetchInv, FetchedOnce, Fetching, Idle, Active

LEMMA NextOInv == BInv /\ OInv /\ [Next]_vars => OInv'
BY RootAloneStep, FetchStep DEF OInv

(* The visit function lets one worker only through to the links of a CID at  *)
(* one depth, and without a depth limit of a CID: nothing is fetched twice   *)
(* at a time, however many workers there are, SkipRoot or not.               *)
THEOREM FetchesAreSingle == Spec => []FetchedOnce
<1>1. OInv => FetchedOnce
  BY DEF OInv
<1> QED
  BY <1>1, InitOInv, NextOInv, BasicInv, PTL DEF Spec
-----------------------------------------------------------------------------
(* The guards of WorkerStep(w) and of MainStep.                              *)
WorkerCanStep(w) ==
    \/ pc[w] = "recv" /\ ((mainPc = "loop" /\ send) \/ FeedClosed)
    \/ pc[w] = "lock" /\ visitlk = {}
    \/ pc[w] \in {"visit", "links"}
    \/ pc[w] \in {"err", "out", "done"} /\ (mainPc = "loop" \/ FetchersDone)

MainCanStep ==
    \/ mainPc = "loop" /\ ctxDone
    \/ mainPc \in {"closefeed", "cancel"}
    \/ mainPc = "wait" /\ \A w \in Workers : pc[w] = "exited"

(* Until the coordinator returns, it or one of its workers can take a step   *)
(* without the help of a cancellation: they never all wait for each other.   *)
SomeoneMoves ==
    mainPc = "returned" \/ MainCanStep \/ \E w \in Workers : WorkerCanStep(w)

(* Before a cancellation the loop of the coordinator counts exactly the CIDs *)
(* that are under way, no worker has left, and there is work.                *)
LoopInv ==
    mainPc = "loop" /\ ~ ctxDone =>
        /\ \A w \in Workers : pc[w] # "exited"
        /\ inProgress = Cardinality(Holding)
        /\ Defined(next) \/ Holding # {}

LEMMA LoopStep ==
    ASSUME BInv, LoopInv, [Next]_vars
    PROVE  LoopInv'
<1> SUFFICES ASSUME mainPc' = "loop", ~ ctxDone'
             PROVE  /\ \A w \in Workers : pc'[w] # "exited"
                    /\ inProgress' = Cardinality(Holding')
                    /\ Defined(next') \/ Holding' # {}
  BY DEF LoopInv
<1>0. /\ pc \in [Workers -> PcValues] /\ task \in [Workers -> Task]
      /\ inProgress \in Int /\ NothingStranded /\ WorkerInv /\ TypeOK
  BY DEF BInv, TypeOK
<1>1. IsFiniteSet(Holding) /\ Cardinality(Holding) \in Nat
  BY WorkerAssumption, FS_Subset, FS_CardinalityType DEF Holding
<1>2. mainPc = "loop" /\ ~ ctxDone
  <2>1. ASSUME NEW w \in Workers, WorkerStep(w) PROVE mainPc = "loop" /\ ~ ctxDone
    BY <2>1 DEF WorkerStep, Feed, LockVisit, CallVisit, CallGetLinks, ReceiveOut,
       ReceiveDone, ReceiveErr, Abandon, SkipDone, ExitWorker, mainVars
  <2>2. CASE MainStep \/ CancelCtx \/ Returned \/ UNCHANGED vars
    BY <2>2 DEF MainStep, ReturnCtxErr, CloseFeed, CancelFetchers, WaitWorkers, CancelCtx,
       Returned, vars, mainVars
  <2> QED
    BY <2>1, <2>2 DEF Next
<1>3. /\ \A w \in Workers : pc[w] # "exited"
      /\ inProgress = Cardinality(Holding)
      /\ Defined(next) \/ Holding # {}
  BY <1>2 DEF LoopInv
<1>4. ~ FetchersDone /\ ~ FeedClosed
  BY <1>2 DEF FetchersDone, FeedClosed
<1>5. ASSUME NEW w \in Workers, Feed(w)
      PROVE  /\ \A v \in Workers : pc'[v] # "exited"
             /\ inProgress' = Cardinality(Holding')
             /\ Defined(next') \/ Holding' # {}
  <2>1. w \notin Holding /\ Holding' = Holding \cup {w}
    BY <1>0, <1>5, FeedEffect, ZeroTaskType DEF Feed, Holding, WorkerInv
  <2>2. Cardinality(Holding') = Cardinality(Holding) + 1
    BY <1>1, <2>1, FS_AddElement
  <2>3. inProgress' = inProgress + 1
    BY <1>5 DEF Feed
  <2>4. \A v \in Workers : pc'[v] # "exited"
    BY <1>0, <1>3, <1>5 DEF Feed
  <2> QED
    BY <1>3, <2>1, <2>2, <2>3, <2>4
<1>6. ASSUME NEW w \in Workers, ReceiveDone(w)
      PROVE  /\ \A v \in Workers : pc'[v] # "exited"
             /\ inProgress' = Cardinality(Holding')
             /\ Defined(next') \/ Holding' # {}
  <2>1. w \in Holding /\ Holding' = Holding \ {w}
    BY <1>0, <1>6, ZeroTaskType DEF ReceiveDone, Holding, NothingStranded
  <2>2. Cardinality(Holding') = Cardinality(Holding) - 1
    BY <1>1, <2>1, FS_RemoveElement
  <2>3. inProgress' = inProgress - 1 /\ next' = next
    BY <1>6 DEF ReceiveDone
  <2>4. inProgress' = Cardinality(Holding')
    BY <1>3, <2>2, <2>3
  <2>5. ~ (inProgress' = 0 /\ ~ Defined(next))
    BY <1>6 DEF ReceiveDone
  <2>6. Defined(next') \/ Holding' # {}
    BY <2>3, <2>4, <2>5, FS_EmptySet
  <2>7. \A v \in Workers : pc'[v] # "exited"
    BY <1>0, <1>3, <1>6 DEF ReceiveDone
  <2> QED
    BY <2>4, <2>6, <2>7
<1>7. ASSUME NEW w \in Workers, ReceiveOut(w)
      PROVE  /\ \A v \in Workers : pc'[v] # "exited"
             /\ inProgress' = Cardinality(Holding')
             /\ Defined(next') \/ Holding' # {}
  <2>1. Holding' = Holding /\ inProgress' = inProgress
    BY <1>7 DEF ReceiveOut, Holding
  <2>2. w \in Holding
    BY <1>0, <1>7 DEF ReceiveOut, Holding, NothingStranded
  <2>3. \A v \in Workers : pc'[v] # "exited"
    BY <1>0, <1>3, <1>7 DEF ReceiveOut
  <2> QED
    BY <1>3, <2>1, <2>2, <2>3
<1>8. ASSUME NEW w \in Workers, LockVisit(w) \/ CallVisit(w) \/ CallGetLinks(w)
      PROVE  /\ \A v \in Workers : pc'[v] # "exited"
             /\ inProgress' = Cardinality(Holding')
             /\ Defined(next') \/ Holding' # {}
  <2>1. Holding' = Holding /\ UNCHANGED <<inProgress, next>>
    BY <1>8 DEF LockVisit, CallVisit, CallGetLinks, mainVars, Holding
  <2>2. \A v \in Workers : pc'[v] # "exited"
    BY <1>0, <1>3, <1>8 DEF LockVisit, CallVisit, CallGetLinks
  <2> QED
    BY <1>3, <2>1, <2>2
<1>9. ASSUME NEW w \in Workers,
             ReceiveErr(w) \/ Abandon(w) \/ SkipDone(w) \/ ExitWorker(w)
      PROVE  FALSE
  BY <1>4, <1>9 DEF ReceiveErr, Abandon, SkipDone, ExitWorker
<1>10. ~ (MainStep \/ CancelCtx \/ Returned)
  BY <1>2 DEF MainStep, ReturnCtxErr, CloseFeed, CancelFetchers, WaitWorkers, CancelCtx, Returned
<1>11. CASE UNCHANGED vars
  <2>1. Holding' = Holding /\ UNCHANGED <<inProgress, next, pc>>
    BY <1>11 DEF vars, mainVars, workerVars, Holding
  <2> QED
    BY <1>3, <2>1
<1> QED
  BY <1>5, <1>6, <1>7, <1>8, <1>9, <1>10, <1>11 DEF Next, WorkerStep

LEMMA LoopInit == Init => LoopInv
<1> SUFFICES ASSUME Init PROVE LoopInv
  OBVIOUS
<1>1. Defined(next)
  BY DagAssumption DEF Init, Defined
<1>2. Holding = {}
  BY ZeroTaskType DEF Init, Holding
<1>3. inProgress = Cardinality(Holding)
  BY <1>2, FS_EmptySet DEF Init
<1> QED
  BY <1>1, <1>3 DEF Init, LoopInv

(* A worker that is neither idle nor gone can go on, or waits for the mutex  *)
(* that another worker holds, which can.                                     *)
LEMMA BusyWorkerMoves ==
    ASSUME BInv, NEW w \in Workers, pc[w] \notin {"recv", "exited"},
           mainPc = "loop" \/ FetchersDone
    PROVE  \E v \in Workers : WorkerCanStep(v)
<1>1. pc[w] \in PcValues /\ visitlk \subseteq Workers
  BY DEF BInv, TypeOK
<1>2. CASE pc[w] = "lock" /\ visitlk # {}
  <2>1. PICK v \in visitlk : TRUE
    BY <1>2
  <2>2. v \in Workers /\ pc[v] = "visit"
    BY <1>1, <2>1 DEF BInv, LockInv
  <2> QED
    BY <2>2 DEF WorkerCanStep
<1>3. CASE ~ (pc[w] = "lock" /\ visitlk # {})
  BY <1>1, <1>3 DEF WorkerCanStep, PcValues
<1> QED
  BY <1>2, <1>3

LEMMA MovesFromInv == BInv /\ LoopInv => SomeoneMoves
<1> SUFFICES ASSUME BInv, LoopInv, mainPc # "returned", ~ MainCanStep
             PROVE  \E w \in Workers : WorkerCanStep(w)
  BY DEF SomeoneMoves
<1>1. /\ mainPc \in {"loop", "closefeed", "cancel", "wait", "returned"}
      /\ pc \in [Workers -> PcValues]
  BY DEF BInv, TypeOK
<1>2. CASE mainPc = "loop"
  <2>1. ~ ctxDone
    BY <1>2 DEF MainCanStep
  <2>2. /\ \A w \in Workers : pc[w] # "exited"
        /\ Defined(next) \/ Holding # {}
    BY <1>2, <2>1 DEF LoopInv
  <2>3. CASE \E w \in Workers : pc[w] # "recv"
    <3>1. PICK w \in Workers : pc[w] # "recv"
      BY <2>3
    <3> QED
      BY <1>2, <2>2, <3>1, BusyWorkerMoves
  <2>4. CASE \A w \in Workers : pc[w] = "recv"
    <3>1. Holding = {}
      BY <2>4, ZeroTaskType DEF BInv, WorkerInv, Holding
    <3>2. send
      BY <2>2, <3>1 DEF BInv, NothingStranded
    <3>3. PICK w \in Workers : TRUE
      BY WorkerAssumption
    <3> QED
      BY <1>2, <2>4, <3>2, <3>3 DEF WorkerCanStep
  <2> QED
    BY <2>3, <2>4
<1>3. CASE mainPc = "wait"
  <2>1. PICK w \in Workers : pc[w] # "exited"
    BY <1>3 DEF MainCanStep
  <2>2. FetchersDone /\ FeedClosed
    BY <1>3 DEF FetchersDone, FeedClosed
  <2>3. CASE pc[w] = "recv"
    BY <2>2, <2>3 DEF WorkerCanStep
  <2>4. CASE pc[w] # "recv"
    BY <2>1, <2>2, <2>4, BusyWorkerMoves
  <2> QED
    BY <2>3, <2>4
<1> QED
  BY <1>1, <1>2, <1>3 DEF MainCanStep

(* The coordinator and its workers never wait for each other in a circle on  *)
(* feed, out, done, errChan, visitlk and wg, for every DAG, any number of    *)
(* workers and any order of their steps: until parallelWalkDepth returns,    *)
(* one of them can go on, whether or not the caller ever cancels.            *)
THEOREM WalkNeverStuck == Spec => []SomeoneMoves
BY LoopInit, LoopStep, MovesFromInv, BasicInv, PTL DEF Spec
=============================================================================
