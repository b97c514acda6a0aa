---------------------------- MODULE ParallelWalk ----------------------------
(***************************************************************************)
(* parallelWalkDepth of bitswap/mdag/mdag.go: a coordinator that owns the   *)
(* queue of CIDs still to walk, and options.Concurrency workers that visit  *)
(* a CID, fetch its links and hand them back.  They meet on the unbuffered  *)
(* channels feed, out, done and errChan: a step that sends on one is a step *)
(* of both sides.  The visit function is the one of                         *)
(* FetchGraphWithDepthLimit; with a negative DepthLim it is the set.Visit   *)
(* that Walk is called with.  The 3 second ticker only logs and is left out. *)
(***************************************************************************)
EXTENDS Merkledag, FiniteSets

CONSTANTS
    Workers,    \* the worker goroutines, options.Concurrency of them
    MayCancel   \* whether the caller's context is ever cancelled

ASSUME WorkerAssumption ==
    /\ IsFiniteSet(Workers)
    /\ Workers # {}
    /\ MayCancel \in BOOLEAN

VARIABLES
    set,         \* the map of the visit closure: CID -> depth
    ignored,     \* CIDs whose getLinks error the handler turned into nil
    callbacks,   \* the CIDs OnMissing's callback was called with
    ctxDone,     \* the caller's ctx is cancelled
    visitlk,     \* the holders of visitlk
    pc,          \* where each worker is
    task,        \* the cidDepth each worker holds
    links,       \* outLinks.links of each worker
    errval,      \* the error each worker holds
    mainPc,      \* where the coordinator is: its loop, then its deferred calls
    next,        \* the cidDepth to feed next, ZeroTask if none
    send,        \* whether the variable send is the feed channel (not nil)
    todoQueue,
    inProgress,
    retval       \* the value the coordinator returns, "none" while looping

walkVars == <<set, ignored, callbacks>>
mainVars == <<mainPc, next, send, todoQueue, inProgress, retval>>
workerVars == <<pc, task, links, errval>>
vars == <<walkVars, mainVars, workerVars, ctxDone, visitlk>>

(* close(feed), cancel() and wg.Wait() run in this order when the           *)
(* coordinator returns: they were deferred in the opposite one.             *)
FeedClosed == mainPc \in {"cancel", "wait", "returned"}
FetchersDone == ctxDone \/ mainPc \in {"wait", "returned"}

PcValues == {"recv", "lock", "visit", "links", "err", "out", "done", "exited"}

TypeOK ==
    /\ set \in [Cids -> Nat \cup {NotSeen}]
    /\ ignored \subseteq Cids
    /\ callbacks \subseteq Cids
    /\ ctxDone \in BOOLEAN
    /\ visitlk \subseteq Workers
    /\ pc \in [Workers -> PcValues]
    /\ task \in [Workers -> Task]
    /\ links \in [Workers -> Seq(Cids)]
    /\ errval \in [Workers -> {"nil", "notfound", "ctx"}]
    /\ mainPc \in {"loop", "closefeed", "cancel", "wait", "returned"}
    /\ next \in Task
    /\ send \in BOOLEAN
    /\ todoQueue \in Seq(Task)
    /\ inProgress \in Int
    /\ retval \in {"none", "nil", "notfound", "ctx"}

Init ==
    /\ set = [c \in Cids |-> NotSeen]
    /\ ignored = {}
    /\ callbacks = {}
    /\ ctxDone = FALSE
    /\ visitlk = {}
    /\ pc = [w \in Workers |-> "recv"]
    /\ task = [w \in Workers |-> ZeroTask]
    /\ links = [w \in Workers |-> <<>>]
    /\ errval = [w \in Workers |-> "nil"]
    /\ mainPc = "loop"
    /\ next = [cid |-> Root, depth |-> 0]
    /\ send = TRUE
    /\ todoQueue = <<>>
    /\ inProgress = 0
    /\ retval = "none"

-----------------------------------------------------------------------------
(* case send <- next: worker w receives the next CID from feed; the root is  *)
(* bypassed if the options say so.                                           *)
Feed(w) ==
    /\ mainPc = "loop"
    /\ send
    /\ pc[w] = "recv"
    /\ task' = [task EXCEPT ![w] = next]
    /\ pc' = [pc EXCEPT ![w] = IF SkipRoot /\ next.depth = 0 THEN "links" ELSE "lock"]
    /\ inProgress' = inProgress + 1
    /\ IF todoQueue # <<>>
         THEN /\ next' = Head(todoQueue)
              /\ todoQueue' = Tail(todoQueue)
              /\ UNCHANGED send
         ELSE /\ next' = ZeroTask
              /\ send' = FALSE
              /\ UNCHANGED todoQueue
    /\ UNCHANGED <<walkVars, ctxDone, visitlk, links, errval, mainPc, retval>>

(* wrong: visit is called without the lock *)
LockVisitUnguarded(w) ==
    /\ pc[w] = "lock"
    /\ visitlk' = visitlk \cup {w}
    /\ pc' = [pc EXCEPT ![w] = "visit"]
    /\ UNCHANGED <<walkVars, mainVars, ctxDone, task, links, errval>>

(* visitlk.Lock() *)
LockVisit(w) ==
    /\ pc[w] = "lock"
    /\ visitlk = {}
    /\ visitlk' = {w}
    /\ pc' = [pc EXCEPT ![w] = "visit"]
    /\ UNCHANGED <<walkVars, mainVars, ctxDone, task, links, errval>>

(* visit(ci, depth); visitlk.Unlock() *)
CallVisit(w) ==
    /\ pc[w] = "visit"
    /\ IF Visits(set, task[w].cid, task[w].depth)
         THEN /\ set' = [set EXCEPT ![task[w].cid] = task[w].depth]
              /\ pc' = [pc EXCEPT ![w] = "links"]
         ELSE /\ pc' = [pc EXCEPT ![w] = "done"]
              /\ UNCHANGED set
    /\ visitlk' = visitlk \ {w}
    /\ UNCHANGED <<ignored, callbacks, mainVars, ctxDone, task, links, errval>>

(* getLinks(ctx, ci) returns, and the error handler sees its error; the      *)
(* handler is called with the root of the walk, not with ci.                 *)
CallGetLinks(w) ==
    /\ pc[w] = "links"
    /\ \E err \in GetLinksErrors(task[w].cid, ctxDone) :
         LET left == IF err = "nil" THEN "nil" ELSE ErrorHandler(err) IN
         /\ callbacks' = callbacks \cup MissingCallback(Root, err)
         /\ errval' = [errval EXCEPT ![w] = left]
         /\ links' = [links EXCEPT ![w] = IF err = "nil" THEN Links[task[w].cid] ELSE <<>>]
         /\ ignored' = IF err # "nil" /\ left = "nil"
                         THEN ignored \cup {task[w].cid} ELSE ignored
         /\ pc' = [pc EXCEPT ![w] = IF left = "nil" THEN "out" ELSE "err"]
    /\ UNCHANGED <<set, mainVars, ctxDone, visitlk, task>>

(* wrong: the depth counts down *)
CidDepthsUp(ls, depth) == [k \in 1..Len(ls) |-> [cid |-> ls[k], depth |-> depth - 2]]

(* wrong: the entries are appended to a slice made with their length         *)
CidDepthsPadded(ls, depth) ==
    [k \in 1..Len(ls) |-> ZeroTask] \o
        [k \in 1..Len(ls) |-> [cid |-> ls[k], depth |-> depth]]

(* The cidDepth entries of a linksDepth *)
CidDepths(ls, depth) == [k \in 1..Len(ls) |-> [cid |-> ls[k], depth |-> depth]]

(* case linksDepth := <-out: the first link becomes next if there is none,   *)
(* the others go behind the queue.                                           *)
ReceiveOut(w) ==
    LET cds == CidDepths(links[w], task[w].depth + 1) IN
    /\ mainPc = "loop"
    /\ pc[w] = "out"
    /\ IF ~ Defined(next) /\ cds # <<>>
         THEN /\ next' = Head(cds)
              /\ send' = TRUE
              /\ todoQueue' = todoQueue \o Tail(cds)
         ELSE /\ todoQueue' = todoQueue \o cds
              /\ UNCHANGED <<next, send>>
    /\ pc' = [pc EXCEPT ![w] = "done"]
    /\ UNCHANGED <<walkVars, ctxDone, visitlk, task, links, errval,
                   mainPc, inProgress, retval>>

(* case <-done *)
ReceiveDone(w) ==
    /\ mainPc = "loop"
    /\ pc[w] = "done"
    /\ inProgress' = inProgress - 1
    /\ IF inProgress' = 0 /\ ~ Defined(next)
         THEN /\ mainPc' = "closefeed"
              /\ retval' = "nil"
         ELSE UNCHANGED <<mainPc, retval>>
    /\ pc' = [pc EXCEPT ![w] = "recv"]
    /\ task' = [task EXCEPT ![w] = ZeroTask]
    /\ UNCHANGED <<walkVars, ctxDone, visitlk, links, errval, next, send, todoQueue>>

(* case err := <-errChan; the worker returns *)
ReceiveErr(w) ==
    /\ mainPc = "loop"
    /\ pc[w] = "err"
    /\ mainPc' = "closefeed"
    /\ retval' = errval[w]
    /\ pc' = [pc EXCEPT ![w] = "exited"]
    /\ UNCHANGED <<walkVars, ctxDone, visitlk, task, links, errval,
                   next, send, todoQueue, inProgress>>

(* wrong: a worker that dropped its links reports its CID as done            *)
AbandonAsDone(w) ==
    /\ FetchersDone
    /\ pc[w] \in {"err", "out"}
    /\ pc' = [pc EXCEPT ![w] = "done"]
    /\ UNCHANGED <<walkVars, mainVars, ctxDone, visitlk, task, links, errval>>

(* case <-fetchersCtx.Done() of the selects on errChan and out: the worker   *)
(* returns with its CID unfinished.                                          *)
Abandon(w) ==
    /\ FetchersDone
    /\ pc[w] \in {"err", "out"}
    /\ pc' = [pc EXCEPT ![w] = "exited"]
    /\ UNCHANGED <<walkVars, mainVars, ctxDone, visitlk, task, links, errval>>

(* case <-fetchersCtx.Done() of the select on done: the worker goes back to  *)
(* feed and the coordinator never counts its CID as finished.                *)
SkipDone(w) ==
    /\ FetchersDone
    /\ pc[w] = "done"
    /\ pc' = [pc EXCEPT ![w] = "recv"]
    /\ task' = [task EXCEPT ![w] = ZeroTask]
    /\ UNCHANGED <<walkVars, mainVars, ctxDone, visitlk, links, errval>>

(* range feed ends *)
ExitWorker(w) ==
    /\ FeedClosed
    /\ pc[w] = "recv"
    /\ pc' = [pc EXCEPT ![w] = "exited"]
    /\ UNCHANGED <<walkVars, mainVars, ctxDone, visitlk, task, links, errval>>

(* wrong: the cancellation is noted and the loop goes on                     *)
KeepLooping == mainPc = "loop" /\ ctxDone /\ UNCHANGED vars

(* case <-ctx.Done() of the coordinator *)
ReturnCtxErr ==
    /\ mainPc = "loop"
    /\ ctxDone
    /\ mainPc' = "closefeed"
    /\ retval' = "ctx"
    /\ UNCHANGED <<walkVars, workerVars, ctxDone, visitlk, next, send,
                   todoQueue, inProgress>>

(* The deferred calls: close(feed), then cancel(), then wg.Wait().           *)
CloseFeed ==
    /\ mainPc = "closefeed"
    /\ mainPc' = "cancel"
    /\ UNCHANGED <<walkVars, workerVars, ctxDone, visitlk, next, send,
                   todoQueue, inProgress, retval>>

CancelFetchers ==
    /\ mainPc = "cancel"
    /\ mainPc' = "wait"
    /\ UNCHANGED <<walkVars, workerVars, ctxDone, visitlk, next, send,
                   todoQueue, inProgress, retval>>

WaitWorkers ==
    /\ mainPc = "wait"
    /\ \A w \in Workers : pc[w] = "exited"
    /\ mainPc' = "returned"
    /\ UNCHANGED <<walkVars, workerVars, ctxDone, visitlk, next, send,
                   todoQueue, inProgress, retval>>

(* The caller cancels its context. *)
CancelCtx ==
    /\ MayCancel
    /\ ~ ctxDone
    /\ mainPc # "returned"
    /\ ctxDone' = TRUE
    /\ UNCHANGED <<walkVars, mainVars, workerVars, visitlk>>

(* The walk has returned and all its goroutines are gone. *)
Returned ==
    /\ mainPc = "returned"
    /\ UNCHANGED vars

WorkerStep(w) ==
    \/ Feed(w)
    \/ LockVisit(w)
    \/ CallVisit(w)
    \/ CallGetLinks(w)
    \/ ReceiveOut(w)
    \/ ReceiveDone(w)
    \/ ReceiveErr(w)
    \/ Abandon(w)
    \/ SkipDone(w)
    \/ ExitWorker(w)

MainStep ==
    \/ ReturnCtxErr
    \/ CloseFeed
    \/ CancelFetchers
    \/ WaitWorkers

Next ==
    \/ \E w \in Workers : WorkerStep(w)
    \/ MainStep
    \/ CancelCtx
    \/ Returned

Spec == Init /\ [][Next]_vars

(* Every goroutine that can run is eventually run by the Go scheduler, a     *)
(* select with a ready case is eventually taken, and getLinks returns.       *)
(* Nothing obliges the caller to cancel.                                     *)
Fairness ==
    /\ \A w \in Workers : WF_vars(WorkerStep(w))
    /\ WF_vars(MainStep)

FairSpec == Spec /\ Fairness

-----------------------------------------------------------------------------
(* What the caller sees: nothing until the deferred wg.Wait() is over.       *)
Result == IF mainPc # "returned" THEN "running"
          ELSE IF retval = "nil" THEN "nil" ELSE "error"

DW == INSTANCE DagWalk WITH result <- Result

(* The parallel walk does what a walk promises: it visits only linked nodes, *)
(* it returns nil only when everything within the limit was visited (in      *)
(* particular not when a cancellation made a worker drop the links it had    *)
(* fetched), and no visit happens after it has returned.                     *)
ImplementsDagWalk == DW!Spec

(* "It *does not* make multiple concurrent calls to the passed `visit`       *)
(* function" (options Concurrent and Concurrency): at most one worker is     *)
(* inside the visit function.                                                *)
VisitExclusive ==
    \A v, w \in Workers : pc[v] = "visit" /\ pc[w] = "visit" => v = w

(* No two workers ever fetch, or hold the links of, one CID at one depth,    *)
(* and without a depth limit not even of one CID: the visit function let     *)
(* only one of them through.                                                 *)
FetchedOnce ==
    \A v, w \in Workers :
        /\ v # w
        /\ pc[v] \in {"links", "err", "out"}
        /\ pc[w] \in {"links", "err", "out"}
        => /\ task[v] # task[w]
           /\ DepthLim < 0 => task[v].cid # task[w].cid

(* The coordinator offers a CID exactly when it has one, and never keeps a   *)
(* queue behind an empty "next": the nil channel "send" cannot strand work   *)
(* and cid.Undef is never fed to a worker.                                   *)
NothingStranded ==
    /\ send <=> Defined(next)
    /\ ~ Defined(next) => todoQueue = <<>>
    /\ \A i \in 1..Len(todoQueue) : Defined(todoQueue[i])
    /\ \A w \in Workers :
          pc[w] \in {"lock", "visit", "links", "err", "out", "done"} => Defined(task[w])

(* "OnMissing is a WalkOption adding a callback that will be triggered on a  *)
(* missing node" (mdag.go): the callback gets CIDs that are missing.         *)
CallbackOnMissingNode == callbacks \subseteq Missing
=============================================================================
