------------------------------ MODULE WalkDepth ------------------------------
(***************************************************************************)
(* WalkDepth and Walk of bitswap/mdag/mdag.go: the option Concurrency       *)
(* chooses between parallelWalkDepth and sequentialWalkDepth, which share   *)
(* the visit function, getLinks, the error handler and the context.         *)
(***************************************************************************)
EXTENDS ParallelWalk

VARIABLES
    concurrency,   \* opts.Concurrency: 0 if no option sets it
    stack, seqval  \* the state of the sequential walk

Seq1 == INSTANCE SequentialWalk

walkDepthVars == <<vars, concurrency, stack, seqval>>

Parallel == concurrency > 1

WalkDepthInit ==
    /\ Init
    /\ Seq1!SeqInit
    /\ concurrency \in {0, 1, Cardinality(Workers)}

ParallelStep ==
    /\ Parallel
    /\ (\E w \in Workers : WorkerStep(w)) \/ MainStep
    /\ UNCHANGED <<concurrency, stack, seqval>>

SequentialStep ==
    /\ ~ Parallel
    /\ Seq1!SeqStep
    /\ UNCHANGED <<mainVars, workerVars, visitlk, concurrency>>

WalkResult == IF Parallel THEN Result ELSE Seq1!SeqResult

(* The caller cancels its context while the walk runs.                       *)
Cancel ==
    /\ WalkResult = "running"
    /\ CancelCtx
    /\ UNCHANGED <<concurrency, stack, seqval>>

WalkDepthReturned == WalkResult # "running" /\ UNCHANGED walkDepthVars

WalkDepthNext == ParallelStep \/ SequentialStep \/ Cancel \/ WalkDepthReturned

(* As in ParallelWalk; the sequential walk runs in the caller's goroutine.   *)
WalkDepthSpec ==
    /\ WalkDepthInit
    /\ [][WalkDepthNext]_walkDepthVars
    /\ \A w \in Workers : WF_walkDepthVars(ParallelStep /\ WorkerStep(w))
    /\ WF_walkDepthVars(ParallelStep /\ MainStep)
    /\ WF_walkDepthVars(SequentialStep)

(* What SequentialWalk states of the sequential walk *)
SequentialImplementsDagWalk == Seq1!SequentialImplementsDagWalk
DepthFirst == ~ Parallel => Seq1!DepthFirst

(* A path of n links from the root to x, all of them of nodes that are found *)
Reaches(x, n) ==
    \E p \in [0..n -> Cids] :
        /\ p[0] = Root
        /\ p[n] = x
        /\ \A i \in 0..n - 1 : p[i] \notin Missing /\ p[i + 1] \in LinkSet(p[i])

(* The distance of x from the root, NotSeen if it is beyond the limit; the   *)
(* visit of a skipped root itself does not count.                            *)
ReferenceDepth(x) ==
    LET ns == {n \in 0..DepthLim : Reaches(x, n) /\ (SkipRoot => n > 0)} IN
    IF ns = {} THEN NotSeen ELSE CHOOSE n \in ns : \A m \in ns : n <= m

(* After a depth limited walk that returned nil, the map holds for every CID *)
(* its distance from the root, and no CID beyond the limit, whatever order   *)
(* the workers reported in ("if we find it higher in the tree we'll need to  *)
(* explore deeper than before"): the parallel and the sequential walk end    *)
(* with the same map.                                                        *)
DepthsExact ==
    WalkResult = "nil" /\ DepthLim >= 0 /\ ignored \subseteq Missing =>
        \A x \in Cids : set[x] = ReferenceDepth(x)

(* Either walk always returns: with an error, with nil or after a            *)
(* cancellation, and the parallel one with all its workers gone.             *)
WalkDepthReturns == <>(WalkResult # "running")
=============================================================================
