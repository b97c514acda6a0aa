-------------------------- MODULE NodeGetterProofs --------------------------
(***************************************************************************)
(* The invariants of NodeGetter for any number of calls, any blocks and any *)
(* order of arrival.                                                        *)
(***************************************************************************)
EXTENDS NodeGetter, TLAPS

(* The waiters and the consumer of blks:                                     *)
(*  - one block at a time is stored and not yet announced;                   *)
(*  - a call that waits is in waitMHMap until it is alerted;                 *)
(*  - no entry of waitMHMap is for a block whose Alert is over.              *)
AlertInv ==
    /\ \A g, h \in alerting : g = h
    /\ alerting \subseteq cache
    /\ \A k \in Calls : primary[k] = "wait" => k \in waiting \/ k \in signalled
    /\ \A k \in waiting : HashOf[k] \in cache => HashOf[k] \in alerting
    /\ AlertMeansCached

(* The two goroutines of a call: one that ends leaves parallelCtx done, and  *)
(* parallelCtx is done only after a node is in ch, a source failed or the    *)
(* caller cancelled.                                                         *)
DoneInv ==
    /\ \A k \in Calls : primary[k] = "ended" \/ secondary[k] = "ended" => k \in done
    /\ done \subseteq ch \cup spoiled \cup cancelled
    /\ NoSpuriousMiss

IInv == TypeOK /\ AlertInv /\ DoneInv

-----------------------------------------------------------------------------
(* At the start nothing is cached, nobody waits and no call is over.         *)
LEMMA InitIInv == Init => IInv
  BY DEF Init, IInv, TypeOK, AlertInv, AlertMeansCached, DoneInv, NoSpuriousMiss

(* Every step keeps the types. *)
LEMMA NextTypeOK == ASSUME TypeOK, [Next]_vars PROVE TypeOK'
<1> USE GetterAssumption DEF TypeOK
<1>1. ASSUME NEW k \in Calls, Lookup(k) PROVE TypeOK'
  BY <1>1 DEF Lookup, DecodeNode
<1>2. ASSUME NEW k \in Calls, WakeUp(k) PROVE TypeOK'
  BY <1>2 DEF WakeUp, DecodeNode
<1>3. ASSUME NEW k \in Calls, GiveUp(k) \/ Fetched(k) \/ FetchFails(k) PROVE TypeOK'
  BY <1>3 DEF GiveUp, Fetched, FetchFails
<1>4. ASSUME NEW k \in Calls, EndPrimary(k) PROVE TypeOK'
  BY <1>4 DEF EndPrimary, Ended
<1>5. ASSUME NEW k \in Calls, EndSecondary(k) PROVE TypeOK'
  BY <1>5 DEF EndSecondary, Ended
<1>6. ASSUME NEW k \in Calls, Return(k) \/ Cancel(k) PROVE TypeOK'
  BY <1>6 DEF Return, Cancel
<1>7. ASSUME NEW h \in Arriving, Put(h) \/ Alert(h) PROVE TypeOK'
  BY <1>7 DEF Put, Alert
<1>8. CASE Idle \/ UNCHANGED vars
  BY <1>8 DEF Idle, vars
<1> QED
  BY <1>1, <1>2, <1>3, <1>4, <1>5, <1>6, <1>7, <1>8 DEF Next, CallStep

(* The lookup and the entry in waitMHMap are one step, and Alert comes after *)
(* its Put: no wake-up is lost and none is given for nothing.                *)
LEMMA NextAlertInv == ASSUME TypeOK, AlertInv, [Next]_vars PROVE AlertInv'
<1> USE GetterAssumption DEF AlertInv, AlertMeansCached
<1>1. ASSUME NEW k \in Calls, Lookup(k) PROVE AlertInv'
  BY <1>1 DEF TypeOK, Lookup, DecodeNode
<1>2. ASSUME NEW k \in Calls, WakeUp(k) PROVE AlertInv'
  BY <1>2 DEF TypeOK, WakeUp, DecodeNode
<1>3. ASSUME NEW k \in Calls, GiveUp(k) \/ Fetched(k) \/ FetchFails(k) PROVE AlertInv'
  BY <1>3 DEF TypeOK, GiveUp, Fetched, FetchFails
<1>4. ASSUME NEW k \in Calls, EndPrimary(k) \/ EndSecondary(k) PROVE AlertInv'
  BY <1>4 DEF TypeOK, EndPrimary, EndSecondary
<1>5. ASSUME NEW k \in Calls, Return(k) \/ Cancel(k) PROVE AlertInv'
  BY <1>5 DEF Return, Cancel
<1>6. ASSUME NEW h \in Arriving, Put(h) PROVE AlertInv'
  BY <1>6 DEF TypeOK, Put
<1>7. ASSUME NEW h \in Arriving, Alert(h) PROVE AlertInv'
  BY <1>7 DEF TypeOK, Alert
<1>8. CASE Idle \/ UNCHANGED vars
  BY <1>8 DEF Idle, vars
<1> QED
  BY <1>1, <1>2, <1>3, <1>4, <1>5, <1>6, <1>7, <1>8 DEF Next, CallStep

(* A goroutine of multing.Get sends its node before it cancels.              *)
LEMMA NextDoneInv == ASSUME TypeOK, DoneInv, [Next]_vars PROVE DoneInv'
<1> USE DEF DoneInv, NoSpuriousMiss
<1>1. ASSUME NEW k \in Calls, Lookup(k) \/ WakeUp(k) PROVE DoneInv'
  BY <1>1 DEF TypeOK, Lookup, WakeUp, DecodeNode
<1>2. ASSUME NEW k \in Calls, GiveUp(k) \/ Fetched(k) \/ FetchFails(k) PROVE DoneInv'
  BY <1>2 DEF TypeOK, GiveUp, Fetched, FetchFails
<1>3. ASSUME NEW k \in Calls, EndPrimary(k) PROVE DoneInv'
  BY <1>3 DEF TypeOK, EndPrimary, Ended
<1>4. ASSUME NEW k \in Calls, EndSecondary(k) PROVE DoneInv'
  BY <1>4 DEF TypeOK, EndSecondary, Ended
<1>5. ASSUME NEW k \in Calls, Return(k) PROVE DoneInv'
  BY <1>5 DEF TypeOK, Return
<1>6. ASSUME NEW k \in Calls, Cancel(k) PROVE DoneInv'
  BY <1>6 DEF Cancel
<1>7. ASSUME NEW h \in Arriving, Put(h) \/ Alert(h) PROVE DoneInv'
  BY <1>7 DEF Put, Alert
<1>8. CASE Idle \/ UNCHANGED vars
  BY <1>8 DEF Idle, vars
<1> QED
  BY <1>1, <1>2, <1>3, <1>4, <1>5, <1>6, <1>7, <1>8 DEF Next, CallStep

(* IInv holds in every reachable state.                                      *)
LEMMA IInvHolds == Spec => []IInv
<1>1. IInv /\ [Next]_vars => IInv'
  BY NextTypeOK, NextAlertInv, NextDoneInv DEF IInv
<1> QED
  BY InitIInv, <1>1, PTL DEF Spec

-----------------------------------------------------------------------------
(* The state of Walk2's node getters stays well typed: only delivered blocks *)
(* are cached and announced.                                                 *)
THEOREM TypeCorrect == Spec => []TypeOK
<1>1. IInv => TypeOK
  BY DEF IInv
<1> QED
  BY IInvHolds, <1>1, PTL

(* A call of ngwrapper.Get that waits for a cached block has its wake-up, or *)
(* the consumer of blks is about to give it.                                 *)
THEOREM NoAlertIsLost == Spec => []NoLostAlert
<1>1. IInv => NoLostAlert
  BY DEF IInv, AlertInv, NoLostAlert
<1> QED
  BY IInvHolds, <1>1, PTL

(* A waiter that was alerted finds the block: Put comes before Alert.        *)
THEOREM AlertIsForCached == Spec => []AlertMeansCached
<1>1. IInv => AlertMeansCached
  BY DEF IInv, AlertInv
<1> QED
  BY IInvHolds, <1>1, PTL

(* multing.Get reports ErrNotFound only if its caller cancelled or a source  *)
(* had failed before any other was done.                                     *)
THEOREM NoMissIsSpurious == Spec => []NoSpuriousMiss
<1>1. IInv => NoSpuriousMiss
  BY DEF IInv, DoneInv
<1> QED
  BY IInvHolds, <1>1, PTL
-----------------------------------------------------------------------------
(* The guards of CallStep(k).                                                *)
CallCanStep(k) ==
    \/ primary[k] \in {"lookup", "have", "failed"}
    \/ primary[k] = "wait" /\ (k \in signalled \/ k \in done)
    \/ secondary[k] \in {"have", "failed"}
    \/ primary[k] = "ended" /\ secondary[k] = "ended" /\ result[k] = "none"

(* A call whose block has arrived and that has not returned can go on by     *)
(* itself, or the Alert of its block is due, or the DAG service is about to  *)
(* notice that its context is done: it never waits for the DAG service's     *)
(* answer, for another block or for its caller to cancel.                    *)
ArrivedCallMoves ==
    \A k \in Calls :
        HashOf[k] \in cache /\ result[k] = "none" =>
            \/ CallCanStep(k)
            \/ HashOf[k] \in alerting
            \/ k \in done /\ secondary[k] = "asking"

(* What is left to do in a call: by its two goroutines, and the return.      *)
PrimaryLeft(k) ==
    IF primary[k] = "lookup" THEN 3 ELSE IF primary[k] = "wait" THEN 2
    ELSE IF primary[k] = "ended" THEN 0 ELSE 1

SecondaryLeft(k) ==
    IF secondary[k] = "asking" THEN 2 ELSE IF secondary[k] = "ended" THEN 0 ELSE 1

ReturnLeft(k) == IF result[k] = "none" THEN 1 ELSE 0

ToDo(k) == PrimaryLeft(k) + SecondaryLeft(k) + ReturnLeft(k)

(* No step of anybody gives a call more to do, and its own steps, which are  *)
(* at most six, leave it less.                                               *)
CallsProgress ==
    \A k \in Calls :
        /\ ToDo(k)' <= ToDo(k)
        /\ CallStep(k) \/ Fetched(k) \/ FetchFails(k) => ToDo(k)' < ToDo(k)

(* Each goroutine of a call has less to do after its step.                   *)
LEMMA OwnProgress ==
    ASSUME TypeOK, NEW k \in Calls, CallStep(k) \/ Fetched(k) \/ FetchFails(k)
    PROVE  ToDo(k)' < ToDo(k)
<1>0. /\ primary \in [Calls -> {"lookup", "wait", "have", "failed", "ended"}]
      /\ secondary \in [Calls -> {"asking", "have", "failed", "ended"}]
      /\ result \in [Calls -> {"none", "node", "notfound"}]
  BY DEF TypeOK
<1>1. CASE Lookup(k) \/ WakeUp(k) \/ GiveUp(k) \/ EndPrimary(k)
  <2>1. UNCHANGED <<secondary, result>>
    BY <1>1 DEF Lookup, WakeUp, GiveUp, EndPrimary
  <2>2. PrimaryLeft(k)' < PrimaryLeft(k)
    BY <1>0, <1>1 DEF Lookup, WakeUp, GiveUp, EndPrimary, DecodeNode, PrimaryLeft
  <2> QED
    BY <2>1, <2>2 DEF ToDo, PrimaryLeft, SecondaryLeft, ReturnLeft
<1>2. CASE EndSecondary(k) \/ Fetched(k) \/ FetchFails(k)
  <2>1. UNCHANGED <<primary, result>>
    BY <1>2 DEF EndSecondary, Fetched, FetchFails
  <2>2. SecondaryLeft(k)' < SecondaryLeft(k)
    BY <1>0, <1>2 DEF EndSecondary, Fetched, FetchFails, SecondaryLeft
  <2> QED
    BY <2>1, <2>2 DEF ToDo, PrimaryLeft, SecondaryLeft, ReturnLeft
<1>3. CASE Return(k)
  BY <1>0, <1>3 DEF Return, ToDo, PrimaryLeft, SecondaryLeft, ReturnLeft
<1> QED
  BY <1>1, <1>2, <1>3 DEF CallStep

(* The steps of another call, of the callers and of the consumer of blks     *)
(* leave it what it had.                                                     *)
LEMMA OthersKeep ==
    ASSUME TypeOK, [Next]_vars, NEW k \in Calls, ~ (CallStep(k) \/ Fetched(k) \/ FetchFails(k))
    PROVE  ToDo(k)' = ToDo(k)
<1>1. primary'[k] = primary[k] /\ secondary'[k] = secondary[k] /\ result'[k] = result[k]
  <2>1. ASSUME NEW j \in Calls, j # k, CallStep(j) \/ Fetched(j) \/ FetchFails(j)
        PROVE  primary'[k] = primary[k] /\ secondary'[k] = secondary[k] /\ result'[k] = result[k]
    BY <2>1 DEF TypeOK, CallStep, Lookup, WakeUp, GiveUp, EndPrimary, EndSecondary, Return,
                Fetched, FetchFails
  <2>2. ASSUME NEW j \in Calls, Cancel(j) PROVE UNCHANGED <<primary, secondary, result>>
    BY <2>2 DEF Cancel
  <2>3. ASSUME NEW h \in Arriving, Put(h) \/ Alert(h) PROVE UNCHANGED <<primary, secondary, result>>
    BY <2>3 DEF Put, Alert
  <2>4. CASE Idle \/ UNCHANGED vars
    BY <2>4 DEF Idle, vars
  <2> QED
    BY <2>1, <2>2, <2>3, <2>4 DEF Next
<1> QED
  BY <1>1 DEF ToDo, PrimaryLeft, SecondaryLeft, ReturnLeft

(* Walk2's combined getter: once its block is in the cache, a call of        *)
(* multing.Get is not blocked before it returns, though the DAG service may  *)
(* never answer and nobody cancels.                                          *)
THEOREM ArrivedCallIsNotBlocked == Spec => []ArrivedCallMoves
<1>1. IInv => ArrivedCallMoves
  BY DEF IInv, TypeOK, AlertInv, DoneInv, ArrivedCallMoves, CallCanStep
<1> QED
  BY IInvHolds, <1>1, PTL

(* multing.Get is over after at most six steps of its goroutines: each of    *)
(* them brings its end nearer and nothing else that happens puts it off.     *)
(* With ArrivedCallIsNotBlocked this is all but the fairness in the argument *)
(* that a call whose block has arrived returns.                              *)
THEOREM CallsOnlyProgress == Spec => [][CallsProgress]_vars
<1>1. IInv /\ [Next]_vars => [CallsProgress]_vars
  <2> SUFFICES ASSUME IInv, [Next]_vars PROVE CallsProgress
    OBVIOUS
  <2>1. TypeOK
    BY DEF IInv
  <2>2. ASSUME NEW k \in Calls PROVE ToDo(k)' \in Int /\ ToDo(k) \in Int
    BY DEF ToDo, PrimaryLeft, SecondaryLeft, ReturnLeft
  <2> QED
    BY <2>1, <2>2, OwnProgress, OthersKeep DEF CallsProgress
<1> QED
  BY IInvHolds, <1>1, PTL DEF Spec
=============================================================================
