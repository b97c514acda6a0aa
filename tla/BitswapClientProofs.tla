------------------------ MODULE BitswapClientProofs ------------------------
(***************************************************************************)
(* The invariants of BitswapClient for any number of GetBlock calls, any    *)
(* stream of CIDs and any number of answers to a want.                      *)
(***************************************************************************)
EXTENDS BitswapClient, TLAPS

StreamBlocks == {StreamCids[n] : n \in 1..Len(StreamCids)}

(* Where a GetBlock, its channel and the answers to its want are:            *)
(*  - a want is written before it is answered, and answered before a handler *)
(*    takes it up;                                                           *)
(*  - a channel that was sent a block holds it until its GetBlock has it;    *)
(*  - a registered channel that was sent nothing is still in the map;        *)
(*  - a handler that took up an answer to a GetBlock has sent to its channel *)
(*    or is about to;                                                        *)
(*  - only channels that were sent a block are deleted.                      *)
GetInv ==
    /\ \A g \in Gets :
         /\ g \in sent => pc[g] \notin {"start", "write"}
         /\ responses[g] > 0 => g \in sent
         /\ handled[g] <= responses[g]
         /\ g \in answered => g \in buf \/ pc[g] = "received"
         /\ pc[g] = "received" => g \in answered
         /\ pc[g] # "start" /\ g \notin answered => g \in wants
         /\ handled[g] > 0 => g \in answered \/ (handling # None /\ g \in todo)
    /\ buf \subseteq answered
    /\ toDelete # None => toDelete \in answered

(* How far the two goroutines of GetBlocksCh are apart:                      *)
(*  - only requests the first goroutine has counted are in the map;          *)
(*  - the second one has a block in hand between its two statements, and     *)
(*    stops as soon as it has forwarded numBlocks of them.                   *)
StreamInv ==
    /\ \A n \in 1..Len(StreamCids) : n \in wants \cup todo => n <= numBlocks
    /\ feedPc \in {"register", "write"} => numBlocks > 0
    /\ fwdPc = "out" => blk \in StreamBlocks /\ numSent < numBlocks
    /\ fwdPc = "tmp" => numSent = 0 \/ numSent < numBlocks
    /\ fwdPc = "check" => numSent <= numBlocks

IInv == TypeOK /\ GetInv /\ StreamInv

-----------------------------------------------------------------------------
(* The requests of GetBlock calls and of the stream are told apart.          *)
LEMMA RequestFacts ==
  /\ Len(StreamCids) \in Nat
  /\ MaxAnswers \in Nat \ {0}
  /\ None \notin Requests
  /\ Gets \subseteq Requests
  /\ \A q \in Requests : q \notin Gets => q \in 1..Len(StreamCids) /\ Key(q) = StreamCids[q]
  /\ \A n \in 0..Len(StreamCids) : n \notin Gets
<1>1. Len(StreamCids) \in Nat
  BY ClientAssumption
<1>2. \A n \in 1..Len(StreamCids) : n \in 0..Len(StreamCids)
  BY <1>1
<1>3. None \notin Requests
  BY <1>2, ClientAssumption DEF Requests
<1>4. \A q \in Requests : q \notin Gets => q \in 1..Len(StreamCids) /\ Key(q) = StreamCids[q]
  BY DEF Requests, Key
<1>5. Gets \subseteq Requests
  BY DEF Requests
<1>6. MaxAnswers \in Nat \ {0} /\ \A n \in 0..Len(StreamCids) : n \notin Gets
  BY ClientAssumption
<1> QED
  BY <1>1, <1>3, <1>4, <1>5, <1>6

(* The client starts with an empty map and an idle stream.                   *)
LEMMA InitIInv == Init => IInv
<1> SUFFICES ASSUME Init PROVE IInv
  OBVIOUS
<1> USE RequestFacts DEF Init, Service!ServiceInit
<1>1. TypeOK
  <2>1. 0 \in 0..MaxAnswers /\ 0 \in 0..Len(StreamCids)
    OBVIOUS
  <2>2. {ctxDone, up, panicked} \subseteq BOOLEAN
    OBVIOUS
  <2>3. responses \in [Requests -> 0..MaxAnswers] /\ handled \in [Requests -> 0..MaxAnswers]
    BY <2>1
  <2> QED
    BY <2>1, <2>2, <2>3 DEF TypeOK
<1>2. GetInv
  BY DEF GetInv
<1>3. StreamInv
  BY DEF StreamInv
<1> QED
  BY <1>1, <1>2, <1>3 DEF IInv

(* Every step keeps the types: a handler never takes up more answers than    *)
(* were sent, and the forwarder has a block of the stream when it forwards.  *)
LEMMA NextTypeOK == ASSUME IInv, [Next]_vars PROVE TypeOK'
<1> USE RequestFacts DEF getVars, serverVars, handlerVars, fwdVars, streamVars,
                         clientVars, TypeOK
<1>0. TypeOK
  BY DEF IInv
<1>1. ASSUME NEW g \in Gets, GetRegister(g), UNCHANGED panicked PROVE TypeOK'
  BY <1>0, <1>1 DEF GetRegister
<1>2. ASSUME NEW g \in Gets, GetWrite(g), UNCHANGED panicked PROVE TypeOK'
  BY <1>0, <1>2 DEF GetWrite, Service!Ask
<1>3. ASSUME NEW g \in Gets, GetReceive(g), UNCHANGED panicked PROVE TypeOK'
  BY <1>0, <1>3 DEF GetReceive
<1>4. ASSUME NEW g \in Gets, GetCancel(g), UNCHANGED panicked PROVE TypeOK'
  BY <1>0, <1>4 DEF GetCancel
<1>5. ASSUME NEW r \in Requests, Respond(r), UNCHANGED panicked PROVE TypeOK'
  BY <1>0, <1>5, SMTT(30) DEF Respond, Service!Answer
<1>6. ASSUME ServerFails, UNCHANGED panicked PROVE TypeOK'
  BY <1>0, <1>6 DEF ServerFails, Service!GoDown
<1>7. ASSUME NEW r \in Requests, HandlerLock(r), UNCHANGED panicked PROVE TypeOK'
  BY <1>0, <1>7, SMTT(30) DEF HandlerLock
<1>8. ASSUME NEW q \in Requests, HandlerSend(q), UNCHANGED panicked PROVE TypeOK'
  BY <1>0, <1>8 DEF HandlerSend
<1>9. ASSUME HandlerUnlock, UNCHANGED panicked PROVE TypeOK'
  BY <1>0, <1>9 DEF HandlerUnlock
<1>10. ASSUME StreamTake, UNCHANGED panicked PROVE TypeOK'
  BY <1>0, <1>10 DEF StreamTake
<1>11. ASSUME StreamRegister, UNCHANGED panicked PROVE TypeOK'
  <2>1. numBlocks \in 1..Len(StreamCids)
    BY <1>0, <1>11 DEF StreamRegister, IInv, StreamInv
  <2>2. numBlocks \in Requests
    BY <2>1 DEF Requests
  <2> QED
    BY <1>0, <1>11, <2>2 DEF StreamRegister
<1>12. ASSUME StreamWrite, UNCHANGED panicked PROVE TypeOK'
  BY <1>0, <1>12 DEF StreamWrite, Service!Ask
<1>13. ASSUME Forward, UNCHANGED panicked PROVE TypeOK'
  BY <1>0, <1>13 DEF Forward, IInv, StreamInv, StreamBlocks
<1>14. ASSUME ForwardCheck \/ ForwardAbort, UNCHANGED panicked PROVE TypeOK'
  BY <1>0, <1>14 DEF ForwardCheck, ForwardAbort
<1>15. ASSUME StreamCancel, UNCHANGED panicked PROVE TypeOK'
  BY <1>0, <1>15 DEF StreamCancel
<1>16. CASE WritePanic
  BY <1>0, <1>16 DEF WritePanic
<1>17. CASE ReadPanic
  BY <1>0, <1>17 DEF ReadPanic, Service!Break
<1>18. CASE AllServed \/ UNCHANGED vars
  BY <1>0, <1>18 DEF AllServed, vars
<1> QED
  BY <1>1, <1>2, <1>3, <1>4, <1>5, <1>6, <1>7, <1>8, <1>9, <1>10, <1>11, <1>12, <1>13,
     <1>14, <1>15, <1>16, <1>17, <1>18
     DEF Next, Live, GetStep, HandlerStep, FeedStep, ForwardStep

(* A GetBlock's want, its channel and the handler keep in step.              *)
LEMMA NextGetInv == ASSUME IInv, [Next]_vars PROVE GetInv'
<1> USE RequestFacts DEF getVars, serverVars, handlerVars, fwdVars, streamVars,
                         clientVars, GetInv
<1>0. TypeOK /\ GetInv
  BY DEF IInv
<1>1. ASSUME NEW g \in Gets, GetRegister(g) PROVE GetInv'
  BY <1>0, <1>1 DEF GetRegister, TypeOK
<1>2. ASSUME NEW g \in Gets, GetWrite(g) PROVE GetInv'
  BY <1>0, <1>2 DEF GetWrite, Service!Ask, TypeOK
<1>3. ASSUME NEW g \in Gets, GetReceive(g) PROVE GetInv'
  BY <1>0, <1>3 DEF GetReceive, TypeOK
<1>4. ASSUME NEW g \in Gets, GetCancel(g) PROVE GetInv'
  BY <1>0, <1>4 DEF GetCancel, TypeOK
<1>5. ASSUME NEW r \in Requests, Respond(r) PROVE GetInv'
  BY <1>0, <1>5 DEF Respond, Service!Answer, TypeOK
<1>6. CASE ServerFails
  BY <1>0, <1>6 DEF ServerFails, Service!GoDown
<1>7. ASSUME NEW r \in Requests, HandlerLock(r) PROVE GetInv'
  BY <1>0, <1>7 DEF HandlerLock, MutexFree, TypeOK
<1>8. ASSUME NEW q \in Requests, HandlerSend(q) PROVE GetInv'
  BY <1>0, <1>8 DEF HandlerSend, TypeOK
<1>9. CASE HandlerUnlock
  BY <1>0, <1>9 DEF HandlerUnlock, TypeOK
<1>10. CASE StreamTake \/ StreamRegister
  BY <1>0, <1>10 DEF StreamTake, StreamRegister
<1>11. CASE StreamWrite
  BY <1>0, <1>11 DEF StreamWrite, Service!Ask, TypeOK
<1>12. CASE Forward \/ ForwardCheck \/ ForwardAbort \/ StreamCancel
  BY <1>0, <1>12 DEF Forward, ForwardCheck, ForwardAbort, StreamCancel
<1>13. CASE WritePanic \/ ReadPanic
  BY <1>0, <1>13 DEF WritePanic, ReadPanic, Service!Break
<1>14. CASE AllServed \/ UNCHANGED vars
  BY <1>0, <1>14 DEF AllServed, vars
<1> QED
  BY <1>1, <1>2, <1>3, <1>4, <1>5, <1>6, <1>7, <1>8, <1>9, <1>10, <1>11, <1>12, <1>13,
     <1>14 DEF Next, Live, GetStep, HandlerStep, FeedStep, ForwardStep

(* The forwarder never overtakes the goroutine that counts the requests.     *)
LEMMA NextStreamInv == ASSUME IInv, [Next]_vars PROVE StreamInv'
<1> USE RequestFacts DEF getVars, serverVars, handlerVars, fwdVars, streamVars,
                         clientVars, StreamInv
<1>0. TypeOK /\ StreamInv
  BY DEF IInv
<1>1. ASSUME NEW g \in Gets, GetRegister(g) \/ GetReceive(g) \/ GetCancel(g)
      PROVE StreamInv'
  BY <1>0, <1>1 DEF GetRegister, GetReceive, GetCancel
<1>2. ASSUME NEW g \in Gets, GetWrite(g) PROVE StreamInv'
  BY <1>0, <1>2 DEF GetWrite, Service!Ask
<1>3. ASSUME NEW r \in Requests, Respond(r) PROVE StreamInv'
  BY <1>0, <1>3 DEF Respond, Service!Answer
<1>4. CASE ServerFails
  BY <1>0, <1>4 DEF ServerFails, Service!GoDown
<1>5. ASSUME NEW r \in Requests, HandlerLock(r) PROVE StreamInv'
  BY <1>0, <1>5 DEF HandlerLock
<1>6. ASSUME NEW q \in Requests, HandlerSend(q) PROVE StreamInv'
  BY <1>0, <1>6, SMTT(30) DEF HandlerSend, TypeOK, StreamBlocks
<1>7. CASE HandlerUnlock
  BY <1>0, <1>7 DEF HandlerUnlock
<1>8. CASE StreamTake
  BY <1>0, <1>8 DEF StreamTake, TypeOK
<1>9. CASE StreamRegister
  BY <1>0, <1>9 DEF StreamRegister, TypeOK
<1>10. CASE StreamWrite
  BY <1>0, <1>10 DEF StreamWrite, Service!Ask, TypeOK
<1>11. CASE Forward
  BY <1>0, <1>11 DEF Forward, TypeOK
<1>12. CASE ForwardCheck \/ ForwardAbort
  BY <1>0, <1>12 DEF ForwardCheck, ForwardAbort, TypeOK
<1>13. CASE StreamCancel \/ WritePanic
  BY <1>0, <1>13 DEF StreamCancel, WritePanic
<1>14. CASE ReadPanic
  BY <1>0, <1>14 DEF ReadPanic, Service!Break
<1>15. CASE AllServed \/ UNCHANGED vars
  BY <1>0, <1>15 DEF AllServed, vars
<1> QED
  BY <1>1, <1>2, <1>3, <1>4, <1>5, <1>6, <1>7, <1>8, <1>9, <1>10, <1>11, <1>12, <1>13,
     <1>14, <1>15 DEF Next, Live, GetStep, HandlerStep, FeedStep, ForwardStep

(* IInv holds in every reachable state.                                      *)
LEMMA IInvHolds == Spec => []IInv
<1>1. IInv /\ [Next]_vars => IInv'
  BY NextTypeOK, NextGetInv, NextStreamInv DEF IInv
<1> QED
  BY InitIInv, <1>1, PTL DEF Spec

-----------------------------------------------------------------------------
(* The state of client.go stays well typed; in particular the forwarder      *)
(* only ever forwards CIDs of its stream, and no answer is handled that was  *)
(* not sent.                                                                 *)
THEOREM TypeCorrect == Spec => []TypeOK
<1>1. IInv => TypeOK
  BY DEF IInv
<1> QED
  BY IInvHolds, <1>1, PTL

(* A GetBlock that waits is never forgotten: its channel is in the map, and  *)
(* the answer to its own want is yet to be sent or handled, unless a handler *)
(* is about to send to it.                                                   *)
THEOREM AnswerIsOnTheWay == Spec => []AnswerOnTheWay
<1>1. IInv => AnswerOnTheWay
  BY RequestFacts DEF IInv, TypeOK, GetInv, AnswerOnTheWay
<1> QED
  BY IInvHolds, <1>1, PTL

(* The test numSent == numBlocks of GetBlocksCh cannot be jumped over.       *)
THEOREM ForwarderIsBehind == Spec => []ForwarderBehind
<1>1. IInv => ForwarderBehind
  BY DEF IInv, StreamInv, ForwarderBehind
<1> QED
  BY IInvHolds, <1>1, PTL
-----------------------------------------------------------------------------
(* A GetBlock that waits has written its want, and no handler sends to a     *)
(* channel that was not registered.                                          *)
WaitInv ==
    \A g \in Gets :
        /\ pc[g] = "wait" => g \in sent
        /\ g \in wants \cup todo => pc[g] # "start"

(* The guards of GetStep(g), of the server's first answer to g, of           *)
(* HandlerStep and of ForwardStep.                                           *)
GetCanStep(g) ==
    \/ pc[g] = "start" /\ MutexFree
    \/ pc[g] = "write" /\ g \notin sent
    \/ pc[g] = "wait" /\ g \in buf

ServerCanAnswer(g) == up /\ g \in sent /\ responses[g] = 0

CanSendTo(q) == IF q \in Gets THEN q \notin buf ELSE fwdPc = "tmp"

HandlerCanStep ==
    \/ MutexFree /\ \E r \in Requests : handled[r] < responses[r]
    \/ handling # None /\ (todo = {} \/ \E q \in todo : CanSendTo(q))

ForwarderCanStep == fwdPc \in {"out", "check"}

(* While a GetBlock has not ended, it, its server, the handler that holds    *)
(* wantsMut or somebody that handler waits for can go on, unless the process *)
(* is gone, the handler is stuck or the server went down before it answered: *)
(* GetBlock calls, the handlers and the stream never wait in a circle.       *)
GetIsServed ==
    \A g \in Gets :
        pc[g] \in {"start", "write", "wait"} =>
            \/ panicked \/ HandlerStuck \/ (~ up /\ responses[g] = 0)
            \/ GetCanStep(g) \/ ServerCanAnswer(g)
            \/ HandlerCanStep \/ ForwarderCanStep
            \/ handling # None /\ \E q \in todo \cap Gets : GetCanStep(q)

LEMMA NextWaitInv == ASSUME IInv, WaitInv, [Next]_vars PROVE WaitInv'
<1> USE RequestFacts DEF getVars, serverVars, handlerVars, fwdVars, streamVars, clientVars
<1>0. pc \in [Gets -> {"start", "write", "wait", "received", "cancelled"}]
  BY DEF IInv, TypeOK
<1>1. ASSUME NEW g \in Gets, GetRegister(g) \/ GetReceive(g) \/ GetCancel(g) PROVE WaitInv'
  BY <1>0, <1>1 DEF GetRegister, GetReceive, GetCancel, WaitInv
<1>2. ASSUME NEW g \in Gets, GetWrite(g) PROVE WaitInv'
  BY <1>0, <1>2 DEF GetWrite, Service!Ask, WaitInv
<1>3. ASSUME NEW r \in Requests, Respond(r) PROVE WaitInv'
  BY <1>3 DEF Respond, Service!Answer, WaitInv
<1>4. ASSUME ServerFails PROVE WaitInv'
  BY <1>4 DEF ServerFails, Service!GoDown, WaitInv
<1>5. ASSUME NEW r \in Requests, HandlerLock(r) PROVE WaitInv'
  BY <1>5 DEF HandlerLock, WaitInv
<1>6. ASSUME NEW q \in Requests, HandlerSend(q) PROVE WaitInv'
  BY <1>6 DEF HandlerSend, WaitInv
<1>7. CASE HandlerUnlock
  BY <1>7 DEF HandlerUnlock, WaitInv
<1>8. CASE StreamTake
  BY <1>8 DEF StreamTake, WaitInv
<1>9. CASE StreamRegister
  <2>1. numBlocks \notin Gets
    BY DEF IInv, TypeOK
  <2> QED
    BY <1>9, <2>1 DEF StreamRegister, WaitInv
<1>10. CASE StreamWrite
  BY <1>10 DEF StreamWrite, Service!Ask, WaitInv
<1>11. CASE Forward \/ ForwardCheck \/ ForwardAbort \/ StreamCancel
  BY <1>11 DEF Forward, ForwardCheck, ForwardAbort, StreamCancel, WaitInv
<1>12. CASE WritePanic
  BY <1>12 DEF WritePanic, WaitInv
<1>13. CASE ReadPanic
  BY <1>13 DEF ReadPanic, Service!Break, WaitInv
<1>14. CASE AllServed \/ UNCHANGED vars
  BY <1>14 DEF AllServed, vars, WaitInv
<1> QED
  BY <1>1, <1>2, <1>3, <1>4, <1>5, <1>6, <1>7, <1>8, <1>9, <1>10, <1>11, <1>12, <1>13,
     <1>14 DEF Next, Live, GetStep, HandlerStep, FeedStep, ForwardStep

(* Somebody can go on while the handler holds wantsMut.                      *)
LEMMA HandlerGoesOn ==
    ASSUME IInv, WaitInv, handling # None, ~ HandlerStuck
    PROVE  HandlerCanStep \/ ForwarderCanStep \/ \E q \in todo \cap Gets : GetCanStep(q)
<1>1. CASE todo = {}
  BY <1>1 DEF HandlerCanStep
<1>2. CASE todo # {}
  <2>1. PICK q \in todo : TRUE
    BY <1>2
  <2>2. CASE q \in Gets
    <3>1. pc[q] \in {"write", "wait", "received", "cancelled"} /\ (pc[q] = "write" => q \notin sent)
      BY <2>1, <2>2 DEF WaitInv, IInv, TypeOK, GetInv
    <3>2. q \in buf => pc[q] \notin {"received", "cancelled"}
      BY <2>1, <2>2 DEF HandlerStuck
    <3>3. CASE q \in buf
      BY <2>1, <2>2, <3>1, <3>2, <3>3 DEF GetCanStep
    <3>4. CASE q \notin buf
      BY <2>1, <2>2, <3>4 DEF HandlerCanStep, CanSendTo
    <3> QED
      BY <3>3, <3>4
  <2>3. CASE q \notin Gets
    <3>1. fwdPc \in {"tmp", "out", "check"}
      BY <2>1, <2>3 DEF HandlerStuck, IInv, TypeOK
    <3> QED
      BY <2>1, <2>3, <3>1 DEF HandlerCanStep, CanSendTo, ForwarderCanStep
  <2> QED
    BY <2>2, <2>3
<1> QED
  BY <1>1, <1>2

(* client.go: a GetBlock waits in vain only for a handler that is stuck on a *)
(* channel nobody receives from, or for a server that is gone; wantsMut, the *)
(* buffers of the channels, tmp and the forwarder of GetBlocksCh never hold  *)
(* each other up, for any number of calls, any stream and repeated answers.  *)
THEOREM GetIsNotBlocked == Spec => []GetIsServed
<1>1. Init => WaitInv
  BY DEF Init, WaitInv
<1>2. IInv /\ WaitInv => GetIsServed
  <2> SUFFICES ASSUME IInv, WaitInv, NEW g \in Gets, pc[g] \in {"start", "write", "wait"},
                      ~ HandlerStuck, ~ (~ up /\ responses[g] = 0)
               PROVE  \/ GetCanStep(g) \/ ServerCanAnswer(g)
                      \/ HandlerCanStep \/ ForwarderCanStep
                      \/ handling # None /\ \E q \in todo \cap Gets : GetCanStep(q)
    BY DEF GetIsServed
  <2>1. CASE handling # None
    BY <2>1, HandlerGoesOn
  <2>2. CASE handling = None /\ (pc[g] # "wait" \/ g \in buf)
    BY <2>2 DEF GetCanStep, MutexFree, IInv, GetInv
  <2>3. CASE handling = None /\ pc[g] = "wait" /\ g \notin buf
    <3>1. responses[g] = 0 \/ handled[g] < responses[g]
      BY <2>3, RequestFacts DEF IInv, TypeOK, GetInv
    <3>2. g \in sent /\ g \in Requests
      BY <2>3, RequestFacts DEF WaitInv
    <3> QED
      BY <2>3, <3>1, <3>2 DEF ServerCanAnswer, HandlerCanStep, MutexFree
  <2> QED
    BY <2>1, <2>2, <2>3
<1>3. IInv /\ WaitInv /\ [Next]_vars => WaitInv'
  BY NextWaitInv
<1> QED
  BY <1>1, <1>2, <1>3, IInvHolds, PTL DEF Spec
=============================================================================
