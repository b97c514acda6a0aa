--------------------------- MODULE BitswapClient ---------------------------
(***************************************************************************)
(* The Client of bitswap/client.go: callers of GetBlock, one GetBlocksCh    *)
(* stream (Walk2 opens one), and the handler of the streams the server      *)
(* opens to answer.  They share the map wants from a CID to the channels    *)
(* waiting for it, under wantsMut.  There is one peer, so the key (cid,     *)
(* peer) of the map is the CID; a request stands for its reqID and for its  *)
(* channel.                                                                 *)
(*                                                                          *)
(* A GetBlock waits on a channel of its own, of capacity 1; all requests of *)
(* GetBlocksCh share the unbuffered channel tmp.  The handler sends to them *)
(* while it holds wantsMut.  The server is there as the service it          *)
(* implements (WantService).                                                *)
(***************************************************************************)
EXTENDS Integers, Sequences, FiniteSets

CONSTANTS
    Gets,         \* the calls of GetBlock
    CidOf,        \* the CID each of them asks for
    StreamCids,   \* what the caller of GetBlocksCh sends on cids before closing it
    MayCancel,    \* whether callers' contexts are ever cancelled
    MayFail,      \* whether the server may go down and its streams may break
    MaxAnswers,   \* how often the server may answer a want (its tries)
    None

ASSUME ClientAssumption ==
    /\ StreamCids \in Seq({StreamCids[n] : n \in 1..Len(StreamCids)})
    /\ MayCancel \in BOOLEAN
    /\ MayFail \in BOOLEAN
    /\ MaxAnswers \in Nat \ {0}
    /\ None \notin Gets
    /\ \A n \in 0..Len(StreamCids) : n \notin Gets /\ n # None

Requests == Gets \cup 1..Len(StreamCids)

Key(r) == IF r \in Gets THEN CidOf[r] ELSE StreamCids[r]

VARIABLES
    wants,       \* the requests whose channel is in the map
    pc,          \* where each GetBlock is
    buf,         \* the requests of Gets whose channel holds a response
    sent,        \* the requests whose want was written to the stream
    responses,   \* responses[r]: answers to want r the server has sent
    broken,      \* the requests for which a stream of the server broke
    up,          \* the server runs
    handled,     \* handled[r]: how many of them a handler has taken up
    handling,    \* the request whose answer the handler holds wantsMut for
    todo,        \* the requests it is still to send the block to
    toDelete,    \* toDelete[k] of its key k: the request it sent to last
    answered,    \* the requests that were sent a block (history)
    feedPc,      \* the goroutine of GetBlocksCh that asks for blocks
    numBlocks,   \* how many it has asked for
    fwdPc,       \* the goroutine of GetBlocksCh that forwards them to out
    blk,         \* the CID of the block it holds, None if none
    numSent,     \* how many it has forwarded
    delivered,   \* the CIDs forwarded to out (history)
    ctxDone,     \* the context of GetBlocksCh is cancelled
    panicked     \* the process is gone

getVars == <<pc, buf>>
serverVars == <<sent, responses, broken, up>>
handlerVars == <<handled, handling, todo, toDelete, answered>>
fwdVars == <<fwdPc, blk, numSent, delivered>>
streamVars == <<feedPc, numBlocks, fwdVars, ctxDone>>
clientVars == <<wants, getVars, handlerVars, streamVars>>
vars == <<clientVars, serverVars, panicked>>

Service == INSTANCE WantService WITH
    Wants <- Requests, asked <- sent, answers <- responses

TypeOK ==
    /\ wants \subseteq Requests
    /\ pc \in [Gets -> {"start", "write", "wait", "received", "cancelled"}]
    /\ buf \subseteq Gets
    /\ sent \subseteq Requests
    /\ responses \in [Requests -> 0..MaxAnswers]
    /\ handled \in [Requests -> 0..MaxAnswers]
    /\ broken \subseteq Requests
    /\ handling \in Requests \cup {None}
    /\ todo \subseteq Requests
    /\ toDelete \in Requests \cup {None}
    /\ answered \subseteq Requests
    /\ feedPc \in {"range", "register", "write", "closed"}
    /\ numBlocks \in 0..Len(StreamCids)
    /\ fwdPc \in {"tmp", "out", "check", "returned"}
    /\ numSent \in Nat
    /\ blk \in {StreamCids[n] : n \in 1..Len(StreamCids)} \cup {None}
    /\ delivered \subseteq {StreamCids[n] : n \in 1..Len(StreamCids)}
    /\ {ctxDone, up, panicked} \subseteq BOOLEAN

Init ==
    /\ wants = {}
    /\ pc = [g \in Gets |-> "start"]
    /\ buf = {}
    /\ Service!ServiceInit
    /\ handled = [r \in Requests |-> 0]
    /\ handling = None
    /\ todo = {}
    /\ toDelete = None
    /\ answered = {}
    /\ feedPc = "range"
    /\ numBlocks = 0
    /\ fwdPc = "tmp"
    /\ blk = None
    /\ numSent = 0
    /\ delivered = {}
    /\ ctxDone = FALSE
    /\ panicked = FALSE

-----------------------------------------------------------------------------
(* wantsMut is held by the handler, or only within a step.                   *)
MutexFree == handling = None

(* wrong: the channel is filed under the CID instead of the reqID            *)
GetRegisterCid(g) ==
    /\ pc[g] = "start"
    /\ MutexFree
    /\ wants' = wants \cup {CidOf[g]}
    /\ pc' = [pc EXCEPT ![g] = "write"]
    /\ UNCHANGED <<buf, serverVars, handlerVars, streamVars>>

(* getBlockFromPeer puts the channel into the map.                           *)
GetRegister(g) ==
    /\ pc[g] = "start"
    /\ MutexFree
    /\ wants' = wants \cup {g}
    /\ pc' = [pc EXCEPT ![g] = "write"]
    /\ UNCHANGED <<buf, serverVars, handlerVars, streamVars>>

(* getBlockFromPeer writes the want to the stream, without the lock.         *)
GetWrite(g) ==
    /\ pc[g] = "write"
    /\ Service!Ask({g})
    /\ pc' = [pc EXCEPT ![g] = "wait"]
    /\ UNCHANGED <<wants, buf, handlerVars, streamVars>>

(* The select of GetBlock: its channel, or ctx.Done().                       *)
GetReceive(g) ==
    /\ pc[g] = "wait"
    /\ g \in buf
    /\ buf' = buf \ {g}
    /\ pc' = [pc EXCEPT ![g] = "received"]
    /\ UNCHANGED <<wants, serverVars, handlerVars, streamVars>>

GetCancel(g) ==
    /\ MayCancel
    /\ pc[g] = "wait"
    /\ pc' = [pc EXCEPT ![g] = "cancelled"]
    /\ UNCHANGED <<wants, buf, serverVars, handlerVars, streamVars>>

(* The server answers a want on a stream of its own, once more when it took  *)
(* an answer for lost; it may go down.                                       *)
Respond(r) == Service!Answer(r) /\ UNCHANGED clientVars

ServerFails == MayFail /\ Service!GoDown /\ UNCHANGED clientVars

-----------------------------------------------------------------------------
(* handleStream has read an answer and gets wantsMut.  Answers may overtake  *)
(* each other: each has a goroutine of its own.                              *)
HandlerLock(r) ==
    /\ MutexFree
    /\ handled[r] < responses[r]
    /\ handled' = [handled EXCEPT ![r] = @ + 1]
    /\ handling' = r
    /\ todo' = {q \in wants : Key(q) = Key(r)}
    /\ toDelete' = None
    /\ UNCHANGED <<wants, getVars, serverVars, answered, streamVars>>

(* ch <- response{blk}: into the buffer, which must be empty, or to the      *)
(* forwarder, which must be receiving.  The map is ranged over in any order. *)
HandlerSend(q) ==
    /\ handling # None
    /\ q \in todo
    /\ \/ /\ q \in Gets
          /\ q \notin buf
          /\ buf' = buf \cup {q}
          /\ UNCHANGED <<fwdPc, blk>>
       \/ /\ q \notin Gets
          /\ fwdPc = "tmp"
          /\ fwdPc' = "out"
          /\ blk' = Key(q)
          /\ UNCHANGED buf
    /\ todo' = todo \ {q}
    /\ toDelete' = q
    /\ answered' = answered \cup {q}
    /\ UNCHANGED <<wants, pc, serverVars, handled, handling, feedPc, numBlocks,
                   numSent, delivered, ctxDone>>

(* wrong: wantsMut is not released *)
HandlerKeepsLock ==
    /\ handling # None
    /\ todo = {}
    /\ wants' = wants \ {toDelete}
    /\ UNCHANGED <<getVars, serverVars, handlerVars, streamVars>>

(* The deletion of toDelete, which has one reqID for each key, and Unlock.   *)
HandlerUnlock ==
    /\ handling # None
    /\ todo = {}
    /\ wants' = wants \ {toDelete}
    /\ handling' = None
    /\ UNCHANGED <<getVars, serverVars, handled, todo, toDelete, answered, streamVars>>

-----------------------------------------------------------------------------
(* GetBlocksCh: for queryCid := range cids; numBlocks++ under mx.            *)
StreamTake ==
    /\ feedPc = "range"
    /\ IF numBlocks < Len(StreamCids)
         THEN /\ numBlocks' = numBlocks + 1
              /\ feedPc' = "register"
         ELSE /\ feedPc' = "closed"
              /\ UNCHANGED numBlocks
    /\ UNCHANGED <<wants, getVars, serverVars, handlerVars, fwdVars, ctxDone>>

(* wrong: a new map for the CID replaces the one that is there               *)
StreamRegisterOver ==
    /\ feedPc = "register"
    /\ MutexFree
    /\ wants' = {q \in wants : Key(q) # Key(numBlocks)} \cup {numBlocks}
    /\ feedPc' = "write"
    /\ UNCHANGED <<getVars, serverVars, handlerVars, numBlocks, fwdVars, ctxDone>>

(* getBlockFromPeer2: the channel tmp goes into the map, ...                 *)
StreamRegister ==
    /\ feedPc = "register"
    /\ MutexFree
    /\ wants' = wants \cup {numBlocks}
    /\ feedPc' = "write"
    /\ UNCHANGED <<getVars, serverVars, handlerVars, numBlocks, fwdVars, ctxDone>>

(* ... and the want to the stream.                                           *)
StreamWrite ==
    /\ feedPc = "write"
    /\ Service!Ask({numBlocks})
    /\ feedPc' = "range"
    /\ UNCHANGED <<wants, getVars, handlerVars, numBlocks, fwdVars, ctxDone>>

(* case out <- b.blk; numSent++ (the consumer of out is always receiving).   *)
Forward ==
    /\ fwdPc = "out"
    /\ delivered' = delivered \cup {blk}
    /\ blk' = None
    /\ numSent' = numSent + 1
    /\ fwdPc' = "check"
    /\ UNCHANGED <<wants, getVars, serverVars, handlerVars, feedPc, numBlocks, ctxDone>>

(* wrong: one block more is awaited *)
ForwardCheckLate ==
    /\ fwdPc = "check"
    /\ fwdPc' = IF numSent > numBlocks THEN "returned" ELSE "tmp"
    /\ UNCHANGED <<wants, getVars, serverVars, handlerVars, feedPc, numBlocks,
                   blk, numSent, delivered, ctxDone>>

(* if numSent == numBlocks, under mx: return, and close(out).                *)
ForwardCheck ==
    /\ fwdPc = "check"
    /\ fwdPc' = IF numSent = numBlocks THEN "returned" ELSE "tmp"
    /\ UNCHANGED <<wants, getVars, serverVars, handlerVars, feedPc, numBlocks,
                   blk, numSent, delivered, ctxDone>>

(* case <-errctx.Done()                                                      *)
ForwardAbort ==
    /\ fwdPc = "out"
    /\ ctxDone
    /\ fwdPc' = "returned"
    /\ UNCHANGED <<wants, getVars, serverVars, handlerVars, feedPc, numBlocks,
                   blk, numSent, delivered, ctxDone>>

StreamCancel ==
    /\ MayCancel
    /\ ~ ctxDone
    /\ ctxDone' = TRUE
    /\ UNCHANGED <<wants, getVars, serverVars, handlerVars, feedPc, numBlocks, fwdVars>>

(* getBlockFromPeer cannot write its want.                                   *)
WritePanic ==
    /\ ~ up
    /\ feedPc = "write" \/ \E g \in Gets : pc[g] = "write"
    /\ panicked' = TRUE
    /\ UNCHANGED <<clientVars, serverVars>>

(* handleStream does not get a whole message from a stream; nothing waits    *)
(* for it to notice, so it panics when the stream breaks.                    *)
ReadPanic ==
    /\ MayFail
    /\ \E r \in Requests : Service!Break(r)
    /\ panicked' = TRUE
    /\ UNCHANGED clientVars

(* Everybody is served and gone.  The forwarder goroutine may be left behind *)
(* in its receive on tmp, which is never closed.                             *)
AllServed ==
    /\ handling = None
    /\ \A g \in Gets : pc[g] \in {"received", "cancelled"}
    /\ \A r \in sent : responses[r] > 0 /\ handled[r] = responses[r]
    /\ feedPc = "closed"
    /\ UNCHANGED vars

GetStep(g) == GetRegister(g) \/ GetWrite(g) \/ GetReceive(g)

HandlerStep ==
    \/ \E r \in Requests : HandlerLock(r)
    \/ \E q \in Requests : HandlerSend(q)
    \/ HandlerUnlock

FeedStep == StreamTake \/ StreamRegister \/ StreamWrite

ForwardStep == Forward \/ ForwardCheck \/ ForwardAbort

(* A step of the client or the server while the client is there              *)
Live(A) == ~ panicked /\ A /\ UNCHANGED panicked

Next ==
    \/ \E g \in Gets : Live(GetStep(g)) \/ Live(GetCancel(g))
    \/ \E r \in Requests : Live(Respond(r))
    \/ Live(ServerFails)
    \/ Live(HandlerStep)
    \/ Live(FeedStep)
    \/ Live(ForwardStep)
    \/ Live(StreamCancel)
    \/ ~ panicked /\ (WritePanic \/ ReadPanic)
    \/ AllServed

Spec == Init /\ [][Next]_vars

(* Goroutines that can run do run, and the server answers every want once.   *)
(* Nobody has to cancel and the server does not have to answer twice.        *)
Fairness ==
    /\ \A g \in Gets : WF_vars(Live(GetStep(g)))
    /\ \A r \in Requests : WF_vars(responses[r] = 0 /\ Live(Respond(r)))
    /\ WF_vars(Live(HandlerStep))
    /\ WF_vars(Live(FeedStep))
    /\ WF_vars(Live(ForwardStep))

FairSpec == Spec /\ Fairness

-----------------------------------------------------------------------------
(* A GetBlock that waits is never forgotten: its channel is in the map, and  *)
(* the answer to its own want is yet to be sent or handled, unless a handler *)
(* is about to send to it.  So a request must be registered before its want  *)
(* is written, and an answer to another request for the same CID must not    *)
(* take the channel away unserved.                                           *)
AnswerOnTheWay ==
    \A g \in Gets :
        pc[g] = "wait" /\ g \notin buf =>
            /\ g \in wants
            /\ \/ responses[g] = 0
               \/ handled[g] < responses[g]
               \/ handling # None /\ g \in todo

(* The forwarder of GetBlocksCh never holds more blocks than were asked for, *)
(* repeated answers included: its test numSent == numBlocks cannot be jumped *)
(* over.                                                                     *)
ForwarderBehind == fwdPc = "out" => numSent < numBlocks

(* The handler holds wantsMut and has to send to a channel nobody will       *)
(* receive from again: one that is full and whose GetBlock is over, or tmp   *)
(* after the forwarder has returned.  Such a channel was sent a block before *)
(* and stayed in the map.                                                    *)
HandlerStuck ==
    handling # None /\ \E q \in todo :
        \/ q \in Gets /\ q \in buf /\ pc[q] \in {"received", "cancelled"}
        \/ q \notin Gets /\ fwdPc = "returned"

(* A GetBlock always ends, with its block, cancelled or with the process,    *)
(* unless the handler is stuck or the server went down before it answered:   *)
(* nothing else that other calls, the stream, cancellations, repeated        *)
(* answers and failures do can make it wait for ever.                        *)
GetBlockReturns ==
    \A g \in Gets :
        pc[g] = "start" ~>
            \/ pc[g] \in {"received", "cancelled"}
            \/ panicked
            \/ HandlerStuck
            \/ ~ up /\ responses[g] = 0

(* "the resp handler will remove the channel after sending a value on it"    *)
(* (client.go): outside the handler no channel in the map was sent a value.  *)
RemovedAfterSend == handling = None => wants \cap answered = {}

(* "found all %d manifest blocks", walk2.go says when the channel of         *)
(* GetBlocksCh is closed: then every CID of the stream was delivered.        *)
StreamComplete ==
    fwdPc = "returned" /\ ~ ctxDone =>
        \A n \in 1..Len(StreamCids) : StreamCids[n] \in delivered
=============================================================================
