----------------------------- MODULE NodeGetter -----------------------------
(***************************************************************************)
(* How Walk2 (bitswap/mdag/walk2.go) gets a node: multing.Get asks two      *)
(* sources at once, the cache of blocks fetched ahead of the walk           *)
(* (ngwrapper.Get, which waits for a block that is not there yet) and the   *)
(* DAG service over the network, and cancels the other when one is done.    *)
(* The consumer of GetBlocksCh fills the cache and alerts the waiters.  The *)
(* cache and waitMHMap go by multihash, so a node is named by its hash.     *)
(***************************************************************************)
EXTENDS Integers, FiniteSets

CONSTANTS
    Calls,       \* the calls of multing.Get
    Hashes,      \* the multihashes of the blocks
    HashOf,      \* the block each call asks for
    Arriving,    \* the blocks that GetBlocksCh delivers, in any order, maybe again
    Undecodable, \* the blocks legacy.DecodeNode makes no node of
    Cancellable  \* the calls whose callers may cancel

ASSUME GetterAssumption ==
    /\ HashOf \in [Calls -> Hashes]
    /\ Arriving \subseteq Hashes
    /\ Undecodable \subseteq Hashes
    /\ Cancellable \subseteq Calls

VARIABLES
    cache,      \* the blocks in cacheBstore
    waiting,    \* the calls whose waitCh is in waitMHMap
    signalled,  \* the calls whose waitCh holds the value of Alert
    alerting,   \* the block that was Put and not yet announced (at most one)
    primary,    \* where the goroutine of each call is that asks the cache
    secondary,  \* and the one that asks the DAG service
    done,       \* the calls whose parallelCtx is done
    cancelled,  \* the calls whose caller cancelled (ctx)
    ch,         \* the calls whose channel ch holds a node
    spoiled,    \* the calls a source of which failed before any was done (history)
    result      \* what each call returned

vars == <<cache, waiting, signalled, alerting, primary, secondary, done,
          cancelled, ch, spoiled, result>>

TypeOK ==
    /\ cache \subseteq Arriving
    /\ waiting \subseteq Calls
    /\ signalled \subseteq Calls
    /\ alerting \subseteq Arriving
    /\ primary \in [Calls -> {"lookup", "wait", "have", "failed", "ended"}]
    /\ secondary \in [Calls -> {"asking", "have", "failed", "ended"}]
    /\ done \subseteq Calls
    /\ cancelled \subseteq Calls
    /\ ch \subseteq Calls
    /\ spoiled \subseteq Calls
    /\ result \in [Calls -> {"none", "node", "notfound"}]

Init ==
    /\ cache = {}
    /\ waiting = {}
    /\ signalled = {}
    /\ alerting = {}
    /\ primary = [k \in Calls |-> "lookup"]
    /\ secondary = [k \in Calls |-> "asking"]
    /\ done = {}
    /\ cancelled = {}
    /\ ch = {}
    /\ spoiled = {}
    /\ result = [k \in Calls |-> "none"]

-----------------------------------------------------------------------------
(* The result of ngwrapper.Get for a block that is in the cache              *)
DecodeNode(h) == IF h \in Undecodable THEN "failed" ELSE "have"

(* wrong: one waiter for each hash *)
LookupByHash(k) ==
    /\ primary[k] = "lookup"
    /\ primary' = [primary EXCEPT ![k] = IF HashOf[k] \in cache THEN DecodeNode(HashOf[k]) ELSE "wait"]
    /\ waiting' = IF HashOf[k] \in cache THEN waiting ELSE waiting \cup {HashOf[k]}
    /\ UNCHANGED <<cache, signalled, alerting, secondary, done, cancelled, ch, spoiled, result>>

(* ngwrapper.Get: the lookup in the cache and the entry in waitMHMap are     *)
(* made under one hold of waitLk.                                            *)
Lookup(k) ==
    /\ primary[k] = "lookup"
    /\ IF HashOf[k] \in cache
         THEN /\ primary' = [primary EXCEPT ![k] = DecodeNode(HashOf[k])]
              /\ UNCHANGED waiting
         ELSE /\ primary' = [primary EXCEPT ![k] = "wait"]
              /\ waiting' = waiting \cup {k}
    /\ UNCHANGED <<cache, signalled, alerting, secondary, done, cancelled, ch, spoiled, result>>

(* case <-waitCh: it looks into the cache again.                             *)
WakeUp(k) ==
    /\ primary[k] = "wait"
    /\ k \in signalled
    /\ signalled' = signalled \ {k}
    /\ primary' = [primary EXCEPT ![k] = IF HashOf[k] \in cache
                                           THEN DecodeNode(HashOf[k]) ELSE "failed"]
    /\ UNCHANGED <<cache, waiting, alerting, secondary, done, cancelled, ch, spoiled, result>>

(* case <-ctx.Done(): its waitCh stays in waitMHMap.                         *)
GiveUp(k) ==
    /\ primary[k] = "wait"
    /\ k \in done
    /\ primary' = [primary EXCEPT ![k] = "failed"]
    /\ UNCHANGED <<cache, waiting, signalled, alerting, secondary, done, cancelled, ch, spoiled, result>>

(* The DAG service answers with the node or with an error, or not until its  *)
(* context is done.                                                          *)
Fetched(k) ==
    /\ secondary[k] = "asking"
    /\ HashOf[k] \notin Undecodable
    /\ secondary' = [secondary EXCEPT ![k] = "have"]
    /\ UNCHANGED <<cache, waiting, signalled, alerting, primary, done, cancelled, ch, spoiled, result>>

FetchFails(k) ==
    /\ secondary[k] = "asking"
    /\ secondary' = [secondary EXCEPT ![k] = "failed"]
    /\ UNCHANGED <<cache, waiting, signalled, alerting, primary, done, cancelled, ch, spoiled, result>>

(* wrong: cancel() runs before the send to ch *)
EndedCancelFirst(k, state) ==
    /\ done' = done \cup {k}
    /\ spoiled' = IF state = "failed" /\ k \notin done THEN spoiled \cup {k} ELSE spoiled
    /\ ch' \in IF state = "have" THEN {ch, ch \cup {k}} ELSE {ch}

(* wrong: the other goroutine is not cancelled *)
EndedNoCancel(k, state) ==
    /\ ch' = IF state = "have" THEN ch \cup {k} ELSE ch
    /\ UNCHANGED <<done, spoiled>>

(* A goroutine of multing.Get ends: with a node it sends to ch, which has    *)
(* room for both, or takes case <-parallelCtx.Done() if that is ready too;   *)
(* then the deferred cancel() stops the other one.                           *)
Ended(k, state) ==
    /\ done' = done \cup {k}
    /\ spoiled' = IF state = "failed" /\ k \notin done THEN spoiled \cup {k} ELSE spoiled
    /\ \/ /\ state = "have"
          /\ ch' = ch \cup {k}
       \/ /\ state = "failed" \/ k \in done
          /\ UNCHANGED ch

EndPrimary(k) ==
    /\ primary[k] \in {"have", "failed"}
    /\ Ended(k, primary[k])
    /\ primary' = [primary EXCEPT ![k] = "ended"]
    /\ UNCHANGED <<cache, waiting, signalled, alerting, secondary, cancelled, result>>

EndSecondary(k) ==
    /\ secondary[k] \in {"have", "failed"}
    /\ Ended(k, secondary[k])
    /\ secondary' = [secondary EXCEPT ![k] = "ended"]
    /\ UNCHANGED <<cache, waiting, signalled, alerting, primary, cancelled, result>>

(* wg.Wait() is over; the node if there is one, format.ErrNotFound if not.   *)
Return(k) ==
    /\ primary[k] = "ended"
    /\ secondary[k] = "ended"
    /\ result[k] = "none"
    /\ result' = [result EXCEPT ![k] = IF k \in ch THEN "node" ELSE "notfound"]
    /\ UNCHANGED <<cache, waiting, signalled, alerting, primary, secondary, done,
                   cancelled, ch, spoiled>>

Cancel(k) ==
    /\ k \in Cancellable
    /\ result[k] = "none"
    /\ k \notin cancelled
    /\ cancelled' = cancelled \cup {k}
    /\ done' = done \cup {k}
    /\ UNCHANGED <<cache, waiting, signalled, alerting, primary, secondary, ch, spoiled, result>>

-----------------------------------------------------------------------------
(* wrong: the block is announced and not stored *)
PutNothing(h) ==
    /\ alerting = {}
    /\ alerting' = {h}
    /\ UNCHANGED <<cache, waiting, signalled, primary, secondary, done, cancelled, ch, spoiled, result>>

(* The consumer of blks: cacheBstore.Put, ...                                *)
Put(h) ==
    /\ alerting = {}
    /\ cache' = cache \cup {h}
    /\ alerting' = {h}
    /\ UNCHANGED <<waiting, signalled, primary, secondary, done, cancelled, ch, spoiled, result>>

(* wrong: only one of the waiters gets a value *)
AlertOne(h) ==
    LET chMap == {k \in waiting : HashOf[k] = h} IN
    /\ h \in alerting
    /\ alerting' = {}
    /\ signalled' \in IF chMap = {} THEN {signalled} ELSE {signalled \cup {k} : k \in chMap}
    /\ waiting' = waiting \ chMap
    /\ UNCHANGED <<cache, primary, secondary, done, cancelled, ch, spoiled, result>>

(* ... then cacheNG.Alert: under waitLk every waiter gets its value, and the *)
(* entry of the hash is deleted.                                             *)
Alert(h) ==
    LET chMap == {k \in waiting : HashOf[k] = h} IN
    /\ h \in alerting
    /\ alerting' = {}
    /\ signalled' = signalled \cup chMap
    /\ waiting' = waiting \ chMap
    /\ UNCHANGED <<cache, primary, secondary, done, cancelled, ch, spoiled, result>>

(* Nothing left to do. *)
Idle ==
    /\ \A k \in Calls : result[k] # "none"
    /\ UNCHANGED vars

CallStep(k) ==
    Lookup(k) \/ WakeUp(k) \/ GiveUp(k) \/ EndPrimary(k) \/ EndSecondary(k) \/ Return(k)

Next ==
    \/ \E k \in Calls : CallStep(k) \/ Fetched(k) \/ FetchFails(k) \/ Cancel(k)
    \/ \E h \in Arriving : Put(h) \/ Alert(h)
    \/ Idle

Spec == Init /\ [][Next]_vars

(* The goroutines of a call run; the DAG service may never answer, but it    *)
(* returns once its context is done; the consumer calls Alert after Put.     *)
(* No block has to arrive.                                                   *)
Fairness ==
    /\ \A k \in Calls : WF_vars(CallStep(k))
    /\ \A k \in Calls : WF_vars(k \in done /\ FetchFails(k))
    /\ \A h \in Arriving : WF_vars(Alert(h))

FairSpec == Spec /\ Fairness

-----------------------------------------------------------------------------
(* A call that waits for a block which is in the cache has its wake-up, or   *)
(* the consumer is about to give it: no Put falls between the lookup and the *)
(* entry in waitMHMap, and no Alert comes before its Put.                    *)
NoLostAlert ==
    \A k \in Calls :
        primary[k] = "wait" /\ HashOf[k] \in cache => k \in signalled \/ HashOf[k] \in alerting

(* A wake-up never disappoints: a waiter that was alerted finds the block.   *)
AlertMeansCached == \A k \in signalled : HashOf[k] \in cache

(* A call reports ErrNotFound only if its caller cancelled or a source had   *)
(* failed before any other was done: the first source to succeed delivers,   *)
(* although its own cancellation and that of the other race with the send.   *)
NoSpuriousMiss ==
    \A k \in Calls : result[k] = "notfound" => k \in cancelled \/ k \in spoiled

(* Once its block has arrived, a call returns, also if the DAG service would *)
(* never have answered.                                                      *)
ArrivalEndsGet ==
    \A k \in Calls : HashOf[k] \in cache ~> result[k] # "none"
=============================================================================
