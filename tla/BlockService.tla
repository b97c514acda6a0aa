---------------------------- MODULE BlockService ----------------------------
(***************************************************************************)
(* bitswap/bservice/bserv.go: a blockstore with an exchange behind it.      *)
(* Callers of AddBlock(s) and GetBlock, one call of GetBlocks and a deleter *)
(* run at once on one service, or on one Session of it.  The exchange is    *)
(* external, except for the bitswap client of client.go, which Walk2 uses   *)
(* as one.                                                                  *)
(***************************************************************************)
EXTENDS Integers, Sequences, FiniteSets

CONSTANTS
    Cids,
    Unsafe,      \* the CIDs verifcid.ValidateCid refuses
    Adders,      \* calls of AddBlock and AddBlocks
    AddLists,    \* the lists of blocks, by CID, one of them may add
    Getters,     \* calls of GetBlock
    GetCids,     \* the CIDs one of them may ask for
    Batch,       \* the call of GetBlocks
    Setups,      \* the values exch, viaSession and checkFirst may have
    Stored,      \* the initial contents of the blockstore
    Removed      \* the CIDs DeleteBlock is called with, in order

Exchanges == {"nil", "plain", "session", "client"}

ASSUME ServiceAssumption ==
    /\ Unsafe \subseteq Cids
    /\ AddLists \subseteq Seq(Cids)
    /\ GetCids \subseteq Cids
    /\ Setups \subseteq Exchanges \X BOOLEAN \X BOOLEAN
    /\ \A s \in Stored : s \subseteq Cids \ Unsafe
    /\ Batch \notin Getters
    /\ Removed \in Seq(Cids)

VARIABLES
    exch,         \* the exchange: none, one that is a SessionExchange or not,
                  \* or the bitswap client of client.go, which is not
    viaSession,   \* the getters use NewSession(ctx, service)
    checkFirst,   \* New or NewWriteThrough
    store,        \* the blockstore
    deleted,      \* the CIDs DeleteBlock was called for
    announced,    \* the CIDs given to exchange.HasBlock
    toAdd, addPc, toput,     \* of each adder: its argument, its place, its variable
    rest,         \* what its loop has still to see
    cidOf,        \* the argument of each call of GetBlock
    at,           \* where each caller of GetBlock and GetBlocks is
    ks, misses,   \* of getBlocks
    blk,          \* the block getBlocks is sending, a sequence of at most one
    given,        \* the misses the exchange has delivered
    lk,           \* the holders of Session.lk
    ses,          \* the number of sessions made, of which s.ses holds the last
    removing,     \* the number of CIDs deleted
    ctxDone

config == <<exch, viaSession, checkFirst, toAdd, cidOf>>
addVars == <<announced, addPc, toput, rest>>
batchVars == <<ks, misses, blk, given>>
serviceVars == <<config, store, deleted, addVars, at, batchVars, lk, ses, removing, ctxDone>>

Callers == Getters \cup {Batch}

Elements(s) == {s[i] : i \in 1..Len(s)}

CallerPcs == {"start", "lookup", "session", "locked", "made", "ask", "range",
              "hit", "fwd", "found", "failed", "closed"}

ServiceTypeOK ==
    /\ exch \in Exchanges
    /\ viaSession \in BOOLEAN /\ checkFirst \in BOOLEAN /\ ctxDone \in BOOLEAN
    /\ store \subseteq Cids /\ deleted \subseteq Cids /\ announced \subseteq Cids
    /\ addPc \in [Adders -> {"validate", "has", "put", "announce", "ok", "err"}]
    /\ toAdd \in [Adders -> AddLists] /\ cidOf \in [Getters -> GetCids]
    /\ toput \in [Adders -> Seq(Cids)] /\ rest \in [Adders -> Seq(Cids)]
    /\ at \in [Callers -> CallerPcs]
    /\ ks \in Seq(Cids) /\ misses \in Seq(Cids) /\ given \subseteq Elements(misses)
    /\ blk \in Seq(Cids) /\ Len(blk) <= 1
    /\ lk \subseteq Callers
    /\ ses \in Nat
    /\ removing \in 0..Len(Removed)

ServiceInit ==
    /\ \E s \in Setups : exch = s[1] /\ viaSession = s[2] /\ checkFirst = s[3]
    /\ store \in Stored
    /\ deleted = {} /\ announced = {}
    /\ toAdd \in [Adders -> AddLists]
    /\ cidOf \in [Getters -> GetCids]
    /\ addPc = [a \in Adders |-> "validate"]
    /\ toput = [a \in Adders |-> <<>>] /\ rest = toAdd
    /\ at = [p \in Callers |-> "start"]
    /\ ks = <<>> /\ misses = <<>> /\ blk = <<>> /\ given = {}
    /\ lk = {} /\ ses = 0
    /\ removing = 0
    /\ ctxDone = FALSE

-----------------------------------------------------------------------------
(* AddBlock and AddBlocks.  One unsafe CID refuses the whole call.           *)
Validate(a) ==
    /\ addPc[a] = "validate"
    /\ LET safe == Elements(toAdd[a]) \cap Unsafe = {} IN
       /\ addPc' = [addPc EXCEPT ![a] = IF ~ safe THEN "err"
                                        ELSE IF checkFirst THEN "has" ELSE "put"]
       /\ toput' = [toput EXCEPT ![a] = IF safe /\ ~ checkFirst THEN toAdd[a] ELSE <<>>]
    /\ UNCHANGED <<config, store, deleted, announced, rest, at, batchVars, lk, ses, removing, ctxDone>>

(* blockstore.Has for the next block, which may fail; blocks that are there  *)
(* are left out, and nothing is put if all are.                              *)
CheckHas(a) ==
    /\ addPc[a] = "has"
    /\ \/ /\ rest[a] # <<>>
          /\ toput' = [toput EXCEPT ![a] = IF Head(rest[a]) \in store THEN @
                                           ELSE Append(@, Head(rest[a]))]
          /\ rest' = [rest EXCEPT ![a] = Tail(@)]
          /\ UNCHANGED addPc
       \/ /\ rest[a] # <<>>
          /\ addPc' = [addPc EXCEPT ![a] = "err"]
          /\ UNCHANGED <<toput, rest>>
       \/ /\ rest[a] = <<>>
          /\ addPc' = [addPc EXCEPT ![a] = IF toput[a] = <<>> THEN "ok" ELSE "put"]
          /\ UNCHANGED <<toput, rest>>
    /\ UNCHANGED <<config, store, deleted, announced, at, batchVars, lk, ses, removing, ctxDone>>

(* wrong: a failed Put is not reported *)
PutBlocksUnchecked(a) ==
    /\ addPc[a] = "put"
    /\ store' \in {store, store \cup Elements(toput[a])}
    /\ addPc' = [addPc EXCEPT ![a] = "announce"]
    /\ rest' = [rest EXCEPT ![a] = toput[a]]
    /\ UNCHANGED <<config, deleted, announced, toput, at, batchVars, lk, ses, removing, ctxDone>>

(* blockstore.Put or PutMany, which may fail after it has stored a part      *)
PutBlocks(a) ==
    /\ addPc[a] = "put"
    /\ \/ /\ store' = store \cup Elements(toput[a])
          /\ addPc' = [addPc EXCEPT ![a] = IF exch = "nil" THEN "ok" ELSE "announce"]
          /\ rest' = [rest EXCEPT ![a] = toput[a]]
       \/ /\ \E part \in SUBSET Elements(toput[a]) : store' = store \cup part
          /\ addPc' = [addPc EXCEPT ![a] = "err"]
          /\ UNCHANGED rest
    /\ UNCHANGED <<config, deleted, announced, toput, at, batchVars, lk, ses, removing, ctxDone>>

(* exchange.HasBlock for each block that was put; its error is only logged.  *)
Announce(a) ==
    /\ addPc[a] = "announce"
    /\ IF rest[a] = <<>>
         THEN /\ addPc' = [addPc EXCEPT ![a] = "ok"]
              /\ UNCHANGED <<announced, rest>>
         ELSE /\ announced' = announced \cup {Head(rest[a])}
              /\ rest' = [rest EXCEPT ![a] = Tail(@)]
              /\ UNCHANGED addPc
    /\ UNCHANGED <<config, store, deleted, toput, at, batchVars, lk, ses, removing, ctxDone>>

(* DeleteBlock; RemoveMany of the DAG service calls it for one CID after     *)
(* another and stops at the first error.                                     *)
DeleteBlock ==
    /\ removing < Len(Removed)
    /\ \/ /\ removing' = removing + 1
          /\ store' = store \ {Removed[removing']}
          /\ deleted' = deleted \cup {Removed[removing']}
       \/ /\ removing' = Len(Removed)
          /\ UNCHANGED <<store, deleted>>
    /\ UNCHANGED <<config, addVars, at, batchVars, lk, ses, ctxDone>>

-----------------------------------------------------------------------------
(* The function fget of getBlock and getBlocks is not nil: a Session has one *)
(* only over a SessionExchange.                                              *)
HasFetcher == IF viaSession THEN exch = "session" ELSE exch # "nil"

Goto(p, label) == at' = [at EXCEPT ![p] = label]

(* Where a caller that misses a block goes: fget() is called only now.       *)
AfterMiss == IF ~ HasFetcher THEN "failed" ELSE IF viaSession THEN "session" ELSE "ask"

(* getBlock: the CID is validated and looked up; an error of the store other *)
(* than ErrNotFound is returned.                                             *)
GetLookup(g) ==
    /\ at[g] = "start"
    /\ \/ cidOf[g] \in Unsafe /\ Goto(g, "failed")
       \/ cidOf[g] \notin Unsafe /\ Goto(g, IF cidOf[g] \in store THEN "found" ELSE AfterMiss)
       \/ cidOf[g] \notin Unsafe /\ Goto(g, "failed")
    /\ UNCHANGED <<config, store, deleted, addVars, batchVars, lk, ses, removing, ctxDone>>

(* wrong: s.ses is tested without the lock *)
LockSessionNot(p) ==
    /\ at[p] = "session"
    /\ IF ses = 0 THEN Goto(p, "locked") ELSE Goto(p, "ask")
    /\ UNCHANGED <<config, store, deleted, addVars, batchVars, lk, ses, removing, ctxDone>>

(* getSession: s.lk.Lock(), ...                                              *)
LockSession(p) ==
    /\ at[p] = "session"
    /\ lk = {}
    /\ lk' = {p}
    /\ Goto(p, IF ses = 0 THEN "locked" ELSE "made")
    /\ UNCHANGED <<config, store, deleted, addVars, batchVars, ses, removing, ctxDone>>

(* ... sessEx.NewSession if there is none, ...                               *)
MakeSession(p) ==
    /\ at[p] = "locked"
    /\ ses' = ses + 1
    /\ Goto(p, "made")
    /\ UNCHANGED <<config, store, deleted, addVars, batchVars, lk, removing, ctxDone>>

(* ... and the deferred Unlock                                               *)
UnlockSession(p) ==
    /\ at[p] = "made"
    /\ lk' = lk \ {p}
    /\ Goto(p, "ask")
    /\ UNCHANGED <<config, store, deleted, addVars, batchVars, ses, removing, ctxDone>>

(* f.GetBlock of getBlock: the exchange finds the block or reports an error. *)
GetFromExchange(g) ==
    /\ at[g] = "ask"
    /\ Goto(g, "found") \/ Goto(g, "failed")
    /\ UNCHANGED <<config, store, deleted, addVars, batchVars, lk, ses, removing, ctxDone>>

-----------------------------------------------------------------------------
(* The keys that ValidateCid accepts, in their order                         *)
SafeKeys(keys) ==
    LET valid == {i \in 1..Len(keys) : keys[i] \notin Unsafe}
        pick  == {f \in [1..Cardinality(valid) -> valid] : \A m, n \in DOMAIN f : m < n => f[m] < f[n]}
    IN  {[n \in 1..Cardinality(valid) |-> keys[f[n]]] : f \in pick}

(* getBlocks is called with keys: the unsafe ones are dropped.               *)
BatchStart(keys) ==
    /\ at[Batch] = "start"
    /\ ks' \in SafeKeys(keys)
    /\ Goto(Batch, "lookup")
    /\ UNCHANGED <<config, store, deleted, addVars, misses, blk, given, lk, ses, removing, ctxDone>>

(* wrong: the loop does not go on after a hit *)
BatchLookupAgain ==
    /\ at[Batch] = "lookup"
    /\ ks # <<>>
    /\ \/ /\ Head(ks) \in store
          /\ blk' = <<Head(ks)>>
          /\ Goto(Batch, "hit")
          /\ UNCHANGED <<misses, ks>>
       \/ /\ misses' = Append(misses, Head(ks))
          /\ ks' = Tail(ks)
          /\ UNCHANGED <<blk, at>>
    /\ UNCHANGED <<config, store, deleted, addVars, given, lk, ses, removing, ctxDone>>

(* The next CID: a hit is sent, anything else, an error too, is a miss.      *)
BatchLookup ==
    /\ at[Batch] = "lookup"
    /\ ks # <<>>
    /\ ks' = Tail(ks)
    /\ \/ /\ Head(ks) \in store
          /\ blk' = <<Head(ks)>>
          /\ Goto(Batch, "hit")
          /\ UNCHANGED misses
       \/ /\ misses' = Append(misses, Head(ks))
          /\ UNCHANGED <<blk, at>>
    /\ UNCHANGED <<config, store, deleted, addVars, given, lk, ses, removing, ctxDone>>

(* All CIDs were looked up: the exchange is asked for the misses, if any.    *)
BatchMisses ==
    /\ at[Batch] = "lookup"
    /\ ks = <<>>
    /\ Goto(Batch, IF misses # <<>> /\ HasFetcher THEN AfterMiss ELSE "closed")
    /\ UNCHANGED <<config, store, deleted, addVars, batchVars, lk, ses, removing, ctxDone>>

(* f.GetBlocks returns a channel or an error.                                *)
BatchAsk ==
    /\ at[Batch] = "ask"
    /\ Goto(Batch, "range") \/ Goto(Batch, "closed")
    /\ UNCHANGED <<config, store, deleted, addVars, batchVars, lk, ses, removing, ctxDone>>

(* What rblocks can still bring.  Of Client.GetBlocks every goroutine waits  *)
(* on the channel of the first CID, so the other blocks never come.          *)
Deliverable ==
    {misses[i] : i \in {j \in 1..Len(misses) : exch = "client" => j = 1}} \ given

(* for b := range rblocks *)
BatchRange(c) ==
    /\ at[Batch] = "range"
    /\ c \in Deliverable
    /\ given' = given \cup {c}
    /\ blk' = <<c>>
    /\ Goto(Batch, "fwd")
    /\ UNCHANGED <<config, store, deleted, addVars, ks, misses, lk, ses, removing, ctxDone>>

(* rblocks is closed: by an exchange that has delivered everything, was      *)
(* cancelled or gives up, and by Client.GetBlocks after its wg.Wait(), that  *)
(* is if it was asked for a single CID and has delivered it.                 *)
MayClose == exch = "client" => Len(misses) = 1 /\ given # {}

BatchEnd ==
    /\ at[Batch] = "range"
    /\ MayClose
    /\ Goto(Batch, "closed")
    /\ UNCHANGED <<config, store, deleted, addVars, batchVars, lk, ses, removing, ctxDone>>

(* Of the selects with out <- b: what remains to do once the receiver has b  *)
BatchSent ==
    /\ at[Batch] \in {"hit", "fwd"}
    /\ Goto(Batch, IF at[Batch] = "hit" THEN "lookup" ELSE "range")
    /\ blk' = <<>>
    /\ UNCHANGED <<config, store, deleted, addVars, ks, misses, given, lk, ses, removing, ctxDone>>

(* case <-ctx.Done() of these selects                                        *)
BatchCancelled ==
    /\ at[Batch] \in {"hit", "fwd"}
    /\ ctxDone
    /\ Goto(Batch, "closed")
    /\ UNCHANGED <<config, store, deleted, addVars, batchVars, lk, ses, removing, ctxDone>>

CancelCtx ==
    /\ ~ ctxDone
    /\ ctxDone' = TRUE
    /\ UNCHANGED <<config, store, deleted, addVars, at, batchVars, lk, ses, removing>>

AddStep(a) == Validate(a) \/ CheckHas(a) \/ PutBlocks(a) \/ Announce(a)

SessionStep(p) == LockSession(p) \/ MakeSession(p) \/ UnlockSession(p)

GetStep(g) == GetLookup(g) \/ SessionStep(g) \/ GetFromExchange(g)

(* The steps of getBlocks that need no receiver and no exchange              *)
BatchStep ==
    \/ BatchLookup
    \/ SessionStep(Batch)
    \/ BatchMisses
    \/ BatchAsk
    \/ BatchCancelled

-----------------------------------------------------------------------------
(* A block is announced to the exchange, and AddBlock(s) reports success,    *)
(* only when the block is in the store, or was deleted again meanwhile, also *)
(* when the test of checkFirst races with a deletion or another call.        *)
AddedStored ==
    /\ announced \subseteq store \cup deleted
    /\ \A a \in Adders : addPc[a] = "ok" => Elements(toAdd[a]) \subseteq store \cup deleted

(* "Don't load the exchange until we have to": however many callers share a  *)
(* Session, at most one exchange session is made; and getBlocks turns to the *)
(* exchange only with a CID it did not find.                                 *)
SessionMadeOnce ==
    /\ ses <= 1
    /\ at[Batch] \in {"session", "locked", "made", "ask", "range", "fwd"} => misses # <<>>
=============================================================================
