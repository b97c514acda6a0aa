-------------------------- MODULE DagServiceProofs --------------------------
(***************************************************************************)
(* The invariants of BlockService and DagService for any blocks, callers,   *)
(* lists of keys and kinds of exchange.                                     *)
(***************************************************************************)
EXTENDS DagService, SequenceTheorems, FunctionTheorems, FiniteSetTheorems, TLAPS

(* A sequence without repetitions *)
Distinct(s) == \A i, j \in 1..Len(s) : s[i] = s[j] => i = j

(* The blocks that are in the store or have been                             *)
Kept == store \cup deleted

(* What an adder has still to do about the blocks of its argument.           *)
AdderInv(a) ==
    /\ addPc[a] = "validate" => rest[a] = toAdd[a] /\ toput[a] = <<>>
    /\ addPc[a] = "has" =>
         Elements(toAdd[a]) \subseteq Kept \cup Elements(toput[a]) \cup Elements(rest[a])
    /\ addPc[a] = "put" => Elements(toAdd[a]) \subseteq Kept \cup Elements(toput[a])
    /\ addPc[a] \in {"announce", "ok"} => Elements(toAdd[a]) \subseteq Kept
    /\ addPc[a] = "announce" => Elements(rest[a]) \subseteq Kept

AddInv == announced \subseteq Kept /\ \A a \in Adders : AdderInv(a)

(* Session.lk is a lock, and a caller that found s.ses nil holds it.         *)
SessionInv ==
    /\ \A p \in Callers : at[p] \in {"locked", "made"} => p \in lk
    /\ \A p, q \in lk : p = q
    /\ \A p \in Callers : at[p] = "locked" => ses = 0
    /\ SessionMadeOnce

(* While GetMany collects, a key is in one place only: still to be looked    *)
(* up, missing and not yet delivered, in the hand of getBlocks, or sent.     *)
OnePlace ==
    /\ sent \in Seq(Cids) /\ Distinct(sent) /\ Len(sent) = count
    /\ Distinct(ks)
    /\ Elements(sent) \subseteq Elements(keys)
    /\ Elements(blk) \subseteq Elements(keys)
    /\ Elements(ks) \subseteq Elements(keys)
    /\ Elements(misses) \subseteq Elements(keys)
    /\ Elements(ks) \cap (Elements(misses) \cup Elements(blk) \cup Elements(sent)) = {}
    /\ (Elements(misses) \ given) \cap (Elements(blk) \cup Elements(sent)) = {}
    /\ Elements(blk) \cap Elements(sent) = {}

CollectInv ==
    /\ IF collectPc = "dedup"
         THEN /\ count = 0 /\ sent = <<>> /\ misses = <<>> /\ blk = <<>> /\ given = {}
              /\ at[Batch] = "start"
         ELSE Distinct(keys)
    /\ collectPc \in {"select", "ctxerr"} => OnePlace
    /\ GetManyHonest

IInv == TypeOK /\ AddInv /\ SessionInv /\ CollectInv

-----------------------------------------------------------------------------
(* What Elements and Distinct make of the operations on sequences.           *)
LEMMA EmptyElements == Elements(<<>>) = {} /\ Distinct(<<>>)
  BY DEF Elements, Distinct

LEMMA OneElement == ASSUME NEW x PROVE Elements(<<x>>) = {x}
  BY DEF Elements

LEMMA ElementsType == ASSUME NEW S, NEW s \in Seq(S) PROVE Elements(s) \subseteq S
  BY DEF Elements

LEMMA AppendElements ==
  ASSUME NEW S, NEW s \in Seq(S), NEW x \in S
  PROVE  /\ Append(s, x) \in Seq(S)
         /\ Len(Append(s, x)) = Len(s) + 1
         /\ Elements(Append(s, x)) = Elements(s) \cup {x}
         /\ Distinct(s) /\ x \notin Elements(s) => Distinct(Append(s, x))
<1> DEFINE t == Append(s, x)
<1>1. /\ t \in Seq(S) /\ Len(s) \in Nat /\ Len(t) = Len(s) + 1
      /\ \A i \in 1..Len(s) : t[i] = s[i]
      /\ t[Len(s) + 1] = x
  OBVIOUS
<1> HIDE DEF t
<1>2. Elements(t) = Elements(s) \cup {x}
  <2>1. ASSUME NEW y \in Elements(t) PROVE y \in Elements(s) \cup {x}
    BY <1>1, <2>1 DEF Elements
  <2>2. ASSUME NEW y \in Elements(s) \cup {x} PROVE y \in Elements(t)
    <3>1. \A i \in 1..Len(s) : i \in 1..Len(t)
      BY <1>1
    <3>2. Len(s) + 1 \in 1..Len(t)
      BY <1>1
    <3> QED
      BY <1>1, <2>2, <3>1, <3>2 DEF Elements
  <2> QED
    BY <2>1, <2>2
<1>3. ASSUME Distinct(s), x \notin Elements(s) PROVE Distinct(t)
  BY <1>1, <1>3 DEF Distinct, Elements
<1> QED
  BY <1>1, <1>2, <1>3 DEF t

LEMMA TailElements ==
  ASSUME NEW S, NEW s \in Seq(S), s # <<>>
  PROVE  /\ Head(s) \in S /\ Tail(s) \in Seq(S)
         /\ Elements(s) = {Head(s)} \cup Elements(Tail(s))
         /\ Distinct(s) => Distinct(Tail(s)) /\ Head(s) \notin Elements(Tail(s))
<1> DEFINE t == Tail(s)
<1>1. /\ Len(s) \in Nat /\ Len(s) >= 1 /\ t \in Seq(S) /\ Len(t) = Len(s) - 1
      /\ \A i \in 1..Len(t) : t[i] = s[i + 1]
      /\ Head(s) = s[1] /\ Head(s) \in S
  OBVIOUS
<1> HIDE DEF t
<1>2. Elements(s) = {Head(s)} \cup Elements(t)
  <2>1. ASSUME NEW i \in 1..Len(s) PROVE s[i] \in {Head(s)} \cup Elements(t)
    <3>1. CASE i = 1
      BY <1>1, <3>1
    <3>2. CASE i # 1
      <4>1. i - 1 \in 1..Len(t) /\ t[i - 1] = s[i]
        BY <1>1, <3>2
      <4> QED
        BY <4>1 DEF Elements
    <3> QED
      BY <3>1, <3>2
  <2>2. ASSUME NEW i \in 1..Len(t) PROVE t[i] \in Elements(s)
    <3>1. i + 1 \in 1..Len(s) /\ t[i] = s[i + 1]
      BY <1>1
    <3> QED
      BY <3>1 DEF Elements
  <2>3. Head(s) \in Elements(s)
    <3>1. 1 \in 1..Len(s)
      BY <1>1
    <3> QED
      BY <1>1, <3>1 DEF Elements
  <2> QED
    BY <2>1, <2>2, <2>3 DEF Elements
<1>3. ASSUME Distinct(s) PROVE Distinct(t) /\ Head(s) \notin Elements(t)
  BY <1>1, <1>3 DEF Distinct, Elements
<1> QED
  BY <1>1, <1>2, <1>3 DEF t

(* A sequence has as many elements as places exactly if none is repeated.    *)
LEMMA ElementsCardinality ==
  ASSUME NEW S, NEW s \in Seq(S)
  PROVE  /\ IsFiniteSet(Elements(s))
         /\ Cardinality(Elements(s)) \in Nat
         /\ Cardinality(Elements(s)) <= Len(s)
         /\ Cardinality(Elements(s)) = Len(s) <=> Distinct(s)
<1>1. Len(s) \in Nat /\ s \in [1..Len(s) -> S]
  OBVIOUS
<1>2. s \in Surjection(1..Len(s), Elements(s))
  BY <1>1 DEF Surjection, Elements
<1>3. IsFiniteSet(1..Len(s)) /\ Cardinality(1..Len(s)) = Len(s)
  BY <1>1, FS_Interval
<1>4. /\ IsFiniteSet(Elements(s))
      /\ Cardinality(Elements(s)) <= Len(s)
      /\ Cardinality(Elements(s)) = Len(s) <=> s \in Injection(1..Len(s), Elements(s))
  BY <1>2, <1>3, FS_Surjection
<1>5. s \in Injection(1..Len(s), Elements(s)) <=> Distinct(s)
  BY <1>1, <1>2 DEF Injection, IsInjective, Surjection, Distinct
<1> QED
  BY <1>4, <1>5, FS_CardinalityType

(* dedupKeys leaves every key once.                                          *)
LEMMA DedupDistinct ==
  ASSUME NEW s \in Seq(Cids), NEW t \in DedupKeys(s)
  PROVE  t \in Seq(Cids) /\ Distinct(t) /\ Elements(t) = Elements(s)
<1>1. Cardinality(Elements(s)) \in Nat /\ Elements(s) \subseteq Cids
  BY ElementsCardinality, ElementsType
<1>2. CASE Cardinality(Elements(s)) = Len(s)
  BY <1>2, ElementsCardinality DEF DedupKeys
<1>3. CASE Cardinality(Elements(s)) # Len(s)
  <2>1. t \in [1..Cardinality(Elements(s)) -> Elements(s)] /\ Elements(t) = Elements(s)
    BY <1>3 DEF DedupKeys
  <2>2. t \in Seq(Cids) /\ Len(t) = Cardinality(Elements(s))
    BY <1>1, <2>1
  <2> QED
    BY <2>1, <2>2, ElementsCardinality
<1> QED
  BY <1>2, <1>3

(* The keys that are left after validation are some of the keys, each once.  *)
LEMMA SafeKeysDistinct ==
  ASSUME NEW s \in Seq(Cids), NEW t \in SafeKeys(s)
  PROVE  /\ t \in Seq(Cids) /\ Elements(t) \subseteq Elements(s)
         /\ Distinct(s) => Distinct(t)
<1> DEFINE valid == {i \in 1..Len(s) : s[i] \notin Unsafe}
           n     == Cardinality(valid)
<1>1. n \in Nat
  <2>1. IsFiniteSet(1..Len(s))
    BY FS_Interval
  <2> QED
    BY <2>1, FS_Subset, FS_CardinalityType
<1>2. PICK f \in [1..n -> valid] :
         /\ \A i, j \in DOMAIN f : i < j => f[i] < f[j]
         /\ t = [i \in 1..n |-> s[f[i]]]
  BY DEF SafeKeys
<1> HIDE DEF n
<1>3. \A i \in 1..n : f[i] \in 1..Len(s) /\ s[f[i]] \in Cids
  BY <1>2
<1>4. t \in Seq(Cids) /\ Len(t) = n
  BY <1>1, <1>2, <1>3
<1>5. Elements(t) \subseteq Elements(s)
  BY <1>2, <1>3, <1>4 DEF Elements
<1>6. ASSUME Distinct(s) PROVE Distinct(t)
  <2>1. \A i, j \in 1..n : s[f[i]] = s[f[j]] => f[i] = f[j]
    BY <1>3, <1>6 DEF Distinct
  <2>2. \A i, j \in 1..n : f[i] = f[j] => i = j
    <3> SUFFICES ASSUME NEW i \in 1..n, NEW j \in 1..n, i < j PROVE f[i] # f[j]
      BY <1>1
    <3>1. f[i] < f[j] /\ f[i] \in Nat /\ f[j] \in Nat
      BY <1>2, <1>3
    <3> QED
      BY <3>1
  <2>3. \A i \in 1..n : t[i] = s[f[i]]
    BY <1>2
  <2> QED
    BY <1>4, <2>1, <2>2, <2>3 DEF Distinct
<1> QED
  BY <1>4, <1>5, <1>6

-----------------------------------------------------------------------------
(* At the start no call has done anything.                                   *)
LEMMA InitIInv == DagInit => IInv
<1> SUFFICES ASSUME DagInit PROVE IInv
  OBVIOUS
<1> USE DEF DagInit, ServiceInit
<1>1. /\ exch \in Exchanges /\ viaSession \in BOOLEAN /\ checkFirst \in BOOLEAN
      /\ store \subseteq Cids
  BY ServiceAssumption
<1>2. keys \in Seq(Cids) /\ toAdd \in [Adders -> Seq(Cids)]
  BY ServiceAssumption, KeyListAssumption
<1>3. <<>> \in Seq(Cids) /\ <<>> \in Seq(Cids \cup Errors) /\ Len(<<>>) = 0
  OBVIOUS
<1>4. TypeOK
  <2>1. Len(keys) \in Nat /\ Len(Removed) \in Nat
    BY <1>2, ServiceAssumption
  <2>2. /\ addPc \in [Adders -> {"validate", "has", "put", "announce", "ok", "err"}]
        /\ toput \in [Adders -> Seq(Cids)] /\ rest \in [Adders -> Seq(Cids)]
        /\ at \in [Callers -> CallerPcs]
    BY <1>2, <1>3 DEF CallerPcs
  <2>3. ks \in Seq(Cids) /\ misses \in Seq(Cids) /\ blk \in Seq(Cids) /\ Len(blk) <= 1
    BY <1>3
  <2>5. /\ deleted \subseteq Cids /\ announced \subseteq Cids
        /\ given \subseteq Elements(misses) /\ lk \subseteq Callers
        /\ ses \in Nat /\ removing \in 0..Len(Removed)
    BY <2>1
  <2>7. ctxDone \in BOOLEAN
    OBVIOUS
  <2>6. toAdd \in [Adders -> AddLists] /\ cidOf \in [Getters -> GetCids]
    OBVIOUS
  <2> HIDE DEF DagInit, ServiceInit
  <2>4. ServiceTypeOK
    BY <1>1, <2>2, <2>3, <2>5, <2>6, <2>7 DEF ServiceTypeOK
  <2> USE DEF DagInit, ServiceInit
  <2> QED
    BY <1>2, <1>3, <2>1, <2>4 DEF TypeOK
<1>5. AddInv
  BY DEF AddInv, AdderInv
<1>6. SessionInv
  BY ServiceAssumption DEF SessionInv, SessionMadeOnce, Callers
<1>7. CollectInv
  BY DEF CollectInv, GetManyHonest, Callers
<1> QED
  BY <1>4, <1>5, <1>6, <1>7 DEF IInv

(* Every step of the block service keeps its types.                          *)
LEMMA ServiceTypeStep == ASSUME IInv, [DagNext]_dagVars PROVE ServiceTypeOK'
<1> USE DEF config, addVars, batchVars, Goto
<1>0. ServiceTypeOK /\ keys \in Seq(Cids)
  BY DEF IInv, TypeOK
<1>1. toAdd \in [Adders -> Seq(Cids)] /\ Len(Removed) \in Nat
  BY <1>0, ServiceAssumption DEF ServiceTypeOK
<1>a. Batch \in Callers /\ \A g \in Getters : g \in Callers
  BY DEF Callers
<1>2. ASSUME NEW a \in Adders, Validate(a) PROVE ServiceTypeOK'
  BY <1>0, <1>1, <1>2 DEF Validate, ServiceTypeOK
<1>3. ASSUME NEW a \in Adders, CheckHas(a) PROVE ServiceTypeOK'
  <2>1. rest[a] # <<>> => Head(rest[a]) \in Cids /\ Tail(rest[a]) \in Seq(Cids)
    BY <1>0, TailElements DEF ServiceTypeOK
  <2>2. rest[a] # <<>> => Append(toput[a], Head(rest[a])) \in Seq(Cids)
    BY <1>0, <2>1, AppendElements DEF ServiceTypeOK
  <2> QED
    BY <1>0, <1>3, <2>1, <2>2, ZenonT(30) DEF CheckHas, ServiceTypeOK
<1>4. ASSUME NEW a \in Adders, PutBlocks(a) PROVE ServiceTypeOK'
  <2>1. Elements(toput[a]) \subseteq Cids
    BY <1>0, ElementsType DEF ServiceTypeOK
  <2> QED
    BY <1>0, <1>4, <2>1 DEF PutBlocks, ServiceTypeOK
<1>5. ASSUME NEW a \in Adders, Announce(a) PROVE ServiceTypeOK'
  <2>1. rest[a] # <<>> => Head(rest[a]) \in Cids /\ Tail(rest[a]) \in Seq(Cids)
    BY <1>0, TailElements DEF ServiceTypeOK
  <2> QED
    BY <1>0, <1>5, <2>1 DEF Announce, ServiceTypeOK
<1>6. CASE DeleteBlock
  <2>1. removing + 1 \in 1..Len(Removed) /\ Removed[removing + 1] \in Cids
    BY <1>0, <1>1, <1>6, ServiceAssumption DEF DeleteBlock, ServiceTypeOK
  <2> QED
    BY <1>0, <1>1, <1>6, <2>1 DEF DeleteBlock, ServiceTypeOK
<1>7. ASSUME NEW g \in Getters, GetLookup(g) \/ GetFromExchange(g) PROVE ServiceTypeOK'
  BY <1>0, <1>7, <1>a DEF GetLookup, GetFromExchange, AfterMiss, ServiceTypeOK, CallerPcs
<1>8. ASSUME NEW p \in Callers, SessionStep(p) PROVE ServiceTypeOK'
  <2>1. CASE LockSession(p)
    BY <1>0, <2>1 DEF LockSession, ServiceTypeOK, CallerPcs
  <2>2. CASE MakeSession(p)
    BY <1>0, <2>2 DEF MakeSession, ServiceTypeOK, CallerPcs
  <2>3. CASE UnlockSession(p)
    BY <1>0, <2>3 DEF UnlockSession, ServiceTypeOK, CallerPcs
  <2> QED
    BY <1>8, <2>1, <2>2, <2>3 DEF SessionStep
<1>9. CASE GetMany
  <2>1. ks' \in Seq(Cids)
    BY <1>0, <1>9, DedupDistinct, SafeKeysDistinct DEF GetMany, BatchStart
  <2> QED
    BY <1>0, <1>9, <2>1, <1>a DEF GetMany, BatchStart, ServiceTypeOK, CallerPcs
<1>10. CASE BatchLookup
  <2>1. Head(ks) \in Cids /\ Tail(ks) \in Seq(Cids)
    BY <1>0, <1>10, TailElements DEF BatchLookup, ServiceTypeOK
  <2>a. <<Head(ks)>> \in Seq(Cids) /\ Len(<<Head(ks)>>) = 1
    BY <2>1
  <2>2. /\ Append(misses, Head(ks)) \in Seq(Cids)
        /\ Elements(misses) \subseteq Elements(Append(misses, Head(ks)))
    BY <1>0, <2>1, AppendElements DEF ServiceTypeOK
  <2>3. /\ at' \in [Callers -> CallerPcs]
        /\ misses' \in Seq(Cids) /\ Elements(misses) \subseteq Elements(misses')
    BY <1>0, <1>10, <2>2, <1>a DEF BatchLookup, ServiceTypeOK, CallerPcs
  <2>4. ks' \in Seq(Cids) /\ blk' \in {blk, <<Head(ks)>>}
    BY <1>10, <2>1 DEF BatchLookup
  <2>5. blk' \in Seq(Cids) /\ Len(blk') <= 1
    <3>1. blk \in Seq(Cids) /\ Len(blk) <= 1
      BY <1>0 DEF ServiceTypeOK
    <3>2. CASE blk' = blk
      BY <3>1, <3>2
    <3>3. CASE blk' = <<Head(ks)>>
      BY <2>a, <3>3
    <3> QED
      BY <2>4, <3>2, <3>3
  <2> QED
    BY <1>0, <1>10, <2>3, <2>4, <2>5 DEF BatchLookup, ServiceTypeOK
<1>11. CASE BatchMisses \/ BatchAsk \/ BatchEnd \/ BatchCancelled
  BY <1>0, <1>11, <1>a DEF BatchMisses, BatchAsk, BatchEnd, BatchCancelled, AfterMiss,
                           ServiceTypeOK, CallerPcs
<1>12. ASSUME NEW c \in Cids, BatchRange(c) PROVE ServiceTypeOK'
  <2>1. c \in Elements(misses)
    BY <1>12 DEF BatchRange, Deliverable, Elements
  <2>2. <<c>> \in Seq(Cids) /\ Len(<<c>>) = 1
    OBVIOUS
  <2> QED
    BY <1>0, <1>12, <2>1, <2>2, <1>a DEF BatchRange, ServiceTypeOK, CallerPcs
<1>13. CASE BatchSent
  <2>1. <<>> \in Seq(Cids) /\ Len(<<>>) = 0
    OBVIOUS
  <2> QED
    BY <1>0, <1>13, <2>1, <1>a DEF BatchSent, ServiceTypeOK, CallerPcs
<1>14. CASE CancelCtx
  BY <1>0, <1>14 DEF CancelCtx, ServiceTypeOK
<1>15. CASE UNCHANGED serviceVars
  BY <1>0, <1>15 DEF serviceVars, ServiceTypeOK
<1> QED
  BY <1>2, <1>3, <1>4, <1>5, <1>6, <1>7, <1>8, <1>9, <1>10, <1>11, <1>12, <1>13, <1>14, <1>15, <1>a
     DEF DagNext, Quiet, Collect, CollectBlock, CollectEnd, CollectCancelled, SendCtxErr,
         BatchStep, AddMany, AddStep, RemoveMany, GetStep, dagVars

(* A block is kept once it has been in the store; an adder leaves out only   *)
(* blocks it has seen there.                                                 *)
LEMMA AddStepInv == ASSUME IInv, [DagNext]_dagVars PROVE AddInv'
<1> USE DEF config, addVars, batchVars
<1>0. ServiceTypeOK /\ AddInv
  BY DEF IInv, TypeOK
<1>1. toAdd \in [Adders -> Seq(Cids)] /\ toput \in [Adders -> Seq(Cids)] /\ rest \in [Adders -> Seq(Cids)]
  BY <1>0, ServiceAssumption DEF ServiceTypeOK
<1>2. ASSUME NEW a \in Adders, AddStep(a), announced' \subseteq Kept', Kept \subseteq Kept',
             AdderInv(a)'
      PROVE AddInv'
  <2>1. ASSUME NEW b \in Adders, b # a PROVE AdderInv(b)'
    <3>1. /\ addPc'[b] = addPc[b] /\ toput'[b] = toput[b] /\ rest'[b] = rest[b]
          /\ toAdd'[b] = toAdd[b]
      BY <1>0, <1>2, <2>1 DEF AddStep, Validate, CheckHas, PutBlocks, Announce, ServiceTypeOK
    <3>2. AdderInv(b)
      BY <1>0 DEF AddInv
    <3> QED
      BY <1>2, <3>1, <3>2 DEF AdderInv
  <2> QED
    BY <1>2, <2>1 DEF AddInv
<1>3. ASSUME NEW a \in Adders, Validate(a) PROVE AddInv'
  <2>1. AdderInv(a)
    BY <1>0 DEF AddInv
  <2>2. AdderInv(a)'
    BY <1>0, <1>3, <2>1 DEF Validate, ServiceTypeOK, AdderInv
  <2> QED
    BY <1>0, <1>2, <1>3, <2>2 DEF Validate, AddStep, AddInv, Kept
<1>4. ASSUME NEW a \in Adders, CheckHas(a) PROVE AddInv'
  <2>1. AdderInv(a)
    BY <1>0 DEF AddInv
  <2>2. Kept' = Kept /\ announced' = announced /\ toAdd' = toAdd
    BY <1>4 DEF CheckHas, Kept
  <2>3. CASE rest[a] # <<>> /\ addPc' = addPc
    <3>1. Elements(rest[a]) = {Head(rest[a])} \cup Elements(Tail(rest[a])) /\ Head(rest[a]) \in Cids
      BY <1>1, <2>3, TailElements
    <3>2. Elements(Append(toput[a], Head(rest[a]))) = Elements(toput[a]) \cup {Head(rest[a])}
      BY <1>1, <3>1, AppendElements
    <3>3. rest'[a] = Tail(rest[a])
      BY <1>0, <1>4, <2>3 DEF CheckHas, ServiceTypeOK
    <3>4. toput'[a] = IF Head(rest[a]) \in store THEN toput[a] ELSE Append(toput[a], Head(rest[a]))
      BY <1>0, <1>4, <2>3 DEF CheckHas, ServiceTypeOK
    <3>5. addPc[a] = "has"
      BY <1>4 DEF CheckHas
    <3>6. Elements(toAdd[a]) \subseteq Kept \cup Elements(toput'[a]) \cup Elements(rest'[a])
      BY <2>1, <3>1, <3>2, <3>3, <3>4, <3>5 DEF AdderInv, Kept
    <3>7. AdderInv(a)'
      BY <2>2, <2>3, <3>5, <3>6 DEF AdderInv
    <3> QED
      BY <1>0, <1>2, <1>4, <2>2, <3>7 DEF AddStep, AddInv
  <2>4. CASE addPc' = [addPc EXCEPT ![a] = "err"]
    <3>1. AdderInv(a)'
      BY <1>0, <2>4 DEF AdderInv, ServiceTypeOK
    <3> QED
      BY <1>0, <1>2, <1>4, <2>2, <3>1 DEF AddStep, AddInv
  <2>5. CASE /\ rest[a] = <<>> /\ UNCHANGED <<toput, rest>>
             /\ addPc' = [addPc EXCEPT ![a] = IF toput[a] = <<>> THEN "ok" ELSE "put"]
    <3>1. AdderInv(a)'
      BY <1>0, <1>4, <2>1, <2>2, <2>5, EmptyElements DEF CheckHas, AdderInv, ServiceTypeOK
    <3> QED
      BY <1>0, <1>2, <1>4, <2>2, <3>1 DEF AddStep, AddInv
  <2> QED
    BY <1>4, <2>3, <2>4, <2>5 DEF CheckHas
<1>5. ASSUME NEW a \in Adders, PutBlocks(a) PROVE AddInv'
  <2>1. AdderInv(a) /\ addPc[a] = "put" /\ toAdd' = toAdd /\ announced' = announced
    BY <1>0, <1>5 DEF AddInv, PutBlocks
  <2>2. Kept \subseteq Kept'
    BY <1>5 DEF PutBlocks, Kept
  <2>3. AdderInv(a)'
    BY <1>0, <1>5, <2>1 DEF PutBlocks, AdderInv, Kept, ServiceTypeOK
  <2> QED
    BY <1>0, <1>2, <1>5, <2>1, <2>2, <2>3 DEF AddStep, AddInv
<1>6. ASSUME NEW a \in Adders, Announce(a) PROVE AddInv'
  <2>1. AdderInv(a) /\ addPc[a] = "announce" /\ toAdd' = toAdd /\ Kept' = Kept
    BY <1>0, <1>6 DEF AddInv, Announce, Kept
  <2>2. rest[a] # <<>> => Elements(rest[a]) = {Head(rest[a])} \cup Elements(Tail(rest[a]))
    BY <1>1, TailElements
  <2>3. AdderInv(a)'
    BY <1>0, <1>6, <2>1, <2>2 DEF Announce, AdderInv, ServiceTypeOK
  <2>4. announced' \subseteq Kept'
    BY <1>0, <1>6, <2>1, <2>2 DEF Announce, AdderInv, AddInv
  <2> QED
    BY <1>2, <1>6, <2>1, <2>3, <2>4 DEF AddStep
<1>7. CASE DeleteBlock
  <2>1. Kept \subseteq Kept' /\ UNCHANGED <<announced, addPc, toput, rest, toAdd>>
    BY <1>7 DEF DeleteBlock, Kept
  <2> QED
    BY <1>0, <2>1 DEF AddInv, AdderInv
<1>8. CASE UNCHANGED <<store, deleted, announced, addPc, toput, rest, toAdd>>
  BY <1>0, <1>8 DEF AddInv, AdderInv, Kept
<1>9. ASSUME NEW g \in Getters, GetStep(g) PROVE AddInv'
  BY <1>8, <1>9 DEF GetStep, GetLookup, GetFromExchange, SessionStep, LockSession,
                    MakeSession, UnlockSession
<1>10. CASE BatchStep \/ BatchEnd \/ (\E c \in Cids : BatchRange(c)) \/ CancelCtx
  BY <1>8, <1>10 DEF BatchStep, BatchLookup, SessionStep, LockSession, MakeSession,
                     UnlockSession, BatchMisses, BatchAsk, BatchCancelled, BatchEnd,
                     BatchRange, CancelCtx
<1>11. CASE GetMany \/ Collect \/ UNCHANGED dagVars
  BY <1>8, <1>11 DEF GetMany, BatchStart, Collect, CollectBlock, BatchSent, CollectEnd,
                     CollectCancelled, SendCtxErr, dagVars, serviceVars
<1> QED
  BY <1>3, <1>4, <1>5, <1>6, <1>7, <1>9, <1>10, <1>11
     DEF DagNext, Quiet, AddMany, AddStep, RemoveMany

(* Only the holder of Session.lk sees s.ses nil and sets it.                 *)
LEMMA SessionStepInv == ASSUME IInv, [DagNext]_dagVars PROVE SessionInv'
<1> USE DEF config, addVars, batchVars, Goto
<1>0. /\ at \in [Callers -> CallerPcs] /\ lk \subseteq Callers /\ ses \in Nat
      /\ misses \in Seq(Cids) /\ SessionInv
  BY DEF IInv, TypeOK, ServiceTypeOK
<1>1. Batch \in Callers /\ Batch \notin Getters /\ \A g \in Getters : g \in Callers
  BY ServiceAssumption DEF Callers
<1>2. CASE UNCHANGED <<at, lk, ses, misses>>
  BY <1>0, <1>2 DEF SessionInv, SessionMadeOnce
<1>3. ASSUME NEW p \in Callers, LockSession(p) PROVE SessionInv'
  BY <1>0, <1>3 DEF LockSession, SessionInv, SessionMadeOnce
<1>4. ASSUME NEW p \in Callers, MakeSession(p) PROVE SessionInv'
  BY <1>0, <1>4 DEF MakeSession, SessionInv, SessionMadeOnce
<1>5. ASSUME NEW p \in Callers, UnlockSession(p) PROVE SessionInv'
  BY <1>0, <1>5 DEF UnlockSession, SessionInv, SessionMadeOnce
<1>6. ASSUME NEW g \in Getters, GetLookup(g) \/ GetFromExchange(g) PROVE SessionInv'
  BY <1>0, <1>1, <1>6 DEF GetLookup, GetFromExchange, AfterMiss, SessionInv, SessionMadeOnce
<1>7. ASSUME NEW g \in Getters, GetStep(g) PROVE SessionInv'
  BY <1>1, <1>3, <1>4, <1>5, <1>6, <1>7 DEF GetStep, SessionStep
<1>8. CASE BatchLookup
  <2>1. misses' # <<>> \/ misses' = misses
    <3>1. Append(misses, Head(ks)) # <<>>
      BY <1>0
    <3> QED
      BY <1>8, <3>1 DEF BatchLookup
  <2>2. at[Batch] = "lookup" /\ at' \in {at, [at EXCEPT ![Batch] = "hit"]} /\ UNCHANGED <<lk, ses>>
    BY <1>8 DEF BatchLookup
  <2> QED
    BY <1>0, <1>1, <2>1, <2>2 DEF SessionInv, SessionMadeOnce
<1>9. CASE BatchMisses
  BY <1>0, <1>1, <1>9 DEF BatchMisses, AfterMiss, SessionInv, SessionMadeOnce
<1>10. CASE BatchAsk \/ BatchEnd \/ BatchCancelled \/ (\E c \in Cids : BatchRange(c))
  BY <1>0, <1>1, <1>10 DEF BatchAsk, BatchEnd, BatchCancelled, BatchRange, SessionInv,
                           SessionMadeOnce
<1>11. CASE BatchSent
  BY <1>0, <1>1, <1>11 DEF BatchSent, SessionInv, SessionMadeOnce
<1>12. CASE GetMany
  BY <1>0, <1>1, <1>12 DEF GetMany, BatchStart, SessionInv, SessionMadeOnce
<1>13. CASE DeleteBlock \/ CancelCtx \/ \E a \in Adders : AddStep(a)
  BY <1>2, <1>13 DEF DeleteBlock, CancelCtx, AddStep, Validate, CheckHas, PutBlocks, Announce
<1>14. CASE CollectEnd \/ CollectCancelled \/ SendCtxErr \/ UNCHANGED dagVars
  BY <1>2, <1>14 DEF CollectEnd, CollectCancelled, SendCtxErr, dagVars, serviceVars
<1> QED
  BY <1>1, <1>3, <1>4, <1>5, <1>7, <1>8, <1>9, <1>10, <1>11, <1>12, <1>13, <1>14
     DEF DagNext, Quiet, Collect, CollectBlock, BatchStep, SessionStep, AddMany, RemoveMany

-----------------------------------------------------------------------------
CollectTypeOK ==
    /\ collectPc \in {"dedup", "select", "ctxerr", "closed"}
    /\ keys \in Seq(Cids) /\ bad \subseteq Undecodable
    /\ count \in 0..Len(keys)
    /\ sent \in Seq(Cids \cup Errors)
    /\ abandoned \in BOOLEAN
    /\ abandoned => Len(sent) <= Len(keys)

(* Every key sent is one of the keys and sent once: count says how many of   *)
(* them there are, and all are there exactly if it is their number.          *)
LEMMA CountBound ==
  ASSUME keys \in Seq(Cids), Distinct(keys), NEW s \in Seq(Cids), Distinct(s),
         Elements(s) \subseteq Elements(keys)
  PROVE  /\ Len(s) <= Len(keys)
         /\ Len(s) = Len(keys) => Elements(s) = Elements(keys)
         /\ Elements(keys) \subseteq Elements(s) => Len(s) = Len(keys)
<1>1. /\ IsFiniteSet(Elements(s)) /\ Cardinality(Elements(s)) = Len(s)
      /\ IsFiniteSet(Elements(keys)) /\ Cardinality(Elements(keys)) = Len(keys)
  BY ElementsCardinality
<1>2. Cardinality(Elements(s)) <= Cardinality(Elements(keys))
  BY <1>1, FS_Subset
<1>3. Cardinality(Elements(s)) = Cardinality(Elements(keys)) => Elements(s) = Elements(keys)
  BY <1>1, FS_Subset
<1>4. Elements(keys) \subseteq Elements(s) => Elements(s) = Elements(keys)
  OBVIOUS
<1> QED
  BY <1>1, <1>2, <1>3, <1>4

(* The steps that leave GetMany and the data of getBlocks alone.             *)
LEMMA CollectQuiet ==
  ASSUME CollectTypeOK, CollectInv, UNCHANGED <<collectVars, batchVars>>,
         at[Batch] = "start" => at'[Batch] = "start"
  PROVE  CollectTypeOK' /\ CollectInv'
<1>1. UNCHANGED <<collectPc, keys, bad, count, sent, abandoned, ks, misses, blk, given>>
  BY DEF collectVars, batchVars
<1>2. CollectTypeOK'
  BY <1>1 DEF CollectTypeOK
<1>3. OnePlace' = OnePlace /\ GetManyHonest' = GetManyHonest
  BY <1>1 DEF OnePlace, GetManyHonest
<1> QED
  BY <1>1, <1>2, <1>3 DEF CollectInv

(* Lookups and deliveries move a key from one place to another.              *)
LEMMA BatchMoves ==
  ASSUME ServiceTypeOK, CollectTypeOK, CollectInv, UNCHANGED collectVars,
         BatchLookup \/ \E c \in Cids : BatchRange(c)
  PROVE  CollectTypeOK' /\ CollectInv'
<1>1. /\ UNCHANGED <<collectPc, keys, bad, count, sent, abandoned>>
      /\ ks \in Seq(Cids) /\ misses \in Seq(Cids) /\ Batch \in Callers
      /\ at[Batch] # "start"
  BY DEF collectVars, ServiceTypeOK, Callers, BatchLookup, BatchRange
<1>2. CollectTypeOK' /\ GetManyHonest' /\ collectPc # "dedup" /\ Distinct(keys)'
  BY <1>1 DEF CollectTypeOK, GetManyHonest, CollectInv
<1>3. ASSUME OnePlace PROVE OnePlace'
  <2>1. CASE BatchLookup
    <3> DEFINE c == Head(ks)
    <3>1. /\ c \in Cids /\ Elements(ks) = {c} \cup Elements(Tail(ks))
          /\ Distinct(Tail(ks)) /\ c \notin Elements(Tail(ks))
      BY <1>1, <1>3, <2>1, TailElements DEF BatchLookup, OnePlace
    <3>2. ks' = Tail(ks) /\ given' = given
      BY <2>1 DEF BatchLookup
    <3>3. CASE blk' = <<c>> /\ misses' = misses
      <4>1. Elements(blk') = {c}
        BY <3>3, OneElement
      <4> QED
        BY <1>1, <1>3, <3>1, <3>2, <3>3, <4>1 DEF OnePlace
    <3>4. CASE misses' = Append(misses, c) /\ blk' = blk
      <4>1. Elements(misses') = Elements(misses) \cup {c}
        BY <1>1, <3>1, <3>4, AppendElements
      <4> QED
        BY <1>1, <1>3, <3>1, <3>2, <3>4, <4>1 DEF OnePlace
    <3> QED
      BY <2>1, <3>3, <3>4 DEF BatchLookup
  <2>2. ASSUME NEW c \in Cids, BatchRange(c) PROVE OnePlace'
    <3>1. c \in Elements(misses) \ given
      BY <2>2 DEF BatchRange, Deliverable, Elements
    <3>2. /\ given' = given \cup {c} /\ ks' = ks /\ misses' = misses
          /\ Elements(blk') = {c}
      BY <2>2, OneElement DEF BatchRange
    <3> QED
      BY <1>1, <1>3, <3>1, <3>2 DEF OnePlace
  <2> QED
    BY <2>1, <2>2
<1> QED
  BY <1>1, <1>2, <1>3 DEF CollectInv

(* getNodesFromBG starts with distinct keys, all of them to be looked up.    *)
LEMMA GetManyStarts ==
  ASSUME CollectTypeOK, CollectInv, GetMany PROVE CollectTypeOK' /\ CollectInv'
<1>1. /\ collectPc = "dedup" /\ collectPc' = "select"
      /\ UNCHANGED <<bad, count, sent, abandoned, misses, blk, given>>
      /\ keys' \in DedupKeys(keys) /\ ks' \in SafeKeys(keys')
  BY DEF GetMany, BatchStart
<1>2. count = 0 /\ sent = <<>> /\ misses = <<>> /\ blk = <<>> /\ given = {}
  BY <1>1 DEF CollectInv
<1>3. keys' \in Seq(Cids) /\ Distinct(keys') /\ Len(keys') \in Nat
  BY <1>1, DedupDistinct DEF CollectTypeOK
<1>4. Elements(ks') \subseteq Elements(keys') /\ Distinct(ks')
  BY <1>1, <1>3, SafeKeysDistinct
<1>5. /\ <<>> \in Seq(Cids) /\ Len(<<>>) = 0
      /\ Elements(<<>>) = {} /\ Distinct(<<>>)
  BY EmptyElements
<1>6. CollectTypeOK'
  <2>1. count' \in 0..Len(keys') /\ Len(sent') <= Len(keys')
    BY <1>1, <1>2, <1>3, <1>5
  <2> QED
    BY <1>1, <1>3, <2>1 DEF CollectTypeOK
<1>7. OnePlace'
  BY <1>1, <1>2, <1>3, <1>4, <1>5 DEF OnePlace
<1>8. GetManyHonest'
  BY <1>1 DEF GetManyHonest
<1> QED
  BY <1>1, <1>3, <1>6, <1>7, <1>8 DEF CollectInv

(* An option is sent if out has room for it.                                 *)
LEMMA SendOption ==
  ASSUME CollectTypeOK, ~ Full, NEW o \in Cids \cup Errors, sent' = Append(sent, o),
         UNCHANGED <<keys, abandoned>>
  PROVE  /\ sent' \in Seq(Cids \cup Errors)
         /\ Elements(sent') = Elements(sent) \cup {o}
         /\ abandoned' => Len(sent') <= Len(keys')
<1>1. /\ sent' \in Seq(Cids \cup Errors) /\ Len(sent') = Len(sent) + 1
      /\ Elements(sent') = Elements(sent) \cup {o}
  BY AppendElements DEF CollectTypeOK
<1>2. abandoned => Len(sent) <= Len(keys) /\ Len(sent) # Len(keys)
  BY DEF CollectTypeOK, Full
<1>3. Len(sent) \in Nat /\ Len(keys) \in Nat
  BY DEF CollectTypeOK
<1> QED
  BY <1>1, <1>2, <1>3

(* The collector's own steps: a node, an error or the end of the blocks.     *)
LEMMA CollectStepInv ==
  ASSUME ServiceTypeOK, CollectTypeOK, CollectInv, Collect
  PROVE  CollectTypeOK' /\ CollectInv'
<1>0. Cids \cap Errors = {} /\ Errors = {"incomplete", "decode", "ctx"}
  BY KeyListAssumption DEF Errors
<1>1. CASE CollectBlock
  <2>1. /\ collectPc = "select" /\ OnePlace /\ Distinct(keys) /\ ~ Full
        /\ UNCHANGED <<keys, bad, abandoned, ks, misses, given>> /\ blk' = <<>>
    BY <1>1 DEF CollectBlock, BatchSent, CollectInv
  <2>2. Len(blk) = 1 /\ blk[1] \in Cids
    <3>1. blk \in Seq(Cids)
      BY DEF ServiceTypeOK
    <3>a. Len(blk) <= 1
      BY DEF ServiceTypeOK
    <3>2. Len(blk) \in Nat \ {0}
      <4>1. blk # <<>>
        BY <1>1 DEF CollectBlock
      <4> QED
        BY <3>1, <4>1, EmptySeq
    <3>3. Len(blk) = 1
      BY <3>2, <3>a, SMTT(30)
    <3> QED
      BY <3>1, <3>3
  <2>3. Elements(blk) = {blk[1]} /\ Elements(blk') = {}
    BY <2>1, <2>2, EmptyElements DEF Elements
  <2>4. CASE blk[1] \in bad
    <3>1. sent' = Append(sent, "decode") /\ collectPc' = "closed" /\ count' = count
      BY <1>1, <2>4 DEF CollectBlock
    <3>2. /\ sent' \in Seq(Cids \cup Errors)
          /\ Elements(sent') = Elements(sent) \cup {"decode"}
          /\ abandoned' => Len(sent') <= Len(keys')
      BY <1>0, <2>1, <3>1, SendOption
    <3>3. "incomplete" \notin Elements(sent')
      BY <1>0, <2>1, <3>2, ElementsType DEF OnePlace
    <3>4. CollectTypeOK'
      BY <2>1, <3>1, <3>2 DEF CollectTypeOK
    <3>5. GetManyHonest'
      BY <1>0, <3>2, <3>3 DEF GetManyHonest
    <3> QED
      BY <2>1, <3>1, <3>4, <3>5 DEF CollectInv
  <2>5. CASE blk[1] \notin bad
    <3>1. sent' = Append(sent, blk[1]) /\ collectPc' = collectPc /\ count' = count + 1
      BY <1>1, <2>5 DEF CollectBlock
    <3>2. /\ sent' \in Seq(Cids) /\ Len(sent') = Len(sent) + 1
          /\ Elements(sent') = Elements(sent) \cup {blk[1]} /\ Distinct(sent')
      BY <2>1, <2>2, <2>3, <3>1, AppendElements DEF OnePlace
    <3>3. OnePlace'
      <4>1. Len(sent') = count' /\ Distinct(ks')
        BY <2>1, <3>1, <3>2 DEF OnePlace
      <4> QED
        BY <2>1, <2>3, <3>2, <4>1 DEF OnePlace
    <3>4. Len(sent') <= Len(keys)
      BY <2>1, <3>2, <3>3, CountBound DEF OnePlace, CollectTypeOK
    <3>5. sent' \in Seq(Cids \cup Errors) /\ (abandoned' => Len(sent') <= Len(keys'))
      BY <2>1, <2>2, <3>1, SendOption
    <3>6. count' \in 0..Len(keys')
      BY <2>1, <3>1, <3>3, <3>4 DEF OnePlace, CollectTypeOK
    <3>7. CollectTypeOK'
      BY <2>1, <3>1, <3>5, <3>6 DEF CollectTypeOK
    <3>8. GetManyHonest'
      BY <2>1, <3>1 DEF GetManyHonest
    <3> QED
      BY <2>1, <3>1, <3>3, <3>7, <3>8 DEF CollectInv
  <2> QED
    BY <2>4, <2>5
<1>2. CASE CollectEnd
  <2>1. /\ collectPc = "select" /\ OnePlace /\ Distinct(keys) /\ collectPc' = "closed"
        /\ UNCHANGED <<keys, bad, count, abandoned>>
    BY <1>2 DEF CollectEnd, CollectInv
  <2>2. /\ sent \in Seq(Cids) /\ Distinct(sent) /\ Len(sent) = count
        /\ Elements(sent) \subseteq Elements(keys) /\ keys \in Seq(Cids)
        /\ Elements(sent) \subseteq Cids /\ Elements(keys) \subseteq Cids
    BY <2>1, ElementsType DEF OnePlace, CollectTypeOK
  <2>3. CASE count = Len(keys)
    <3>1. sent' = sent
      BY <1>2, <2>3 DEF CollectEnd
    <3>2. Elements(sent) = Elements(keys) /\ Len(sent) = Cardinality(Elements(keys))
      BY <2>1, <2>2, <2>3, CountBound, ElementsCardinality
    <3>3. "incomplete" \notin Elements(sent)
      BY <1>0, <2>2
    <3>4. GetManyHonest'
      BY <2>1, <3>1, <3>2, <3>3 DEF GetManyHonest
    <3>5. CollectTypeOK'
      BY <2>1, <3>1 DEF CollectTypeOK
    <3> QED
      BY <2>1, <3>4, <3>5 DEF CollectInv
  <2>4. CASE count # Len(keys)
    <3>1. sent' = Append(sent, "incomplete") /\ ~ Full
      BY <1>2, <2>4 DEF CollectEnd
    <3>2. /\ sent' \in Seq(Cids \cup Errors)
          /\ Elements(sent') = Elements(sent) \cup {"incomplete"}
          /\ abandoned' => Len(sent') <= Len(keys')
      BY <1>0, <2>1, <3>1, SendOption
    <3>3. ~ Elements(keys) \subseteq Elements(sent)
      BY <2>1, <2>2, <2>4, CountBound
    <3>4. ~ Elements(keys) \subseteq Elements(sent')
      BY <1>0, <2>2, <3>2, <3>3
    <3>5. GetManyHonest'
      BY <1>0, <2>1, <3>2, <3>4 DEF GetManyHonest
    <3>6. CollectTypeOK'
      BY <2>1, <3>2 DEF CollectTypeOK
    <3> QED
      BY <2>1, <3>5, <3>6 DEF CollectInv
  <2> QED
    BY <2>3, <2>4
<1>3. CASE CollectCancelled
  <2>1. /\ collectPc = "select" /\ collectPc' = "ctxerr" /\ OnePlace /\ Distinct(keys)
        /\ UNCHANGED <<keys, bad, count, sent, abandoned, ks, misses, blk, given>>
    BY <1>3 DEF CollectCancelled, CollectInv, serviceVars, batchVars
  <2> QED
    BY <2>1 DEF CollectTypeOK, CollectInv, OnePlace, GetManyHonest
<1>4. CASE SendCtxErr
  <2>1. /\ collectPc = "ctxerr" /\ collectPc' = "closed" /\ OnePlace /\ Distinct(keys)
        /\ UNCHANGED <<keys, bad, count, abandoned>> /\ ~ Full /\ sent' = Append(sent, "ctx")
    BY <1>4 DEF SendCtxErr, CollectInv
  <2>2. /\ sent' \in Seq(Cids \cup Errors)
        /\ Elements(sent') = Elements(sent) \cup {"ctx"}
        /\ abandoned' => Len(sent') <= Len(keys')
    BY <1>0, <2>1, SendOption
  <2>3. "incomplete" \notin Elements(sent')
    BY <1>0, <2>1, <2>2, ElementsType DEF OnePlace
  <2>4. CollectTypeOK'
    BY <2>1, <2>2 DEF CollectTypeOK
  <2>5. GetManyHonest'
    BY <1>0, <2>2, <2>3 DEF GetManyHonest
  <2> QED
    BY <2>1, <2>4, <2>5 DEF CollectInv
<1> QED
  BY <1>1, <1>2, <1>3, <1>4 DEF Collect

(* Every other step is quiet.                                                *)
LEMMA CollectNext == ASSUME IInv, [DagNext]_dagVars PROVE CollectTypeOK' /\ CollectInv'
<1> USE DEF config, addVars, Goto
<1>0. ServiceTypeOK /\ CollectTypeOK /\ CollectInv
  BY DEF IInv, TypeOK, CollectTypeOK
<1>1. at \in [Callers -> CallerPcs] /\ Batch \in Callers /\ Batch \notin Getters
  BY <1>0, ServiceAssumption DEF ServiceTypeOK, Callers
<1>2. CASE /\ UNCHANGED <<collectVars, batchVars>>
           /\ at[Batch] = "start" => at'[Batch] = "start"
  BY <1>0, <1>2, CollectQuiet
<1>3. ASSUME NEW a \in Adders, AddStep(a), UNCHANGED collectVars PROVE CollectTypeOK' /\ CollectInv'
  BY <1>2, <1>3 DEF AddStep, Validate, CheckHas, PutBlocks, Announce
<1>4. ASSUME DeleteBlock \/ CancelCtx, UNCHANGED collectVars PROVE CollectTypeOK' /\ CollectInv'
  BY <1>2, <1>4 DEF DeleteBlock, CancelCtx
<1>5. ASSUME NEW g \in Getters, GetStep(g), UNCHANGED collectVars PROVE CollectTypeOK' /\ CollectInv'
  BY <1>1, <1>2, <1>5 DEF GetStep, GetLookup, GetFromExchange, SessionStep, LockSession,
                          MakeSession, UnlockSession
<1>6. ASSUME SessionStep(Batch), UNCHANGED collectVars PROVE CollectTypeOK' /\ CollectInv'
  BY <1>1, <1>2, <1>6 DEF SessionStep, LockSession, MakeSession, UnlockSession
<1>7. ASSUME BatchMisses \/ BatchAsk \/ BatchCancelled \/ BatchEnd, UNCHANGED collectVars
      PROVE CollectTypeOK' /\ CollectInv'
  BY <1>1, <1>2, <1>7 DEF BatchMisses, BatchAsk, BatchCancelled, BatchEnd
<1>8. ASSUME BatchLookup \/ \E c \in Cids : BatchRange(c), UNCHANGED collectVars
      PROVE CollectTypeOK' /\ CollectInv'
  BY <1>0, <1>8, BatchMoves
<1>9. CASE GetMany
  BY <1>0, <1>9, GetManyStarts
<1>10. CASE Collect
  BY <1>0, <1>10, CollectStepInv
<1>11. CASE UNCHANGED dagVars
  BY <1>2, <1>11 DEF dagVars, serviceVars
<1> QED
  BY <1>3, <1>4, <1>5, <1>6, <1>7, <1>8, <1>9, <1>10, <1>11
     DEF DagNext, Quiet, BatchStep, AddMany, RemoveMany

(* IInv holds in every reachable state.                                      *)
LEMMA IInvHolds == DagSpec => []IInv
<1>1. ASSUME IInv, [DagNext]_dagVars PROVE IInv'
  <2>1. TypeOK'
    BY <1>1, ServiceTypeStep, CollectNext DEF TypeOK, CollectTypeOK
  <2> QED
    BY <1>1, <2>1, AddStepInv, SessionStepInv, CollectNext DEF IInv
<1>2. DagInit /\ [][DagNext]_dagVars => []IInv
  BY InitIInv, <1>1, PTL
<1> QED
  BY <1>2, PTL DEF DagSpec

-----------------------------------------------------------------------------
(* The state of bserv.go and of GetMany stays well typed; in particular the  *)
(* collector never counts more nodes than it was asked for, and never has    *)
(* more options in out than there is room for.                               *)
THEOREM TypeCorrect == DagSpec => []TypeOK
<1>1. IInv => TypeOK
  BY DEF IInv
<1> QED
  BY IInvHolds, <1>1, PTL

(* AddBlock(s) of bserv.go reports success and announces a block only when   *)
(* the block is in the store, or was deleted again meanwhile.                *)
THEOREM AddedIsStored == DagSpec => []AddedStored
<1>1. IInv => AddedStored
  BY DEF IInv, AddInv, AdderInv, AddedStored, Kept
<1> QED
  BY IInvHolds, <1>1, PTL

(* However many callers share a Session of bserv.go, at most one exchange    *)
(* session is made, and getBlocks asks the exchange only for CIDs it misses. *)
THEOREM SessionIsMadeOnce == DagSpec => []SessionMadeOnce
<1>1. IInv => SessionMadeOnce
  BY DEF IInv, SessionInv
<1> QED
  BY IInvHolds, <1>1, PTL

(* GetMany tells the truth about what it delivered: everything exactly once  *)
(* if it reports no error, and not everything if it says so.                 *)
THEOREM GetManyIsHonest == DagSpec => []GetManyHonest
<1>1. IInv => GetManyHonest
  BY DEF IInv, CollectInv
<1> QED
  BY IInvHolds, <1>1, PTL
-----------------------------------------------------------------------------
(* Where getBlocks is depends on where its receiver is, and the other way    *)
(* round; whoever holds Session.lk is between Lock and Unlock.               *)
BatchInv ==
    /\ at[Batch] \notin {"found", "failed"}
    /\ at[Batch] = "start" => collectPc = "dedup"
    /\ at[Batch] \in {"hit", "fwd"} => blk # <<>>
    /\ \A p \in lk : at[p] \in {"locked", "made"}
    /\ collectPc = "ctxerr" => ctxDone
    /\ collectPc = "closed" => at[Batch] = "closed" \/ ctxDone \/ "decode" \in Elements(sent)

(* The guards of Collect, SessionStep(p) and BatchStep.                      *)
CollectCanStep ==
    \/ collectPc = "select" /\ ctxDone
    \/ collectPc = "select" /\ at[Batch] \in {"hit", "fwd"} /\ blk # <<>> /\ ~ Full
    \/ collectPc = "select" /\ at[Batch] = "closed" /\ (count = Len(keys) \/ ~ Full)
    \/ collectPc = "ctxerr" /\ ~ Full

SessionCanStep(p) == at[p] \in {"locked", "made"} \/ (at[p] = "session" /\ lk = {})

BatchCanStep ==
    \/ at[Batch] \in {"lookup", "ask"}
    \/ SessionCanStep(Batch)
    \/ at[Batch] \in {"hit", "fwd"} /\ ctxDone

(* One of the two goroutines or the holder of Session.lk can go on.          *)
GetManyCanStep == CollectCanStep \/ BatchCanStep \/ \E p \in lk : SessionCanStep(p)

(* The goroutine of GetMany waits only for the exchange of a call that was   *)
(* not cancelled, or with the error of a cancellation for room in out; that  *)
(* of getBlocks only for the exchange, or to send to a collector that a      *)
(* decoding error ended.  They never wait for each other, and out never      *)
(* lacks room for a node or for the report of an incomplete result.          *)
GetManyMoves ==
    /\ collectPc \in {"select", "ctxerr"} =>
          \/ GetManyCanStep
          \/ at[Batch] = "range" /\ ~ ctxDone
          \/ collectPc = "ctxerr" /\ Full
    /\ collectPc # "dedup" /\ at[Batch] # "closed" =>
          \/ GetManyCanStep
          \/ at[Batch] = "range"
          \/ at[Batch] \in {"hit", "fwd"} /\ "decode" \in Elements(sent) /\ ~ ctxDone

LEMMA BatchInvStep == ASSUME IInv, BatchInv, [DagNext]_dagVars PROVE BatchInv'
<1> USE DEF config, addVars, batchVars, collectVars, Goto
<1>0. /\ at \in [Callers -> CallerPcs] /\ lk \subseteq Callers
      /\ collectPc \in {"dedup", "select", "ctxerr", "closed"}
      /\ \A p, q \in lk : p = q
  BY DEF IInv, TypeOK, ServiceTypeOK, SessionInv
<1>1. Batch \in Callers /\ Batch \notin Getters /\ \A g \in Getters : g \in Callers
  BY ServiceAssumption DEF Callers
<1>2. ASSUME UNCHANGED <<at, lk, blk, collectVars>>, ctxDone => ctxDone' PROVE BatchInv'
  BY <1>2 DEF BatchInv
<1>3. ASSUME NEW p \in Callers, SessionStep(p), UNCHANGED collectVars PROVE BatchInv'
  BY <1>0, <1>1, <1>3 DEF SessionStep, LockSession, MakeSession, UnlockSession, BatchInv
<1>4. ASSUME NEW g \in Getters, GetLookup(g) \/ GetFromExchange(g), UNCHANGED collectVars
      PROVE  BatchInv'
  BY <1>0, <1>1, <1>4 DEF GetLookup, GetFromExchange, BatchInv
<1>5. ASSUME BatchLookup, UNCHANGED collectVars PROVE BatchInv'
  BY <1>0, <1>1, <1>5 DEF BatchLookup, BatchInv
<1>6. ASSUME BatchMisses \/ BatchAsk \/ BatchCancelled \/ BatchEnd \/ (\E c \in Cids : BatchRange(c)),
             UNCHANGED collectVars
      PROVE  BatchInv'
  BY <1>0, <1>1, <1>6 DEF BatchMisses, AfterMiss, BatchAsk, BatchCancelled, BatchEnd,
                          BatchRange, BatchInv
<1>7. CASE GetMany
  BY <1>0, <1>1, <1>7 DEF GetMany, BatchStart, BatchInv
<1>8. CASE CollectBlock
  <2>1. /\ at[Batch] \in {"hit", "fwd"} /\ UNCHANGED <<lk, ctxDone>> /\ collectPc = "select"
        /\ at' = [at EXCEPT ![Batch] = IF at[Batch] = "hit" THEN "lookup" ELSE "range"]
    BY <1>8 DEF CollectBlock, BatchSent
  <2>2. collectPc' = "select" \/ (collectPc' = "closed" /\ sent' = Append(sent, "decode"))
    BY <1>8, <2>1 DEF CollectBlock
  <2>3. collectPc' = "closed" => "decode" \in Elements(sent')
    <3>1. sent \in Seq(Cids \cup Errors) /\ "decode" \in Cids \cup Errors
      BY DEF IInv, TypeOK, Errors
    <3>2. Elements(Append(sent, "decode")) = Elements(sent) \cup {"decode"}
      BY <3>1, AppendElements
    <3> QED
      BY <2>2, <3>2
  <2> QED
    BY <1>0, <1>1, <2>1, <2>2, <2>3 DEF BatchInv
<1>9. CASE CollectEnd \/ CollectCancelled \/ SendCtxErr
  <2>1. UNCHANGED <<at, lk, blk, ctxDone>>
    BY <1>9 DEF CollectEnd, CollectCancelled, SendCtxErr, serviceVars
  <2> QED
    BY <1>9, <2>1 DEF CollectEnd, CollectCancelled, SendCtxErr, BatchInv
<1>10. ASSUME DeleteBlock \/ CancelCtx \/ (\E a \in Adders : AddStep(a)), UNCHANGED collectVars
       PROVE  BatchInv'
  BY <1>2, <1>10 DEF DeleteBlock, CancelCtx, AddStep, Validate, CheckHas, PutBlocks, Announce
<1>11. CASE UNCHANGED dagVars
  BY <1>2, <1>11 DEF dagVars, serviceVars
<1> QED
  BY <1>1, <1>3, <1>4, <1>5, <1>6, <1>7, <1>8, <1>9, <1>10, <1>11
     DEF DagNext, Quiet, Collect, BatchStep, GetStep, AddMany, RemoveMany

(* out has room for a block that is there: it is one of the keys and was not *)
(* sent before.                                                              *)
LEMMA RoomForBlock ==
    ASSUME IInv, collectPc = "select", blk # <<>>
    PROVE  ~ Full
<1>1. OnePlace /\ Distinct(keys) /\ keys \in Seq(Cids) /\ blk \in Seq(Cids)
  BY DEF IInv, TypeOK, ServiceTypeOK, CollectInv
<1>2. blk[1] \in Elements(blk)
  <2>1. Len(blk) \in Nat \ {0}
    BY <1>1, EmptySeq
  <2>2. 1 \in 1..Len(blk)
    BY <2>1
  <2> QED
    BY <2>2 DEF Elements
<1>3. blk[1] \in Elements(keys) /\ blk[1] \notin Elements(sent)
  BY <1>1, <1>2 DEF OnePlace
<1>4. Len(sent) # Len(keys)
  BY <1>1, <1>3, CountBound DEF OnePlace
<1> QED
  BY <1>4 DEF Full

(* Who waits for Session.lk waits for a caller that is about to release it.  *)
LEMMA SessionMoves ==
    ASSUME BatchInv, at[Batch] \in {"session", "locked", "made"}
    PROVE  GetManyCanStep
<1>1. CASE lk = {}
  BY <1>1 DEF GetManyCanStep, BatchCanStep, SessionCanStep
<1>2. CASE lk # {}
  BY <1>2 DEF BatchInv, GetManyCanStep, SessionCanStep
<1> QED
  BY <1>1, <1>2

(* getNodesFromBG and getBlocks, for every list of keys, exchange, store and *)
(* number of callers that share the session: unless the exchange is silent,  *)
(* a cancellation finds out full of nodes nobody reads, or a block did not   *)
(* decode, one of the two goroutines can go on until both are over.          *)
THEOREM GetManyIsNotBlocked == DagSpec => []GetManyMoves
<1>1. DagInit => BatchInv
  BY ServiceAssumption DEF DagInit, ServiceInit, BatchInv, Callers
<1>2. IInv /\ BatchInv => GetManyMoves
  <2> SUFFICES ASSUME IInv, BatchInv PROVE GetManyMoves
    OBVIOUS
  <2>0. /\ collectPc \in {"dedup", "select", "ctxerr", "closed"}
        /\ at[Batch] \in CallerPcs
    BY ServiceAssumption DEF IInv, TypeOK, ServiceTypeOK, Callers
  <2>1. CASE collectPc = "dedup"
    BY <2>1 DEF GetManyMoves
  <2>2. CASE collectPc = "ctxerr" \/ (collectPc = "select" /\ ctxDone)
    <3>1. ctxDone
      BY <2>2 DEF BatchInv
    <3>2. GetManyCanStep \/ (collectPc = "ctxerr" /\ Full)
      BY <2>2 DEF GetManyCanStep, CollectCanStep
    <3>3. at[Batch] \notin {"closed", "range"} => GetManyCanStep
      BY <2>0, <2>2, <3>1, SessionMoves
         DEF BatchInv, GetManyCanStep, BatchCanStep, CallerPcs
    <3> QED
      BY <3>2, <3>3 DEF GetManyMoves
  <2>3. CASE collectPc = "select" /\ ~ ctxDone
    <3>1. CASE at[Batch] \in {"lookup", "ask", "session", "locked", "made"}
      BY <3>1, SessionMoves DEF GetManyMoves, GetManyCanStep, BatchCanStep
    <3>2. CASE at[Batch] \in {"hit", "fwd"}
      BY <2>3, <3>2, RoomForBlock DEF BatchInv, GetManyMoves, GetManyCanStep, CollectCanStep
    <3>3. CASE at[Batch] = "range"
      BY <2>3, <3>3 DEF GetManyMoves
    <3>4. CASE at[Batch] = "closed"
      <4>1. OnePlace
        BY <2>3 DEF IInv, CollectInv
      <4>2. count = Len(keys) \/ ~ Full
        BY <4>1 DEF OnePlace, Full
      <4> QED
        BY <2>3, <3>4, <4>2 DEF GetManyMoves, GetManyCanStep, CollectCanStep
    <3> QED
      BY <2>0, <2>3, <3>1, <3>2, <3>3, <3>4 DEF BatchInv, CallerPcs
  <2>4. CASE collectPc = "closed"
    <3>1. CASE at[Batch] \in {"hit", "fwd"}
      BY <2>4, <3>1 DEF BatchInv, GetManyMoves, GetManyCanStep, BatchCanStep
    <3>2. CASE at[Batch] \in {"lookup", "ask", "session", "locked", "made"}
      BY <2>4, <3>2, SessionMoves DEF GetManyMoves, GetManyCanStep, BatchCanStep
    <3> QED
      BY <2>0, <2>4, <3>1, <3>2 DEF BatchInv, CallerPcs, GetManyMoves
  <2> QED
    BY <2>0, <2>1, <2>2, <2>3, <2>4
<1>3. IInv /\ BatchInv /\ [DagNext]_dagVars => BatchInv'
  BY BatchInvStep
<1>4. DagInit /\ [][DagNext]_dagVars /\ []IInv => []GetManyMoves
  BY <1>1, <1>2, <1>3, PTL
<1> QED
  BY <1>4, IInvHolds, PTL DEF DagSpec
=============================================================================
