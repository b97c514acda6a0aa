------------------------ MODULE ManifestCreditProofs ------------------------
(***************************************************************************)
(* The invariants of ManifestCredit hold for every DAG, manifest, hash      *)
(* function and starting credit; a requester fed by the pipe of Manifetch   *)
(* is one of them, and gets the manifest its server wrote.                  *)
(***************************************************************************)
EXTENDS Manifetch, FiniteSetTheorems, SequenceTheorems, TLAPS

(* The requester has not accounted for the CID it received last.             *)
Busy == reqPc \in {"nocredit", "select", "woken", "send", "account", "aborted", "panic"}

Accounted == IF Busy THEN Len(manifest) - 1 ELSE Len(manifest)

(* TypeOK, and what the proofs of the other invariants need besides: the     *)
(* visitor is one goroutine, an announced credit is there, and outstanding   *)
(* multihashes come from manifest entries already accounted for.             *)
IInv ==
    /\ TypeOK
    /\ \A c, e \in visiting : c = e
    /\ visiting \subseteq cset
    /\ Busy => Len(manifest) >= 1
    /\ reqPc = "woken" => manifestCurrentCredit > 0
    /\ NoCreditPanic
    /\ IsFiniteSet(manifestOutstandingMHs)
    /\ \A h \in manifestOutstandingMHs : \E j \in 1..Accounted : Hash[manifest[j]] = h

-----------------------------------------------------------------------------
LEMMA InitIInv == Init => IInv
<1> SUFFICES ASSUME Init PROVE IInv
  OBVIOUS
<1>1. manifest \in Seq(Cids) /\ Len(manifest) = 0
  BY DEF Init
<1>2. TypeOK
  <2>1. startingCredit \in Nat /\ MaxManifest \in Nat
    BY CreditAssumption
  <2>2. Len(manifest) <= MaxManifest
    BY <1>1, <2>1
  <2> QED
    BY <1>1, <2>1, <2>2 DEF Init, TypeOK, ReqPcs
<1>3. IsFiniteSet({})
  BY FS_EmptySet
<1> QED
  BY <1>2, <1>3 DEF Init, IInv, Busy, NoCreditPanic

LEMMA NextIInv == IInv /\ [Next]_vars => IInv'
<1> SUFFICES ASSUME IInv, [Next]_vars PROVE IInv'
  OBVIOUS
<1>0. manifest \in Seq(Cids) /\ Len(manifest) \in Nat /\ MaxManifest \in Nat
  BY CreditAssumption DEF IInv, TypeOK
<1>1. \A j \in 1..Len(manifest) : manifest[j] \in Cids
  BY <1>0
<1>2. ASSUME NEW c \in WalkCids, Visit(c) PROVE IInv'
  BY <1>0, <1>2, CreditAssumption
     DEF IInv, TypeOK, Visit, Busy, NoCreditPanic, Accounted, creditVars
<1>3. ASSUME NEW c \in WalkCids, GiveCredit(c) PROVE IInv'
  <2>1. CASE Hash[c] \in manifestOutstandingMHs
    <3>1. IsFiniteSet(manifestOutstandingMHs')
      BY <1>3, <2>1, FS_RemoveElement DEF IInv, GiveCredit
    <3>2. TypeOK'
      BY <1>0, <1>3, <2>1 DEF IInv, TypeOK, GiveCredit, Signal, ReqPcs
    <3>3. /\ Busy' = Busy
          /\ Accounted' = Accounted
      BY <1>3, <2>1 DEF GiveCredit, Signal, Busy, Accounted
    <3> QED
      BY <1>3, <2>1, <3>1, <3>2, <3>3
         DEF IInv, TypeOK, GiveCredit, Signal, NoCreditPanic
  <2>2. CASE Hash[c] \notin manifestOutstandingMHs
    BY <1>0, <1>3, <2>2
       DEF IInv, TypeOK, GiveCredit, Busy, NoCreditPanic, Accounted, creditVars
  <2> QED
    BY <2>1, <2>2
<1>4. ASSUME NEW c \in Cids, ReceiveManifestCid(c) PROVE IInv'
  <2>1. /\ manifest' \in Seq(Cids)
        /\ Len(manifest') = Len(manifest) + 1
        /\ \A j \in 1..Len(manifest) : manifest'[j] = manifest[j]
    BY <1>0, <1>4 DEF ReceiveManifestCid
  <2>2. ~Busy /\ Busy' /\ Accounted = Len(manifest) /\ Accounted' = Len(manifest)
    BY <1>0, <1>4, <2>1 DEF ReceiveManifestCid, Busy, Accounted
  <2>3. TypeOK'
    BY <1>0, <1>4, <2>1 DEF IInv, TypeOK, ReceiveManifestCid, ReqPcs
  <2>4. \A h \in manifestOutstandingMHs' : \E j \in 1..Accounted' : Hash[manifest'[j]] = h
    BY <1>4, <2>1, <2>2 DEF IInv, ReceiveManifestCid
  <2> QED
    BY <1>0, <1>4, <2>1, <2>2, <2>3, <2>4 DEF IInv, ReceiveManifestCid, NoCreditPanic
<1>5. CASE EnterSelect \/ Timeout \/ SendRequest \/ AbortRequest
  BY <1>0, <1>5 DEF IInv, TypeOK, EnterSelect, Timeout, SendRequest, AbortRequest,
                    Busy, NoCreditPanic, Accounted, ReqPcs, creditVars
<1>6. CASE TakeCredit
  BY <1>0, <1>6 DEF IInv, TypeOK, TakeCredit, Busy, NoCreditPanic, Accounted, ReqPcs
<1>7. CASE Account
  <2>1. /\ Busy /\ Len(manifest) >= 1 /\ Accounted = Len(manifest) - 1
        /\ ~Busy' /\ Accounted' = Len(manifest) /\ manifest' = manifest
        /\ Len(manifest) \in 1..Len(manifest) /\ Current \in Cids
    BY <1>0, <1>1, <1>7 DEF IInv, TypeOK, Account, Busy, Accounted, Current
  <2>2. CASE Current \notin cset
    <3>1. IsFiniteSet(manifestOutstandingMHs')
      BY <1>7, <2>2, FS_AddElement DEF IInv, Account
    <3>2. TypeOK'
      BY <1>0, <1>1, <1>7, <2>1, <2>2 DEF IInv, TypeOK, Account, Hashes, ReqPcs
    <3>3. \A h \in manifestOutstandingMHs' : \E j \in 1..Accounted' : Hash[manifest[j]] = h
      BY <1>0, <1>7, <2>1, <2>2 DEF IInv, Account, Current
    <3> QED
      BY <1>7, <2>1, <2>2, <3>1, <3>2, <3>3 DEF IInv, Account, NoCreditPanic
  <2>3. CASE Current \in cset
    <3>1. TypeOK'
      BY <1>0, <1>7, <2>3 DEF IInv, TypeOK, Account, ReqPcs
    <3>2. \A h \in manifestOutstandingMHs' : \E j \in 1..Accounted' : Hash[manifest[j]] = h
      BY <1>0, <1>7, <2>1, <2>3 DEF IInv, Account
    <3> QED
      BY <1>7, <2>1, <2>3, <3>1, <3>2 DEF IInv, Account, NoCreditPanic
  <2> QED
    BY <2>2, <2>3
<1>8. CASE EndOfManifest
  BY <1>0, <1>8 DEF IInv, TypeOK, EndOfManifest, Busy, NoCreditPanic, Accounted, ReqPcs, creditVars
<1>9. CASE CancelCtx
  BY <1>0, <1>9 DEF IInv, TypeOK, CancelCtx, Busy, NoCreditPanic, Accounted, creditVars
<1>10. CASE Finished \/ UNCHANGED vars
  BY <1>0, <1>10 DEF IInv, TypeOK, Finished, vars, Busy, NoCreditPanic, Accounted, creditVars
<1> QED
  BY <1>2, <1>3, <1>4, <1>5, <1>6, <1>7, <1>8, <1>9, <1>10 DEF Next, Requester, Visitor

LEMMA AlwaysIInv == Spec => []IInv
BY InitIInv, NextIInv, PTL DEF Spec

(* The variables of Walk2's credit scheme keep their types; in particular    *)
(* manifestCurrentCredit is never negative.                                  *)
THEOREM TypeCorrect == Spec => []TypeOK
<1>1. IInv => TypeOK
  BY DEF IInv
<1> QED
  BY AlwaysIInv, <1>1, PTL

(* panic("how!") is unreachable, whatever the manifest and the walk.         *)
THEOREM CreditPanicUnreachable == Spec => []NoCreditPanic
<1>1. IInv => NoCreditPanic
  BY DEF IInv
<1> QED
  BY AlwaysIInv, <1>1, PTL

-----------------------------------------------------------------------------
(* A step changes the size of the set of outstanding multihashes by one at   *)
(* most, and together with the counters.                                     *)
LEMMA BoundStep ==
    ASSUME IInv, IInv', [Next]_vars, CreditBounded
    PROVE  CreditBounded'
<1>0. Cardinality(manifestOutstandingMHs) \in Nat
  BY FS_CardinalityType DEF IInv
<1>1. ASSUME NEW c \in WalkCids, GiveCredit(c) PROVE CreditBounded'
  <2>1. CASE Hash[c] \in manifestOutstandingMHs
    <3>1. Cardinality(manifestOutstandingMHs') = Cardinality(manifestOutstandingMHs) - 1
      BY <1>1, <2>1, FS_RemoveElement DEF IInv, GiveCredit
    <3> QED
      BY <1>0, <1>1, <2>1, <3>1, SMTT(30) DEF GiveCredit, Signal, CreditBounded, Held, IInv, TypeOK
  <2>2. CASE Hash[c] \notin manifestOutstandingMHs
    BY <1>1, <2>2 DEF GiveCredit, CreditBounded, Held, creditVars
  <2> QED
    BY <2>1, <2>2
<1>2. CASE Account
  <2>1. CASE Current \notin cset
    <3>1. Cardinality(manifestOutstandingMHs') <= Cardinality(manifestOutstandingMHs) + 1
      <4>1. CASE Hash[Current] \in manifestOutstandingMHs
        <5>1. manifestOutstandingMHs' = manifestOutstandingMHs
          BY <1>2, <2>1, <4>1 DEF Account
        <5> QED
          BY <1>0, <5>1
      <4>2. CASE Hash[Current] \notin manifestOutstandingMHs
        BY <1>0, <1>2, <2>1, <4>2, FS_AddElement DEF IInv, Account
      <4> QED
        BY <4>1, <4>2
    <3>2. Cardinality(manifestOutstandingMHs') \in Nat
      BY FS_CardinalityType DEF IInv
    <3> QED
      BY <1>0, <1>2, <2>1, <3>1, <3>2 DEF Account, CreditBounded, Held, IInv, TypeOK
  <2>2. CASE Current \in cset
    BY <1>0, <1>2, <2>2 DEF Account, CreditBounded, Held, IInv, TypeOK
  <2> QED
    BY <2>1, <2>2
<1>3. ASSUME NEW c \in WalkCids, Visit(c) PROVE CreditBounded'
  BY <1>3 DEF Visit, CreditBounded, Held, creditVars
<1>4. CASE (\E c \in Cids : ReceiveManifestCid(c)) \/ TakeCredit
  BY <1>0, <1>4 DEF ReceiveManifestCid, TakeCredit, CreditBounded, Held, IInv, TypeOK
<1>5. CASE EnterSelect \/ Timeout \/ SendRequest \/ AbortRequest \/ EndOfManifest
  BY <1>5 DEF EnterSelect, Timeout, SendRequest, AbortRequest, EndOfManifest,
              CreditBounded, Held, creditVars
<1>6. CASE CancelCtx \/ Finished \/ UNCHANGED vars
  BY <1>6 DEF CancelCtx, Finished, vars, CreditBounded, Held, creditVars
<1> QED
  BY <1>1, <1>2, <1>3, <1>4, <1>5, <1>6 DEF Next, Requester, Visitor

(* No interleaving of the walk and the requester creates credit.             *)
THEOREM CreditIsBounded == Spec => []CreditBounded
<1>1. Init => CreditBounded
  BY FS_EmptySet, CreditAssumption DEF Init, CreditBounded, Held
<1> QED
  BY <1>1, AlwaysIInv, BoundStep, PTL DEF Spec
-----------------------------------------------------------------------------
(* The same for the exact balance: the multihash that Account adds is new,   *)
(* because a distinct manifest names it only once.                           *)
LEMMA ConservedStep ==
    ASSUME IInv, IInv', [Next]_vars, CreditConserved
    PROVE  CreditConserved'
<1> SUFFICES ASSUME DistinctManifest'
             PROVE  manifestCurrentCredit' + Held' + Cardinality(manifestOutstandingMHs')
                      = manifestMaxCredit'
  BY DEF CreditConserved
<1> DEFINE Balance == manifestCurrentCredit + Held + Cardinality(manifestOutstandingMHs)
                        = manifestMaxCredit
<1>0. Balance
  <2>1. DistinctManifest
    <3>1. /\ manifest \in Seq(Cids) /\ Len(manifest) \in Nat
          /\ \/ manifest' = manifest
             \/ \E c \in Cids : manifest' = Append(manifest, c)
      BY DEF IInv, TypeOK, Next, Requester, Visitor, vars, ReceiveManifestCid, EnterSelect,
             Timeout, TakeCredit, SendRequest, Account, AbortRequest, EndOfManifest, Visit,
             GiveCredit, CancelCtx, Finished
    <3>2. /\ 1..Len(manifest) \subseteq 1..Len(manifest')
          /\ \A j \in 1..Len(manifest) : manifest'[j] = manifest[j]
      BY <3>1
    <3> QED
      BY <3>2 DEF DistinctManifest
  <2> QED
    BY <2>1 DEF CreditConserved
<1>00. Cardinality(manifestOutstandingMHs) \in Nat
  BY FS_CardinalityType DEF IInv
<1>1. ASSUME NEW c \in WalkCids, GiveCredit(c) PROVE Balance'
  <2>1. CASE Hash[c] \in manifestOutstandingMHs
    <3>1. Cardinality(manifestOutstandingMHs') = Cardinality(manifestOutstandingMHs) - 1
      BY <1>1, <2>1, FS_RemoveElement DEF IInv, GiveCredit
    <3> QED
      BY <1>0, <1>00, <1>1, <2>1, <3>1, SMTT(30) DEF GiveCredit, Signal, Held, IInv, TypeOK
  <2>2. CASE Hash[c] \notin manifestOutstandingMHs
    BY <1>0, <1>1, <2>2 DEF GiveCredit, Held, creditVars
  <2> QED
    BY <2>1, <2>2
<1>2. CASE Account
  <2>1. CASE Current \notin cset
    <3>1. Hash[Current] \notin manifestOutstandingMHs
      <4>1. /\ Accounted = Len(manifest) - 1
            /\ Len(manifest) \in 1..Len(manifest)
            /\ manifest' = manifest
        BY <1>2 DEF Account, Busy, Accounted, IInv, TypeOK
      <4>2. \A j \in 1..(Len(manifest) - 1) :
               j \in 1..Len(manifest) /\ j # Len(manifest)
        BY <4>1
      <4> QED
        BY <4>1, <4>2 DEF IInv, DistinctManifest, Current
    <3>2. Cardinality(manifestOutstandingMHs') = Cardinality(manifestOutstandingMHs) + 1
      BY <1>2, <2>1, <3>1, FS_AddElement DEF IInv, Account
    <3> QED
      BY <1>0, <1>00, <1>2, <2>1, <3>2 DEF Account, Held, IInv, TypeOK
  <2>2. CASE Current \in cset
    BY <1>0, <1>00, <1>2, <2>2 DEF Account, Held, IInv, TypeOK
  <2> QED
    BY <2>1, <2>2
<1>3. ASSUME NEW c \in WalkCids, Visit(c) PROVE Balance'
  BY <1>0, <1>3 DEF Visit, Held, creditVars
<1>4. CASE (\E c \in Cids : ReceiveManifestCid(c)) \/ TakeCredit
  BY <1>0, <1>00, <1>4 DEF ReceiveManifestCid, TakeCredit, Held, IInv, TypeOK, NoCreditPanic
<1>5. CASE EnterSelect \/ Timeout \/ SendRequest \/ AbortRequest \/ EndOfManifest
  BY <1>0, <1>5 DEF EnterSelect, Timeout, SendRequest, AbortRequest, EndOfManifest, Held, creditVars
<1>6. CASE CancelCtx \/ Finished \/ UNCHANGED vars
  BY <1>0, <1>6 DEF CancelCtx, Finished, vars, Held, creditVars
<1> QED
  BY <1>1, <1>2, <1>3, <1>4, <1>5, <1>6 DEF Next, Requester, Visitor

(* A manifest without repeated multihashes loses no credit.                  *)
THEOREM CreditIsConserved == Spec => []CreditConserved
<1>1. Init => CreditConserved
  BY FS_EmptySet, CreditAssumption DEF Init, CreditConserved, Held
<1> QED
  BY <1>1, AlwaysIInv, ConservedStep, PTL DEF Spec

-----------------------------------------------------------------------------
(* A visit and the accounting of the same CID cannot miss each other.        *)
LEMMA RedeemableStep ==
    ASSUME IInv, IInv', [Next]_vars, OutstandingRedeemable
    PROVE  OutstandingRedeemable'
<1> DEFINE Redeems(j, h) == /\ Hash[manifest[j]] = h
                            /\ manifest[j] \notin cset \/ manifest[j] \in visiting
<1> SUFFICES ASSUME NEW h \in manifestOutstandingMHs'
             PROVE  \E j \in 1..Len(manifest') : Redeems(j, h)'
  BY DEF OutstandingRedeemable
<1>0. manifest \in Seq(Cids) /\ Len(manifest) \in Nat
  BY DEF IInv, TypeOK
<1>1. ASSUME NEW c \in WalkCids, Visit(c) PROVE \E j \in 1..Len(manifest') : Redeems(j, h)'
  BY <1>1 DEF Visit, creditVars, OutstandingRedeemable
<1>2. ASSUME NEW c \in WalkCids, GiveCredit(c) PROVE \E j \in 1..Len(manifest') : Redeems(j, h)'
  <2>1. h \in manifestOutstandingMHs /\ h # Hash[c]
    BY <1>2 DEF GiveCredit, creditVars
  <2>2. PICK j \in 1..Len(manifest) : Redeems(j, h)
    BY <2>1 DEF OutstandingRedeemable
  <2>3. manifest[j] \notin visiting
    BY <1>2, <2>1, <2>2 DEF GiveCredit, IInv
  <2> QED
    BY <1>2, <2>2, <2>3 DEF GiveCredit
<1>3. CASE Account
  <2>1. CASE h \in manifestOutstandingMHs
    BY <1>3, <2>1 DEF Account, OutstandingRedeemable
  <2>2. CASE h \notin manifestOutstandingMHs
    <3>1. h = Hash[Current] /\ Current \notin cset
      BY <1>3, <2>2 DEF Account
    <3>2. Len(manifest) \in 1..Len(manifest') /\ manifest' = manifest
      BY <1>0, <1>3 DEF Account, Busy, IInv
    <3> QED
      BY <1>3, <3>1, <3>2 DEF Account, Current
  <2> QED
    BY <2>1, <2>2
<1>4. ASSUME NEW c \in Cids, ReceiveManifestCid(c) PROVE \E j \in 1..Len(manifest') : Redeems(j, h)'
  <2>1. /\ 1..Len(manifest) \subseteq 1..Len(manifest')
        /\ \A j \in 1..Len(manifest) : manifest'[j] = manifest[j]
    BY <1>0, <1>4 DEF ReceiveManifestCid
  <2> QED
    BY <1>4, <2>1 DEF ReceiveManifestCid, OutstandingRedeemable
<1>5. CASE TakeCredit
  BY <1>5 DEF TakeCredit, OutstandingRedeemable
<1>6. CASE EnterSelect \/ Timeout \/ SendRequest \/ AbortRequest \/ EndOfManifest
  BY <1>6 DEF EnterSelect, Timeout, SendRequest, AbortRequest, EndOfManifest,
              OutstandingRedeemable, creditVars
<1>7. CASE CancelCtx \/ Finished \/ UNCHANGED vars
  BY <1>7 DEF CancelCtx, Finished, vars, OutstandingRedeemable, creditVars
<1> QED
  BY <1>1, <1>2, <1>3, <1>4, <1>5, <1>6, <1>7 DEF Next, Requester, Visitor

(* Every outstanding multihash can still give its credit back.               *)
THEOREM OutstandingIsRedeemable == Spec => []OutstandingRedeemable
<1>1. Init => OutstandingRedeemable
  BY DEF Init, OutstandingRedeemable
<1> QED
  BY <1>1, AlwaysIInv, RedeemableStep, PTL DEF Spec

(* visitProgress is over for every CID of the walk.                          *)
WalkOver == visiting = {} /\ WalkCids \subseteq cset

(* What a walk that is over leaves of a manifest that named only CIDs of the *)
(* walk, none of their multihashes twice: nothing is outstanding and the     *)
(* whole window is free, but for the credit in the requester's hand.         *)
WindowRestored ==
    WalkOver /\ DistinctManifest /\ (\A j \in 1..Len(manifest) : manifest[j] \in WalkCids) =>
        /\ manifestOutstandingMHs = {}
        /\ manifestCurrentCredit + Held = manifestMaxCredit

LEMMA RestoredFromInv ==
    ASSUME IInv, CreditConserved, OutstandingRedeemable
    PROVE  WindowRestored
<1> SUFFICES ASSUME WalkOver, DistinctManifest,
                    \A j \in 1..Len(manifest) : manifest[j] \in WalkCids
             PROVE  /\ manifestOutstandingMHs = {}
                    /\ manifestCurrentCredit + Held = manifestMaxCredit
  BY DEF WindowRestored
<1>1. manifestOutstandingMHs = {}
  BY DEF WalkOver, OutstandingRedeemable
<1>2. Cardinality(manifestOutstandingMHs) = 0
  BY <1>1, FS_EmptySet
<1>3. manifestCurrentCredit + Held + Cardinality(manifestOutstandingMHs) = manifestMaxCredit
  BY DEF CreditConserved
<1>4. manifestCurrentCredit \in Nat /\ Held \in Nat
  BY DEF IInv, TypeOK, Held
<1> QED
  BY <1>1, <1>2, <1>3, <1>4

(* Walk2 gives every credit back: once the walk has passed all that the      *)
(* manifest named, no multihash is left outstanding and the whole window is  *)
(* free again, however the walk and the requester overtook each other.       *)
THEOREM WindowIsRestored == Spec => []WindowRestored
BY AlwaysIInv, CreditIsConserved, OutstandingIsRedeemable, RestoredFromInv, PTL

-----------------------------------------------------------------------------
(* The pipe of manifetchGet: what its parts hold.                            *)
PipeType ==
    /\ written \in Seq(Cids)
    /\ wire \in Seq(Cids)
    /\ pending \in Seq(Cids)
    /\ retCh \in Seq(Cids)
    /\ readerPc \in {"read", "send", "closed"}

(* A nonempty sequence has a head and a tail, which make it up again.        *)
LEMMA HeadTail ==
    ASSUME NEW S, NEW s \in Seq(S), s # <<>>
    PROVE  /\ Head(s) \in S
           /\ Tail(s) \in Seq(S)
           /\ <<Head(s)>> \in Seq(S)
           /\ s = <<Head(s)>> \o Tail(s)
<1>1. Head(s) \in S /\ Tail(s) \in Seq(S) /\ <<Head(s)>> \in Seq(S)
  BY HeadTailProperties
<1>2. s = <<Head(s)>> \o Tail(s)
  BY HeadTailProperties
<1> QED
  BY <1>1, <1>2

LEMMA InitPipeType == ManifetchInit => PipeType
BY DEF ManifetchInit, PipeType

LEMMA NextPipeType == PipeType /\ [ManifetchNext]_manifetchVars => PipeType'
<1> SUFFICES ASSUME PipeType, [ManifetchNext]_manifetchVars PROVE PipeType'
  OBVIOUS
<1> USE DEF PipeType
<1>1. CASE ReadRequest \/ ServerClose \/ ServerReset \/ EndReader
  BY <1>1 DEF ReadRequest, ServerClose, ServerReset, EndReader
<1>2. ASSUME NEW c \in Cids, ServerVisit(c) PROVE PipeType'
  BY <1>2 DEF ServerVisit
<1>3. CASE ReadManifestCid
  <2>1. /\ <<Head(wire)>> \in Seq(Cids)
        /\ Tail(wire) \in Seq(Cids)
    BY <1>3, HeadTail DEF ReadManifestCid
  <2> QED
    BY <1>3, <2>1 DEF ReadManifestCid
<1>4. CASE SendToRetCh
  <2>1. retCh \o pending \in Seq(Cids)
    BY ConcatProperties
  <2>2. <<>> \in Seq(Cids)
    BY EmptySeq
  <2> QED
    BY <1>4, <2>1, <2>2 DEF SendToRetCh
<1>5. CASE RangeManifest
  <2>1. retCh # <<>> => Tail(retCh) \in Seq(Cids)
    BY HeadTail
  <2> QED
    BY <1>5, <2>1 DEF RangeManifest, pipeVars
<1>6. CASE RequesterLoop \/ VisitorStep \/ (CancelCtx /\ UNCHANGED pipeVars)
  BY <1>6 DEF RequesterLoop, VisitorStep, pipeVars
<1>7. CASE UNCHANGED manifetchVars
  BY <1>7 DEF manifetchVars, pipeVars
<1> QED
  BY <1>1, <1>2, <1>3, <1>4, <1>5, <1>6, <1>7 DEF ManifetchNext, Server, Reader

LEMMA AlwaysPipeType == ManifetchSpec => []PipeType
BY InitPipeType, NextPipeType, PTL DEF ManifetchSpec

(* A step of the protocol is a step of Walk2's credit scheme or leaves it    *)
(* alone.                                                                    *)
LEMMA ManifetchStep ==
    ASSUME PipeType, [ManifetchNext]_manifetchVars
    PROVE  [Next]_vars
<1>1. CASE Server \/ ServerReset \/ Reader
  BY <1>1 DEF Server, Reader, ReadRequest, ServerVisit, ServerClose, ServerReset,
              ReadManifestCid, EndReader, SendToRetCh
<1>2. CASE RangeManifest
  <2>1. retCh # <<>> => Head(retCh) \in Cids
    BY HeadTail DEF PipeType
  <2> QED
    BY <1>2, <2>1 DEF RangeManifest, Next, Requester
<1>3. CASE RequesterLoop \/ VisitorStep \/ (CancelCtx /\ UNCHANGED pipeVars)
  BY <1>3 DEF RequesterLoop, VisitorStep, Next, Requester
<1>4. CASE UNCHANGED manifetchVars
  BY <1>4 DEF manifetchVars
<1> QED
  BY <1>1, <1>2, <1>3, <1>4 DEF ManifetchNext

(* Walk2 fed by a server and the reader goroutine of manifetchGet behaves as *)
(* the credit scheme of ManifestCredit, which takes any manifest: every      *)
(* theorem about Spec above also holds of the composed system.               *)
THEOREM ManifetchRefinesCredit == ManifetchSpec => Spec
<1>1. ManifetchInit => Init
  BY DEF ManifetchInit
<1> QED
  BY <1>1, AlwaysPipeType, ManifetchStep, PTL DEF ManifetchSpec, Spec

-----------------------------------------------------------------------------
(* Nothing is lost or reordered between the server and the requester.        *)
InFlight == written = ((manifest \o retCh) \o pending) \o wire

(* The manifest of a manifetch server: no CID twice, parents first.          *)
WrittenInOrder ==
    peer = "manifetch" =>
        /\ \A j, k \in 1..Len(written) : written[j] = written[k] => j = k
        /\ \A j \in 1..Len(written) :
              \/ written[j] = ManifestRoot
              \/ \E k \in 1..j - 1 : written[j] \in Children[written[k]]

(* How the two ends of the pipe are closed, one after the other.             *)
CloseOrder ==
    /\ peer = "manifetch" /\ serverPc = "closed" =>
          \A c \in Cids : Offered(c) => c \in visitSet
    /\ readerPc # "send" => pending = <<>>
    /\ peer = "manifetch" /\ serverPc = "closed" /\ readerPc = "closed" => wire = <<>>
    /\ peer = "manifetch" /\ readerPc = "closed" => serverPc \in {"closed", "reset"}
    /\ reqPc = "closed" => retCh = <<>> /\ readerPc = "closed"

LEMMA InFlightStep ==
    ASSUME TypeOK, PipeType, InFlight, CloseOrder, [ManifetchNext]_manifetchVars
    PROVE  InFlight'
<1>0. /\ manifest \in Seq(Cids) /\ retCh \in Seq(Cids)
      /\ pending \in Seq(Cids) /\ wire \in Seq(Cids)
  BY DEF TypeOK, PipeType
<1>1. CASE ReadRequest \/ ServerClose \/ ServerReset \/ EndReader
  BY <1>1 DEF ReadRequest, ServerClose, ServerReset, EndReader, InFlight, vars
<1>2. ASSUME NEW c \in Cids, ServerVisit(c) PROVE InFlight'
  <2> DEFINE front == (manifest \o retCh) \o pending
  <2>1. front \in Seq(Cids) /\ <<c>> \in Seq(Cids)
    <3>1. manifest \o retCh \in Seq(Cids)
      BY <1>0, ConcatProperties
    <3> QED BY <1>0, <3>1, ConcatProperties
  <2>2. written = front \o wire /\ (written' = front \o wire' => InFlight' \/ ~ ServerVisit(c))
    BY DEF InFlight, ServerVisit, vars
  <2> HIDE DEF front
  <2>3. front \o (wire \o <<c>>) = (front \o wire) \o <<c>>
    BY <1>0, <2>1, ConcatAssociative
  <2>4. front \o wire \in Seq(Cids)
    BY <1>0, <2>1, ConcatProperties
  <2>5. /\ Append(wire, c) = wire \o <<c>>
        /\ Append(front \o wire, c) = (front \o wire) \o <<c>>
    BY <1>0, <2>4, AppendIsConcat
  <2> QED
    BY <1>2, <2>2, <2>3, <2>5 DEF ServerVisit
<1>3. CASE ReadManifestCid
  <2>1. pending = <<>> /\ pending' = <<Head(wire)>> /\ wire' = Tail(wire) /\ wire # <<>>
    BY <1>3 DEF ReadManifestCid, CloseOrder
  <2> DEFINE front == manifest \o retCh
  <2>2. front \in Seq(Cids)
    BY <1>0, ConcatProperties
  <2>3. written = (front \o pending) \o wire
    BY DEF InFlight
  <2>4. written' = written /\ manifest' = manifest /\ retCh' = retCh
    BY <1>3 DEF ReadManifestCid, vars
  <2>5. written' = (front \o pending') \o wire' => InFlight'
    BY <2>4 DEF InFlight
  <2> HIDE DEF front
  <2>6. front \o pending = front
    BY <2>1, <2>2, ConcatEmptySeq
  <2>7. /\ wire = <<Head(wire)>> \o Tail(wire)
        /\ <<Head(wire)>> \in Seq(Cids) /\ Tail(wire) \in Seq(Cids)
    BY <1>0, <2>1, HeadTail
  <2>8. front \o (<<Head(wire)>> \o Tail(wire)) = (front \o <<Head(wire)>>) \o Tail(wire)
    BY <2>2, <2>7, ConcatAssociative
  <2> QED
    BY <2>1, <2>3, <2>4, <2>5, <2>6, <2>7, <2>8
<1>4. CASE SendToRetCh
  <2>1. manifest \o (retCh \o pending) = (manifest \o retCh) \o pending
    BY <1>0, ConcatAssociative, SMTT(30)
  <2>2. retCh \o pending \in Seq(Cids)
    BY <1>0, ConcatProperties
  <2>3. manifest \o (retCh \o pending) \in Seq(Cids)
    BY <1>0, <2>2, ConcatProperties
  <2>4. (manifest \o (retCh \o pending)) \o <<>> = manifest \o (retCh \o pending)
    BY <2>3, ConcatEmptySeq
  <2>5. /\ retCh' = retCh \o pending /\ pending' = <<>>
        /\ wire' = wire /\ written' = written /\ manifest' = manifest
    BY <1>4 DEF SendToRetCh, vars
  <2> QED
    BY <2>1, <2>4, <2>5 DEF InFlight
<1>5. CASE RangeManifest
  <2>1. CASE retCh # <<>> /\ ReceiveManifestCid(Head(retCh)) /\ retCh' = Tail(retCh)
               /\ UNCHANGED <<peer, serverPc, written, wire, readerPc, pending>>
    <3>1. /\ retCh = <<Head(retCh)>> \o Tail(retCh) /\ Head(retCh) \in Cids
          /\ <<Head(retCh)>> \in Seq(Cids) /\ Tail(retCh) \in Seq(Cids)
      BY <1>0, <2>1, HeadTail
    <3>2. manifest \o (<<Head(retCh)>> \o Tail(retCh))
            = (manifest \o <<Head(retCh)>>) \o Tail(retCh)
      BY <1>0, <3>1, ConcatAssociative, SMTT(30)
    <3>3. Append(manifest, Head(retCh)) = manifest \o <<Head(retCh)>>
      BY <1>0, <3>1, AppendIsConcat
    <3>4. manifest' = Append(manifest, Head(retCh))
      BY <2>1 DEF ReceiveManifestCid
    <3> QED
      BY <2>1, <3>1, <3>2, <3>3, <3>4 DEF InFlight
  <2>2. CASE EndOfManifest /\ UNCHANGED pipeVars
    BY <2>2 DEF EndOfManifest, pipeVars, InFlight
  <2> QED
    BY <1>5, <2>1, <2>2 DEF RangeManifest
<1>6. CASE RequesterLoop \/ VisitorStep \/ (CancelCtx /\ UNCHANGED pipeVars)
  <2>1. manifest' = manifest
    BY <1>6 DEF RequesterLoop, VisitorStep, EnterSelect, Timeout, TakeCredit, SendRequest,
                Account, AbortRequest, Visitor, Visit, GiveCredit, CancelCtx
  <2> QED
    BY <1>6, <2>1 DEF RequesterLoop, VisitorStep, pipeVars, InFlight
<1>7. CASE UNCHANGED manifetchVars
  BY <1>7 DEF manifetchVars, pipeVars, vars, InFlight
<1> QED
  BY <1>1, <1>2, <1>3, <1>4, <1>5, <1>6, <1>7 DEF ManifetchNext, Server, Reader

LEMMA WrittenStep ==
    ASSUME PipeType, WrittenInOrder, [ManifetchNext]_manifetchVars
    PROVE  WrittenInOrder'
<1>1. ASSUME NEW c \in Cids, ServerVisit(c), peer = "manifetch" PROVE WrittenInOrder'
  <2>1. /\ written' = Append(written, c) /\ Offered(c) /\ c \notin visitSet
    BY <1>1 DEF ServerVisit
  <2>2. /\ Len(written) \in Nat /\ Len(written') = Len(written) + 1
        /\ \A j \in 1..Len(written) : written'[j] = written[j]
        /\ written'[Len(written')] = c
    BY <2>1 DEF PipeType
  <2>3. \A j \in 1..Len(written') : j \in 1..Len(written) \/ j = Len(written')
    BY <2>2
  <2>4. \A j \in 1..Len(written) : written[j] # c
    BY <2>1 DEF visitSet
  <2>5. \A j, k \in 1..Len(written') : written'[j] = written'[k] => j = k
    BY <1>1, <2>2, <2>3, <2>4 DEF WrittenInOrder
  <2>6. ASSUME NEW j \in 1..Len(written')
        PROVE  \/ written'[j] = ManifestRoot
               \/ \E k \in 1..j - 1 : written'[j] \in Children[written'[k]]
    <3>1. CASE j \in 1..Len(written)
      <4>1. \A k \in 1..j - 1 : k \in 1..Len(written)
        BY <2>2, <3>1
      <4> QED
        BY <1>1, <2>2, <3>1, <4>1 DEF WrittenInOrder
    <3>2. CASE j = Len(written')
      <4>1. 1..j - 1 = 1..Len(written)
        BY <2>2, <3>2
      <4> QED
        BY <2>1, <2>2, <3>2, <4>1 DEF Offered, visitSet
    <3> QED
      BY <2>3, <3>1, <3>2
  <2> QED
    BY <2>5, <2>6 DEF WrittenInOrder
<1>2. ASSUME NEW c \in Cids, ServerVisit(c), peer # "manifetch" PROVE WrittenInOrder'
  BY <1>2 DEF ServerVisit, WrittenInOrder
<1>3. CASE UNCHANGED <<peer, written>>
  BY <1>3 DEF WrittenInOrder
<1>4. (\E c \in Cids : ServerVisit(c)) \/ UNCHANGED <<peer, written>>
  BY DEF ManifetchNext, Server, Reader, ReadRequest, ServerClose, ServerReset, ReadManifestCid,
         EndReader, SendToRetCh, RangeManifest, RequesterLoop, VisitorStep, pipeVars, manifetchVars
<1> QED
  BY <1>1, <1>2, <1>3, <1>4

LEMMA CloseStep ==
    ASSUME PipeType, CloseOrder, [ManifetchNext]_manifetchVars
    PROVE  CloseOrder'
<1> USE DEF CloseOrder
<1>1. CASE ReadRequest \/ ServerReset
  BY <1>1 DEF ReadRequest, ServerReset, vars
<1>2. ASSUME NEW c \in Cids, ServerVisit(c) PROVE CloseOrder'
  BY <1>2 DEF ServerVisit, vars
<1>3. CASE ServerClose
  BY <1>3 DEF ServerClose, vars, Offered, visitSet
<1>4. CASE ReadManifestCid
  BY <1>4 DEF ReadManifestCid, vars, Offered, visitSet
<1>5. CASE EndReader
  BY <1>5 DEF EndReader, vars, Offered, visitSet
<1>6. CASE SendToRetCh
  BY <1>6 DEF SendToRetCh, vars, Offered, visitSet
<1>7. CASE RangeManifest
  <2>1. CASE retCh # <<>> /\ ReceiveManifestCid(Head(retCh))
               /\ UNCHANGED <<peer, serverPc, written, wire, readerPc, pending>>
    BY <2>1 DEF ReceiveManifestCid, Offered, visitSet
  <2>2. CASE retCh = <<>> /\ readerPc = "closed" /\ UNCHANGED pipeVars
    BY <2>2 DEF pipeVars, Offered, visitSet
  <2> QED
    BY <1>7, <2>1, <2>2 DEF RangeManifest
<1>8. CASE RequesterLoop \/ VisitorStep \/ (CancelCtx /\ UNCHANGED pipeVars)
  <2>1. reqPc' = "closed" => reqPc = "closed"
    BY <1>8 DEF RequesterLoop, VisitorStep, EnterSelect, Timeout, TakeCredit, SendRequest,
                Account, AbortRequest, Visitor, Visit, GiveCredit, Signal, CancelCtx, creditVars
  <2> QED
    BY <1>8, <2>1 DEF RequesterLoop, VisitorStep, pipeVars, Offered, visitSet
<1>9. CASE UNCHANGED manifetchVars
  BY <1>9 DEF manifetchVars, pipeVars, vars, Offered, visitSet
<1> QED
  BY <1>1, <1>2, <1>3, <1>4, <1>5, <1>6, <1>7, <1>8, <1>9 DEF ManifetchNext, Server, Reader

(* The requester gets what the server wrote, in that order; and from a       *)
(* manifetch server that ended by itself the whole DAG, each CID once,       *)
(* parents first, for every DAG and every size of the stream and of retCh.   *)
THEOREM ManifestIsExact == ManifetchSpec => []ManifestExact
<1>1. ManifetchInit => InFlight /\ WrittenInOrder /\ CloseOrder
  <2> SUFFICES ASSUME ManifetchInit PROVE InFlight /\ WrittenInOrder /\ CloseOrder
    OBVIOUS
  <2>1. ((<<>> \o <<>>) \o <<>>) \o <<>> = <<>>
    BY EmptySeq, ConcatEmptySeq
  <2>2. InFlight
    BY <2>1 DEF ManifetchInit, Init, InFlight
  <2> QED
    BY <2>2 DEF ManifetchInit, Init, WrittenInOrder, CloseOrder
<1>2. ASSUME TypeOK, PipeType, InFlight, WrittenInOrder, CloseOrder PROVE ManifestExact
  <2>0. /\ manifest \in Seq(Cids) /\ retCh \in Seq(Cids)
        /\ pending \in Seq(Cids) /\ wire \in Seq(Cids)
    BY <1>2 DEF TypeOK, PipeType
  <2>1. PICK rest \in Seq(Cids) : written = manifest \o rest
    <3>1. /\ retCh \o pending \in Seq(Cids)
          /\ (retCh \o pending) \o wire \in Seq(Cids)
      BY <2>0, ConcatProperties
    <3>2. (manifest \o retCh) \o pending = manifest \o (retCh \o pending)
      BY <2>0, ConcatAssociative, SMTT(30)
    <3>3. (manifest \o (retCh \o pending)) \o wire = manifest \o ((retCh \o pending) \o wire)
      <4> DEFINE mid == retCh \o pending
      <4>1. manifest \in Seq(Cids) /\ mid \in Seq(Cids) /\ wire \in Seq(Cids)
        BY <2>0, <3>1
      <4> HIDE DEF mid
      <4>2. (manifest \o mid) \o wire = manifest \o (mid \o wire)
        BY <4>1, ConcatAssociative
      <4> QED BY <4>2 DEF mid
    <3> QED
      BY <1>2, <3>1, <3>2, <3>3 DEF InFlight
  <2>2. /\ Len(manifest) <= Len(written)
        /\ \A j \in 1..Len(manifest) : manifest[j] = written[j]
    BY <2>0, <2>1, ConcatProperties
  <2>3. ASSUME peer = "manifetch", serverPc = "closed", reqPc = "closed"
        PROVE  /\ \A j, k \in 1..Len(manifest) : manifest[j] = manifest[k] => j = k
               /\ \E j \in 1..Len(manifest) : manifest[j] = ManifestRoot
               /\ \A j \in 1..Len(manifest) :
                     /\ \/ manifest[j] = ManifestRoot
                        \/ \E k \in 1..j - 1 : manifest[j] \in Children[manifest[k]]
                     /\ \A c \in Children[manifest[j]] :
                           \E k \in 1..Len(manifest) : manifest[k] = c
    <3>1. retCh = <<>> /\ pending = <<>> /\ wire = <<>>
      BY <1>2, <2>3 DEF CloseOrder
    <3>2. written = manifest
      BY <1>2, <2>0, <3>1, ConcatEmptySeq DEF InFlight
    <3>3. \A c \in Cids : Offered(c) => \E k \in 1..Len(manifest) : manifest[k] = c
      BY <1>2, <2>3, <3>2 DEF CloseOrder, visitSet
    <3>4. ManifestRoot \in Cids /\ Offered(ManifestRoot)
      BY ManifetchAssumption, CreditAssumption DEF Offered
    <3>5. ASSUME NEW j \in 1..Len(manifest), NEW c \in Children[manifest[j]]
          PROVE  \E k \in 1..Len(manifest) : manifest[k] = c
      <4>1. manifest[j] \in Cids
        BY <2>0
      <4>2. c \in Cids
        BY <4>1, ManifetchAssumption
      <4>3. Offered(c)
        BY <3>2 DEF Offered, visitSet
      <4> QED
        BY <3>3, <4>2, <4>3
    <3> QED
      BY <1>2, <2>3, <3>2, <3>3, <3>4, <3>5 DEF WrittenInOrder
  <2> QED
    BY <2>2, <2>3 DEF ManifestExact
<1> QED
  BY <1>1, <1>2, ManifetchRefinesCredit, TypeCorrect, AlwaysPipeType, InFlightStep,
     WrittenStep, CloseStep, PTL DEF ManifetchSpec
=============================================================================
