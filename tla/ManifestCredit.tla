--------------------------- MODULE ManifestCredit ---------------------------
(***************************************************************************)
(* The credit scheme of Walk2 (bitswap/mdag/walk2.go).  A requester asks    *)
(* ahead of the walk for the CIDs of a manifest, one credit each; the walk  *)
(* gives the credit back, and one more, when it reaches a CID that was      *)
(* asked for.  visitProgress is called by one goroutine at a time (under    *)
(* visitlk of parallelWalkDepth, see ParallelWalk), so there is one visitor; *)
(* it and the requester share the counters under manifestLk and the set of  *)
(* visited CIDs under cslk.  manifestCreditAvailable is unbuffered and only *)
(* ever sent to without blocking: a signal nobody is waiting for is lost.   *)
(***************************************************************************)
EXTENDS Integers, Sequences, FiniteSets

CONSTANTS
    Cids,            \* all CIDs, of the DAG or only of the manifest
    WalkCids,        \* the CIDs the walk reaches
    Hash,            \* the multihash of a CID; CIDs may share one
    MaxManifest,     \* a bound on the number of CIDs manifestCids delivers
    startingCredit,
    MayCancel        \* whether ctx is ever cancelled

ASSUME CreditAssumption ==
    /\ WalkCids \subseteq Cids
    /\ DOMAIN Hash = Cids
    /\ MaxManifest \in Nat
    /\ startingCredit \in Nat
    /\ MayCancel \in BOOLEAN

VARIABLES
    cset,                    \* the CIDs the walk has visited
    manifestMaxCredit,
    manifestCurrentCredit,
    manifestOutstandingMHs,
    ctxDone,
    visiting,                \* the CID visitProgress is at, between its two locks
                             \* (a set with at most one element)
    reqPc,                   \* where the requester is
    manifest                 \* the CIDs it has received from manifestCids

creditVars == <<manifestMaxCredit, manifestCurrentCredit, manifestOutstandingMHs>>
vars == <<cset, creditVars, ctxDone, visiting, reqPc, manifest>>

Hashes == {Hash[c] : c \in Cids}

ReqPcs == {"receive", "nocredit", "select", "woken", "send", "account",
           "closed", "aborted", "panic"}

TypeOK ==
    /\ cset \subseteq Cids
    /\ manifestMaxCredit \in Nat
    /\ manifestCurrentCredit \in Nat
    /\ manifestOutstandingMHs \subseteq Hashes
    /\ ctxDone \in BOOLEAN
    /\ visiting \subseteq Cids
    /\ reqPc \in ReqPcs
    /\ manifest \in Seq(Cids)
    /\ Len(manifest) <= MaxManifest

Init ==
    /\ cset = {}
    /\ manifestMaxCredit = startingCredit
    /\ manifestCurrentCredit = startingCredit
    /\ manifestOutstandingMHs = {}
    /\ ctxDone = FALSE
    /\ visiting = {}
    /\ reqPc = "receive"
    /\ manifest = <<>>

-----------------------------------------------------------------------------
(* The CID the requester is busy with: the variable c of its loop            *)
Current == manifest[Len(manifest)]

(* The non-blocking send on manifestCreditAvailable: it wakes the requester  *)
(* if that is in its select and is dropped otherwise.                        *)
Signal == reqPc' = IF reqPc = "select" THEN "woken" ELSE reqPc

(* visitProgress up to cslk.Unlock(); cset.Visit says whether c is new.      *)
Visit(c) ==
    /\ visiting = {}
    /\ c \notin cset
    /\ cset' = cset \cup {c}
    /\ visiting' = {c}
    /\ UNCHANGED <<creditVars, ctxDone, reqPc, manifest>>

(* wrong: the multihash stays outstanding *)
GiveCreditKeepHash(c) ==
    /\ c \in visiting
    /\ visiting' = {}
    /\ IF Hash[c] \in manifestOutstandingMHs
         THEN /\ manifestMaxCredit' = manifestMaxCredit + 1
              /\ manifestCurrentCredit' = manifestCurrentCredit + 2
              /\ Signal
         ELSE UNCHANGED <<manifestMaxCredit, manifestCurrentCredit, reqPc>>
    /\ UNCHANGED <<cset, manifestOutstandingMHs, ctxDone, manifest>>

(* visitProgress between manifestLk.Lock() and its return.                   *)
GiveCredit(c) ==
    /\ c \in visiting
    /\ visiting' = {}
    /\ IF Hash[c] \in manifestOutstandingMHs
         THEN /\ manifestOutstandingMHs' = manifestOutstandingMHs \ {Hash[c]}
              /\ manifestMaxCredit' = manifestMaxCredit + 1
              /\ manifestCurrentCredit' = manifestCurrentCredit + 2
              /\ Signal
         ELSE UNCHANGED <<creditVars, reqPc>>
    /\ UNCHANGED <<cset, ctxDone, manifest>>

(* wrong: a credit is taken without looking *)
ReceiveWithoutCredit(c) ==
    /\ reqPc = "receive"
    /\ Len(manifest) < MaxManifest
    /\ manifest' = Append(manifest, c)
    /\ manifestCurrentCredit' = manifestCurrentCredit - 1
    /\ reqPc' = "send"
    /\ UNCHANGED <<cset, manifestMaxCredit, manifestOutstandingMHs, ctxDone, visiting>>

(* for c := range manifestCids, and the first attempt to take a credit.  The *)
(* manifest comes from the server and may name anything, in any order.       *)
ReceiveManifestCid(c) ==
    /\ reqPc = "receive"
    /\ Len(manifest) < MaxManifest
    /\ manifest' = Append(manifest, c)
    /\ IF manifestCurrentCredit > 0
         THEN /\ manifestCurrentCredit' = manifestCurrentCredit - 1
              /\ reqPc' = "send"
         ELSE /\ reqPc' = "nocredit"
              /\ UNCHANGED manifestCurrentCredit
    /\ UNCHANGED <<cset, manifestMaxCredit, manifestOutstandingMHs, ctxDone, visiting>>

(* The requester has let go of manifestLk, and only now waits in the select. *)
EnterSelect ==
    /\ reqPc = "nocredit"
    /\ reqPc' = "select"
    /\ UNCHANGED <<cset, creditVars, ctxDone, visiting, manifest>>

(* wrong: the timeout leaves the wait loop *)
TimeoutBreaks ==
    /\ reqPc = "select"
    /\ reqPc' = "woken"
    /\ UNCHANGED <<cset, creditVars, ctxDone, visiting, manifest>>

(* case <-time.After(time.Second * 3): it leaves the select for a moment.    *)
Timeout ==
    /\ reqPc = "select"
    /\ reqPc' = "nocredit"
    /\ UNCHANGED <<cset, creditVars, ctxDone, visiting, manifest>>

(* break foo: take the credit the signal announced.                          *)
TakeCredit ==
    /\ reqPc = "woken"
    /\ IF manifestCurrentCredit > 0
         THEN /\ manifestCurrentCredit' = manifestCurrentCredit - 1
              /\ reqPc' = "send"
         ELSE /\ reqPc' = "panic"
              /\ UNCHANGED manifestCurrentCredit
    /\ UNCHANGED <<cset, manifestMaxCredit, manifestOutstandingMHs, ctxDone, visiting, manifest>>

(* case reqCids <- c: GetBlocksCh takes the CID.                             *)
SendRequest ==
    /\ reqPc = "send"
    /\ reqPc' = "account"
    /\ UNCHANGED <<cset, creditVars, ctxDone, visiting, manifest>>

(* wrong: the credit of a CID the walk has overtaken is not returned         *)
AccountKeepCredit ==
    /\ reqPc = "account"
    /\ manifestOutstandingMHs' = manifestOutstandingMHs \cup
                                    {h \in Hashes : Current \notin cset /\ h = Hash[Current]}
    /\ reqPc' = "receive"
    /\ UNCHANGED <<cset, manifestMaxCredit, manifestCurrentCredit, ctxDone, visiting, manifest>>

(* wrong: the request is recorded without looking at the visited CIDs        *)
AccountBlindly ==
    /\ reqPc = "account"
    /\ manifestOutstandingMHs' = manifestOutstandingMHs \cup {Hash[Current]}
    /\ reqPc' = "receive"
    /\ UNCHANGED <<cset, manifestMaxCredit, manifestCurrentCredit, ctxDone, visiting, manifest>>

(* The request is recorded, or the credit returned if the walk was faster.   *)
(* cslk is held for reading and manifestLk for writing from the test to the  *)
(* update, so this is one step.  The signal finds nobody waiting: the only   *)
(* receiver is the sender.                                                   *)
Account ==
    /\ reqPc = "account"
    /\ IF Current \notin cset
         THEN /\ manifestOutstandingMHs' = manifestOutstandingMHs \cup {Hash[Current]}
              /\ UNCHANGED manifestCurrentCredit
         ELSE /\ manifestCurrentCredit' = manifestCurrentCredit + 1
              /\ UNCHANGED manifestOutstandingMHs
    /\ reqPc' = "receive"
    /\ UNCHANGED <<cset, manifestMaxCredit, ctxDone, visiting, manifest>>

(* case <-ctx.Done(): the requester returns with its credit.                 *)
AbortRequest ==
    /\ reqPc = "send"
    /\ ctxDone
    /\ reqPc' = "aborted"
    /\ UNCHANGED <<cset, creditVars, ctxDone, visiting, manifest>>

(* manifestCids is closed; close(reqCids).                                   *)
EndOfManifest ==
    /\ reqPc = "receive"
    /\ reqPc' = "closed"
    /\ UNCHANGED <<cset, creditVars, ctxDone, visiting, manifest>>

CancelCtx ==
    /\ MayCancel
    /\ ~ ctxDone
    /\ ctxDone' = TRUE
    /\ UNCHANGED <<cset, creditVars, visiting, reqPc, manifest>>

Requester ==
    \/ \E c \in Cids : ReceiveManifestCid(c)
    \/ EnterSelect
    \/ Timeout
    \/ TakeCredit
    \/ SendRequest
    \/ Account
    \/ AbortRequest
    \/ EndOfManifest

Visitor ==
    \/ \E c \in WalkCids : Visit(c)
    \/ \E c \in WalkCids : GiveCredit(c)

(* The walk has returned and the requester goroutine is gone. *)
Finished ==
    /\ reqPc \in {"closed", "aborted"}
    /\ visiting = {} /\ WalkCids \subseteq cset
    /\ UNCHANGED vars

Next == Requester \/ Visitor \/ CancelCtx \/ Finished

Spec == Init /\ [][Next]_vars

-----------------------------------------------------------------------------
(* The credit the requester has taken and not yet turned into an outstanding *)
(* request.                                                                  *)
Held == IF reqPc \in {"send", "account", "aborted"} THEN 1 ELSE 0

DistinctManifest ==
    \A j, k \in 1..Len(manifest) : Hash[manifest[j]] = Hash[manifest[k]] => j = k

(* No interleaving of the requester and the walk creates credit: what is     *)
(* free, held and outstanding never exceeds manifestMaxCredit, so there are  *)
(* never more requests under way than the window allows.                     *)
CreditBounded ==
    manifestCurrentCredit + Held + Cardinality(manifestOutstandingMHs)
        <= manifestMaxCredit

(* A manifest that names no multihash twice loses no credit either: once the *)
(* walk has reached everything outstanding, the whole window is free again.  *)
CreditConserved ==
    DistinctManifest =>
        manifestCurrentCredit + Held + Cardinality(manifestOutstandingMHs)
            = manifestMaxCredit

(* panic("how!") is not reached: a credit that was announced is still there   *)
(* when the requester, which waited without the lock, comes to take it.      *)
NoCreditPanic == reqPc # "panic"

(* Every outstanding multihash will still give its credit back: it belongs   *)
(* to a requested CID the walk has not visited, or is just crediting.  A     *)
(* visit that runs while the requester accounts for the same CID is not      *)
(* lost between cset and manifestOutstandingMHs.                             *)
OutstandingRedeemable ==
    \A h \in manifestOutstandingMHs :
        \E j \in 1..Len(manifest) :
            /\ Hash[manifest[j]] = h
            /\ manifest[j] \notin cset \/ manifest[j] \in visiting

(* "As manifest CIDs come in add to keep a buffer of size X outstanding      *)
(* CIDs" (walk2.go): a requester that waits while there is credit goes on.   *)
CreditIsUsed ==
    (reqPc \in {"nocredit", "select"} /\ manifestCurrentCredit > 0)
        ~> (reqPc \notin {"nocredit", "select"})
=============================================================================
