----------------------------- MODULE DagService -----------------------------
(***************************************************************************)
(* GetMany of the DAG service and of its sessions (bitswap/mdag/mdag.go):   *)
(* getNodesFromBG asks BlockService for the distinct keys and collects the  *)
(* blocks into a channel with room for one option each.                     *)
(***************************************************************************)
EXTENDS BlockService

CONSTANTS
    KeyLists,      \* the lists of keys GetMany may be called with
    Undecodable    \* the CIDs whose blocks legacy.DecodeNode may refuse

(* The errors a NodeOption may hold instead of a node                        *)
Errors == {"incomplete", "decode", "ctx"}

ASSUME KeyListAssumption == KeyLists \subseteq Seq(Cids) /\ Cids \cap Errors = {}

VARIABLES
    collectPc,   \* "dedup", "select", "ctxerr", "closed"
    keys,        \* the keys GetMany was called with, then without duplicates
    bad,         \* the CIDs whose blocks do not decode
    count,
    sent,        \* the NodeOptions sent to out: CIDs and error values
    abandoned    \* the caller reads none of them; otherwise it reads all

collectVars == <<collectPc, keys, bad, count, sent, abandoned>>
dagVars == <<serviceVars, collectVars>>

TypeOK ==
    /\ ServiceTypeOK
    /\ collectPc \in {"dedup", "select", "ctxerr", "closed"}
    /\ keys \in Seq(Cids) /\ bad \subseteq Undecodable
    /\ count \in 0..Len(keys)
    /\ sent \in Seq(Cids \cup Errors)
    /\ abandoned \in BOOLEAN
    /\ abandoned => Len(sent) <= Len(keys)

DagInit ==
    /\ ServiceInit
    /\ collectPc = "dedup"
    /\ keys \in KeyLists
    /\ bad \in SUBSET Undecodable
    /\ count = 0
    /\ sent = <<>>
    /\ abandoned \in BOOLEAN

(* wrong: the keys are passed on as they are *)
DedupKeysNot(s) == {s}

(* dedupKeys: the keys themselves if they are distinct, else the keys of a   *)
(* set, whose order is that of a Go map.                                     *)
DedupKeys(s) ==
    IF Cardinality(Elements(s)) = Len(s) THEN {s}
    ELSE {t \in [1..Cardinality(Elements(s)) -> Elements(s)] : Elements(t) = Elements(s)}

(* getNodesFromBG: bs.GetBlocks(ctx, keys) starts its goroutine.             *)
GetMany ==
    /\ collectPc = "dedup"
    /\ keys' \in DedupKeys(keys)
    /\ BatchStart(keys')
    /\ collectPc' = "select"
    /\ UNCHANGED <<bad, count, sent, abandoned>>

(* out has no room: one option read is room enough for all that follow.      *)
Full == abandoned /\ Len(sent) = Len(keys)

(* case b, ok := <-blocks with a block: it is decoded and sent.              *)
CollectBlock ==
    /\ collectPc = "select"
    /\ blk # <<>>
    /\ BatchSent
    /\ ~ Full
    /\ IF blk[1] \in bad
         THEN sent' = Append(sent, "decode") /\ collectPc' = "closed" /\ UNCHANGED count
         ELSE sent' = Append(sent, blk[1]) /\ count' = count + 1 /\ UNCHANGED collectPc
    /\ UNCHANGED <<keys, bad, abandoned>>

(* ... and with blocks closed                                                *)
CollectEnd ==
    /\ collectPc = "select"
    /\ at[Batch] = "closed"
    /\ IF count # Len(keys)
         THEN ~ Full /\ sent' = Append(sent, "incomplete")
         ELSE UNCHANGED sent
    /\ collectPc' = "closed"
    /\ UNCHANGED <<serviceVars, keys, bad, count, abandoned>>


(* case <-ctx.Done(): the error is sent, which blocks if out is full.        *)
CollectCancelled ==
    /\ collectPc = "select"
    /\ ctxDone
    /\ collectPc' = "ctxerr"
    /\ UNCHANGED <<serviceVars, keys, bad, count, sent, abandoned>>

SendCtxErr ==
    /\ collectPc = "ctxerr"
    /\ ~ Full
    /\ sent' = Append(sent, "ctx")
    /\ collectPc' = "closed"
    /\ UNCHANGED <<serviceVars, keys, bad, count, abandoned>>

Collect == CollectBlock \/ CollectEnd \/ CollectCancelled \/ SendCtxErr

Quiet(A) == A /\ UNCHANGED collectVars

(* Add and AddMany pass their blocks, Remove and RemoveMany their CIDs to    *)
(* the block service.                                                        *)
AddMany(a) == Quiet(AddStep(a))
RemoveMany == Quiet(DeleteBlock)

DagNext ==
    \/ GetMany
    \/ Collect
    \/ Quiet(BatchStep)
    \/ \E c \in Cids : Quiet(BatchRange(c))
    \/ Quiet(BatchEnd)
    \/ \E a \in Adders : AddMany(a)
    \/ \E g \in Getters : Quiet(GetStep(g))
    \/ RemoveMany
    \/ Quiet(CancelCtx)

(* All goroutines keep running.  An exchange closes the channel of GetBlocks *)
(* once it is cancelled or has delivered everything; nothing obliges it to   *)
(* deliver, nor the caller to cancel.                                        *)
DagSpec ==
    /\ DagInit
    /\ [][DagNext]_dagVars
    /\ WF_dagVars(GetMany)
    /\ WF_dagVars(Collect)
    /\ WF_dagVars(Quiet(BatchStep))
    /\ WF_dagVars((ctxDone \/ Deliverable = {}) /\ Quiet(BatchEnd))
    /\ \A g \in Getters : WF_dagVars(Quiet(SessionStep(g)))

-----------------------------------------------------------------------------
(* GetMany tells the truth: a channel closed without an error has brought    *)
(* every key asked for exactly once, and "failed to fetch all nodes" is not  *)
(* said of a complete result, repeated keys or not.                          *)
GetManyHonest ==
    collectPc = "closed" =>
        /\ Elements(sent) \cap Errors = {} =>
              /\ Elements(sent) = Elements(keys)
              /\ Len(sent) = Cardinality(Elements(keys))
        /\ "incomplete" \in Elements(sent) => ~ Elements(keys) \subseteq Elements(sent)

=============================================================================
