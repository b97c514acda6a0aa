------------------------------ MODULE Manifetch ------------------------------
(***************************************************************************)
(* The manifest protocol of manifetch.go and the requester of Walk2 that    *)
(* consumes it.  The server walks the DAG and writes every CID it visits on *)
(* a stream; a goroutine of manifetchGet reads them into the channel retCh, *)
(* which is manifestCids of ManifestCredit.  The request has been written   *)
(* (otherwise manifetchGet fails and Walk2 is not called).                  *)
(***************************************************************************)
EXTENDS ManifestCredit

CONSTANTS
    ManifestRoot,   \* the CID manifetchGet asks for
    Children,       \* Children[c]: the set of CIDs c links to
    WireSize,       \* bound: CIDs under way before WriteMsg blocks
    RetChSize       \* capacity of retCh, 100 in the code

ASSUME ManifetchAssumption ==
    /\ ManifestRoot \in WalkCids
    /\ MaxManifest >= Cardinality(WalkCids)
    /\ Children \in [Cids -> SUBSET Cids]
    /\ WireSize \in Nat \ {0}
    /\ RetChSize \in Nat

VARIABLES
    peer,       \* "manifetch": NewManifetchServer; "other": any server of the protocol
    serverPc,   \* "request", "walking", then how it ended: "closed" or "reset"
    written,    \* the CIDs the server has written
    wire,       \* those among them that are under way
    readerPc,   \* the goroutine of manifetchGet: "read", "send" or "closed"
    pending,    \* the CID it is sending, a sequence of at most one
    retCh

pipeVars == <<peer, serverPc, written, wire, readerPc, pending, retCh>>
manifetchVars == <<vars, pipeVars>>

visitSet == {written[j] : j \in 1..Len(written)}

ManifetchInit ==
    /\ Init
    /\ peer \in {"manifetch", "other"}
    /\ serverPc = "request"
    /\ written = <<>>
    /\ wire = <<>>
    /\ readerPc = "read"
    /\ pending = <<>>
    /\ retCh = <<>>

-----------------------------------------------------------------------------
(* The server has read the request and cast it to a CID.                     *)
ReadRequest ==
    /\ serverPc = "request"
    /\ serverPc' = "walking"
    /\ UNCHANGED <<vars, peer, written, wire, readerPc, pending, retCh>>

(* mdagorig.Walk of go-merkledag offers the root and the links of nodes it has  *)
(* visited, in any order and repeatedly.                                     *)
Offered(c) == c = ManifestRoot \/ \E p \in visitSet : c \in Children[p]

(* visitProgress of the server: a new CID is written, under the lock of the  *)
(* walk.  A peer that is not ours writes what it likes.                      *)
ServerVisit(c) ==
    /\ serverPc = "walking"
    /\ Len(wire) < WireSize
    /\ IF peer = "manifetch" THEN Offered(c) /\ c \notin visitSet
                             ELSE Len(written) < MaxManifest
    /\ written' = Append(written, c)
    /\ wire' = Append(wire, c)
    /\ UNCHANGED <<vars, peer, serverPc, readerPc, pending, retCh>>

(* The walk is over; the deferred w.Close() closes the stream.               *)
ServerClose ==
    /\ serverPc = "walking"
    /\ peer = "manifetch" => \A c \in Cids : Offered(c) => c \in visitSet
    /\ serverPc' = "closed"
    /\ UNCHANGED <<vars, peer, written, wire, readerPc, pending, retCh>>

(* The request is unreadable, a block of the DAG is not in the server's      *)
(* store, or a write failed and the server panicked: the stream is reset.    *)
ServerReset ==
    /\ serverPc \in {"request", "walking"}
    /\ serverPc' = "reset"
    /\ UNCHANGED <<vars, peer, written, wire, readerPc, pending, retCh>>

(* r.ReadMsg() and cid.Cast(msg) give a CID.                                 *)
ReadManifestCid ==
    /\ readerPc = "read"
    /\ wire # <<>>
    /\ pending' = <<Head(wire)>>
    /\ wire' = Tail(wire)
    /\ readerPc' = "send"
    /\ UNCHANGED <<vars, peer, serverPc, written, retCh>>

(* wrong: what is still under way when the stream is closed is not read      *)
EndReaderEarly ==
    /\ readerPc = "read"
    /\ serverPc \in {"closed", "reset"}
    /\ readerPc' = "closed"
    /\ UNCHANGED <<vars, peer, serverPc, written, wire, pending, retCh>>

(* wrong: retCh is not closed *)
EndReaderQuietly ==
    /\ readerPc = "read"
    /\ serverPc = "reset" \/ (serverPc = "closed" /\ wire = <<>>)
    /\ readerPc' = "gone"
    /\ UNCHANGED <<vars, peer, serverPc, written, wire, pending, retCh>>

(* ReadMsg fails, at the end of the stream or, data under way or not, after  *)
(* a reset; or Cast refuses what another peer has sent: close(retCh).        *)
EndReader ==
    /\ readerPc = "read"
    /\ \/ serverPc = "reset"
       \/ serverPc = "closed" /\ wire = <<>>
       \/ peer = "other" /\ wire # <<>>
    /\ readerPc' = "closed"
    /\ UNCHANGED <<vars, peer, serverPc, written, wire, pending, retCh>>

(* retCh <- c, which nothing interrupts                                      *)
SendToRetCh ==
    /\ readerPc = "send"
    /\ Len(retCh) < RetChSize
    /\ retCh' = retCh \o pending
    /\ pending' = <<>>
    /\ readerPc' = "read"
    /\ UNCHANGED <<vars, peer, serverPc, written, wire>>

Reader == ReadManifestCid \/ EndReader \/ SendToRetCh

Server == ReadRequest \/ (\E c \in Cids : ServerVisit(c)) \/ ServerClose

(* for c := range manifestCids, with retCh as manifestCids                   *)
RangeManifest ==
    \/ /\ retCh # <<>>
       /\ ReceiveManifestCid(Head(retCh))
       /\ retCh' = Tail(retCh)
       /\ UNCHANGED <<peer, serverPc, written, wire, readerPc, pending>>
    \/ /\ retCh = <<>> /\ readerPc = "closed"
       /\ EndOfManifest
       /\ UNCHANGED pipeVars

(* The rest of the requester's loop and the walk do not touch the pipe.      *)
RequesterLoop ==
    /\ EnterSelect \/ Timeout \/ TakeCredit \/ SendRequest \/ Account \/ AbortRequest
    /\ UNCHANGED pipeVars

VisitorStep == Visitor /\ UNCHANGED pipeVars

ManifetchNext ==
    \/ Server
    \/ ServerReset
    \/ Reader
    \/ RangeManifest
    \/ RequesterLoop
    \/ VisitorStep
    \/ CancelCtx /\ UNCHANGED pipeVars

(* The goroutines keep running on both sides; a server of this protocol      *)
(* keeps walking, any other may fall silent.                                 *)
ManifetchSpec ==
    /\ ManifetchInit
    /\ [][ManifetchNext]_manifetchVars
    /\ WF_manifetchVars(peer = "manifetch" /\ Server)
    /\ WF_manifetchVars(Reader)
    /\ WF_manifetchVars(RangeManifest \/ RequesterLoop)
    /\ WF_manifetchVars(VisitorStep)

-----------------------------------------------------------------------------
(* The requester gets what the server wrote, in that order; and from a       *)
(* manifetch server that ended by itself it has, at the end of its loop,     *)
(* every CID of the DAG exactly once, parents first.  (After a reset the     *)
(* manifest is cut short and the client cannot tell.)                        *)
ManifestExact ==
    /\ Len(manifest) <= Len(written)
    /\ \A j \in 1..Len(manifest) : manifest[j] = written[j]
    /\ peer = "manifetch" /\ serverPc = "closed" /\ reqPc = "closed" =>
          /\ \A j, k \in 1..Len(manifest) : manifest[j] = manifest[k] => j = k
          /\ \E j \in 1..Len(manifest) : manifest[j] = ManifestRoot
          /\ \A j \in 1..Len(manifest) :
                /\ manifest[j] = ManifestRoot \/ \E k \in 1..j - 1 : manifest[j] \in Children[manifest[k]]
                /\ \A c \in Children[manifest[j]] : \E k \in 1..Len(manifest) : manifest[k] = c

(* The requester of a manifetch server ends, unless it waits for credit for  *)
(* ever; and so does the reader, unless the requester left it: the send to   *)
(* retCh is not given up when the context is cancelled.                      *)
ManifestFlows ==
    peer = "manifetch" =>
        /\ \/ <>(reqPc \in {"closed", "aborted"})
           \/ <>[](reqPc \in {"nocredit", "select"})
        /\ \/ <>(readerPc = "closed")
           \/ <>[](reqPc \in {"nocredit", "select", "aborted"})
=============================================================================
