--------------------------- MODULE BitswapServer ---------------------------
(***************************************************************************)
(* The Server of bitswap/server.go: for every entry of a received wantlist  *)
(* a goroutine reads the block and sends it to the client on a new stream,  *)
(* up to maxTries times.  The goroutines of one message all use the         *)
(* variable err of the loop that read the message.  They access it without  *)
(* a lock; every torn outcome of that race (the test looks only at its type *)
(* word) is also one of the interleavings below.                            *)
(***************************************************************************)
EXTENDS Integers, FiniteSets

CONSTANTS
    Messages,   \* the messages the client sends
    Entries,    \* all wantlist entries
    MsgOf,      \* the message an entry is part of
    MayLack,    \* the entries whose block the Blockstore may fail to return
    maxTries

ASSUME ServerAssumption ==
    /\ MsgOf \in [Entries -> Messages]
    /\ MayLack \subseteq Entries
    /\ maxTries \in Nat \ {0}

VARIABLES
    pc,         \* where the goroutine of each entry is
    try,        \* its variable try
    outcome,    \* what its last call of sendSingleWLEntryMsgToPeer returned
    err,        \* err[m]: the variable the goroutines of message m share
    arrived,    \* arrived[e]: how often the block reached the client
    broken,     \* the entries for which a stream to the client broke
    failures,   \* failures[e]: how often sending it failed (history)
    crash       \* why the process panicked, "no" while it runs

vars == <<pc, try, outcome, err, arrived, broken, failures, crash>>

TypeOK ==
    /\ pc \in [Entries -> {"unread", "get", "send", "assign", "test", "log", "after", "done"}]
    /\ try \in [Entries -> 0..maxTries]
    /\ outcome \in [Entries -> {"nil", "error"}]
    /\ err \in [Messages -> {"nil", "error"}]
    /\ arrived \in [Entries -> 0..maxTries]
    /\ broken \subseteq Entries
    /\ failures \in [Entries -> 0..maxTries]
    /\ crash \in {"no", "notstored", "nilerror", "notsent"}

Init ==
    /\ pc = [e \in Entries |-> "unread"]
    /\ try = [e \in Entries |-> 0]
    /\ outcome = [e \in Entries |-> "nil"]
    /\ err = [m \in Messages |-> "nil"]
    /\ arrived = [e \in Entries |-> 0]
    /\ broken = {}
    /\ failures = [e \in Entries |-> 0]
    /\ crash = "no"

-----------------------------------------------------------------------------
Goto(e, label) == pc' = [pc EXCEPT ![e] = label]

(* handle reads message m and starts a goroutine for each entry.  The client *)
(* never sets Cancel and always sets SendDontHave.                           *)
ReadMessage(m) ==
    /\ crash = "no"
    /\ \E e \in Entries : MsgOf[e] = m /\ pc[e] = "unread"
    /\ pc' = [e \in Entries |-> IF MsgOf[e] = m THEN "get" ELSE pc[e]]
    /\ UNCHANGED <<try, outcome, err, arrived, broken, failures, crash>>

(* wrong: a block that is not there ends the goroutine *)
GetStoredQuietly(e) ==
    /\ crash = "no"
    /\ pc[e] = "get"
    /\ \/ Goto(e, "send")
       \/ e \in MayLack /\ Goto(e, "done")
    /\ UNCHANGED <<try, outcome, err, arrived, broken, failures, crash>>

(* s.Blockstore.Get; an error is a panic.                                    *)
GetStored(e) ==
    /\ crash = "no"
    /\ pc[e] = "get"
    /\ \/ Goto(e, "send") /\ UNCHANGED crash
       \/ e \in MayLack /\ crash' = "notstored" /\ UNCHANGED pc
    /\ UNCHANGED <<try, outcome, err, arrived, broken, failures>>

(* sendSingleWLEntryMsgToPeer: an error in NewStream leaves no trace, one in *)
(* ToNetV1 a broken stream, one in CloseWrite or ReadAll comes after the     *)
(* block has reached the client.                                             *)
SendBlock(e) ==
    /\ crash = "no"
    /\ pc[e] = "send"
    /\ \E o \in {"nil", "error"}, reaches \in {"nothing", "part", "all"} :
         /\ o = "nil" => reaches = "all"
         /\ outcome' = [outcome EXCEPT ![e] = o]
         /\ arrived' = [arrived EXCEPT ![e] = IF reaches = "all" THEN @ + 1 ELSE @]
         /\ broken' = IF reaches = "part" THEN broken \cup {e} ELSE broken
         /\ failures' = [failures EXCEPT ![e] = IF o = "error" THEN @ + 1 ELSE @]
    /\ Goto(e, "assign")
    /\ UNCHANGED <<try, err, crash>>

(* err = ... *)
AssignErr(e) ==
    /\ crash = "no"
    /\ pc[e] = "assign"
    /\ err' = [err EXCEPT ![MsgOf[e]] = outcome[e]]
    /\ Goto(e, "test")
    /\ UNCHANGED <<try, outcome, arrived, broken, failures, crash>>

(* wrong: one try too many, one too few, and a loop that does not try again  *)
TestErrMoreTries(e) ==
    /\ crash = "no"
    /\ pc[e] = "test"
    /\ IF err[MsgOf[e]] = "nil"
         THEN Goto(e, "after") /\ UNCHANGED try
         ELSE /\ try' = [try EXCEPT ![e] = @ + 1]
              /\ Goto(e, IF try[e] < maxTries THEN "log" ELSE "after")
    /\ UNCHANGED <<outcome, err, arrived, broken, failures, crash>>

TestErrFewerTries(e) ==
    /\ crash = "no"
    /\ pc[e] = "test"
    /\ IF err[MsgOf[e]] = "nil"
         THEN Goto(e, "after") /\ UNCHANGED try
         ELSE /\ try' = [try EXCEPT ![e] = @ + 1]
              /\ Goto(e, IF try[e] + 2 < maxTries THEN "log" ELSE "after")
    /\ UNCHANGED <<outcome, err, arrived, broken, failures, crash>>

TestErrAgain(e) ==
    /\ crash = "no"
    /\ pc[e] = "test"
    /\ Goto(e, IF err[MsgOf[e]] = "nil" THEN "after" ELSE "test")
    /\ UNCHANGED <<try, outcome, err, arrived, broken, failures, crash>>

(* if err == nil { break }, or the next turn of the loop.                    *)
TestErr(e) ==
    /\ crash = "no"
    /\ pc[e] = "test"
    /\ IF err[MsgOf[e]] = "nil"
         THEN Goto(e, "after") /\ UNCHANGED try
         ELSE /\ try' = [try EXCEPT ![e] = @ + 1]
              /\ Goto(e, IF try[e] + 1 < maxTries THEN "log" ELSE "after")
    /\ UNCHANGED <<outcome, err, arrived, broken, failures, crash>>

(* err.Error() in the log line of a retry: a panic if err is nil by now.     *)
LogRetry(e) ==
    /\ crash = "no"
    /\ pc[e] = "log"
    /\ IF err[MsgOf[e]] = "nil"
         THEN crash' = "nilerror" /\ UNCHANGED pc
         ELSE Goto(e, "send") /\ UNCHANGED crash
    /\ UNCHANGED <<try, outcome, err, arrived, broken, failures>>

(* wrong: the error that is left is not looked at *)
FinishAnyway(e) ==
    /\ crash = "no"
    /\ pc[e] = "after"
    /\ Goto(e, "done")
    /\ UNCHANGED <<try, outcome, err, arrived, broken, failures, crash>>

(* if err != nil { panic(err) } *)
FinishEntry(e) ==
    /\ crash = "no"
    /\ pc[e] = "after"
    /\ IF err[MsgOf[e]] # "nil"
         THEN crash' = "notsent" /\ UNCHANGED pc
         ELSE Goto(e, "done") /\ UNCHANGED crash
    /\ UNCHANGED <<try, outcome, err, arrived, broken, failures>>

(* Every goroutine is done, or the process is gone.                          *)
Stopped ==
    /\ crash # "no" \/ \A e \in Entries : pc[e] = "done"
    /\ UNCHANGED vars

EntryStep(e) ==
    \/ GetStored(e)
    \/ SendBlock(e)
    \/ AssignErr(e)
    \/ TestErr(e)
    \/ LogRetry(e)
    \/ FinishEntry(e)

Next ==
    \/ \E m \in Messages : ReadMessage(m)
    \/ \E e \in Entries : EntryStep(e)
    \/ Stopped

Spec == Init /\ [][Next]_vars

(* Messages are read and goroutines run. *)
FairSpec ==
    /\ Spec
    /\ \A m \in Messages : WF_vars(ReadMessage(m))
    /\ \A e \in Entries : WF_vars(EntryStep(e))

-----------------------------------------------------------------------------
(* "Server stream closed block %v" (server.go): a goroutine that ends has    *)
(* sent its block, whatever the sends of others did meanwhile.               *)
DoneMeansSent == \A e \in Entries : pc[e] = "done" => arrived[e] > 0

(* The server gives up only on a block it does not have or could not send in *)
(* maxTries attempts: nobody else's success or failure brings it down.       *)
CrashJustified ==
    /\ crash # "nilerror"
    /\ crash = "notsent" => \E e \in Entries : failures[e] = maxTries

(* The server is the service its client expects.                             *)
Service == INSTANCE WantService WITH
    Wants <- Entries,
    MaxAnswers <- maxTries,
    asked <- {e \in Entries : pc[e] # "unread"},
    answers <- arrived,
    up <- (crash = "no")

(* The server does what BitswapClient relies on: with messages of one entry  *)
(* each, as GetBlock and GetBlocksCh send them, a want it has read is        *)
(* answered, and at most maxTries times, or the server goes down.            *)
ImplementsWantService == Service!ServiceSpec

(* Every want is dealt with in the end: sent, or the server is down.         *)
WantsEnd == \A e \in Entries : <>(pc[e] = "done" \/ crash # "no")
=============================================================================
