------------------------ MODULE BitswapServerProofs ------------------------
(***************************************************************************)
(* The invariants of BitswapServer for every set of messages and entries    *)
(* and every maxTries, and that the server takes only the steps its client  *)
(* expects of it.                                                           *)
(***************************************************************************)
EXTENDS BitswapServer, TLAPS

(* How far a goroutine has come bounds what it can have done so far.         *)
TriesBound(e) ==
    /\ pc[e] \in {"unread", "get"} =>
         try[e] = 0 /\ arrived[e] = 0 /\ failures[e] = 0
    /\ pc[e] \in {"send", "log"} =>
         try[e] < maxTries /\ arrived[e] <= try[e] /\ failures[e] <= try[e]
    /\ pc[e] \in {"assign", "test"} =>
         try[e] < maxTries /\ arrived[e] <= try[e] + 1 /\ failures[e] <= try[e] + 1

(* The entries of a message are read together.                               *)
ReadTogether ==
    \A e, f \in Entries :
        MsgOf[e] = MsgOf[f] => (pc[e] = "unread" <=> pc[f] = "unread")

(* TypeOK is not inductive: that try, arrived and failures stay within       *)
(* maxTries depends on where the goroutine is.                               *)
IInv ==
    /\ TypeOK
    /\ \A e \in Entries : TriesBound(e)
    /\ ReadTogether

(* No two goroutines share the variable err.                                 *)
SingleEntries == \A e, f \in Entries : MsgOf[e] = MsgOf[f] => e = f

(* What a goroutine knows about its own sends when no other writes to err.   *)
OwnVerdict(e) ==
    /\ pc[e] \in {"send", "log"} => failures[e] = try[e]
    /\ pc[e] \in {"assign", "test"} =>
         failures[e] = IF outcome[e] = "error" THEN try[e] + 1 ELSE try[e]
    /\ pc[e] \in {"log", "test", "after"} => err[MsgOf[e]] = outcome[e]
    /\ pc[e] = "log" => outcome[e] = "error"
    /\ pc[e] \in {"assign", "test", "after"} /\ outcome[e] = "nil" => arrived[e] > 0
    /\ pc[e] = "after" /\ outcome[e] = "error" => failures[e] = maxTries
    /\ pc[e] = "done" => arrived[e] > 0

VerdictInv == (\A e \in Entries : OwnVerdict(e)) /\ CrashJustified

-----------------------------------------------------------------------------
(* The counters of an entry start at zero and all its message is unread.     *)
LEMMA InitIInv == Init => IInv
<1> SUFFICES ASSUME Init PROVE IInv
  OBVIOUS
<1> QED
  BY ServerAssumption DEF Init, IInv, TypeOK, TriesBound, ReadTogether

(* A goroutine's step leaves the invariant of the others alone and keeps its *)
(* own; the maxTries-th turn is the last.                                    *)
LEMMA NextIInv == IInv /\ [Next]_vars => IInv'
<1> SUFFICES ASSUME IInv, [Next]_vars PROVE IInv'
  OBVIOUS
<1>0. maxTries \in Nat \ {0} /\ MsgOf \in [Entries -> Messages]
  BY ServerAssumption
<1>1. ASSUME NEW m \in Messages, ReadMessage(m) PROVE IInv'
  <2>1. \A e \in Entries : MsgOf[e] = m => pc[e] = "unread"
    BY <1>1 DEF ReadMessage, IInv, ReadTogether
  <2>2. TypeOK'
    BY <1>1 DEF ReadMessage, IInv, TypeOK
  <2>3. ReadTogether'
    BY <1>0, <1>1 DEF ReadMessage, IInv, ReadTogether
  <2>4. \A e \in Entries : TriesBound(e)'
    BY <1>0, <1>1, <2>1 DEF ReadMessage, IInv, TypeOK, TriesBound
  <2> QED
    BY <2>2, <2>3, <2>4 DEF IInv
<1>2. ASSUME NEW e \in Entries, GetStored(e) PROVE IInv'
  BY <1>0, <1>2 DEF GetStored, Goto, IInv, TypeOK, TriesBound, ReadTogether
<1>3. ASSUME NEW e \in Entries, SendBlock(e) PROVE IInv'
  <2>1. try[e] < maxTries /\ arrived[e] <= try[e] /\ failures[e] <= try[e]
    BY <1>3 DEF SendBlock, IInv, TriesBound
  <2>2. TypeOK'
    BY <1>0, <1>3, <2>1 DEF SendBlock, Goto, IInv, TypeOK
  <2>3. \A f \in Entries : TriesBound(f)'
    BY <1>0, <1>3, <2>1 DEF SendBlock, Goto, IInv, TypeOK, TriesBound
  <2>4. ReadTogether'
    BY <1>0, <1>3 DEF SendBlock, Goto, IInv, TypeOK, ReadTogether
  <2> QED
    BY <2>2, <2>3, <2>4 DEF IInv
<1>4. ASSUME NEW e \in Entries, AssignErr(e) PROVE IInv'
  BY <1>0, <1>4 DEF AssignErr, Goto, IInv, TypeOK, TriesBound, ReadTogether
<1>5. ASSUME NEW e \in Entries, TestErr(e) PROVE IInv'
  <2>1. try[e] < maxTries /\ arrived[e] <= try[e] + 1 /\ failures[e] <= try[e] + 1
    BY <1>5 DEF TestErr, IInv, TriesBound
  <2>2. TypeOK'
    BY <1>0, <1>5, <2>1 DEF TestErr, Goto, IInv, TypeOK
  <2>3. \A f \in Entries : TriesBound(f)'
    BY <1>0, <1>5, <2>1 DEF TestErr, Goto, IInv, TypeOK, TriesBound
  <2>4. ReadTogether'
    BY <1>0, <1>5 DEF TestErr, Goto, IInv, TypeOK, ReadTogether
  <2> QED
    BY <2>2, <2>3, <2>4 DEF IInv
<1>6. ASSUME NEW e \in Entries, LogRetry(e) PROVE IInv'
  BY <1>0, <1>6 DEF LogRetry, Goto, IInv, TypeOK, TriesBound, ReadTogether
<1>7. ASSUME NEW e \in Entries, FinishEntry(e) PROVE IInv'
  BY <1>0, <1>7 DEF FinishEntry, Goto, IInv, TypeOK, TriesBound, ReadTogether
<1>8. CASE Stopped \/ UNCHANGED vars
  BY <1>8 DEF Stopped, vars, IInv, TypeOK, TriesBound, ReadTogether
<1> QED
  BY <1>1, <1>2, <1>3, <1>4, <1>5, <1>6, <1>7, <1>8 DEF Next, EntryStep

(* IInv holds in every reachable state.                                      *)
LEMMA IInvHolds == Spec => []IInv
  BY InitIInv, NextIInv, PTL DEF Spec

(* The loop of server.go makes at most maxTries attempts: no counter of an   *)
(* entry passes maxTries, however many entries share a message.              *)
THEOREM TypeCorrect == Spec => []TypeOK
<1>1. IInv => TypeOK
  BY DEF IInv
<1> QED
  BY IInvHolds, <1>1, PTL

-----------------------------------------------------------------------------
(* With messages of one entry each a goroutine reads from err what it wrote. *)
LEMMA NextVerdict ==
  ASSUME SingleEntries, IInv, VerdictInv, [Next]_vars PROVE VerdictInv'
<1>0. maxTries \in Nat \ {0} /\ MsgOf \in [Entries -> Messages]
  BY ServerAssumption
<1>1. ASSUME NEW m \in Messages, ReadMessage(m) PROVE VerdictInv'
  BY <1>1 DEF ReadMessage, IInv, TypeOK, VerdictInv, OwnVerdict, CrashJustified
<1>2. ASSUME NEW e \in Entries, GetStored(e) PROVE VerdictInv'
  BY <1>2, <1>0 DEF GetStored, Goto, IInv, TypeOK, TriesBound, VerdictInv, OwnVerdict,
                    CrashJustified
<1>3. ASSUME NEW e \in Entries, SendBlock(e) PROVE VerdictInv'
  <2>1. failures[e] = try[e] /\ try[e] < maxTries
    BY <1>3 DEF SendBlock, IInv, TriesBound, VerdictInv, OwnVerdict
  <2>2. \A f \in Entries : f # e => OwnVerdict(f)'
    BY <1>3 DEF SendBlock, Goto, IInv, TypeOK, VerdictInv, OwnVerdict
  <2>3. OwnVerdict(e)'
    BY <1>0, <1>3, <2>1 DEF SendBlock, Goto, IInv, TypeOK, OwnVerdict
  <2>4. CrashJustified'
    BY <1>3 DEF SendBlock, VerdictInv, CrashJustified
  <2> QED
    BY <2>2, <2>3, <2>4 DEF VerdictInv
<1>4. ASSUME NEW e \in Entries, AssignErr(e) PROVE VerdictInv'
  <2>1. \A f \in Entries : f # e => OwnVerdict(f)'
    BY <1>0, <1>4 DEF AssignErr, Goto, IInv, TypeOK, VerdictInv, OwnVerdict, SingleEntries
  <2>2. OwnVerdict(e)'
    BY <1>0, <1>4 DEF AssignErr, Goto, IInv, TypeOK, VerdictInv, OwnVerdict
  <2>3. CrashJustified'
    BY <1>4 DEF AssignErr, VerdictInv, CrashJustified
  <2> QED
    BY <2>1, <2>2, <2>3 DEF VerdictInv
<1>5. ASSUME NEW e \in Entries, TestErr(e) PROVE VerdictInv'
  <2>1. \A f \in Entries : f # e => OwnVerdict(f)'
    BY <1>0, <1>5 DEF TestErr, Goto, IInv, TypeOK, VerdictInv, OwnVerdict
  <2>2. OwnVerdict(e)'
    BY <1>0, <1>5 DEF TestErr, Goto, IInv, TypeOK, TriesBound, VerdictInv, OwnVerdict
  <2>3. CrashJustified'
    BY <1>5 DEF TestErr, VerdictInv, CrashJustified
  <2> QED
    BY <2>1, <2>2, <2>3 DEF VerdictInv
<1>6. ASSUME NEW e \in Entries, LogRetry(e) PROVE VerdictInv'
  BY <1>0, <1>6 DEF LogRetry, Goto, IInv, TypeOK, VerdictInv, OwnVerdict, CrashJustified
<1>7. ASSUME NEW e \in Entries, FinishEntry(e) PROVE VerdictInv'
  <2>1. err[MsgOf[e]] \in {"nil", "error"} /\ err[MsgOf[e]] = outcome[e]
    BY <1>0, <1>7 DEF FinishEntry, IInv, TypeOK, VerdictInv, OwnVerdict
  <2> QED
    BY <1>0, <1>7, <2>1 DEF FinishEntry, Goto, IInv, TypeOK, VerdictInv, OwnVerdict,
                            CrashJustified
<1>8. CASE Stopped \/ UNCHANGED vars
  BY <1>8 DEF Stopped, vars, VerdictInv, OwnVerdict, CrashJustified
<1> QED
  BY <1>1, <1>2, <1>3, <1>4, <1>5, <1>6, <1>7, <1>8 DEF Next, EntryStep

(* VerdictInv holds in every reachable state when messages have one entry.   *)
LEMMA VerdictHolds == ASSUME SingleEntries PROVE Spec => []VerdictInv
<1>1. Init => VerdictInv
  BY DEF Init, VerdictInv, OwnVerdict, CrashJustified
<1>2. IInv /\ VerdictInv /\ [Next]_vars => VerdictInv'
  BY NextVerdict
<1> QED
  BY <1>1, <1>2, IInvHolds, PTL DEF Spec

(* server.go, messages of one entry as GetBlock and GetBlocksCh send them:   *)
(* a goroutine that ends has sent its block.                                 *)
THEOREM DoneIsSent == ASSUME SingleEntries PROVE Spec => []DoneMeansSent
<1>1. VerdictInv => DoneMeansSent
  BY DEF VerdictInv, OwnVerdict, DoneMeansSent
<1> QED
  BY VerdictHolds, <1>1, PTL

(* server.go, messages of one entry: err.Error() in the log line of a retry  *)
(* never meets nil, and the server gives up only after maxTries failures of  *)
(* one and the same entry.                                                   *)
THEOREM CrashIsJustified == ASSUME SingleEntries PROVE Spec => []CrashJustified
<1>1. VerdictInv => CrashJustified
  BY DEF VerdictInv
<1> QED
  BY VerdictHolds, <1>1, PTL

-----------------------------------------------------------------------------
(* Every step of the server is a step of the service or invisible to it.     *)
LEMMA ServiceStep ==
  ASSUME IInv, [Next]_vars PROVE [Service!ServiceNext]_(Service!serviceVars)
<1> DEFINE asked == {e \in Entries : pc[e] # "unread"}
<1>0. maxTries \in Nat \ {0} /\ MsgOf \in [Entries -> Messages]
  BY ServerAssumption
<1>1. ASSUME NEW m \in Messages, ReadMessage(m) PROVE Service!ServiceNext
  <2> DEFINE W == {e \in Entries : MsgOf[e] = m}
  <2>1. W \in SUBSET Entries /\ W # {} /\ W \subseteq Entries \ asked
    BY <1>1 DEF ReadMessage, IInv, ReadTogether
  <2>2. asked' = asked \cup W
    BY <1>1 DEF ReadMessage
  <2>3. Service!Ask(W)
    BY <1>1, <2>1, <2>2 DEF ReadMessage, Service!Ask
  <2> QED
    BY <2>1, <2>3 DEF Service!ServiceNext
<1>2. ASSUME NEW e \in Entries, SendBlock(e)
      PROVE [Service!ServiceNext]_(Service!serviceVars)
  <2>1. e \in asked /\ asked' = asked /\ crash = "no" /\ crash' = crash
    BY <1>2 DEF SendBlock, Goto, IInv, TypeOK
  <2>2. arrived[e] < maxTries
    BY <1>0, <1>2 DEF SendBlock, IInv, TypeOK, TriesBound
  <2>3. CASE arrived' = [arrived EXCEPT ![e] = @ + 1] /\ broken' = broken
    <3>1. Service!Answer(e)
      BY <2>1, <2>2, <2>3 DEF Service!Answer
    <3> QED
      BY <3>1 DEF Service!ServiceNext
  <2>4. CASE arrived' = arrived /\ broken' = broken \cup {e} /\ e \notin broken
    <3>1. Service!Break(e)
      BY <2>1, <2>4 DEF Service!Break
    <3> QED
      BY <3>1 DEF Service!ServiceNext
  <2>5. CASE arrived' = arrived /\ broken' = broken
    BY <2>1, <2>5 DEF Service!serviceVars
  <2>6. \/ arrived' = [arrived EXCEPT ![e] = @ + 1] /\ broken' = broken
        \/ arrived' = arrived /\ broken' = broken \cup {e}
        \/ arrived' = arrived /\ broken' = broken
    <3>1. arrived = [arrived EXCEPT ![e] = arrived[e]]
      BY DEF IInv, TypeOK
    <3>2. PICK reaches \in {"nothing", "part", "all"} :
            /\ arrived' = [arrived EXCEPT ![e] = IF reaches = "all" THEN @ + 1 ELSE @]
            /\ broken' = IF reaches = "part" THEN broken \cup {e} ELSE broken
      BY <1>2 DEF SendBlock
    <3> QED
      BY <3>1, <3>2
  <2> QED
    BY <2>3, <2>4, <2>5, <2>6
<1>3. ASSUME NEW e \in Entries, GetStored(e) \/ LogRetry(e) \/ FinishEntry(e)
      PROVE [Service!ServiceNext]_(Service!serviceVars)
  <2>1. e \in asked /\ asked' = asked /\ crash = "no" /\ UNCHANGED <<arrived, broken>>
    BY <1>3 DEF GetStored, LogRetry, FinishEntry, Goto, IInv, TypeOK
  <2>2. CASE crash' = "no"
    BY <2>1, <2>2 DEF Service!serviceVars
  <2>3. CASE crash' # "no"
    <3>1. Service!GoDown
      BY <2>1, <2>3 DEF Service!GoDown
    <3> QED
      BY <3>1 DEF Service!ServiceNext
  <2> QED
    BY <2>2, <2>3
<1>4. ASSUME NEW e \in Entries, AssignErr(e) \/ TestErr(e)
      PROVE UNCHANGED Service!serviceVars
  <2>1. asked' = asked /\ UNCHANGED <<arrived, broken, crash>>
    BY <1>4 DEF AssignErr, TestErr, Goto, IInv, TypeOK
  <2> QED
    BY <2>1 DEF Service!serviceVars
<1>5. CASE Stopped \/ UNCHANGED vars
  BY <1>5 DEF Stopped, vars, Service!serviceVars
<1> QED
  BY <1>1, <1>2, <1>3, <1>4, <1>5 DEF Next, EntryStep

(* The server of server.go takes only the steps that BitswapClient expects:  *)
(* it answers only what it was asked, at most maxTries times each, and       *)
(* nothing once it is down.  This is the safety part of                      *)
(* ImplementsWantService, for messages of any number of entries.             *)
THEOREM ServerTakesServiceSteps ==
  Spec => Service!ServiceInit /\ [][Service!ServiceNext]_(Service!serviceVars)
<1>1. Init => Service!ServiceInit
  BY DEF Init, Service!ServiceInit
<1>2. IInv /\ [Next]_vars => [Service!ServiceNext]_(Service!serviceVars)
  BY ServiceStep
<1> QED
  BY <1>1, <1>2, IInvHolds, PTL DEF Spec
-----------------------------------------------------------------------------
(* What is left to do about an entry: turns of its loop, and steps of the    *)
(* present one.                                                              *)
StepsLeft(e) ==
    IF pc[e] = "unread" THEN 7 ELSE IF pc[e] \in {"get", "log"} THEN 6
    ELSE IF pc[e] = "send" THEN 5 ELSE IF pc[e] = "assign" THEN 4
    ELSE IF pc[e] = "test" THEN 3 ELSE IF pc[e] = "after" THEN 2 ELSE 1

Left(e) == 5 * (maxTries - try[e]) + StepsLeft(e)

(* A goroutine comes nearer to its end by each step it survives, and nobody  *)
(* puts it off: not the result another one writes to err, and not a message  *)
(* that is read.                                                             *)
EntriesProgress ==
    \A e \in Entries :
        /\ Left(e)' \in 1..Left(e)
        /\ EntryStep(e) /\ crash' = "no" => Left(e)' < Left(e)

LEMMA LeftType ==
    ASSUME TypeOK, NEW e \in Entries
    PROVE  Left(e) \in Nat /\ Left(e) >= 1
<1>1. try[e] \in 0..maxTries /\ maxTries \in Nat
  BY ServerAssumption DEF TypeOK
<1>2. StepsLeft(e) \in 1..7
  BY DEF StepsLeft
<1> QED
  BY <1>1, <1>2 DEF Left

(* Its own steps, with whatever err holds ...                                *)
LEMMA OwnStepProgress ==
    ASSUME IInv, NEW e \in Entries, EntryStep(e)
    PROVE  Left(e)' <= Left(e) /\ (crash' = "no" => Left(e)' < Left(e))
<1>0. /\ pc \in [Entries -> {"unread", "get", "send", "assign", "test", "log", "after", "done"}]
      /\ try \in [Entries -> 0..maxTries] /\ maxTries \in Nat /\ try[e] \in Nat
  BY ServerAssumption DEF IInv, TypeOK
<1>1. CASE GetStored(e) \/ LogRetry(e) \/ FinishEntry(e)
  <2>1. try' = try
    BY <1>1 DEF GetStored, LogRetry, FinishEntry
  <2>2. StepsLeft(e)' <= StepsLeft(e) /\ (crash' = "no" => StepsLeft(e)' < StepsLeft(e))
    BY <1>0, <1>1 DEF GetStored, LogRetry, FinishEntry, Goto, StepsLeft
  <2>3. StepsLeft(e) \in 1..7 /\ StepsLeft(e)' \in 1..7
    BY DEF StepsLeft
  <2> QED
    BY <1>0, <2>1, <2>2, <2>3 DEF Left
<1>2. CASE SendBlock(e) \/ AssignErr(e)
  <2>1. try' = try
    BY <1>2 DEF SendBlock, AssignErr
  <2>2. StepsLeft(e)' < StepsLeft(e)
    BY <1>0, <1>2 DEF SendBlock, AssignErr, Goto, StepsLeft
  <2>3. StepsLeft(e) \in 1..7 /\ StepsLeft(e)' \in 1..7
    BY DEF StepsLeft
  <2> QED
    BY <1>0, <2>1, <2>2, <2>3 DEF Left
<1>3. CASE TestErr(e)
  <2>1. StepsLeft(e) = 3
    BY <1>3 DEF TestErr, StepsLeft
  <2>2. \/ try'[e] = try[e] /\ StepsLeft(e)' = 2
        \/ try'[e] = try[e] + 1 /\ StepsLeft(e)' \in {2, 6}
    BY <1>0, <1>3 DEF TestErr, Goto, StepsLeft
  <2> QED
    BY <1>0, <2>1, <2>2 DEF Left
<1> QED
  BY <1>1, <1>2, <1>3 DEF EntryStep

(* ... and those of the others.                                              *)
LEMMA OthersStepProgress ==
    ASSUME IInv, [Next]_vars, NEW e \in Entries, ~ EntryStep(e)
    PROVE  Left(e)' <= Left(e)
<1>0. /\ pc \in [Entries -> {"unread", "get", "send", "assign", "test", "log", "after", "done"}]
      /\ try \in [Entries -> 0..maxTries] /\ maxTries \in Nat /\ try[e] \in Nat
      /\ MsgOf \in [Entries -> Messages]
  BY ServerAssumption DEF IInv, TypeOK
<1>1. try'[e] = try[e] /\ StepsLeft(e)' <= StepsLeft(e)
  <2>1. ASSUME NEW f \in Entries, f # e, EntryStep(f)
        PROVE  try'[e] = try[e] /\ pc'[e] = pc[e]
    BY <1>0, <2>1 DEF EntryStep, GetStored, SendBlock, AssignErr, TestErr, LogRetry,
                      FinishEntry, Goto
  <2>2. ASSUME NEW m \in Messages, ReadMessage(m)
        PROVE  try' = try /\ (pc'[e] = pc[e] \/ (pc[e] = "unread" /\ pc'[e] = "get"))
    BY <1>0, <2>2 DEF ReadMessage, IInv, ReadTogether
  <2>3. CASE Stopped \/ UNCHANGED vars
    BY <2>3 DEF Stopped, vars, StepsLeft
  <2> QED
    BY <2>1, <2>2, <2>3 DEF Next, StepsLeft
<1>2. StepsLeft(e) \in 1..7 /\ StepsLeft(e)' \in 1..7
  BY DEF StepsLeft
<1> QED
  BY <1>0, <1>1, <1>2 DEF Left

(* The server is done with an entry after at most 5 * maxTries + 7 steps     *)
(* about it, or down, also when the goroutines of a message share err and    *)
(* find each other's results in it: no entry is tried for ever.              *)
THEOREM EntriesOnlyProgress == Spec => [][EntriesProgress]_vars
<1>1. IInv /\ IInv' /\ [Next]_vars => [EntriesProgress]_vars
  <2> SUFFICES ASSUME IInv, IInv', [Next]_vars, NEW e \in Entries
               PROVE  /\ Left(e)' \in 1..Left(e)
                      /\ EntryStep(e) /\ crash' = "no" => Left(e)' < Left(e)
    BY DEF EntriesProgress
  <2>1. Left(e) \in Nat
    BY LeftType DEF IInv
  <2>2. Left(e)' \in Nat /\ Left(e)' >= 1
    <3>1. try'[e] \in 0..maxTries /\ maxTries \in Nat
      BY ServerAssumption DEF IInv, TypeOK
    <3>2. StepsLeft(e)' \in 1..7
      BY DEF StepsLeft
    <3> QED
      BY <3>1, <3>2 DEF Left
  <2> QED
    BY <2>1, <2>2, OwnStepProgress, OthersStepProgress
<1> QED
  BY IInvHolds, <1>1, PTL DEF Spec
=============================================================================
