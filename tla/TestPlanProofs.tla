--------------------------- MODULE TestPlanProofs ---------------------------
(***************************************************************************)
(* Theorems about TestPlan, for any number of instances and any set of      *)
(* plans that PlanAssumption allows.  The first part is about the lists of  *)
(* operations: what comes before what in which role.  The second part ties  *)
(* what an instance has passed to the state of the sync service and of the  *)
(* connections, and counts the signals.                                     *)
(***************************************************************************)
EXTENDS TestPlan, SequenceTheorems, FiniteSetTheorems, TLAPS

OpNames ==
    States \cup
    {"publish-peer", "collect-peers", "await-servers", "publish-root", "await-root",
     "listen", "spawn", "dial", "accept", "serve", "download", "signal-done",
     "reject", "return"}

(* The plans whose client waits for an address of each server                *)
Awaits == plan.case \in RustCases \cup {"kubo"}

(* The position of the signal that numbers an instance                       *)
NumPos == IF plan.case \in RustCases THEN 1 ELSE 2

(* The positions of ConfigureNetwork                                         *)
NetPos == IF plan.case = "krakensync" THEN {2} ELSE {1, 5}

(* What a server does only when it listens, and what a client waits for      *)
(* before it dials; what a client has done before the end                    *)
Gate == IF Awaits THEN "publish-peer"
        ELSE IF plan.case = "tcp" THEN "ip-changed"
        ELSE IF plan.case = "libp2p" THEN "protocol-registered"
        ELSE "publish-root"

Pass == IF Awaits THEN "await-servers"
        ELSE IF plan.case = "tcp" THEN "ip-changed"
        ELSE IF plan.case = "libp2p" THEN "protocol-registered"
        ELSE "await-root"

Goal == IF plan.case \in {"rust-tcp", "quic"} THEN "dial" ELSE "download"

(* The roles of the instance p with the number k                             *)
IsServer(p, k) ==
    IF plan.case = "kubo" THEN p \in Providers
    ELSE IF plan.case \in RustCases THEN k % 2 = 0 ELSE k = 1

IsClient(p, k) ==
    IF plan.case = "kubo" THEN p \notin Providers
    ELSE IF plan.case \in RustCases THEN k % 2 = 1 ELSE k = 2

(* The operations that signal the state s                                    *)
Signalling(s) == IF s = "test-done" THEN {"test-done", "signal-done"} ELSE {s}

(* The plans whose client waits for the root CID, and the states of the      *)
(* roles in each plan                                                        *)
ByRoot == plan.case \in {"bitswap1to1", "bitswap1toN", "manifetch", "graphsync"}

Barriers ==
    {"test-done"} \cup
    (IF plan.case = "tcp" THEN {"ip-changed"}
     ELSE IF plan.case = "libp2p" THEN {"protocol-registered"}
     ELSE IF plan.case = "kubo" THEN {"ready-to-publish", "ready-to-download"} ELSE {})

(* The operations of the roles that wait for others, the return last, and    *)
(* how far they are: each waits only for those that are less far.            *)
Waits ==
    {"await-servers", "await-root", "ip-changed", "protocol-registered", "ready-to-publish",
     "ready-to-download", "accept", "download", "test-done", "return"}

Rank(op) ==
    IF op \in {"await-servers", "await-root", "ip-changed", "protocol-registered"} THEN 1
    ELSE IF op = "ready-to-publish" THEN 2
    ELSE IF op = "ready-to-download" THEN 3
    ELSE IF op = "accept" THEN 4
    ELSE IF op = "download" THEN 5
    ELSE 6

(* In the list t every a has a b before it                                   *)
Preceded(t, a, b) == \A i \in 1..Len(t) : t[i] = a => \E j \in 1..i - 1 : t[j] = b

-----------------------------------------------------------------------------
(* What is used of a set-up: it has one numbering signal, nothing but        *)
(* ConfigureNetwork before it, and no operation of a role in it.             *)
SetupFacts(t) ==
    /\ t \in Seq(OpNames)
    /\ Len(t) \in 1..5
    /\ NumPos \in 1..Len(t)
    /\ t[NumPos] \in {"ip-allocation", "initialized"}
    /\ \A i \in 1..Len(t) :
          /\ t[i] \in {"ip-allocation", "initialized"} => i = NumPos
          /\ i < NumPos => t[i] = "network-configured"
          /\ t[i] = "network-configured" => i \in NetPos
          /\ t[i] \in {"network-configured", "ip-allocation", "initialized",
                       "publish-peer", "collect-peers"}
          /\ t[i] = "publish-peer" => ~ Awaits
          /\ t[i] = "collect-peers" => \E j \in 1..i - 1 : t[j] = "publish-peer"

(* What is used of the list t of the role that p has with the number k       *)
RoleShape(t) ==
    /\ t \in Seq(OpNames)
    /\ Len(t) \in 1..7
    /\ Len(SetupOps) + Len(t) <= 10
    /\ t[Len(t)] \in {"return", "reject"}
    /\ \A i \in 1..Len(t) :
          t[i] \notin {"ip-allocation", "initialized", "network-configured", "collect-peers"}

RoleOnce(t) ==
    \A s \in States : \A i, j \in 1..Len(t) :
        t[i] \in Signalling(s) /\ t[j] \in Signalling(s) => i = j

RoleOrder(t, p, k) ==
    /\ Preceded(t, "dial", Pass)
    /\ plan.case # "quic" /\ IsServer(p, k) => Preceded(t, Gate, "listen")
    /\ \A i \in 1..Len(t) : t[i] \in {"publish-peer", "publish-root"} => IsServer(p, k)
    /\ \A i \in 1..Len(t) : t[i] = "await-servers" => Awaits
    /\ \A i \in 1..Len(t) : t[i] = "return" =>
          \E j \in 1..i - 1 : t[j] \in Signalling("test-done")
    /\ \A i \in 1..Len(t) : t[i] = "signal-done" => plan.case = "rust-tcp" /\ IsClient(p, k)
    /\ IsClient(p, k) => Preceded(t, "test-done", Goal) /\ Preceded(t, "signal-done", Goal)

(* At an operation that waits, or at the return, the instance has done what  *)
(* those wait for that are at an operation of no higher rank.                *)
RoleWaits(t, p, k) ==
    \A i \in 1..Len(t) : t[i] \in Waits =>
        /\ \A s \in Barriers : Rank(t[i]) >= Rank(s) => \E j \in 1..i : t[j] \in Signalling(s)
        /\ Awaits /\ IsServer(p, k) => \E j \in 1..i - 1 : t[j] = "publish-peer"
        /\ ByRoot /\ IsServer(p, k) => \E j \in 1..i - 1 : t[j] = "publish-root"
        /\ plan.case = "kubo" /\ IsServer(p, k) /\ Rank(t[i]) >= 5 =>
              \E j \in 1..i - 1 : t[j] = "publish-root"
        /\ plan.case = "tcp" /\ IsClient(p, k) /\ Rank(t[i]) >= 4 =>
              \E j \in 1..i - 1 : t[j] = "dial"
        /\ plan.case = "tcp" /\ IsServer(p, k) /\ Rank(t[i]) >= 5 =>
              \E j \in 1..i - 1 : t[j] = "serve"

(* Which operations there are, and in which plan and role                    *)
RoleKinds(t, p, k) ==
    \A i \in 1..Len(t) :
        /\ t[i] \in AtOnce \cup Waits \cup {"dial"}
        /\ t[i] \in States => t[i] \in Barriers
        /\ t[i] \in {"accept", "serve"} => plan.case = "tcp"
        /\ t[i] = "await-root" => ByRoot
        /\ t[i] \in {"dial", "download"} => IsClient(p, k)
        /\ t[i] \in {"dial", "serve", "download"} =>
              \A j \in 1..i : t[j] \notin Signalling("test-done")
        /\ t[i] = "publish-peer" /\ plan.case = "quic" => \E j \in 1..i - 1 : t[j] = "spawn"
        /\ t[i] = "reject" => k > 2 /\ plan.case \notin RustCases \cup {"bitswap1toN", "manifetch", "kubo"}

RoleFacts(t, p, k) ==
    RoleShape(t) /\ RoleOnce(t) /\ RoleOrder(t, p, k) /\ RoleWaits(t, p, k) /\ RoleKinds(t, p, k)

LEMMA SetupIs ==
  /\ plan.case = "tcp" => SetupOps = <<"network-configured", "ip-allocation">>
  /\ plan.case = "kubo" => SetupOps = <<"network-configured", "ip-allocation">>
  /\ plan.case = "krakensync" => SetupOps = <<"initialized", "network-configured">>
  /\ plan.case \in {"rust-tcp", "quic"} => SetupOps = <<"initialized">>
  /\ plan.case \in {"libp2p", "bitswap1to1", "bitswap1toN", "manifetch", "graphsync"} =>
        SetupOps = <<"network-configured", "ip-allocation", "publish-peer", "collect-peers",
                     "network-configured">>
BY Zenon DEF SetupOps, KuboSetupOps, KrakenSetupOps, Libp2pSetupOps

LEMMA RoleIs ==
  ASSUME NEW p, NEW k
  PROVE  /\ plan.case = "tcp" => RoleOps(p, k) = TcpOps(k)
         /\ plan.case = "libp2p" => RoleOps(p, k) = Libp2pOps(k)
         /\ plan.case = "rust-tcp" => RoleOps(p, k) = RustTcpOps(k)
         /\ plan.case = "quic" => RoleOps(p, k) = QuicOps(k)
         /\ plan.case = "krakensync" => RoleOps(p, k) = KrakenOps(k)
         /\ plan.case = "kubo" => RoleOps(p, k) = KuboOps(p)
         /\ plan.case \in {"bitswap1to1", "bitswap1toN", "manifetch", "graphsync"} =>
               RoleOps(p, k) = RootOps(k)
BY Zenon DEF RoleOps

LEMMA SetupKeepsFacts == ASSUME plan.case \in Cases PROVE SetupFacts(SetupOps)
<1> USE DEF SetupFacts, OpNames, States, NumPos, NetPos, Awaits, RustCases
<1>1. CASE plan.case \in {"tcp", "kubo"}
  <2>1. SetupOps = <<"network-configured", "ip-allocation">>
    BY <1>1, SetupIs
  <2> QED BY <1>1, <2>1
<1>2. CASE plan.case = "krakensync"
  <2>1. SetupOps = <<"initialized", "network-configured">>
    BY <1>2, SetupIs
  <2> QED BY <1>2, <2>1
<1>3. CASE plan.case \in {"rust-tcp", "quic"}
  <2>1. SetupOps = <<"initialized">>
    BY <1>3, SetupIs
  <2> QED BY <1>3, <2>1
<1>4. CASE plan.case \in {"libp2p", "bitswap1to1", "bitswap1toN", "manifetch", "graphsync"}
  <2>1. SetupOps = <<"network-configured", "ip-allocation", "publish-peer", "collect-peers",
                     "network-configured">>
    BY <1>4, SetupIs
  <2> QED BY <1>4, <2>1
<1> QED BY <1>1, <1>2, <1>3, <1>4 DEF Cases, GoCases

(* The lists of the roles, one lemma for each plan                           *)
LEMMA TcpRole ==
  ASSUME NEW p, NEW k \in Nat \ {0}, plan.case = "tcp"
  PROVE  RoleFacts(RoleOps(p, k), p, k)
<1> DEFINE t == RoleOps(p, k)
<1>1. t = TcpOps(k)
  BY RoleIs
<1>2. Len(SetupOps) = 2
  BY SetupIs
<1>3. CASE k = 1
  <2>1. t = <<"listen", "ip-changed", "accept", "serve", "test-done",
              "return">>
    BY <1>3, <1>1, 1 # 2, Zenon DEF TcpOps
  <2> HIDE DEF t
  <2>2. RoleShape(t)
    BY <2>1, <1>2 DEF RoleShape, OpNames, States
  <2>3. RoleOnce(t)
    BY <2>1 DEF RoleOnce, Signalling, States
  <2>4. RoleOrder(t, p, k)
    BY <1>3, <2>1
    DEF RoleOrder, Preceded, Pass, Gate, Goal, Awaits, RustCases, IsServer, IsClient, Signalling
  <2>5. RoleWaits(t, p, k)
    BY <1>3, <2>1
    DEF RoleWaits, Barriers, Rank, Waits, ByRoot, Awaits, RustCases, IsServer, IsClient, Signalling
  <2>6. RoleKinds(t, p, k)
    BY <1>3, <2>1
    DEF RoleKinds, AtOnce, States, Barriers, Rank, Waits, ByRoot, Awaits, RustCases, IsServer, IsClient, Signalling
  <2> QED BY <2>2, <2>3, <2>4, <2>5, <2>6 DEF RoleFacts, t
<1>4. CASE k = 2
  <2>1. t = <<"ip-changed", "dial", "download", "test-done", "return">>
    BY <1>4, <1>1, 1 # 2, Zenon DEF TcpOps
  <2> HIDE DEF t
  <2>2. RoleShape(t)
    BY <2>1, <1>2 DEF RoleShape, OpNames, States
  <2>3. RoleOnce(t)
    BY <2>1 DEF RoleOnce, Signalling, States
  <2>4. RoleOrder(t, p, k)
    BY <1>4, <2>1
    DEF RoleOrder, Preceded, Pass, Gate, Goal, Awaits, RustCases, IsServer, IsClient, Signalling
  <2>5. RoleWaits(t, p, k)
    BY <1>4, <2>1
    DEF RoleWaits, Barriers, Rank, Waits, ByRoot, Awaits, RustCases, IsServer, IsClient, Signalling
  <2>6. RoleKinds(t, p, k)
    BY <1>4, <2>1
    DEF RoleKinds, AtOnce, States, Barriers, Rank, Waits, ByRoot, Awaits, RustCases, IsServer, IsClient, Signalling
  <2> QED BY <2>2, <2>3, <2>4, <2>5, <2>6 DEF RoleFacts, t
<1>5. CASE k # 1 /\ k # 2
  <2>1. t = <<"ip-changed", "reject">>
    BY <1>5, <1>1, 1 # 2, Zenon DEF TcpOps
  <2> HIDE DEF t
  <2>2. RoleShape(t)
    BY <2>1, <1>2 DEF RoleShape, OpNames, States
  <2>3. RoleOnce(t)
    BY <2>1 DEF RoleOnce, Signalling, States
  <2>4. RoleOrder(t, p, k)
    BY <1>5, <2>1
    DEF RoleOrder, Preceded, Pass, Gate, Goal, Awaits, RustCases, IsServer, IsClient, Signalling
  <2>5. RoleWaits(t, p, k)
    BY <1>5, <2>1
    DEF RoleWaits, Barriers, Rank, Waits, ByRoot, Awaits, RustCases, IsServer, IsClient, Signalling
  <2>6. RoleKinds(t, p, k)
    BY <1>5, <2>1
    DEF RoleKinds, AtOnce, States, Barriers, Rank, Waits, ByRoot, Awaits, RustCases, IsServer, IsClient, Signalling
  <2> QED BY <2>2, <2>3, <2>4, <2>5, <2>6 DEF RoleFacts, t
<1> QED BY <1>3, <1>4, <1>5

LEMMA Libp2pRole ==
  ASSUME NEW p, NEW k \in Nat \ {0}, plan.case = "libp2p"
  PROVE  RoleFacts(RoleOps(p, k), p, k)
<1> DEFINE t == RoleOps(p, k)
<1>1. t = Libp2pOps(k)
  BY RoleIs
<1>2. Len(SetupOps) = 5
  BY SetupIs
<1>3. CASE k = 1
  <2>1. t = <<"listen", "protocol-registered", "test-done", "return">>
    BY <1>3, <1>1, 1 # 2, Zenon DEF Libp2pOps
  <2> HIDE DEF t
  <2>2. RoleShape(t)
    BY <2>1, <1>2 DEF RoleShape, OpNames, States
  <2>3. RoleOnce(t)
    BY <2>1 DEF RoleOnce, Signalling, States
  <2>4. RoleOrder(t, p, k)
    BY <1>3, <2>1
    DEF RoleOrder, Preceded, Pass, Gate, Goal, Awaits, RustCases, IsServer, IsClient, Signalling
  <2>5. RoleWaits(t, p, k)
    BY <1>3, <2>1
    DEF RoleWaits, Barriers, Rank, Waits, ByRoot, Awaits, RustCases, IsServer, IsClient, Signalling
  <2>6. RoleKinds(t, p, k)
    BY <1>3, <2>1
    DEF RoleKinds, AtOnce, States, Barriers, Rank, Waits, ByRoot, Awaits, RustCases, IsServer, IsClient, Signalling
  <2> QED BY <2>2, <2>3, <2>4, <2>5, <2>6 DEF RoleFacts, t
<1>4. CASE k = 2
  <2>1. t = <<"protocol-registered", "dial", "download", "test-done",
              "return">>
    BY <1>4, <1>1, 1 # 2, Zenon DEF Libp2pOps
  <2> HIDE DEF t
  <2>2. RoleShape(t)
    BY <2>1, <1>2 DEF RoleShape, OpNames, States
  <2>3. RoleOnce(t)
    BY <2>1 DEF RoleOnce, Signalling, States
  <2>4. RoleOrder(t, p, k)
    BY <1>4, <2>1
    DEF RoleOrder, Preceded, Pass, Gate, Goal, Awaits, RustCases, IsServer, IsClient, Signalling
  <2>5. RoleWaits(t, p, k)
    BY <1>4, <2>1
    DEF RoleWaits, Barriers, Rank, Waits, ByRoot, Awaits, RustCases, IsServer, IsClient, Signalling
  <2>6. RoleKinds(t, p, k)
    BY <1>4, <2>1
    DEF RoleKinds, AtOnce, States, Barriers, Rank, Waits, ByRoot, Awaits, RustCases, IsServer, IsClient, Signalling
  <2> QED BY <2>2, <2>3, <2>4, <2>5, <2>6 DEF RoleFacts, t
<1>5. CASE k # 1 /\ k # 2
  <2>1. t = <<"reject">>
    BY <1>5, <1>1, 1 # 2, Zenon DEF Libp2pOps
  <2> HIDE DEF t
  <2>2. RoleShape(t)
    BY <2>1, <1>2 DEF RoleShape, OpNames, States
  <2>3. RoleOnce(t)
    BY <2>1 DEF RoleOnce, Signalling, States
  <2>4. RoleOrder(t, p, k)
    BY <1>5, <2>1
    DEF RoleOrder, Preceded, Pass, Gate, Goal, Awaits, RustCases, IsServer, IsClient, Signalling
  <2>5. RoleWaits(t, p, k)
    BY <1>5, <2>1
    DEF RoleWaits, Barriers, Rank, Waits, ByRoot, Awaits, RustCases, IsServer, IsClient, Signalling
  <2>6. RoleKinds(t, p, k)
    BY <1>5, <2>1
    DEF RoleKinds, AtOnce, States, Barriers, Rank, Waits, ByRoot, Awaits, RustCases, IsServer, IsClient, Signalling
  <2> QED BY <2>2, <2>3, <2>4, <2>5, <2>6 DEF RoleFacts, t
<1> QED BY <1>3, <1>4, <1>5

LEMMA RootRole ==
  ASSUME NEW p, NEW k \in Nat \ {0}, plan.case \in {"bitswap1to1", "bitswap1toN", "manifetch", "graphsync"}
  PROVE  RoleFacts(RoleOps(p, k), p, k)
<1> DEFINE t == RoleOps(p, k)
<1>1. t = RootOps(k)
  BY RoleIs
<1>2. Len(SetupOps) = 5
  BY SetupIs
<1>3. CASE k = 1
  <2>1. t = <<"listen", "publish-root", "test-done", "return">>
    BY <1>3, <1>1, 1 # 2, Zenon DEF RootOps, ServerOps, ClientOps
  <2> HIDE DEF t
  <2>2. RoleShape(t)
    BY <2>1, <1>2 DEF RoleShape, OpNames, States
  <2>3. RoleOnce(t)
    BY <2>1 DEF RoleOnce, Signalling, States
  <2>4. RoleOrder(t, p, k)
    BY <1>3, <2>1
    DEF RoleOrder, Preceded, Pass, Gate, Goal, Awaits, RustCases, IsServer, IsClient, Signalling
  <2>5. RoleWaits(t, p, k)
    BY <1>3, <2>1
    DEF RoleWaits, Barriers, Rank, Waits, ByRoot, Awaits, RustCases, IsServer, IsClient, Signalling
  <2>6. RoleKinds(t, p, k)
    BY <1>3, <2>1
    DEF RoleKinds, AtOnce, States, Barriers, Rank, Waits, ByRoot, Awaits, RustCases, IsServer, IsClient, Signalling
  <2> QED BY <2>2, <2>3, <2>4, <2>5, <2>6 DEF RoleFacts, t
<1>4. CASE k = 2
  <2>1. t = <<"await-root", "dial", "download", "test-done", "return">>
    BY <1>4, <1>1, 1 # 2, ~ (2 > 2), Zenon DEF RootOps, ServerOps, ClientOps
  <2> HIDE DEF t
  <2>2. RoleShape(t)
    BY <2>1, <1>2 DEF RoleShape, OpNames, States
  <2>3. RoleOnce(t)
    BY <2>1 DEF RoleOnce, Signalling, States
  <2>4. RoleOrder(t, p, k)
    BY <1>4, <2>1
    DEF RoleOrder, Preceded, Pass, Gate, Goal, Awaits, RustCases, IsServer, IsClient, Signalling
  <2>5. RoleWaits(t, p, k)
    BY <1>4, <2>1
    DEF RoleWaits, Barriers, Rank, Waits, ByRoot, Awaits, RustCases, IsServer, IsClient, Signalling
  <2>6. RoleKinds(t, p, k)
    BY <1>4, <2>1
    DEF RoleKinds, AtOnce, States, Barriers, Rank, Waits, ByRoot, Awaits, RustCases, IsServer, IsClient, Signalling
  <2> QED BY <2>2, <2>3, <2>4, <2>5, <2>6 DEF RoleFacts, t
<1>5. CASE k > 2 /\ plan.case \in {"bitswap1toN", "manifetch"}
  <2>1. t = <<"listen", "test-done", "return">>
    <3>1. k # 1 /\ k # 2
      BY <1>5
    <3> QED BY <3>1, <1>5, <1>1, Zenon DEF RootOps, ServerOps, ClientOps
  <2> HIDE DEF t
  <2>2. RoleShape(t)
    BY <2>1, <1>2 DEF RoleShape, OpNames, States
  <2>3. RoleOnce(t)
    BY <2>1 DEF RoleOnce, Signalling, States
  <2>4. RoleOrder(t, p, k)
    BY <1>5, <2>1
    DEF RoleOrder, Preceded, Pass, Gate, Goal, Awaits, RustCases, IsServer, IsClient, Signalling
  <2>5. RoleWaits(t, p, k)
    BY <1>5, <2>1
    DEF RoleWaits, Barriers, Rank, Waits, ByRoot, Awaits, RustCases, IsServer, IsClient, Signalling
  <2>6. RoleKinds(t, p, k)
    BY <1>5, <2>1
    DEF RoleKinds, AtOnce, States, Barriers, Rank, Waits, ByRoot, Awaits, RustCases, IsServer, IsClient, Signalling
  <2> QED BY <2>2, <2>3, <2>4, <2>5, <2>6 DEF RoleFacts, t
<1>6. CASE k > 2 /\ plan.case \notin {"bitswap1toN", "manifetch"}
  <2>1. t = <<"reject">>
    <3>1. k # 1 /\ k # 2
      BY <1>6
    <3> QED BY <3>1, <1>6, <1>1, Zenon DEF RootOps, ServerOps, ClientOps
  <2> HIDE DEF t
  <2>2. RoleShape(t)
    BY <2>1, <1>2 DEF RoleShape, OpNames, States
  <2>3. RoleOnce(t)
    BY <2>1 DEF RoleOnce, Signalling, States
  <2>4. RoleOrder(t, p, k)
    BY <1>6, <2>1
    DEF RoleOrder, Preceded, Pass, Gate, Goal, Awaits, RustCases, IsServer, IsClient, Signalling
  <2>5. RoleWaits(t, p, k)
    BY <1>6, <2>1
    DEF RoleWaits, Barriers, Rank, Waits, ByRoot, Awaits, RustCases, IsServer, IsClient, Signalling
  <2>6. RoleKinds(t, p, k)
    BY <1>6, <2>1
    DEF RoleKinds, AtOnce, States, Barriers, Rank, Waits, ByRoot, Awaits, RustCases, IsServer, IsClient, Signalling
  <2> QED BY <2>2, <2>3, <2>4, <2>5, <2>6 DEF RoleFacts, t
<1> QED BY <1>3, <1>4, <1>5, <1>6

LEMMA RustTcpRole ==
  ASSUME NEW p, NEW k \in Nat \ {0}, plan.case = "rust-tcp"
  PROVE  RoleFacts(RoleOps(p, k), p, k)
<1> DEFINE t == RoleOps(p, k)
<1>1. t = RustTcpOps(k)
  BY RoleIs
<1>2. Len(SetupOps) = 1
  BY SetupIs
<1>3. CASE k % 2 = 0
  <2>1. t = <<"listen", "publish-peer", "test-done", "return">>
    BY <1>3, <1>1 DEF RustTcpOps
  <2> HIDE DEF t
  <2>2. RoleShape(t)
    BY <2>1, <1>2 DEF RoleShape, OpNames, States
  <2>3. RoleOnce(t)
    BY <2>1 DEF RoleOnce, Signalling, States
  <2>4. RoleOrder(t, p, k)
    BY <1>3, <2>1
    DEF RoleOrder, Preceded, Pass, Gate, Goal, Awaits, RustCases, IsServer, IsClient, Signalling
  <2>5. RoleWaits(t, p, k)
    BY <1>3, <2>1
    DEF RoleWaits, Barriers, Rank, Waits, ByRoot, Awaits, RustCases, IsServer, IsClient, Signalling
  <2>6. RoleKinds(t, p, k)
    BY <1>3, <2>1
    DEF RoleKinds, AtOnce, States, Barriers, Rank, Waits, ByRoot, Awaits, RustCases, IsServer, IsClient, Signalling
  <2> QED BY <2>2, <2>3, <2>4, <2>5, <2>6 DEF RoleFacts, t
<1>4. CASE k % 2 = 1
  <2>1. t = <<"await-servers", "dial", "signal-done", "return">>
    BY <1>4, <1>1, 1 # 0 DEF RustTcpOps
  <2> HIDE DEF t
  <2>2. RoleShape(t)
    BY <2>1, <1>2 DEF RoleShape, OpNames, States
  <2>3. RoleOnce(t)
    BY <2>1 DEF RoleOnce, Signalling, States
  <2>4. RoleOrder(t, p, k)
    BY <1>4, <2>1
    DEF RoleOrder, Preceded, Pass, Gate, Goal, Awaits, RustCases, IsServer, IsClient, Signalling
  <2>5. RoleWaits(t, p, k)
    BY <1>4, <2>1
    DEF RoleWaits, Barriers, Rank, Waits, ByRoot, Awaits, RustCases, IsServer, IsClient, Signalling
  <2>6. RoleKinds(t, p, k)
    BY <1>4, <2>1
    DEF RoleKinds, AtOnce, States, Barriers, Rank, Waits, ByRoot, Awaits, RustCases, IsServer, IsClient, Signalling
  <2> QED BY <2>2, <2>3, <2>4, <2>5, <2>6 DEF RoleFacts, t
<1> QED BY <1>3, <1>4

LEMMA QuicRole ==
  ASSUME NEW p, NEW k \in Nat \ {0}, plan.case = "quic"
  PROVE  RoleFacts(RoleOps(p, k), p, k)
<1> DEFINE t == RoleOps(p, k)
<1>1. t = QuicOps(k)
  BY RoleIs
<1>2. Len(SetupOps) = 1
  BY SetupIs
<1>3. CASE k % 2 = 0
  <2>1. t = <<"spawn", "publish-peer", "test-done", "return">>
    BY <1>3, <1>1 DEF QuicOps
  <2> HIDE DEF t
  <2>2. RoleShape(t)
    BY <2>1, <1>2 DEF RoleShape, OpNames, States
  <2>3. RoleOnce(t)
    BY <2>1 DEF RoleOnce, Signalling, States
  <2>4. RoleOrder(t, p, k)
    BY <1>3, <2>1
    DEF RoleOrder, Preceded, Pass, Gate, Goal, Awaits, RustCases, IsServer, IsClient, Signalling
  <2>5. RoleWaits(t, p, k)
    BY <1>3, <2>1
    DEF RoleWaits, Barriers, Rank, Waits, ByRoot, Awaits, RustCases, IsServer, IsClient, Signalling
  <2>6. RoleKinds(t, p, k)
    BY <1>3, <2>1
    DEF RoleKinds, AtOnce, States, Barriers, Rank, Waits, ByRoot, Awaits, RustCases, IsServer, IsClient, Signalling
  <2> QED BY <2>2, <2>3, <2>4, <2>5, <2>6 DEF RoleFacts, t
<1>4. CASE k % 2 = 1
  <2>1. t = <<"await-servers", "dial", "test-done", "return">>
    BY <1>4, <1>1, 1 # 0 DEF QuicOps
  <2> HIDE DEF t
  <2>2. RoleShape(t)
    BY <2>1, <1>2 DEF RoleShape, OpNames, States
  <2>3. RoleOnce(t)
    BY <2>1 DEF RoleOnce, Signalling, States
  <2>4. RoleOrder(t, p, k)
    BY <1>4, <2>1
    DEF RoleOrder, Preceded, Pass, Gate, Goal, Awaits, RustCases, IsServer, IsClient, Signalling
  <2>5. RoleWaits(t, p, k)
    BY <1>4, <2>1
    DEF RoleWaits, Barriers, Rank, Waits, ByRoot, Awaits, RustCases, IsServer, IsClient, Signalling
  <2>6. RoleKinds(t, p, k)
    BY <1>4, <2>1
    DEF RoleKinds, AtOnce, States, Barriers, Rank, Waits, ByRoot, Awaits, RustCases, IsServer, IsClient, Signalling
  <2> QED BY <2>2, <2>3, <2>4, <2>5, <2>6 DEF RoleFacts, t
<1> QED BY <1>3, <1>4

LEMMA KrakenRole ==
  ASSUME NEW p, NEW k \in Nat \ {0}, plan.case = "krakensync"
  PROVE  RoleFacts(RoleOps(p, k), p, k)
<1> DEFINE t == RoleOps(p, k)
<1>1. t = KrakenOps(k)
  BY RoleIs
<1>2. Len(SetupOps) = 2
  BY SetupIs
<1>3. CASE k % 2 = 0
  <2>1. t = <<"listen", "publish-peer", "test-done", "return">>
    BY <1>3, <1>1 DEF KrakenOps
  <2> HIDE DEF t
  <2>2. RoleShape(t)
    BY <2>1, <1>2 DEF RoleShape, OpNames, States
  <2>3. RoleOnce(t)
    BY <2>1 DEF RoleOnce, Signalling, States
  <2>4. RoleOrder(t, p, k)
    BY <1>3, <2>1
    DEF RoleOrder, Preceded, Pass, Gate, Goal, Awaits, RustCases, IsServer, IsClient, Signalling
  <2>5. RoleWaits(t, p, k)
    BY <1>3, <2>1
    DEF RoleWaits, Barriers, Rank, Waits, ByRoot, Awaits, RustCases, IsServer, IsClient, Signalling
  <2>6. RoleKinds(t, p, k)
    BY <1>3, <2>1
    DEF RoleKinds, AtOnce, States, Barriers, Rank, Waits, ByRoot, Awaits, RustCases, IsServer, IsClient, Signalling
  <2> QED BY <2>2, <2>3, <2>4, <2>5, <2>6 DEF RoleFacts, t
<1>4. CASE k % 2 = 1
  <2>1. t = <<"await-servers", "dial", "download", "test-done", "return">>
    BY <1>4, <1>1, 1 # 0 DEF KrakenOps
  <2> HIDE DEF t
  <2>2. RoleShape(t)
    BY <2>1, <1>2 DEF RoleShape, OpNames, States
  <2>3. RoleOnce(t)
    BY <2>1 DEF RoleOnce, Signalling, States
  <2>4. RoleOrder(t, p, k)
    BY <1>4, <2>1
    DEF RoleOrder, Preceded, Pass, Gate, Goal, Awaits, RustCases, IsServer, IsClient, Signalling
  <2>5. RoleWaits(t, p, k)
    BY <1>4, <2>1
    DEF RoleWaits, Barriers, Rank, Waits, ByRoot, Awaits, RustCases, IsServer, IsClient, Signalling
  <2>6. RoleKinds(t, p, k)
    BY <1>4, <2>1
    DEF RoleKinds, AtOnce, States, Barriers, Rank, Waits, ByRoot, Awaits, RustCases, IsServer, IsClient, Signalling
  <2> QED BY <2>2, <2>3, <2>4, <2>5, <2>6 DEF RoleFacts, t
<1> QED BY <1>3, <1>4

LEMMA KuboRole ==
  ASSUME NEW p, NEW k \in Nat \ {0}, plan.case = "kubo"
  PROVE  RoleFacts(RoleOps(p, k), p, k)
<1> DEFINE t == RoleOps(p, k)
<1>1. t = KuboOps(p)
  BY RoleIs
<1>2. Len(SetupOps) = 2
  BY SetupIs
<1>3. CASE p \in Providers
  <2>1. t = <<"listen", "publish-peer", "ready-to-publish", "publish-root",
              "ready-to-download", "test-done", "return">>
    BY <1>3, <1>1 DEF KuboOps
  <2> HIDE DEF t
  <2>2. RoleShape(t)
    BY <2>1, <1>2 DEF RoleShape, OpNames, States
  <2>3. RoleOnce(t)
    BY <2>1 DEF RoleOnce, Signalling, States
  <2>4. RoleOrder(t, p, k)
    BY <1>3, <2>1
    DEF RoleOrder, Preceded, Pass, Gate, Goal, Awaits, RustCases, IsServer, IsClient, Signalling
  <2>5. RoleWaits(t, p, k)
    BY <1>3, <2>1
    DEF RoleWaits, Barriers, Rank, Waits, ByRoot, Awaits, RustCases, IsServer, IsClient, Signalling
  <2>6. RoleKinds(t, p, k)
    BY <1>3, <2>1
    DEF RoleKinds, AtOnce, States, Barriers, Rank, Waits, ByRoot, Awaits, RustCases, IsServer, IsClient, Signalling
  <2> QED BY <2>2, <2>3, <2>4, <2>5, <2>6 DEF RoleFacts, t
<1>4. CASE p \notin Providers
  <2>1. t = <<"await-servers", "dial", "ready-to-publish",
              "ready-to-download", "download", "test-done", "return">>
    BY <1>4, <1>1 DEF KuboOps
  <2> HIDE DEF t
  <2>2. RoleShape(t)
    BY <2>1, <1>2 DEF RoleShape, OpNames, States
  <2>3. RoleOnce(t)
    BY <2>1 DEF RoleOnce, Signalling, States
  <2>4. RoleOrder(t, p, k)
    BY <1>4, <2>1
    DEF RoleOrder, Preceded, Pass, Gate, Goal, Awaits, RustCases, IsServer, IsClient, Signalling
  <2>5. RoleWaits(t, p, k)
    BY <1>4, <2>1
    DEF RoleWaits, Barriers, Rank, Waits, ByRoot, Awaits, RustCases, IsServer, IsClient, Signalling
  <2>6. RoleKinds(t, p, k)
    BY <1>4, <2>1
    DEF RoleKinds, AtOnce, States, Barriers, Rank, Waits, ByRoot, Awaits, RustCases, IsServer, IsClient, Signalling
  <2> QED BY <2>2, <2>3, <2>4, <2>5, <2>6 DEF RoleFacts, t
<1> QED BY <1>3, <1>4

LEMMA RolesKeepFacts ==
  ASSUME plan.case \in Cases, NEW p, NEW k \in Nat \ {0}
  PROVE  RoleFacts(RoleOps(p, k), p, k)
BY TcpRole, Libp2pRole, RootRole, RustTcpRole, QuicRole, KrakenRole, KuboRole
DEF Cases, GoCases, RustCases

-----------------------------------------------------------------------------
(* Where an instance is in its list                                          *)
Numbered(q) == \E k \in 1..Len(order) : order[k] = q

(* The operation at position i is behind q, or q has given its signal        *)
Sent(q, i) == i < step[q] \/ (i = step[q] /\ q \in waiting)

Past(q, op) == \E i \in 1..step[q] - 1 : Ops(q)[i] = op

(* The positions at which a signal of the state s has been given             *)
Given(s) ==
    {x \in (1..plan.n) \X (1..10) :
        /\ Sent(x[1], x[2])
        /\ x[2] <= Len(Ops(x[1]))
        /\ Ops(x[1])[x[2]] \in Signalling(s)}

TypeCore ==
    /\ plan \in Plans
    /\ order \in Seq(1..plan.n)
    /\ \A j, k \in 1..Len(order) : order[j] = order[k] => j = k
    /\ step \in [Instances -> Nat]
    /\ waiting \subseteq 1..plan.n
    /\ signals \in [States -> Nat]
    /\ peers \subseteq 1..plan.n
    /\ rootCid \in BOOLEAN

TypeLinks ==
    /\ listening \subseteq Instances
    /\ tasks \cup dialled \cup downloaded \subseteq Instances
    /\ served \in BOOLEAN /\ early \in BOOLEAN
    /\ outcome \in [Instances -> {"running", "ok", "unreported", "error", "panic"}]
    /\ faulty \subseteq Instances

StepInv ==
    /\ \A q \in 1..plan.n : step[q] \in 1..Len(Ops(q))
    /\ \A q \in Instances \ (1..plan.n) : step[q] = 1

WaitInv == \A q \in waiting : Ops(q)[step[q]] \in States

NumInv == \A q \in 1..plan.n : Numbered(q) <=> Sent(q, NumPos)

(* The signals that instances have given are counted, and no others.         *)
CountInv == \A s \in States : signals[s] = Cardinality(Given(s))

BarrierInv == \A q \in 1..plan.n, s \in States : Past(q, s) => signals[s] >= plan.n

LinkInv ==
    \A q \in 1..plan.n :
        /\ Past(q, "listen") => q \in listening
        /\ Past(q, "dial") => q \in dialled
        /\ Past(q, "download") => q \in downloaded
        /\ Past(q, "serve") => served
        /\ Past(q, "spawn") /\ faulty = {} => q \in tasks \cup listening

TopicInv ==
    /\ rootCid <=> \E q \in 1..plan.n : Past(q, "publish-root")
    /\ \A q \in 1..plan.n : q \in peers <=> Past(q, "publish-peer")

AwaitInv ==
    \A q \in 1..plan.n :
        /\ Past(q, "await-root") => rootCid
        /\ Past(q, "await-servers") => Servers \subseteq peers

(* The inductive invariant of what is behind the instances                   *)
CoreInv ==
    /\ TypeCore
    /\ StepInv
    /\ WaitInv
    /\ NumInv
    /\ CountInv
    /\ BarrierInv
    /\ LinkInv
    /\ TopicInv
    /\ AwaitInv

-----------------------------------------------------------------------------
(* Every step is one of three: it leaves the lists alone, or it is the       *)
(* signal of a barrier, or it takes one instance past an operation.          *)
LinksKept ==
    /\ listening \subseteq listening'
    /\ dialled \subseteq dialled'
    /\ downloaded \subseteq downloaded'
    /\ served => served'
    /\ faulty' = {} => faulty = {} /\ tasks \subseteq tasks' \cup listening'

Stays == UNCHANGED <<plan, order, step, waiting, signals, peers, rootCid>> /\ LinksKept

Passes(p, op) ==
    /\ At(p, op)
    /\ op \notin {"return", "reject"}
    /\ Advance(p)
    /\ UNCHANGED <<plan, order>>
    /\ LinksKept
    /\ IF op \in States
         THEN p \in waiting /\ waiting' = waiting \ {p} /\ signals[op] >= plan.n
         ELSE waiting' = waiting
    /\ signals' = IF op = "signal-done" THEN [signals EXCEPT !["test-done"] = @ + 1] ELSE signals
    /\ peers' = IF op = "publish-peer" THEN peers \cup {p} ELSE peers
    /\ rootCid' = IF op = "publish-root" THEN TRUE ELSE rootCid
    /\ op = "listen" => p \in listening'
    /\ op = "dial" => p \in dialled'
    /\ op = "download" => p \in downloaded'
    /\ op = "serve" => served'
    /\ op = "spawn" => p \in tasks'
    /\ op = "await-root" => rootCid
    /\ op = "await-servers" => Cardinality(peers) >= Cardinality(Servers)

LEMMA StepShape ==
  ASSUME [Next]_vars
  PROVE  \/ Stays
         \/ \E p \in 1..plan.n, s \in States : Signal(p, s)
         \/ \E p \in 1..plan.n : \E op : Passes(p, op)
<1> USE DEF LinksKept, syncVars, linkVars
<1>0. \A p, op : At(p, op) => p \in 1..plan.n
  BY DEF At, Running
<1>1. CASE UNCHANGED vars
  BY <1>1 DEF vars, Stays
<1>2. ASSUME NEW p \in Instances, Step(p) \/ Fail(p) \/ Timeout(p) \/ StackDump(p)
      PROVE  \/ Stays
             \/ \E s \in States : At(p, s) /\ Signal(p, s)
             \/ \E op : At(p, op) /\ Passes(p, op)
  <2>1. ASSUME NEW s \in States, Signal(p, s) PROVE At(p, s) /\ Signal(p, s)
    BY <2>1 DEF Signal
  <2>2. ASSUME NEW s \in States, PassBarrier(p, s) PROVE Passes(p, s)
    BY <2>2 DEF PassBarrier, BarrierOpen, Passes, States
  <2>3. CASE SignalDone(p)
    <3>1. Passes(p, "signal-done")
      BY <2>3 DEF SignalDone, Passes, States
    <3> QED BY <3>1 DEF Passes
  <2>4. CASE PublishPeer(p)
    <3>1. Passes(p, "publish-peer")
      BY <2>4 DEF PublishPeer, Passes, States
    <3> QED BY <3>1 DEF Passes
  <2>5. CASE CollectPeers(p)
    <3>1. Passes(p, "collect-peers")
      BY <2>5 DEF CollectPeers, Passes, States
    <3> QED BY <3>1 DEF Passes
  <2>6. CASE AwaitServers(p)
    <3>1. Passes(p, "await-servers")
      BY <2>6 DEF AwaitServers, ServersKnown, Passes, States
    <3> QED BY <3>1 DEF Passes
  <2>7. CASE Listen(p)
    <3>1. Passes(p, "listen")
      BY <2>7 DEF Listen, Passes, States
    <3> QED BY <3>1 DEF Passes
  <2>8. CASE Spawn(p)
    <3>1. Passes(p, "spawn")
      BY <2>8 DEF Spawn, Passes, States
    <3> QED BY <3>1 DEF Passes
  <2>9. CASE Bind(p)
    BY <2>9 DEF Bind, Stays
  <2>10. CASE PublishRoot(p)
    <3>1. Passes(p, "publish-root")
      BY <2>10 DEF PublishRoot, Passes, States
    <3> QED BY <3>1 DEF Passes
  <2>11. CASE AwaitRoot(p)
    <3>1. Passes(p, "await-root")
      BY <2>11 DEF AwaitRoot, Passes, States
    <3> QED BY <3>1 DEF Passes
  <2>12. CASE Dial(p)
    <3>1. CASE CanConnect /\ Advance(p) /\ dialled' = dialled \cup {p}
      <4>1. Passes(p, "dial")
        BY <2>12, <3>1 DEF Dial, Passes, States
      <4> QED BY <4>1 DEF Passes
    <3>2. CASE UNCHANGED <<dialled, step>>
      BY <2>12, <3>2 DEF Dial, Stays
    <3> QED BY <2>12, <3>1, <3>2 DEF Dial
  <2>13. CASE Accept(p)
    <3>1. Passes(p, "accept")
      BY <2>13 DEF Accept, Passes, States
    <3> QED BY <3>1 DEF Passes
  <2>14. CASE Serve(p)
    <3>1. CASE order[2] \in Running
      <4>1. Passes(p, "serve")
        BY <2>14, <3>1 DEF Serve, Passes, States
      <4> QED BY <4>1 DEF Passes
    <3>2. CASE order[2] \notin Running
      BY <2>14, <3>2 DEF Serve, Stays
    <3> QED BY <3>1, <3>2
  <2>15. CASE Download(p)
    <3>1. /\ At(p, "download")
          /\ \/ downloaded' = downloaded \cup {p} /\ Advance(p)
             \/ UNCHANGED <<downloaded, step>>
          /\ UNCHANGED <<plan, syncVars, listening, tasks, dialled, served, early, faulty>>
      BY <2>15, Zenon DEF Download
    <3>2. CASE downloaded' = downloaded \cup {p} /\ Advance(p)
      <4>1. Passes(p, "download")
        BY <3>1, <3>2 DEF Passes, States
      <4> QED BY <4>1 DEF Passes
    <3>3. CASE UNCHANGED <<downloaded, step>>
      BY <3>1, <3>3 DEF Stays
    <3> QED BY <3>1, <3>2, <3>3
  <2>16. CASE Reject(p)
    BY <2>16 DEF Reject, Stays
  <2>17. CASE Return(p)
    BY <2>17 DEF Return, Stays
  <2>18. CASE Fail(p)
    BY <2>18 DEF Fail, Stays
  <2>19. CASE Timeout(p)
    BY <2>19 DEF Timeout, Stays
  <2>20. CASE StackDump(p)
    BY <2>20 DEF StackDump, Stays
  <2>21. ASSUME NEW s \in States, PassBarrier(p, s) PROVE At(p, s) /\ Passes(p, s)
    BY <2>2, <2>21 DEF PassBarrier
  <2> HIDE DEF LinksKept, syncVars, linkVars
  <2> QED BY <1>2, <2>1, <2>21, <2>3, <2>4, <2>5, <2>6, <2>7, <2>8, <2>9, <2>10, <2>11, <2>12,
             <2>13, <2>14, <2>15, <2>16, <2>17, <2>18, <2>19, <2>20 DEF Step
<1> HIDE DEF LinksKept, syncVars, linkVars
<1>3. ASSUME NEW p \in Instances, Step(p) \/ Fail(p) \/ Timeout(p) \/ StackDump(p)
      PROVE  \/ Stays
             \/ \E q \in 1..plan.n, s \in States : Signal(q, s)
             \/ \E q \in 1..plan.n : \E op : Passes(q, op)
  BY <1>0, <1>2, <1>3
<1> QED BY <1>1, <1>3 DEF Next

-----------------------------------------------------------------------------
(* The lists and the roles depend on the plan and on the numbers only.       *)
LEMMA RolesKept ==
  ASSUME plan' = plan, NEW p, NEW k
  PROVE  SetupOps' = SetupOps /\ RoleOps(p, k)' = RoleOps(p, k)
<1>1. SetupOps' = SetupOps
  BY Zenon DEF SetupOps
<1>2. RoleOps(p, k)' = RoleOps(p, k)
  BY Zenon DEF RoleOps, RootOps
<1> QED BY <1>1, <1>2

LEMMA OpsKept ==
  ASSUME plan' = plan, order' = order
  PROVE  (\A q : Ops(q)' = Ops(q)) /\ Servers' = Servers /\ Clients' = Clients
<1>1. ASSUME NEW q PROVE Ops(q)' = Ops(q)
  <2>1. SeqOf(q)' = SeqOf(q)
    BY DEF SeqOf
  <2>2. SetupOps' = SetupOps /\ \A k : RoleOps(q, k)' = RoleOps(q, k)
    BY RolesKept
  <2> QED BY <2>1, <2>2 DEF Ops
<1>2. Servers' = Servers
  BY Zenon DEF Servers
<1>3. Clients' = Clients
  BY Zenon DEF Clients
<1> QED BY <1>1, <1>2, <1>3

LEMMA PlanType ==
  ASSUME TypeCore
  PROVE  /\ plan.case \in Cases
         /\ plan.n \in Nat /\ plan.n >= 2 /\ plan.n <= MaxInstances
         /\ plan.case \in RustCases => plan.n = 2
         /\ 1..plan.n \subseteq Instances
         /\ Len(order) \in Nat
         /\ \A k \in 1..Len(order) : order[k] \in 1..plan.n
BY PlanAssumption DEF TypeCore, Instances

(* The list of an instance: the set-up, and its role once it has a number    *)
LEMMA OpsFacts ==
  ASSUME TypeCore, NEW q \in 1..plan.n
  PROVE  /\ Len(Ops(q)) \in 1..10 /\ Len(SetupOps) <= Len(Ops(q))
         /\ \A i \in 1..Len(SetupOps) : Ops(q)[i] = SetupOps[i]
         /\ ~ Numbered(q) => Len(Ops(q)) = Len(SetupOps)
         /\ \A k \in 1..Len(order) : order[k] = q =>
               /\ Len(Ops(q)) = Len(SetupOps) + Len(RoleOps(q, k))
               /\ \A i \in 1..Len(RoleOps(q, k)) : Ops(q)[Len(SetupOps) + i] = RoleOps(q, k)[i]
<1>1. SetupOps \in Seq(OpNames) /\ Len(SetupOps) \in 1..5
  BY SetupKeepsFacts, PlanType DEF SetupFacts
<1>2. CASE ~ Numbered(q)
  <2>1. Ops(q) = SetupOps
    BY <1>2 DEF Ops, SeqOf, Numbered
  <2>2. \A k \in 1..Len(order) : order[k] # q
    BY <1>2 DEF Numbered
  <2> QED BY <1>1, <1>2, <2>1, <2>2
<1>3. CASE Numbered(q)
  <2>1. PICK k \in 1..Len(order) : order[k] = q
    BY <1>3 DEF Numbered
  <2>2. SeqOf(q) = {k}
    BY <2>1 DEF SeqOf, TypeCore
  <2>3. Ops(q) = SetupOps \o RoleOps(q, k)
    BY <2>2 DEF Ops
  <2>4. k \in Nat \ {0}
    BY PlanType
  <2>5. RoleShape(RoleOps(q, k))
    BY <2>4, RolesKeepFacts, PlanType DEF RoleFacts
  <2>6. /\ RoleOps(q, k) \in Seq(OpNames)
        /\ Len(RoleOps(q, k)) \in 1..7
        /\ Len(SetupOps) + Len(RoleOps(q, k)) <= 10
    BY <2>5 DEF RoleShape
  <2> DEFINE s == SetupOps
             t == RoleOps(q, k)
  <2>7. Len(s \o t) = Len(s) + Len(t)
    BY <1>1, <2>6, ConcatProperties, Zenon
  <2>8. \A i \in 1..Len(s) + Len(t) : (s \o t)[i] = IF i <= Len(s) THEN s[i] ELSE t[i - Len(s)]
    BY <1>1, <2>6, ConcatProperties, Zenon
  <2> HIDE DEF s, t
  <2>9. Len(s) \in 1..5 /\ Len(t) \in 1..7 /\ Len(s) + Len(t) <= 10 /\ Ops(q) = s \o t
    BY <1>1, <2>6, <2>3 DEF s, t
  <2>10. \A i \in 1..Len(s) : Ops(q)[i] = s[i]
    BY <2>8, <2>9
  <2>11. ASSUME NEW i \in 1..Len(t) PROVE Ops(q)[Len(s) + i] = t[i]
    <3>1. Len(s) + i \in 1..Len(s) + Len(t) /\ ~ (Len(s) + i <= Len(s)) /\ (Len(s) + i) - Len(s) = i
      BY <2>9
    <3> QED BY <2>8, <2>9, <3>1
  <2>12. \A j \in 1..Len(order) : order[j] = q => j = k
    BY <2>1 DEF TypeCore
  <2>13. Len(Ops(q)) = Len(s) + Len(t) /\ Len(Ops(q)) \in 1..10 /\ Len(s) <= Len(Ops(q))
    <3>1. Len(Ops(q)) = Len(s) + Len(t)
      BY <2>7, <2>9, Zenon
    <3>2. Len(s) \in 1..5 /\ Len(t) \in 1..7 /\ Len(s) + Len(t) <= 10
      BY <2>9
    <3>3. \A a \in 1..5, b \in 1..7 : \A x : x = a + b /\ a + b <= 10 => x \in 1..10 /\ a <= x
      OBVIOUS
    <3> QED BY <3>1, <3>2, <3>3, Zenon
  <2>14. ASSUME NEW j \in 1..Len(order), order[j] = q
         PROVE  /\ Len(Ops(q)) = Len(SetupOps) + Len(RoleOps(q, j))
                /\ \A i \in 1..Len(RoleOps(q, j)) :
                      Ops(q)[Len(SetupOps) + i] = RoleOps(q, j)[i]
    <3>1. j = k
      BY <2>12, <2>14
    <3> QED BY <3>1, <2>11, <2>13 DEF s, t
  <2> QED BY <1>3, <2>10, <2>13, <2>14 DEF s
<1> QED BY <1>2, <1>3

(* The last operation of an instance that has a number ends it.              *)
LEMMA LastEnds ==
  ASSUME TypeCore, NEW q \in 1..plan.n, Numbered(q)
  PROVE  Ops(q)[Len(Ops(q))] \in {"return", "reject"} /\ Len(Ops(q)) > NumPos
<1>1. PICK k \in 1..Len(order) : order[k] = q
  BY DEF Numbered
<1>2. k \in Nat \ {0}
  BY PlanType
<1>3. RoleShape(RoleOps(q, k))
  BY <1>2, RolesKeepFacts, PlanType DEF RoleFacts
<1>4. SetupFacts(SetupOps)
  BY SetupKeepsFacts, PlanType
<1>5. /\ Len(Ops(q)) = Len(SetupOps) + Len(RoleOps(q, k))
      /\ \A i \in 1..Len(RoleOps(q, k)) : Ops(q)[Len(SetupOps) + i] = RoleOps(q, k)[i]
  BY <1>1, OpsFacts
<1>6. Len(SetupOps) \in 1..5 /\ NumPos \in 1..Len(SetupOps)
  BY <1>4 DEF SetupFacts
<1>7. Len(RoleOps(q, k)) \in 1..7 /\ RoleOps(q, k)[Len(RoleOps(q, k))] \in {"return", "reject"}
  BY <1>3 DEF RoleShape
<1> QED BY <1>5, <1>6, <1>7

(* An instance behind a barrier or an operation other than the first         *)
(* ConfigureNetwork has a number; and an operation that is not of the set-up *)
(* is one of its role.                                                       *)
LEMMA InRole ==
  ASSUME TypeCore, NEW q \in 1..plan.n, NEW i \in 1..Len(Ops(q)),
         \A j \in 1..Len(SetupOps) : SetupOps[j] # Ops(q)[i]
  PROVE  \E k \in 1..Len(order) :
            /\ order[k] = q
            /\ RoleFacts(RoleOps(q, k), q, k)
            /\ \E j \in 1..Len(RoleOps(q, k)) :
                  i = Len(SetupOps) + j /\ RoleOps(q, k)[j] = Ops(q)[i]
<1>0. SetupFacts(SetupOps)
  BY SetupKeepsFacts, PlanType
<1>1. Len(SetupOps) \in 1..5
  BY <1>0 DEF SetupFacts
<1>2. Len(Ops(q)) \in 1..10 /\ Len(SetupOps) <= Len(Ops(q)) /\ \A j \in 1..Len(SetupOps) : Ops(q)[j] = SetupOps[j]
  BY OpsFacts
<1>3. i > Len(SetupOps)
  BY <1>1, <1>2
<1>4. Numbered(q)
  BY <1>1, <1>2, <1>3, OpsFacts
<1>5. PICK k \in 1..Len(order) : order[k] = q
  BY <1>4 DEF Numbered
<1>6. k \in Nat \ {0}
  BY PlanType
<1>7. RoleFacts(RoleOps(q, k), q, k)
  BY <1>6, RolesKeepFacts, PlanType
<1>8. Len(RoleOps(q, k)) \in 1..7
  BY <1>7 DEF RoleFacts, RoleShape
<1>9. /\ Len(Ops(q)) = Len(SetupOps) + Len(RoleOps(q, k))
      /\ \A j \in 1..Len(RoleOps(q, k)) : Ops(q)[Len(SetupOps) + j] = RoleOps(q, k)[j]
  BY <1>5, OpsFacts
<1>10. i - Len(SetupOps) \in 1..Len(RoleOps(q, k)) /\ i = Len(SetupOps) + (i - Len(SetupOps))
  BY <1>1, <1>2, <1>3, <1>8, <1>9
<1>11. RoleOps(q, k)[i - Len(SetupOps)] = Ops(q)[i]
  BY <1>9, <1>10
<1> QED BY <1>5, <1>7, <1>10, <1>11

(* The numbering signal is at NumPos and nowhere else.                       *)
LEMMA NumAtNumPos ==
  ASSUME TypeCore, NEW q \in 1..plan.n, NEW i \in 1..Len(Ops(q))
  PROVE  /\ NumPos \in 1..2 /\ NumPos <= Len(Ops(q))
         /\ Ops(q)[NumPos] = SetupOps[NumPos]
         /\ SetupOps[NumPos] \in {"ip-allocation", "initialized"}
         /\ Ops(q)[i] \in {"ip-allocation", "initialized"} => i = NumPos
         /\ i < NumPos => Ops(q)[i] = "network-configured"
         /\ Ops(q)[i] = "network-configured" => i \in NetPos
<1>0. SetupFacts(SetupOps)
  BY SetupKeepsFacts, PlanType
<1>1. Len(Ops(q)) \in 1..10 /\ Len(SetupOps) <= Len(Ops(q)) /\ \A j \in 1..Len(SetupOps) : Ops(q)[j] = SetupOps[j]
  BY OpsFacts
<1>2. Len(SetupOps) \in 1..5 /\ NumPos \in 1..Len(SetupOps) /\ NumPos \in 1..2
  BY <1>0 DEF SetupFacts, NumPos
<1>3. SetupOps[NumPos] \in {"ip-allocation", "initialized"}
  BY <1>0 DEF SetupFacts
<1>4. CASE i <= Len(SetupOps)
  <2>1. i \in 1..Len(SetupOps) /\ Ops(q)[i] = SetupOps[i]
    BY <1>1, <1>2, <1>4
  <2>2. /\ SetupOps[i] \in {"ip-allocation", "initialized"} => i = NumPos
        /\ i < NumPos => SetupOps[i] = "network-configured"
        /\ SetupOps[i] = "network-configured" => i \in NetPos
    BY <1>0, <2>1 DEF SetupFacts
  <2> QED BY <1>1, <1>2, <1>3, <2>1, <2>2
<1>5. CASE i > Len(SetupOps)
  <2>1. Numbered(q)
    BY <1>1, <1>2, <1>5, OpsFacts
  <2>2. PICK k \in 1..Len(order) : order[k] = q
    BY <2>1 DEF Numbered
  <2>3. RoleShape(RoleOps(q, k))
    BY RolesKeepFacts, PlanType DEF RoleFacts
  <2>4. i - Len(SetupOps) \in 1..Len(RoleOps(q, k)) /\ Ops(q)[i] = RoleOps(q, k)[i - Len(SetupOps)]
    <3>1. /\ Len(Ops(q)) = Len(SetupOps) + Len(RoleOps(q, k))
          /\ \A j \in 1..Len(RoleOps(q, k)) : Ops(q)[Len(SetupOps) + j] = RoleOps(q, k)[j]
      BY <2>2, OpsFacts
    <3>2. Len(RoleOps(q, k)) \in 1..7
      BY <2>3 DEF RoleShape
    <3>3. i - Len(SetupOps) \in 1..Len(RoleOps(q, k)) /\ i = Len(SetupOps) + (i - Len(SetupOps))
      BY <1>1, <1>2, <1>5, <3>1, <3>2
    <3> QED BY <3>1, <3>3
  <2>5. Ops(q)[i] \notin {"ip-allocation", "initialized", "network-configured"}
    BY <2>3, <2>4 DEF RoleShape
  <2> QED BY <1>1, <1>2, <1>3, <1>5, <2>5
<1> QED BY <1>1, <1>2, <1>4, <1>5

-----------------------------------------------------------------------------
(* Counting.  A state other than the one of ConfigureNetwork is signalled at *)
(* one position of a list at most.                                           *)
LEMMA OnceInOps ==
  ASSUME TypeCore, NEW q \in 1..plan.n, NEW s \in States \ {"network-configured"},
         NEW i \in 1..Len(Ops(q)), Ops(q)[i] \in Signalling(s),
         NEW j \in 1..Len(Ops(q)), Ops(q)[j] \in Signalling(s)
  PROVE  i = j
<1>1. CASE s \in {"ip-allocation", "initialized"}
  <2>1. Ops(q)[i] \in {"ip-allocation", "initialized"} /\ Ops(q)[j] \in {"ip-allocation", "initialized"}
    BY <1>1 DEF Signalling
  <2> QED BY <2>1, NumAtNumPos
<1>2. CASE s \notin {"ip-allocation", "initialized"}
  <2>0. SetupFacts(SetupOps)
    BY SetupKeepsFacts, PlanType
  <2>1. \A l \in 1..Len(SetupOps) : SetupOps[l] \notin Signalling(s)
    BY <1>2, <2>0 DEF SetupFacts, Signalling, States
  <2>8. \A l \in 1..Len(SetupOps) : SetupOps[l] # Ops(q)[i] /\ SetupOps[l] # Ops(q)[j]
    BY <2>1
  <2>2. PICK k \in 1..Len(order) :
            /\ order[k] = q
            /\ RoleFacts(RoleOps(q, k), q, k)
            /\ \E l \in 1..Len(RoleOps(q, k)) :
                  i = Len(SetupOps) + l /\ RoleOps(q, k)[l] = Ops(q)[i]
    BY <2>8, InRole
  <2>3. PICK m \in 1..Len(order) :
            /\ order[m] = q
            /\ \E l \in 1..Len(RoleOps(q, m)) :
                  j = Len(SetupOps) + l /\ RoleOps(q, m)[l] = Ops(q)[j]
    BY <2>8, InRole
  <2>4. m = k
    BY <2>2, <2>3 DEF TypeCore
  <2>5. PICK a \in 1..Len(RoleOps(q, k)) : i = Len(SetupOps) + a /\ RoleOps(q, k)[a] = Ops(q)[i]
    BY <2>2
  <2>6. PICK b \in 1..Len(RoleOps(q, k)) : j = Len(SetupOps) + b /\ RoleOps(q, k)[b] = Ops(q)[j]
    BY <2>3, <2>4
  <2>7. a = b
    BY <2>2, <2>5, <2>6 DEF RoleFacts, RoleOnce
  <2> QED BY <2>5, <2>6, <2>7
<1> QED BY <1>1, <1>2

LEMMA InstanceCount ==
  ASSUME TypeCore
  PROVE  IsFiniteSet(1..plan.n) /\ Cardinality(1..plan.n) = plan.n
<1>1. plan.n \in Int /\ plan.n >= 2 /\ 1 \in Int
  BY PlanType
<1>2. IsFiniteSet(1..plan.n) /\ Cardinality(1..plan.n) = IF 1 > plan.n THEN 0 ELSE plan.n - 1 + 1
  BY <1>1, FS_Interval, Zenon
<1> QED BY <1>1, <1>2

LEMMA GivenFinite == ASSUME TypeCore, NEW s PROVE IsFiniteSet(Given(s))
<1>1. IsFiniteSet(1..plan.n) /\ IsFiniteSet(1..10)
  <2>1. 1 \in Int /\ 10 \in Int
    OBVIOUS
  <2>2. IsFiniteSet(1..10)
    BY <2>1, FS_Interval, Zenon
  <2> QED BY <2>2, InstanceCount
<1>2. IsFiniteSet((1..plan.n) \X (1..10))
  BY <1>1, FS_Product
<1>3. Given(s) \in SUBSET ((1..plan.n) \X (1..10))
  BY DEF Given
<1> QED BY <1>2, <1>3, FS_Subset

LEMMA GivenBound ==
  ASSUME TypeCore, NEW s \in States \ {"network-configured"}
  PROVE  /\ Cardinality(Given(s)) <= plan.n
         /\ Cardinality(Given(s)) = plan.n =>
               \A q \in 1..plan.n : \E i \in 1..Len(Ops(q)) : Sent(q, i) /\ Ops(q)[i] \in Signalling(s)
<1> DEFINE G == Given(s)
           f == [x \in G |-> x[1]]
<1>1. IsFiniteSet(1..plan.n) /\ Cardinality(1..plan.n) = plan.n
  BY InstanceCount
<1>2. ASSUME NEW x \in G
      PROVE  /\ x[1] \in 1..plan.n /\ x[2] \in 1..10 /\ x = <<x[1], x[2]>>
             /\ Sent(x[1], x[2])
             /\ x[2] \in 1..Len(Ops(x[1]))
             /\ Ops(x[1])[x[2]] \in Signalling(s)
  <2>1. x[1] \in 1..plan.n /\ x[2] \in 1..10 /\ x = <<x[1], x[2]>>
    BY DEF Given
  <2>2. Sent(x[1], x[2]) /\ x[2] <= Len(Ops(x[1])) /\ Ops(x[1])[x[2]] \in Signalling(s)
    BY DEF Given
  <2>3. Len(Ops(x[1])) \in 1..10
    BY <2>1, OpsFacts
  <2> QED BY <2>1, <2>2, <2>3
<1>3. ASSUME NEW x \in G, NEW y \in G, x[1] = y[1] PROVE x = y
  <2>1. x[2] = y[2]
    BY <1>2, <1>3, OnceInOps
  <2> QED BY <1>2, <1>3, <2>1
<1> HIDE DEF G
<1>4. f \in [G -> 1..plan.n]
  BY <1>2
<1>5. f \in Injection(G, 1..plan.n)
  BY <1>3, <1>4 DEF Injection, IsInjective
<1>6. /\ Cardinality(G) <= plan.n
      /\ Cardinality(G) = plan.n => f \in Surjection(G, 1..plan.n)
  BY <1>1, <1>5, FS_Injection
<1>7. ASSUME Cardinality(G) = plan.n, NEW q \in 1..plan.n
      PROVE  \E i \in 1..Len(Ops(q)) : Sent(q, i) /\ Ops(q)[i] \in Signalling(s)
  <2>1. PICK x \in G : f[x] = q
    BY <1>6, <1>7 DEF Surjection
  <2>2. x[1] = q
    BY <2>1
  <2> QED BY <1>2, <2>2
<1> QED BY <1>6, <1>7 DEF G

LEMMA NetworkBound ==
  ASSUME TypeCore
  PROVE  Cardinality(Given("network-configured")) <= 2 * plan.n
<1> DEFINE G == Given("network-configured")
<1>1. IsFiniteSet(1..plan.n) /\ Cardinality(1..plan.n) = plan.n
  BY InstanceCount
<1>2. IsFiniteSet({1, 5}) /\ Cardinality({1, 5}) = 2
  <2>1. IsFiniteSet({1}) /\ Cardinality({1}) = 1
    BY FS_Singleton
  <2>2. {1, 5} = {1} \cup {5} /\ 5 \notin {1}
    OBVIOUS
  <2> QED BY <2>1, <2>2, FS_AddElement
<1>3. IsFiniteSet({2}) /\ Cardinality({2}) = 1
  BY FS_Singleton
<1>4. IsFiniteSet(NetPos) /\ Cardinality(NetPos) \in 1..2
  BY <1>2, <1>3 DEF NetPos
<1>5. /\ IsFiniteSet((1..plan.n) \X NetPos)
      /\ Cardinality((1..plan.n) \X NetPos) = plan.n * Cardinality(NetPos)
  BY <1>1, <1>4, FS_Product
<1>6. plan.n * Cardinality(NetPos) <= 2 * plan.n
  BY <1>4, PlanType
<1>7. ASSUME NEW x \in G PROVE x \in (1..plan.n) \X NetPos
  <2>1. x[1] \in 1..plan.n /\ x[2] \in 1..10 /\ x = <<x[1], x[2]>>
    BY DEF Given
  <2>2. x[2] <= Len(Ops(x[1])) /\ Ops(x[1])[x[2]] = "network-configured"
    BY DEF Given, Signalling
  <2>3. Len(Ops(x[1])) \in 1..10
    BY <2>1, OpsFacts
  <2>4. x[2] \in 1..Len(Ops(x[1]))
    BY <2>1, <2>2, <2>3
  <2>5. x[2] \in NetPos
    BY <2>1, <2>2, <2>4, NumAtNumPos
  <2> QED BY <2>1, <2>5
<1>8. Cardinality(G) <= Cardinality((1..plan.n) \X NetPos)
  BY <1>5, <1>7, FS_Subset
<1>9. Cardinality(G) \in Nat
  BY GivenFinite, FS_CardinalityType
<1> HIDE DEF G
<1>10. Cardinality(G) <= 2 * plan.n
  BY <1>5, <1>6, <1>8, <1>9, <1>4, PlanType
<1> QED BY <1>10 DEF G

(* Whoever passed a barrier knows that everyone has come to it.              *)
LEMMA Everyone ==
  ASSUME TypeCore, CountInv, NEW s \in States \ {"network-configured"}, signals[s] >= plan.n
  PROVE  /\ signals[s] = plan.n
         /\ \A q \in 1..plan.n :
               \E i \in 1..Len(Ops(q)) : Sent(q, i) /\ Ops(q)[i] \in Signalling(s)
<1>1. Cardinality(Given(s)) \in Nat
  BY GivenFinite, FS_CardinalityType
<1>2. signals[s] \in Nat /\ signals[s] <= Cardinality(Given(s))
  BY DEF TypeCore, CountInv
<1>3. Cardinality(Given(s)) <= plan.n
  BY GivenBound
<1>4. signals[s] = plan.n /\ Cardinality(Given(s)) = plan.n
  BY <1>1, <1>2, <1>3, PlanType
<1> QED BY <1>4, GivenBound

-----------------------------------------------------------------------------
(* What the order of the operations says of the instances                    *)
LEMMA PastListed ==
  ASSUME TypeCore, StepInv, NEW q \in 1..plan.n, NEW op, Past(q, op)
  PROVE  \E i \in 1..Len(Ops(q)) : Sent(q, i) /\ Ops(q)[i] = op
<1>1. PICK i \in 1..step[q] - 1 : Ops(q)[i] = op
  BY DEF Past
<1>2. step[q] \in 1..Len(Ops(q)) /\ Len(Ops(q)) \in 1..10
  BY OpsFacts DEF StepInv
<1>3. i \in 1..Len(Ops(q)) /\ i < step[q]
  BY <1>2
<1> QED BY <1>1, <1>3 DEF Sent

LEMMA Ordered ==
  ASSUME TypeCore, StepInv, NEW q \in 1..plan.n,
         NEW i \in 1..Len(Ops(q)), Sent(q, i) \/ i = step[q],
         \A j \in 1..Len(SetupOps) : SetupOps[j] # Ops(q)[i],
         NEW k \in 1..Len(order), order[k] = q,
         NEW B, \A j \in 1..Len(RoleOps(q, k)) : RoleOps(q, k)[j] = Ops(q)[i] =>
                    \E l \in 1..j - 1 : RoleOps(q, k)[l] \in B
  PROVE  \E b \in B : Past(q, b)
<1>1. PICK m \in 1..Len(order) :
            /\ order[m] = q
            /\ RoleFacts(RoleOps(q, m), q, m)
            /\ \E j \in 1..Len(RoleOps(q, m)) :
                  i = Len(SetupOps) + j /\ RoleOps(q, m)[j] = Ops(q)[i]
  BY InRole
<1>2. m = k
  BY <1>1 DEF TypeCore
<1>3. PICK j \in 1..Len(RoleOps(q, k)) : i = Len(SetupOps) + j /\ RoleOps(q, k)[j] = Ops(q)[i]
  BY <1>1, <1>2
<1>4. PICK l \in 1..j - 1 : RoleOps(q, k)[l] \in B
  BY <1>3
<1>5. Len(SetupOps) \in 1..5
  BY SetupKeepsFacts, PlanType DEF SetupFacts
<1>6. Len(RoleOps(q, k)) \in 1..7
  BY <1>1, <1>2 DEF RoleFacts, RoleShape
<1>7. Ops(q)[Len(SetupOps) + l] = RoleOps(q, k)[l]
  <2>1. l \in 1..Len(RoleOps(q, k))
    BY <1>6
  <2> QED BY <2>1, OpsFacts
<1>8. step[q] \in 1..Len(Ops(q)) /\ Len(Ops(q)) \in 1..10
  BY OpsFacts DEF StepInv
<1>9. Len(SetupOps) + l \in 1..step[q] - 1
  <2>1. i <= step[q]
    BY <1>8 DEF Sent
  <2> QED BY <2>1, <1>3, <1>5, <1>6, <1>8, SMTT(30)
<1>10. Past(q, RoleOps(q, k)[l])
  BY <1>7, <1>9 DEF Past
<1> QED BY <1>4, <1>10

LEMMA RoleSets ==
  ASSUME TypeCore
  PROVE  /\ IsFiniteSet(Servers) /\ Servers \subseteq 1..plan.n /\ Clients \subseteq 1..plan.n
         /\ \A q \in Servers, k \in 1..Len(order) : order[k] = q => IsServer(q, k)
         /\ \A k \in 1..Len(order) : IsServer(order[k], k) => order[k] \in Servers
         /\ ~ Awaits => \A q \in Servers : 1 \in 1..Len(order) /\ q = order[1]
         /\ \A q \in Clients, k \in 1..Len(order) : order[k] = q => IsClient(q, k)
         /\ \A k \in 1..Len(order) : IsClient(order[k], k) => order[k] \in Clients
<1> DEFINE S1 == Providers \cap 1..plan.n
           S2 == {order[k] : k \in {i \in 1..Len(order) : i % 2 = 0}}
           S3 == {order[k] : k \in 1..Len(order) \cap {1}}
           C1 == 1..plan.n \ Providers
           C2 == {order[k] : k \in {i \in 1..Len(order) : i % 2 = 1}}
           C3 == {order[k] : k \in 1..Len(order) \cap {2}}
<1>0. /\ \A k \in 1..Len(order) : order[k] \in 1..plan.n
      /\ \A j, k \in 1..Len(order) : order[j] = order[k] => j = k
  BY PlanType DEF TypeCore
<1>1. /\ plan.case = "kubo" => Servers = S1 /\ Clients = C1
      /\ plan.case \in RustCases => Servers = S2 /\ Clients = C2
      /\ ~ Awaits => Servers = S3 /\ Clients = C3
  BY Zenon DEF Servers, Clients, Awaits, RustCases
<1>2. plan.case = "kubo" \/ plan.case \in RustCases \/ ~ Awaits
  BY DEF Awaits
<1>3. Servers \subseteq 1..plan.n /\ Clients \subseteq 1..plan.n
  BY <1>0, <1>1, <1>2
<1>4. IsFiniteSet(Servers)
  BY <1>3, InstanceCount, FS_Subset
<1>5. CASE plan.case = "kubo"
  BY <1>0, <1>1, <1>3, <1>4, <1>5 DEF IsServer, IsClient, Awaits
<1>6. CASE plan.case \in RustCases
  <2>1. plan.case # "kubo"
    BY <1>6 DEF RustCases
  <2>2. ASSUME NEW q \in Servers, NEW k \in 1..Len(order), order[k] = q PROVE k % 2 = 0
    BY <1>0, <1>1, <1>6, <2>2
  <2>3. ASSUME NEW q \in Clients, NEW k \in 1..Len(order), order[k] = q PROVE k % 2 = 1
    BY <1>0, <1>1, <1>6, <2>3
  <2>4. \A k \in 1..Len(order) : k % 2 = 0 => order[k] \in Servers
    BY <1>1, <1>6
  <2>5. \A k \in 1..Len(order) : k % 2 = 1 => order[k] \in Clients
    BY <1>1, <1>6
  <2> QED BY <1>3, <1>4, <1>6, <2>1, <2>2, <2>3, <2>4, <2>5 DEF IsServer, IsClient, Awaits
<1>7. CASE ~ Awaits
  <2>1. plan.case # "kubo" /\ plan.case \notin RustCases
    BY <1>7 DEF Awaits
  <2>2. ASSUME NEW q \in Servers PROVE 1 \in 1..Len(order) /\ q = order[1]
    BY <1>1, <1>7
  <2>3. ASSUME NEW q \in Clients PROVE 2 \in 1..Len(order) /\ q = order[2]
    BY <1>1, <1>7
  <2>4. \A k \in 1..Len(order) : k = 1 => order[k] \in Servers
    BY <1>1, <1>7
  <2>5. \A k \in 1..Len(order) : k = 2 => order[k] \in Clients
    BY <1>1, <1>7
  <2> QED BY <1>0, <1>3, <1>4, <2>1, <2>2, <2>3, <2>4, <2>5 DEF IsServer, IsClient
<1> QED BY <1>2, <1>5, <1>6, <1>7

(* A server that has come to its gate listens.                               *)
LEMMA GateListens ==
  ASSUME CoreInv, plan.case # "quic", NEW q \in Servers,
         NEW i \in 1..Len(Ops(q)), Sent(q, i), Ops(q)[i] = Gate
  PROVE  q \in listening
<1> USE DEF CoreInv
<1>1. q \in 1..plan.n
  BY RoleSets
<1>2. \A j \in 1..Len(SetupOps) : SetupOps[j] # Ops(q)[i]
  BY SetupKeepsFacts, PlanType DEF SetupFacts, Gate
<1>3. PICK k \in 1..Len(order) : order[k] = q /\ RoleFacts(RoleOps(q, k), q, k)
  BY <1>1, <1>2, InRole
<1>4. Preceded(RoleOps(q, k), Gate, "listen")
  BY <1>3, RoleSets DEF RoleFacts, RoleOrder
<1>5. \E b \in {"listen"} : Past(q, b)
  <2> DEFINE B == {"listen"}
  <2>1. \A j \in 1..Len(RoleOps(q, k)) : RoleOps(q, k)[j] = Ops(q)[i] =>
            \E l \in 1..j - 1 : RoleOps(q, k)[l] \in B
    BY <1>4 DEF Preceded
  <2>2. TypeCore /\ StepInv
    OBVIOUS
  <2> HIDE DEF CoreInv, B
  <2>3. \E b \in B : Past(q, b)
    BY <1>1, <1>2, <1>3, <2>1, <2>2, Ordered
  <2> QED BY <2>3 DEF B
<1> QED BY <1>1, <1>5 DEF LinkInv

(* The heart of NeverEarly: a client that may dial finds every server        *)
(* listening.                                                                *)
LEMMA ServersListen ==
  ASSUME CoreInv, plan.case # "quic", NEW p \in 1..plan.n, Past(p, Pass)
  PROVE  Servers \subseteq listening
<1> USE DEF CoreInv
<1> SUFFICES ASSUME NEW q \in Servers PROVE q \in listening
  OBVIOUS
<1>0. q \in 1..plan.n
  BY RoleSets
<1>1. CASE Awaits
  <2>1. q \in peers
    BY <1>1 DEF AwaitInv, Pass
  <2>2. Past(q, Gate)
    BY <1>0, <1>1, <2>1 DEF TopicInv, Gate
  <2> QED BY <1>0, <2>2, PastListed, GateListens
<1>2. CASE ~ Awaits /\ plan.case \in {"tcp", "libp2p"}
  <2>1. Gate = Pass /\ Gate \in States \ {"network-configured"} /\ Signalling(Gate) = {Gate}
    BY <1>2 DEF Gate, Pass, States, Signalling
  <2>2. signals[Gate] >= plan.n
    BY <2>1 DEF BarrierInv
  <2>3. \E i \in 1..Len(Ops(q)) : Sent(q, i) /\ Ops(q)[i] \in Signalling(Gate)
    BY <1>0, <2>1, <2>2, Everyone
  <2> QED BY <2>1, <2>3, GateListens
<1>3. CASE ~ Awaits /\ plan.case \notin {"tcp", "libp2p"}
  <2>1. Pass = "await-root" /\ Gate = "publish-root"
    BY <1>3 DEF Pass, Gate
  <2>2. rootCid
    BY <2>1 DEF AwaitInv
  <2>3. PICK r \in 1..plan.n : Past(r, "publish-root")
    BY <2>2 DEF TopicInv
  <2>4. PICK i \in 1..Len(Ops(r)) : Sent(r, i) /\ Ops(r)[i] = "publish-root"
    BY <2>3, PastListed
  <2>5. \A j \in 1..Len(SetupOps) : SetupOps[j] # Ops(r)[i]
    BY <2>4, SetupKeepsFacts, PlanType DEF SetupFacts
  <2>6. PICK k \in 1..Len(order) :
            /\ order[k] = r
            /\ RoleFacts(RoleOps(r, k), r, k)
            /\ \E j \in 1..Len(RoleOps(r, k)) :
                  i = Len(SetupOps) + j /\ RoleOps(r, k)[j] = Ops(r)[i]
    BY <2>5, InRole, Zenon
  <2>7. IsServer(r, k)
    BY <2>4, <2>6 DEF RoleFacts, RoleOrder
  <2>8. r \in Servers
    BY <2>6, <2>7, RoleSets
  <2>9. q = r
    BY <1>3, <2>8, RoleSets
  <2> QED BY <2>1, <2>4, <2>8, <2>9, GateListens
<1> QED BY <1>1, <1>2, <1>3

(* The heart of SuccessMeansDownloaded: when test-done is full every client  *)
(* has what it came for.                                                     *)
LEMMA ClientsDone ==
  ASSUME CoreInv, signals["test-done"] >= plan.n
  PROVE  signals["test-done"] = plan.n /\ Clients \subseteq Transferred
<1> USE DEF CoreInv
<1>1. "test-done" \in States \ {"network-configured"}
  BY DEF States
<1>2. signals["test-done"] = plan.n
  BY <1>1, Everyone
<1>3. ASSUME NEW q \in Clients PROVE q \in Transferred
  <2>0. q \in 1..plan.n
    BY RoleSets
  <2>1. PICK i \in 1..Len(Ops(q)) : Sent(q, i) /\ Ops(q)[i] \in Signalling("test-done")
    BY <1>1, <2>0, Everyone
  <2>2. \A j \in 1..Len(SetupOps) : SetupOps[j] # Ops(q)[i]
    BY <2>1, SetupKeepsFacts, PlanType DEF SetupFacts, Signalling
  <2>3. PICK k \in 1..Len(order) : order[k] = q /\ RoleFacts(RoleOps(q, k), q, k)
    BY <2>0, <2>2, InRole
  <2>4. Preceded(RoleOps(q, k), Ops(q)[i], Goal)
    BY <2>1, <2>3, RoleSets DEF RoleFacts, RoleOrder, Signalling
  <2>5. \E b \in {Goal} : Past(q, b)
    <3> DEFINE B == {Goal}
    <3>1. \A j \in 1..Len(RoleOps(q, k)) : RoleOps(q, k)[j] = Ops(q)[i] =>
              \E l \in 1..j - 1 : RoleOps(q, k)[l] \in B
      BY <2>4 DEF Preceded
    <3>2. TypeCore /\ StepInv
      OBVIOUS
    <3> HIDE DEF CoreInv, B
    <3>3. \E b \in B : Past(q, b)
      BY <2>0, <2>1, <2>2, <2>3, <3>1, <3>2, Ordered
    <3> QED BY <3>3 DEF B
  <2> QED BY <2>0, <2>5 DEF LinkInv, Transferred, Goal
<1> QED BY <1>2, <1>3

-----------------------------------------------------------------------------
(* A number that is given extends one list and changes no other.             *)
LEMMA OpsAppend ==
  ASSUME TypeCore, NEW p \in 1..plan.n, ~ Numbered(p), plan' = plan, order' = Append(order, p)
  PROVE  /\ \A q \in 1..plan.n : q # p => Ops(q)' = Ops(q)
         /\ Len(Ops(p)') \in Nat /\ Len(Ops(p)) <= Len(Ops(p)')
         /\ \A i \in 1..Len(Ops(p)) : Ops(p)'[i] = Ops(p)[i]
<1>1. order \in Seq(1..plan.n) /\ Len(order) \in Nat
  BY PlanType DEF TypeCore
<1>2. /\ Len(order') = Len(order) + 1
      /\ \A k \in 1..Len(order) : order'[k] = order[k]
      /\ order'[Len(order) + 1] = p
  BY <1>1
<1>3. ASSUME NEW q \in 1..plan.n, q # p PROVE Ops(q)' = Ops(q)
  <2>1. SeqOf(q)' = SeqOf(q)
    BY <1>1, <1>2, <1>3 DEF SeqOf
  <2>2. SetupOps' = SetupOps /\ \A k : RoleOps(q, k)' = RoleOps(q, k)
    BY RolesKept
  <2> QED BY <2>1, <2>2 DEF Ops
<1>4. Ops(p) = SetupOps
  BY DEF Ops, SeqOf, Numbered
<1>5. SeqOf(p)' = {Len(order) + 1}
  BY <1>1, <1>2 DEF SeqOf, Numbered
<1>6. PICK k \in Nat \ {0} : k = Len(order) + 1
  BY <1>1
<1>7. SetupOps' = SetupOps /\ \A j : RoleOps(p, j)' = RoleOps(p, j)
  BY RolesKept
<1>8. Ops(p)' = SetupOps \o RoleOps(p, k)
  BY <1>5, <1>6, <1>7 DEF Ops
<1>9. SetupOps \in Seq(OpNames) /\ Len(SetupOps) \in 1..5
  BY SetupKeepsFacts, PlanType DEF SetupFacts
<1>10. RoleOps(p, k) \in Seq(OpNames) /\ Len(RoleOps(p, k)) \in 1..7
  BY RolesKeepFacts, PlanType DEF RoleFacts, RoleShape
<1> DEFINE s == SetupOps
           t == RoleOps(p, k)
<1>11. Len(s \o t) = Len(s) + Len(t)
  BY <1>9, <1>10, ConcatProperties, Zenon
<1>12. \A i \in 1..Len(s) + Len(t) : (s \o t)[i] = IF i <= Len(s) THEN s[i] ELSE t[i - Len(s)]
  BY <1>9, <1>10, ConcatProperties, Zenon
<1> HIDE DEF s, t
<1>13. Len(s) \in 1..5 /\ Len(t) \in 1..7 /\ Ops(p) = s /\ Ops(p)' = s \o t
  BY <1>4, <1>8, <1>9, <1>10 DEF s, t
<1>14. \A i \in 1..Len(s) : Ops(p)'[i] = s[i]
  BY <1>12, <1>13
<1>15. \A a \in 1..5, b \in 1..7 : \A x : x = a + b => x \in Nat /\ a <= x
  OBVIOUS
<1>16. Len(Ops(p)') = Len(s) + Len(t)
  BY <1>11, <1>13, Zenon
<1>17. Len(Ops(p)') \in Nat /\ Len(s) <= Len(Ops(p)')
  BY <1>13, <1>15, <1>16, Zenon
<1> QED BY <1>3, <1>13, <1>14, <1>17

LEMMA GivenGrows ==
  ASSUME NEW G, IsFiniteSet(G), NEW x, x \notin G
  PROVE  Cardinality(G \cup {x}) = Cardinality(G) + 1
BY FS_AddElement

LEMMA StaysKeeps == ASSUME CoreInv, Stays PROVE CoreInv'
<1> USE DEF Stays
<1>0. TypeCore /\ StepInv /\ WaitInv /\ NumInv /\ CountInv /\ BarrierInv /\ LinkInv /\ TopicInv /\ AwaitInv
  BY DEF CoreInv
<1>1. (\A q : Ops(q)' = Ops(q)) /\ Servers' = Servers
  BY OpsKept
<1>2. \A q, i : Sent(q, i)' <=> Sent(q, i)
  BY DEF Sent
<1>3. \A q, op : Past(q, op)' <=> Past(q, op)
  BY <1>1 DEF Past
<1>4. \A s : Given(s)' = Given(s)
  BY <1>1, <1>2 DEF Given, Signalling
<1>5. TypeCore'
  BY <1>0 DEF TypeCore
<1>6. StepInv'
  BY <1>0, <1>1 DEF StepInv
<1>7. WaitInv'
  BY <1>0, <1>1 DEF WaitInv
<1>8. NumInv'
  BY <1>0, <1>2 DEF NumInv, Numbered, NumPos
<1>9. CountInv'
  BY <1>0, <1>4 DEF CountInv
<1>10. BarrierInv'
  BY <1>0, <1>3 DEF BarrierInv
<1>11. LinkInv'
  BY <1>0, <1>3 DEF LinkInv, LinksKept
<1>12. TopicInv'
  BY <1>0, <1>3 DEF TopicInv
<1>13. AwaitInv'
  BY <1>0, <1>1, <1>3 DEF AwaitInv
<1> QED BY <1>5, <1>6, <1>7, <1>8, <1>9, <1>10, <1>11, <1>12, <1>13 DEF CoreInv

(* A signal at the numbering state numbers an instance that had no number.   *)
LEMMA NumberOnce ==
  ASSUME CoreInv, NEW p \in 1..plan.n, NEW s \in {"ip-allocation", "initialized"}, Signal(p, s)
  PROVE  step[p] = NumPos /\ ~ Sent(p, NumPos) /\ ~ Numbered(p) /\ s = SetupOps[NumPos]
<1>1. step[p] \in 1..Len(Ops(p)) /\ Ops(p)[step[p]] = s /\ p \notin waiting
  BY DEF CoreInv, StepInv, Signal, At
<1>2. TypeCore /\ NumInv
  BY DEF CoreInv
<1>3. step[p] = NumPos /\ NumPos \in 1..2 /\ Ops(p)[NumPos] = SetupOps[NumPos]
  BY <1>1, <1>2, NumAtNumPos
<1>4. ~ Sent(p, NumPos)
  BY <1>1, <1>3 DEF Sent
<1> QED BY <1>1, <1>2, <1>3, <1>4 DEF NumInv

LEMMA SignalKeeps ==
  ASSUME CoreInv, NEW p \in 1..plan.n, NEW s \in States, Signal(p, s)
  PROVE  CoreInv'
<1>0. TypeCore /\ StepInv /\ WaitInv /\ NumInv /\ CountInv /\ BarrierInv /\ LinkInv /\ TopicInv /\ AwaitInv
  BY DEF CoreInv
<1>1. /\ Ops(p)[step[p]] = s /\ p \notin waiting
      /\ waiting' = waiting \cup {p}
      /\ signals' = [signals EXCEPT ![s] = @ + 1]
      /\ order' = IF s \in {"ip-allocation", "initialized"} THEN Append(order, p) ELSE order
      /\ UNCHANGED <<plan, step, peers, rootCid, listening, tasks, dialled, served, downloaded,
                     faulty>>
  BY DEF Signal, At, linkVars
<1>2. plan.n \in Nat /\ 1..plan.n \subseteq Instances /\ Len(order) \in Nat /\ order \in Seq(1..plan.n)
  BY <1>0, PlanType DEF TypeCore
<1>3. \A q \in 1..plan.n : step[q] \in 1..Len(Ops(q)) /\ Len(Ops(q)) \in 1..10
  BY <1>0, OpsFacts DEF StepInv
<1>4. \A q \in 1..plan.n :
         /\ Len(Ops(q)') \in Nat /\ Len(Ops(q)) <= Len(Ops(q)')
         /\ \A i \in 1..Len(Ops(q)) : Ops(q)'[i] = Ops(q)[i]
  <2>1. CASE s \in {"ip-allocation", "initialized"}
    <3>1. ~ Numbered(p)
      BY <2>1, NumberOnce
    <3>2. order' = Append(order, p) /\ plan' = plan
      BY <1>1, <2>1
    <3>3. /\ \A q \in 1..plan.n : q # p => Ops(q)' = Ops(q)
          /\ Len(Ops(p)') \in Nat /\ Len(Ops(p)) <= Len(Ops(p)')
          /\ \A i \in 1..Len(Ops(p)) : Ops(p)'[i] = Ops(p)[i]
      BY <1>0, <3>1, <3>2, OpsAppend
    <3>4. ASSUME NEW q \in 1..plan.n, q # p
          PROVE  /\ Len(Ops(q)') \in Nat /\ Len(Ops(q)) <= Len(Ops(q)')
                 /\ \A i \in 1..Len(Ops(q)) : Ops(q)'[i] = Ops(q)[i]
      BY <1>3, <3>3, <3>4
    <3> QED BY <3>3, <3>4
  <2>2. CASE s \notin {"ip-allocation", "initialized"}
    <3>1. \A q : Ops(q)' = Ops(q)
      BY <1>1, <2>2, OpsKept
    <3> QED BY <1>3, <3>1
  <2> QED BY <2>1, <2>2
<1>5. \A q \in 1..plan.n : \A op : Past(q, op)' <=> Past(q, op)
  <2> SUFFICES ASSUME NEW q \in 1..plan.n, NEW op PROVE Past(q, op)' <=> Past(q, op)
    OBVIOUS
  <2>1. \A i \in 1..step[q] - 1 : i \in 1..Len(Ops(q))
    BY <1>3
  <2>2. \A i \in 1..step[q] - 1 : Ops(q)'[i] = Ops(q)[i]
    BY <1>4, <2>1
  <2> QED BY <1>1, <2>2 DEF Past
<1>6. \A q \in 1..plan.n : \A i : Sent(q, i) => Sent(q, i)'
  BY <1>1 DEF Sent
<1>7. TypeCore'
  <2>1. order' \in Seq(1..plan.n)
    <3>1. order \in Seq(1..plan.n) /\ Append(order, p) \in Seq(1..plan.n)
      BY <1>2
    <3>2. order' = order \/ order' = Append(order, p)
      BY <1>1
    <3> QED BY <3>1, <3>2, Zenon
  <2>2. ASSUME NEW j \in 1..Len(order'), NEW k \in 1..Len(order'), order'[j] = order'[k] PROVE j = k
    <3>1. CASE s \in {"ip-allocation", "initialized"}
      <4>1. order' = Append(order, p) /\ \A l \in 1..Len(order) : order[l] # p
        BY <1>1, <3>1, NumberOnce DEF Numbered
      <4>2. /\ Len(order') = Len(order) + 1
            /\ \A l \in 1..Len(order) : order'[l] = order[l]
            /\ order'[Len(order) + 1] = p
        BY <1>2, <4>1
      <4>3. \A l, m \in 1..Len(order) : order[l] = order[m] => l = m
        BY <1>0 DEF TypeCore
      <4> QED BY <1>2, <2>2, <4>1, <4>2, <4>3
    <3>2. CASE s \notin {"ip-allocation", "initialized"}
      BY <1>0, <1>1, <2>2, <3>2 DEF TypeCore
    <3> QED BY <3>1, <3>2
  <2> QED BY <1>0, <1>1, <2>1, <2>2 DEF TypeCore
<1>8. StepInv'
  <2>1. ASSUME NEW q \in 1..plan.n PROVE step[q] \in 1..Len(Ops(q)')
    BY <1>3, <1>4
  <2> QED BY <1>0, <1>1, <2>1 DEF StepInv
<1>9. WaitInv'
  <2>1. ASSUME NEW q \in waiting \cup {p} PROVE Ops(q)'[step[q]] \in States
    <3>1. q \in 1..plan.n
      BY <1>0 DEF TypeCore
    <3>2. Ops(q)[step[q]] \in States
      BY <1>0, <1>1 DEF WaitInv
    <3> QED BY <1>3, <1>4, <3>1, <3>2
  <2> QED BY <1>1, <2>1 DEF WaitInv
<1>10. NumInv'
  <2>0. NumPos' = NumPos
    BY <1>1 DEF NumPos
  <2>1. ASSUME NEW q \in 1..plan.n, q # p PROVE Numbered(q)' <=> Sent(q, NumPos)'
    <3>1. Sent(q, NumPos)' <=> Sent(q, NumPos)
      BY <1>1, <2>0, <2>1 DEF Sent
    <3>2. Numbered(q)' <=> Numbered(q)
      BY <1>1, <1>2, <2>1 DEF Numbered
    <3> QED BY <1>0, <3>1, <3>2 DEF NumInv
  <2>2. Numbered(p)' <=> Sent(p, NumPos)'
    <3>1. CASE s \in {"ip-allocation", "initialized"}
      <4>1. order' = Append(order, p) /\ step[p] = NumPos
        BY <1>1, <3>1, NumberOnce
      <4>2. Len(order') = Len(order) + 1 /\ order'[Len(order) + 1] = p
        BY <1>2, <4>1
      <4>3. Numbered(p)'
        BY <1>2, <4>2 DEF Numbered
      <4>4. Sent(p, NumPos)'
        BY <1>1, <2>0, <4>1 DEF Sent
      <4> QED BY <4>3, <4>4
    <3>2. CASE s \notin {"ip-allocation", "initialized"}
      <4>1. step[p] # NumPos
        <5>1. Ops(p)[NumPos] \in {"ip-allocation", "initialized"}
          BY <1>0, <1>3, NumAtNumPos
        <5> QED BY <1>1, <3>2, <5>1
      <4>2. Sent(p, NumPos)' <=> Sent(p, NumPos)
        BY <1>1, <2>0, <4>1 DEF Sent
      <4>3. Numbered(p)' <=> Numbered(p)
        BY <1>1, <3>2 DEF Numbered
      <4> QED BY <1>0, <4>2, <4>3 DEF NumInv
    <3> QED BY <3>1, <3>2
  <2> QED BY <1>1, <2>1, <2>2 DEF NumInv
<1>11. CountInv'
  <2> SUFFICES ASSUME NEW r \in States PROVE (signals[r] = Cardinality(Given(r)))'
    BY DEF CountInv
  <2> DEFINE H == Given(r)'
  <2>2. ASSUME NEW x \in Given(r) PROVE x \in H
    <3>1. /\ x \in (1..plan.n) \X (1..10)
          /\ Sent(x[1], x[2])
          /\ x[2] <= Len(Ops(x[1]))
          /\ Ops(x[1])[x[2]] \in Signalling(r)
      BY DEF Given
    <3>2. PICK q \in 1..plan.n, i \in 1..10 : x = <<q, i>>
      BY <3>1
    <3>3. Sent(q, i)' /\ i \in 1..Len(Ops(q))
      BY <1>3, <1>6, <3>1, <3>2
    <3>4. i <= Len(Ops(q)') /\ Ops(q)'[i] \in Signalling(r)
      BY <1>3, <1>4, <3>1, <3>2, <3>3
    <3> QED BY <1>1, <3>2, <3>3, <3>4 DEF Given, Signalling
  <2>3. r = s => <<p, step[p]>> \in H \ Given(r)
    <3>1. step[p] \in 1..10 /\ step[p] <= Len(Ops(p)') /\ Ops(p)'[step[p]] = s
      <4>1. step[p] \in 1..Len(Ops(p)) /\ Len(Ops(p)) \in 1..10
        BY <1>3
      <4>2. Len(Ops(p)') \in Nat /\ Len(Ops(p)) <= Len(Ops(p)')
        BY <1>4
      <4>3. Ops(p)'[step[p]] = s
        BY <1>1, <1>4, <4>1
      <4>4. step[p] \in 1..10 /\ step[p] <= Len(Ops(p)')
        <5>1. \A a \in 1..10, b \in Nat : \A x \in 1..a : a <= b => x \in 1..10 /\ x <= b
          OBVIOUS
        <5> QED BY <4>1, <4>2, <5>1, Zenon
      <4> QED BY <4>3, <4>4
    <3>2. Sent(p, step[p])' /\ ~ Sent(p, step[p])
      BY <1>1, <1>3 DEF Sent
    <3>3. s \in Signalling(s)
      BY DEF Signalling
    <3>4. r = s => <<p, step[p]>> \in H
      BY <1>1, <3>1, <3>2, <3>3 DEF Given, Signalling
    <3>5. <<p, step[p]>> \notin Given(r)
      BY <3>2 DEF Given
    <3> QED BY <3>4, <3>5
  <2>4. ASSUME NEW x \in H PROVE x \in Given(r) \/ (r = s /\ x = <<p, step[p]>>)
    <3>1. /\ x \in (1..plan.n) \X (1..10)
          /\ Sent(x[1], x[2])'
          /\ Ops(x[1])'[x[2]] \in Signalling(r)
      BY <1>1 DEF Given, Signalling
    <3>2. PICK q \in 1..plan.n, i \in 1..10 : x = <<q, i>>
      BY <3>1
    <3>3. Sent(q, i) \/ (q = p /\ i = step[p])
      BY <1>1, <3>1, <3>2 DEF Sent
    <3>4. i \in 1..Len(Ops(q)) /\ i <= Len(Ops(q))
      <4>1. \A a \in 1..10 : \A y \in 1..a : \A z \in 1..10 :
                z < y \/ z = y => z \in 1..a /\ z <= a
        OBVIOUS
      <4>2. i < step[q] \/ i = step[q]
        BY <3>3 DEF Sent
      <4> QED BY <1>3, <4>1, <4>2
    <3>5. Ops(q)[i] \in Signalling(r)
      BY <1>4, <3>1, <3>2, <3>4
    <3>6. CASE Sent(q, i)
      BY <3>2, <3>4, <3>5, <3>6 DEF Given
    <3>7. CASE q = p /\ i = step[p]
      BY <1>1, <3>2, <3>5, <3>7 DEF Signalling, States
    <3> QED BY <3>3, <3>6, <3>7
  <2>5. signals[r] \in Nat /\ signals[r] = Cardinality(Given(r)) /\ IsFiniteSet(Given(r))
    BY <1>0, GivenFinite DEF TypeCore, CountInv
  <2>6. signals'[r] = IF r = s THEN signals[r] + 1 ELSE signals[r]
    BY <1>0, <1>1 DEF TypeCore
  <2> HIDE DEF H
  <2>7. H = IF r = s THEN Given(r) \cup {<<p, step[p]>>} ELSE Given(r)
    BY <2>2, <2>3, <2>4
  <2>8. Cardinality(H) = IF r = s THEN Cardinality(Given(r)) + 1 ELSE Cardinality(Given(r))
    BY <2>3, <2>5, <2>7, GivenGrows
  <2> QED BY <2>5, <2>6, <2>8 DEF H
<1>12. BarrierInv'
  <2>1. \A r \in States : signals[r] \in Nat /\ signals'[r] \in Nat /\ signals'[r] >= signals[r]
    BY <1>0, <1>1 DEF TypeCore
  <2>2. ASSUME NEW q \in 1..plan.n, NEW r \in States, Past(q, r)' PROVE signals'[r] >= plan.n
    <3>1. signals[r] >= plan.n
      BY <1>0, <1>5, <2>2 DEF BarrierInv
    <3> QED BY <1>2, <2>1, <3>1
  <2> QED BY <1>1, <2>2 DEF BarrierInv
<1>13. LinkInv'
  BY <1>0, <1>1, <1>5 DEF LinkInv
<1>14. TopicInv'
  <2>1. peers \subseteq 1..plan.n
    BY <1>0 DEF TypeCore
  <2> QED BY <1>0, <1>1, <1>5, <2>1 DEF TopicInv
<1>15. AwaitInv'
  <2>1. ASSUME NEW q \in 1..plan.n, Past(q, "await-servers")
        PROVE  Servers' \subseteq peers
    <3>1. Servers \subseteq peers
      BY <1>0, <2>1 DEF AwaitInv
    <3>2. CASE s \notin {"ip-allocation", "initialized"}
      BY <1>1, <3>1, <3>2, OpsKept
    <3>3. CASE s \in {"ip-allocation", "initialized"}
      <4>1. PICK i \in 1..step[q] - 1 : Ops(q)[i] = "await-servers"
        BY <2>1 DEF Past
      <4>2. i \in 1..Len(Ops(q))
        BY <1>3
      <4>3. NumPos \in 1..2 /\ Ops(q)[NumPos] = s /\ i > NumPos
        <5>1. /\ NumPos \in 1..2 /\ Ops(q)[NumPos] = SetupOps[NumPos]
              /\ i < NumPos => Ops(q)[i] = "network-configured"
          BY <1>0, <4>2, NumAtNumPos
        <5>2. s = SetupOps[NumPos]
          BY <3>3, NumberOnce
        <5> QED BY <3>3, <4>1, <5>1, <5>2
      <4>4. Past(q, s)
        BY <1>3, <4>1, <4>3 DEF Past
      <4>5. signals[s] >= plan.n
        BY <1>0, <4>4 DEF BarrierInv
      <4>6. s \in States \ {"network-configured"} /\ Signalling(s) = {s}
        BY <3>3 DEF Signalling
      <4>7. PICK j \in 1..Len(Ops(p)) : Sent(p, j) /\ Ops(p)[j] = s
        BY <1>0, <4>5, <4>6, Everyone
      <4>8. j = NumPos
        BY <1>0, <3>3, <4>7, NumAtNumPos
      <4> QED BY <3>3, <4>7, <4>8, NumberOnce
    <3> QED BY <3>2, <3>3
  <2> QED BY <1>0, <1>1, <1>5, <2>1 DEF AwaitInv
<1> QED BY <1>7, <1>8, <1>9, <1>10, <1>11, <1>12, <1>13, <1>14, <1>15 DEF CoreInv

(* Only servers are on the topic a client awaits, so all are when it goes on. *)
LEMMA AllPublished ==
  ASSUME CoreInv, NEW p \in 1..plan.n, Ops(p)[step[p]] = "await-servers",
         Cardinality(peers) >= Cardinality(Servers)
  PROVE  Servers \subseteq peers
<1>0. TypeCore /\ StepInv /\ TopicInv
  BY DEF CoreInv
<1>1. SetupFacts(SetupOps)
  BY <1>0, SetupKeepsFacts, PlanType
<1>2. Awaits
  <2>1. step[p] \in 1..Len(Ops(p))
    BY <1>0 DEF StepInv
  <2>2. \A j \in 1..Len(SetupOps) : SetupOps[j] # Ops(p)[step[p]]
    BY <1>1 DEF SetupFacts
  <2>3. PICK i \in 1..Len(Ops(p)) : i = step[p]
    BY <2>1
  <2>4. PICK k \in 1..Len(order) :
            /\ RoleFacts(RoleOps(p, k), p, k)
            /\ \E j \in 1..Len(RoleOps(p, k)) : RoleOps(p, k)[j] = Ops(p)[i]
    BY <1>0, <2>2, <2>3, InRole
  <2> QED BY <2>3, <2>4 DEF RoleFacts, RoleOrder
<1>3. ASSUME NEW q \in peers PROVE q \in Servers
  <2>1. q \in 1..plan.n /\ Past(q, "publish-peer")
    BY <1>0 DEF TypeCore, TopicInv
  <2>2. PICK i \in 1..Len(Ops(q)) : Sent(q, i) /\ Ops(q)[i] = "publish-peer"
    BY <1>0, <2>1, PastListed
  <2>3. \A j \in 1..Len(SetupOps) : SetupOps[j] # Ops(q)[i]
    BY <1>1, <1>2, <2>2 DEF SetupFacts
  <2>4. PICK k \in 1..Len(order) :
            /\ order[k] = q
            /\ RoleFacts(RoleOps(q, k), q, k)
            /\ \E j \in 1..Len(RoleOps(q, k)) : RoleOps(q, k)[j] = Ops(q)[i]
    BY <1>0, <2>1, <2>3, InRole
  <2>5. IsServer(q, k)
    BY <2>2, <2>4 DEF RoleFacts, RoleOrder
  <2> QED BY <1>0, <2>4, <2>5, RoleSets
<1>4. IsFiniteSet(Servers)
  BY <1>0, RoleSets
<1>5. peers \in SUBSET Servers
  BY <1>3
<1>6. /\ IsFiniteSet(peers) /\ Cardinality(peers) <= Cardinality(Servers)
      /\ Cardinality(Servers) = Cardinality(peers) => Servers = peers
  BY <1>4, <1>5, FS_Subset
<1>7. Cardinality(peers) \in Nat /\ Cardinality(Servers) \in Nat
  BY <1>4, <1>6, FS_CardinalityType
<1> QED BY <1>6, <1>7

LEMMA PassesKeeps ==
  ASSUME CoreInv, NEW p \in 1..plan.n, NEW op, Passes(p, op)
  PROVE  CoreInv'
<1>0. TypeCore /\ StepInv /\ WaitInv /\ NumInv /\ CountInv /\ BarrierInv /\ LinkInv /\ TopicInv /\ AwaitInv
  BY DEF CoreInv
<1>1. /\ Ops(p)[step[p]] = op
      /\ op \notin {"return", "reject"}
      /\ step' = [step EXCEPT ![p] = @ + 1]
      /\ UNCHANGED <<plan, order>>
      /\ LinksKept
  BY DEF Passes, At, Advance
<1>2. IF op \in States
        THEN p \in waiting /\ waiting' = waiting \ {p} /\ signals[op] >= plan.n
        ELSE waiting' = waiting
  BY DEF Passes
<1>3. /\ signals' = IF op = "signal-done" THEN [signals EXCEPT !["test-done"] = @ + 1] ELSE signals
      /\ peers' = IF op = "publish-peer" THEN peers \cup {p} ELSE peers
      /\ rootCid' = IF op = "publish-root" THEN TRUE ELSE rootCid
  BY DEF Passes
<1>4. plan.n \in Nat /\ 1..plan.n \subseteq Instances
  BY <1>0, PlanType
<1>5. \A q \in 1..plan.n : step[q] \in 1..Len(Ops(q)) /\ Len(Ops(q)) \in 1..10
  BY <1>0, OpsFacts DEF StepInv
<1>6. (\A q : Ops(q)' = Ops(q)) /\ Servers' = Servers
  BY <1>1, OpsKept
<1>7. /\ \A q \in Instances : step'[q] = IF q = p THEN step[q] + 1 ELSE step[q]
      /\ \A q \in 1..plan.n : step[q] \in Nat /\ step'[q] \in Nat
  <2>1. step \in [Instances -> Nat] /\ step' = [step EXCEPT ![p] = @ + 1] /\ p \in Instances
    BY <1>0, <1>1, <1>4 DEF TypeCore
  <2>2. \A q \in Instances :
            step[q] \in Nat /\ step'[q] = IF q = p THEN step[q] + 1 ELSE step[q]
    BY <2>1
  <2>3. \A q \in Instances : step'[q] \in Nat
    BY <2>2
  <2> QED BY <1>4, <2>2, <2>3
<1>8. p \notin waiting'
  <2>1. CASE op \in States
    BY <1>2, <2>1
  <2>2. CASE op \notin States
    BY <1>0, <1>1, <1>2, <2>2 DEF WaitInv
  <2> QED BY <2>1, <2>2
<1>9. \A q \in 1..plan.n : q # p => (q \in waiting' <=> q \in waiting)
  BY <1>2
<1>10. \A q \in 1..plan.n : \A o : Past(q, o)' <=> Past(q, o) \/ (q = p /\ o = op)
  <2> SUFFICES ASSUME NEW q \in 1..plan.n, NEW o
               PROVE  Past(q, o)' <=> Past(q, o) \/ (q = p /\ o = op)
    OBVIOUS
  <2>1. Past(q, o)' <=> \E i \in 1..step'[q] - 1 : Ops(q)[i] = o
    BY <1>6 DEF Past
  <2>2. CASE q # p
    <3>1. step'[q] = step[q]
      BY <1>4, <1>7, <2>2
    <3> QED BY <2>1, <2>2, <3>1 DEF Past
  <2>3. CASE q = p
    <3>1. step'[p] - 1 = step[p] /\ step[p] \in Nat /\ step[p] >= 1
      <4>1. step'[p] = step[p] + 1 /\ step[p] \in Nat
        BY <1>4, <1>7
      <4>2. step[p] >= 1
        <5>1. \A a \in 1..10 : \A x \in 1..a : x >= 1
          OBVIOUS
        <5> QED BY <1>5, <5>1
      <4> QED BY <4>1, <4>2
    <3>2. \A i : i \in 1..step[p] <=> i \in 1..step[p] - 1 \/ i = step[p]
      BY <3>1
    <3> QED BY <1>1, <2>1, <2>3, <3>1, <3>2 DEF Past
  <2> QED BY <2>2, <2>3
<1>11. \A q \in 1..plan.n : \A i \in Nat : Sent(q, i) => Sent(q, i)'
  <2> SUFFICES ASSUME NEW q \in 1..plan.n, NEW i \in Nat, Sent(q, i) PROVE Sent(q, i)'
    OBVIOUS
  <2>1. CASE q # p
    BY <1>4, <1>7, <1>9, <2>1 DEF Sent
  <2>2. CASE q = p
    <3>1. i <= step[p]
      BY <1>7, <2>2 DEF Sent
    <3>2. i < step'[p]
      BY <1>4, <1>7, <3>1
    <3> QED BY <2>2, <3>2 DEF Sent
  <2> QED BY <2>1, <2>2
<1>12. /\ NumPos \in 1..2 /\ Ops(p)[NumPos] \in {"ip-allocation", "initialized"}
       /\ step[p] < NumPos => op = "network-configured"
  BY <1>0, <1>1, <1>5, NumAtNumPos
<1>13. ASSUME Sent(p, NumPos)' PROVE Sent(p, NumPos)
  <2>1. CASE step[p] = NumPos
    <3>1. op \in States
      BY <1>1, <1>12, <2>1 DEF States
    <3> QED BY <1>2, <2>1, <3>1 DEF Sent
  <2>2. CASE step[p] # NumPos
    <3>1. NumPos' = NumPos
      BY <1>1 DEF NumPos
    <3>2. NumPos < step'[p]
      BY <1>8, <1>13, <3>1 DEF Sent
    <3> QED BY <1>4, <1>7, <1>12, <2>2, <3>2 DEF Sent
  <2> QED BY <2>1, <2>2
<1>14. TypeCore'
  <2>1. step' \in [Instances -> Nat]
    BY <1>0, <1>1, <1>4 DEF TypeCore
  <2>2. waiting' \subseteq 1..plan.n
    BY <1>0, <1>2 DEF TypeCore
  <2>3. signals' \in [States -> Nat]
    BY <1>0, <1>3 DEF TypeCore, States
  <2>4. peers' \subseteq 1..plan.n /\ rootCid' \in BOOLEAN
    BY <1>0, <1>3 DEF TypeCore
  <2> QED BY <1>0, <1>1, <2>1, <2>2, <2>3, <2>4 DEF TypeCore
<1>15. StepInv'
  <2>1. step[p] < Len(Ops(p))
    <3>1. CASE Numbered(p)
      <4>1. Ops(p)[Len(Ops(p))] \in {"return", "reject"}
        BY <1>0, <3>1, LastEnds
      <4>2. step[p] # Len(Ops(p))
        BY <1>1, <4>1
      <4> QED BY <1>5, <4>2
    <3>2. CASE ~ Numbered(p)
      <4>1. ~ Sent(p, NumPos)
        BY <1>0, <3>2 DEF NumInv
      <4>2. step[p] <= NumPos
        BY <1>5, <1>12, <4>1 DEF Sent
      <4>3. step[p] # NumPos
        <5>1. ASSUME step[p] = NumPos PROVE op \in States
          BY <1>1, <1>12, <5>1 DEF States
        <5> QED BY <1>2, <4>1, <5>1 DEF Sent
      <4>4. NumPos <= Len(Ops(p))
        BY <1>0, <1>5, NumAtNumPos
      <4> QED BY <1>5, <1>12, <4>2, <4>3, <4>4
    <3> QED BY <3>1, <3>2
  <2>2. ASSUME NEW q \in 1..plan.n PROVE step'[q] \in 1..Len(Ops(q))
    <3>1. CASE q = p
      <4>1. step'[q] = step[q] + 1
        BY <1>4, <1>7, <3>1
      <4>2. \A a \in 1..10 : \A x \in 1..a : x < a => x + 1 \in 1..a
        OBVIOUS
      <4>3. step[q] \in 1..Len(Ops(q)) /\ Len(Ops(q)) \in 1..10 /\ step[q] < Len(Ops(q))
        BY <1>5, <2>1, <3>1
      <4> QED BY <4>1, <4>2, <4>3
    <3>2. CASE q # p
      <4>1. step'[q] = step[q]
        BY <1>4, <1>7, <3>2
      <4> QED BY <1>5, <4>1
    <3> QED BY <3>1, <3>2
  <2>3. ASSUME NEW q \in Instances \ (1..plan.n) PROVE step'[q] = 1
    BY <1>0, <1>7 DEF StepInv
  <2> QED BY <1>1, <1>6, <2>2, <2>3 DEF StepInv
<1>16. WaitInv'
  <2>1. ASSUME NEW q \in waiting' PROVE Ops(q)[step'[q]] \in States
    <3>1. q # p /\ q \in waiting /\ q \in 1..plan.n
      BY <1>0, <1>2, <1>8 DEF TypeCore
    <3>2. step'[q] = step[q]
      BY <1>4, <1>7, <3>1
    <3> QED BY <1>0, <3>1, <3>2 DEF WaitInv
  <2> QED BY <1>6, <2>1 DEF WaitInv
<1>17. NumInv'
  <2>0. NumPos' = NumPos
    BY <1>1 DEF NumPos
  <2>1. ASSUME NEW q \in 1..plan.n PROVE Numbered(q)' <=> Sent(q, NumPos)'
    <3>1. Numbered(q)' <=> Numbered(q)
      BY <1>1 DEF Numbered
    <3>2. CASE q = p
      <4>1. Sent(p, NumPos) => Sent(p, NumPos)'
        BY <1>4, <1>5, <1>7, <1>12, <2>0 DEF Sent
      <4> QED BY <1>0, <1>13, <3>1, <3>2, <4>1 DEF NumInv
    <3>3. CASE q # p
      <4>1. Sent(q, NumPos)' <=> Sent(q, NumPos)
        BY <1>4, <1>7, <1>9, <2>0, <3>3 DEF Sent
      <4> QED BY <1>0, <3>1, <4>1 DEF NumInv
    <3> QED BY <3>2, <3>3
  <2> QED BY <1>1, <2>1 DEF NumInv
<1>18. CountInv'
  <2> SUFFICES ASSUME NEW r \in States PROVE (signals[r] = Cardinality(Given(r)))'
    BY DEF CountInv
  <2> DEFINE H == Given(r)'
  <2>2. ASSUME NEW x \in Given(r) PROVE x \in H
    <3>1. /\ x \in (1..plan.n) \X (1..10)
          /\ Sent(x[1], x[2])
          /\ x[2] <= Len(Ops(x[1]))
          /\ Ops(x[1])[x[2]] \in Signalling(r)
      BY DEF Given
    <3>2. PICK q \in 1..plan.n, i \in 1..10 : x = <<q, i>>
      BY <3>1
    <3>3. Sent(q, i)'
      BY <1>11, <3>1, <3>2
    <3>4. i <= Len(Ops(q)') /\ Ops(q)'[i] \in Signalling(r)
      BY <1>6, <3>1, <3>2
    <3> QED BY <1>1, <3>2, <3>3, <3>4 DEF Given, Signalling
  <2>3. ASSUME r = "test-done", op = "signal-done" PROVE <<p, step[p]>> \in H \ Given(r)
    <3>0. PICK i \in 1..10 : i = step[p] /\ i <= Len(Ops(p)) /\ Ops(p)[i] = op
      <4>1. \A a \in 1..10 : \A x \in 1..a : x \in 1..10 /\ x <= a
        OBVIOUS
      <4>2. step[p] \in 1..10 /\ step[p] <= Len(Ops(p))
        BY <1>5, <4>1
      <4> QED BY <1>1, <4>2
    <3>1. i < step'[p]
      BY <1>4, <1>5, <1>7, <3>0, SMTT(30)
    <3>2. Sent(p, i)'
      BY <3>1 DEF Sent
    <3>3. ~ Sent(p, i)
      <4>1. op \notin States
        BY <2>3 DEF States
      <4> QED BY <1>2, <1>5, <1>8, <3>0, <4>1 DEF Sent
    <3>4. <<p, i>> \in H
      BY <1>1, <1>6, <2>3, <3>0, <3>2 DEF Given, Signalling
    <3>5. <<p, i>> \notin Given(r)
      BY <3>3 DEF Given
    <3> QED BY <3>0, <3>4, <3>5
  <2> DEFINE counted == r = "test-done" /\ op = "signal-done"
  <2>4. ASSUME NEW x \in H PROVE x \in Given(r) \/ (counted /\ x = <<p, step[p]>>)
    <3>1. /\ x \in (1..plan.n) \X (1..10)
          /\ Sent(x[1], x[2])'
          /\ x[2] <= Len(Ops(x[1]))
          /\ Ops(x[1])[x[2]] \in Signalling(r)
      BY <1>1, <1>6 DEF Given, Signalling
    <3>2. PICK q \in 1..plan.n, i \in 1..10 : x = <<q, i>>
      BY <3>1
    <3>3. CASE Sent(q, i)
      BY <3>1, <3>2, <3>3 DEF Given
    <3>4. CASE ~ Sent(q, i)
      <4>1. q = p
        <5>1. ASSUME q # p PROVE FALSE
          <6>1. step'[q] = step[q] /\ (q \in waiting' <=> q \in waiting)
            BY <1>4, <1>7, <1>9, <5>1
          <6> QED BY <3>1, <3>2, <3>4, <6>1 DEF Sent
        <5> QED BY <5>1
      <4>2. i = step[p] /\ p \notin waiting
        <5>1. i < step[p] + 1
          BY <1>4, <1>7, <1>8, <3>1, <3>2, <4>1 DEF Sent
        <5>2. step[p] \in Nat /\ ~ (i < step[p])
          BY <1>7, <3>4, <4>1 DEF Sent
        <5> QED BY <3>4, <4>1, <5>1, <5>2 DEF Sent
      <4>3. op \notin States /\ op \in Signalling(r)
        BY <1>1, <1>2, <3>1, <3>2, <4>1, <4>2
      <4> QED BY <3>2, <4>1, <4>2, <4>3 DEF Signalling
    <3> QED BY <3>3, <3>4
  <2>5. signals[r] \in Nat /\ signals[r] = Cardinality(Given(r)) /\ IsFiniteSet(Given(r))
    BY <1>0, GivenFinite DEF TypeCore, CountInv
  <2>6. signals'[r] = IF counted THEN signals[r] + 1 ELSE signals[r]
    BY <1>0, <1>3 DEF TypeCore
  <2> HIDE DEF H
  <2>7. H = IF counted THEN Given(r) \cup {<<p, step[p]>>} ELSE Given(r)
    BY <2>2, <2>3, <2>4
  <2>8. Cardinality(H) = IF counted THEN Cardinality(Given(r)) + 1 ELSE Cardinality(Given(r))
    BY <2>3, <2>5, <2>7, GivenGrows
  <2> QED BY <2>5, <2>6, <2>8 DEF H
<1>19. BarrierInv'
  <2>1. \A r \in States : signals[r] \in Nat /\ signals'[r] \in Nat /\ signals'[r] >= signals[r]
    BY <1>0, <1>3 DEF TypeCore
  <2>2. ASSUME NEW q \in 1..plan.n, NEW r \in States, Past(q, r)' PROVE signals'[r] >= plan.n
    <3>1. signals[r] >= plan.n
      BY <1>0, <1>2, <1>10, <2>2 DEF BarrierInv
    <3> QED BY <1>4, <2>1, <3>1
  <2> QED BY <1>1, <2>2 DEF BarrierInv
<1>20. LinkInv'
  <2>1. /\ op = "listen" => p \in listening'
        /\ op = "dial" => p \in dialled'
        /\ op = "download" => p \in downloaded'
        /\ op = "serve" => served'
        /\ op = "spawn" => p \in tasks'
    BY DEF Passes
  <2>2. ASSUME NEW q \in 1..plan.n, Past(q, "spawn")', faulty' = {}
        PROVE  q \in tasks' \cup listening'
    BY <1>0, <1>1, <1>10, <2>1, <2>2 DEF LinkInv, LinksKept
  <2>3. ASSUME NEW q \in 1..plan.n
        PROVE  /\ Past(q, "listen")' => q \in listening'
               /\ Past(q, "dial")' => q \in dialled'
               /\ Past(q, "download")' => q \in downloaded'
               /\ Past(q, "serve")' => served'
    BY <1>0, <1>1, <1>10, <2>1 DEF LinkInv, LinksKept
  <2> QED BY <1>1, <2>2, <2>3 DEF LinkInv
<1>21. TopicInv'
  <2>1. peers \subseteq 1..plan.n
    BY <1>0 DEF TypeCore
  <2>2. rootCid' <=> \E q \in 1..plan.n : Past(q, "publish-root")'
    <3>1. CASE op = "publish-root"
      BY <1>3, <1>10, <3>1
    <3>2. CASE op # "publish-root"
      BY <1>0, <1>3, <1>10, <3>2 DEF TopicInv
    <3> QED BY <3>1, <3>2
  <2>3. ASSUME NEW q \in 1..plan.n PROVE q \in peers' <=> Past(q, "publish-peer")'
    <3>1. CASE op = "publish-peer"
      BY <1>0, <1>3, <1>10, <3>1 DEF TopicInv
    <3>2. CASE op # "publish-peer"
      BY <1>0, <1>3, <1>10, <3>2 DEF TopicInv
    <3> QED BY <3>1, <3>2
  <2> QED BY <1>1, <2>2, <2>3 DEF TopicInv
<1>22. AwaitInv'
  <2>1. /\ op = "await-root" => rootCid
        /\ op = "await-servers" => Cardinality(peers) >= Cardinality(Servers)
    BY DEF Passes
  <2>2. op = "await-servers" => Servers \subseteq peers
    BY <1>1, <2>1, AllPublished
  <2>3. peers \subseteq peers' /\ (rootCid => rootCid')
    BY <1>3
  <2> QED BY <1>0, <1>1, <1>6, <1>10, <2>1, <2>2, <2>3 DEF AwaitInv
<1> QED BY <1>14, <1>15, <1>16, <1>17, <1>18, <1>19, <1>20, <1>21, <1>22 DEF CoreInv

-----------------------------------------------------------------------------
(* Who has succeeded is at its return.                                       *)
EndInv == \A q \in 1..plan.n : Succeeded(q) => Ops(q)[step[q]] = "return"

(* Without errors and timeouts of its own nobody ends in an error.           *)
CleanInv ==
    Supported /\ faulty = {} => \A q \in 1..plan.n : outcome[q] \notin {"error", "panic"}

IInv == CoreInv /\ TypeLinks /\ EndInv /\ NeverEarly /\ CleanInv

LEMMA InitIInv == Init => IInv
<1> SUFFICES ASSUME Init PROVE IInv
  OBVIOUS
<1>0. /\ plan \in Plans /\ order = <<>> /\ step = [p \in Instances |-> 1]
      /\ waiting = {} /\ signals = [s \in States |-> 0] /\ peers = {} /\ rootCid = FALSE
      /\ listening = {} /\ tasks = {} /\ dialled = {} /\ downloaded = {}
      /\ served = FALSE /\ early = FALSE /\ faulty = {}
      /\ outcome = [p \in Instances |-> "running"]
  BY DEF Init
<1>1. Len(order) = 0 /\ order \in Seq(1..plan.n)
  BY <1>0, EmptySeq
<1>2. TypeCore
  <2>1. \A j, k \in 1..Len(order) : order[j] = order[k] => j = k
    BY <1>1
  <2>2. step \in [Instances -> Nat] /\ signals \in [States -> Nat]
    BY <1>0
  <2>3. waiting \subseteq 1..plan.n /\ peers \subseteq 1..plan.n /\ rootCid \in BOOLEAN
    BY <1>0
  <2>4. plan \in Plans
    BY <1>0
  <2> QED BY <1>1, <2>1, <2>2, <2>3, <2>4, Zenon DEF TypeCore
<1>3. 1..plan.n \subseteq Instances
  BY <1>2, PlanType
<1>4. \A q \in Instances : step[q] = 1
  BY <1>0
<1>5. \A q \in 1..plan.n : \A op : ~ Past(q, op)
  BY <1>3, <1>4 DEF Past
<1>6. ASSUME NEW q \in 1..plan.n PROVE step[q] \in 1..Len(Ops(q)) /\ (Numbered(q) <=> Sent(q, NumPos))
  <2>1. ~ Numbered(q)
    BY <1>1 DEF Numbered
  <2>2. ~ Sent(q, NumPos)
    BY <1>0, <1>3, <1>4 DEF Sent, NumPos
  <2>3. \A a \in 1..10 : 1 \in 1..a
    OBVIOUS
  <2>4. 1 \in 1..Len(Ops(q))
    BY <1>2, <2>3, OpsFacts
  <2> QED BY <1>3, <1>4, <2>1, <2>2, <2>4
<1>7. CountInv
  <2>1. ASSUME NEW s \in States PROVE signals[s] = Cardinality(Given(s))
    <3>1. ASSUME NEW x \in Given(s) PROVE FALSE
      <4>1. x[1] \in 1..plan.n /\ x[2] \in 1..10 /\ Sent(x[1], x[2])
        BY DEF Given
      <4>2. step[x[1]] = 1 /\ x[1] \notin waiting
        BY <1>0, <1>3, <1>4, <4>1
      <4> QED BY <4>1, <4>2 DEF Sent
    <3>2. Given(s) = {} /\ signals[s] = 0
      BY <1>0, <3>1
    <3> QED BY <3>2, FS_EmptySet
  <2> QED BY <2>1 DEF CountInv
<1>8. CoreInv
  <2>1. StepInv /\ NumInv
    BY <1>4, <1>6 DEF StepInv, NumInv
  <2>2. WaitInv /\ TopicInv
    BY <1>0, <1>5 DEF WaitInv, TopicInv
  <2>3. BarrierInv /\ LinkInv /\ AwaitInv
    BY <1>5 DEF BarrierInv, LinkInv, AwaitInv
  <2> QED BY <1>2, <1>7, <2>1, <2>2, <2>3 DEF CoreInv
<1>9. TypeLinks
  BY <1>0 DEF TypeLinks
<1>10. EndInv
  BY <1>0, <1>3 DEF EndInv, Succeeded
<1>11. CleanInv
  BY <1>0, <1>3 DEF CleanInv
<1> QED BY <1>0, <1>8, <1>9, <1>10, <1>11 DEF IInv, NeverEarly

LEMMA LinksTyped == ASSUME CoreInv, TypeLinks, [Next]_vars PROVE TypeLinks'
<1> USE DEF TypeLinks, syncVars, linkVars
<1>0. \A p, op : At(p, op) => p \in 1..plan.n
  BY DEF At, Running
<1>1. CASE UNCHANGED vars
  BY <1>1 DEF vars
<1>2. ASSUME NEW p \in Instances, Step(p) \/ Fail(p) \/ Timeout(p) \/ StackDump(p) PROVE TypeLinks'
  <2>1. ASSUME NEW s \in States, Signal(p, s) PROVE TypeLinks'
    BY <2>1 DEF Signal
  <2>2. ASSUME NEW s \in States, PassBarrier(p, s) PROVE TypeLinks'
    BY <2>2 DEF PassBarrier
  <2>3. CASE SignalDone(p) \/ PublishPeer(p) \/ CollectPeers(p) \/ AwaitServers(p)
    BY <2>3 DEF SignalDone, PublishPeer, CollectPeers, AwaitServers
  <2>4. CASE Listen(p) \/ Spawn(p) \/ Bind(p)
    BY <2>4 DEF Listen, Spawn, Bind
  <2>5. CASE PublishRoot(p) \/ AwaitRoot(p) \/ Accept(p)
    BY <2>5 DEF PublishRoot, AwaitRoot, Accept
  <2>6. CASE Dial(p)
    <3>1. early' \in BOOLEAN
      <4>1. early' = early \/ early' = (early \/ TooEarly)
        BY <2>6 DEF Dial
      <4> QED BY <4>1, Zenon
    <3> QED BY <2>6, <3>1 DEF Dial, End
  <2>7. CASE Serve(p)
    BY <2>7 DEF Serve, End
  <2>8. CASE Download(p)
    <3>1. /\ \/ downloaded' = downloaded \cup {p} /\ UNCHANGED outcome
             \/ (End(p, "panic") \/ End(p, "error")) /\ UNCHANGED downloaded
          /\ UNCHANGED <<listening, tasks, dialled, served, early, faulty>>
      <4>1. Download(p) =>
               /\ \/ downloaded' = downloaded \cup {p} /\ UNCHANGED outcome
                  \/ (End(p, "panic") \/ End(p, "error")) /\ UNCHANGED <<downloaded, step>>
               /\ UNCHANGED <<plan, syncVars, listening, tasks, dialled, served, early, faulty>>
        BY Zenon DEF Download
      <4> QED BY <2>8, <4>1
    <3> QED BY <3>1 DEF End
  <2>9. CASE Reject(p) \/ Return(p)
    BY <2>9 DEF Reject, Return, End
  <2>10. CASE Fail(p) \/ Timeout(p) \/ StackDump(p)
    BY <2>10 DEF Fail, Timeout, StackDump, End
  <2> HIDE DEF TypeLinks, syncVars, linkVars
  <2> QED BY <1>2, <2>1, <2>2, <2>3, <2>4, <2>5, <2>6, <2>7, <2>8, <2>9, <2>10 DEF Step
<1> HIDE DEF TypeLinks, syncVars, linkVars
<1> QED BY <1>1, <1>2 DEF Next

(* A step makes an instance succeed only at its return.                      *)
LEMMA SuccessByReturn ==
  ASSUME CoreInv, TypeLinks, [Next]_vars, NEW q \in 1..plan.n, Succeeded(q)'
  PROVE  Succeeded(q) \/ (At(q, "return") /\ Stays)
<1> USE DEF syncVars, linkVars
<1>0. outcome \in [Instances -> {"running", "ok", "unreported", "error", "panic"}]
  BY DEF TypeLinks
<1>1. ASSUME NEW p \in Instances, NEW how \in {"error", "panic"}, End(p, how)
      PROVE  Succeeded(q)
  BY <1>0, <1>1 DEF End, Succeeded
<1>2. CASE UNCHANGED outcome
  BY <1>2 DEF Succeeded
<1>3. ASSUME NEW p \in Instances, Step(p) \/ Fail(p) \/ Timeout(p) \/ StackDump(p)
      PROVE  Succeeded(q) \/ (At(q, "return") /\ Stays)
  <2>1. ASSUME NEW s \in States, Signal(p, s) \/ PassBarrier(p, s) PROVE UNCHANGED outcome
    BY <2>1 DEF Signal, PassBarrier
  <2>2. CASE SignalDone(p) \/ PublishPeer(p) \/ CollectPeers(p) \/ AwaitServers(p)
    BY <1>2, <2>2 DEF SignalDone, PublishPeer, CollectPeers, AwaitServers
  <2>3. CASE Listen(p) \/ Spawn(p) \/ Bind(p)
    BY <1>2, <2>3 DEF Listen, Spawn, Bind
  <2>4. CASE PublishRoot(p) \/ AwaitRoot(p) \/ Accept(p)
    BY <1>2, <2>4 DEF PublishRoot, AwaitRoot, Accept
  <2>5. CASE Dial(p)
    BY <1>1, <1>2, <2>5 DEF Dial
  <2>6. CASE Serve(p)
    BY <1>1, <1>2, <2>6 DEF Serve
  <2>7. CASE Download(p)
    <3>1. UNCHANGED outcome \/ End(p, "panic") \/ End(p, "error")
      BY <2>7, Zenon DEF Download
    <3> QED BY <1>1, <1>2, <3>1
  <2>8. CASE Reject(p)
    BY <1>1, <2>8 DEF Reject
  <2>9. CASE Return(p)
    <3>1. At(p, "return") /\ Stays
      BY <2>9 DEF Return, Stays, LinksKept
    <3>2. q # p => Succeeded(q)
      BY <1>0, <2>9 DEF Return, End, Succeeded
    <3> QED BY <3>1, <3>2
  <2>10. CASE Fail(p) \/ Timeout(p) \/ StackDump(p)
    BY <1>1, <2>10 DEF Fail, Timeout, StackDump
  <2> HIDE DEF syncVars, linkVars
  <2> QED BY <1>2, <1>3, <2>1, <2>2, <2>3, <2>4, <2>5, <2>6, <2>7, <2>8, <2>9, <2>10 DEF Step
<1>4. CASE UNCHANGED vars
  BY <1>2, <1>4 DEF vars
<1> HIDE DEF syncVars, linkVars
<1> QED BY <1>3, <1>4 DEF Next

LEMMA EndKept == ASSUME CoreInv, TypeLinks, EndInv, [Next]_vars PROVE EndInv'
<1>0. TypeCore /\ StepInv
  BY DEF CoreInv
<1>1. plan' = plan
  BY StepShape DEF Stays, Signal, Passes
<1>2. 1..plan.n \subseteq Instances /\ step \in [Instances -> Nat]
  BY <1>0, PlanType DEF TypeCore
<1> SUFFICES ASSUME NEW q \in 1..plan.n, Succeeded(q)' PROVE Ops(q)'[step'[q]] = "return"
  BY <1>1 DEF EndInv
<1>3. Succeeded(q) \/ (At(q, "return") /\ Stays)
  BY SuccessByReturn
<1>4. CASE Stays
  <2>1. Ops(q)' = Ops(q) /\ step' = step
    BY <1>4, OpsKept DEF Stays
  <2>2. Ops(q)[step[q]] = "return"
    BY <1>3 DEF EndInv, At
  <2> QED BY <2>1, <2>2
<1>5. CASE ~ Stays
  <2>1. Ops(q)[step[q]] = "return" /\ step[q] \in 1..Len(Ops(q))
    BY <1>0, <1>3, <1>5 DEF EndInv, StepInv
  <2>2. \A p, op : At(p, op) => p # q
    BY <1>3, <1>5 DEF At, Running, Succeeded
  <2>3. ASSUME NEW p \in 1..plan.n, NEW s \in States, Signal(p, s)
        PROVE  Ops(q)' = Ops(q) /\ step' = step
    <3>1. p # q /\ step' = step
      BY <2>2, <2>3 DEF Signal
    <3>2. CASE s \in {"ip-allocation", "initialized"}
      <4>1. ~ Numbered(p)
        BY <2>3, <3>2, NumberOnce
      <4>2. order' = Append(order, p)
        BY <2>3, <3>2 DEF Signal
      <4> QED BY <1>0, <1>1, <3>1, <4>1, <4>2, OpsAppend
    <3>3. CASE s \notin {"ip-allocation", "initialized"}
      <4>1. order' = order
        BY <2>3, <3>3 DEF Signal
      <4> QED BY <1>1, <3>1, <4>1, OpsKept
    <3> QED BY <3>2, <3>3
  <2>4. ASSUME NEW p \in 1..plan.n, NEW op, Passes(p, op)
        PROVE  Ops(q)' = Ops(q) /\ step'[q] = step[q]
    <3>1. p # q
      BY <2>2, <2>4 DEF Passes
    <3>2. step'[q] = step[q]
      BY <1>2, <2>4, <3>1 DEF Passes, Advance
    <3>3. Ops(q)' = Ops(q)
      BY <2>4, OpsKept DEF Passes
    <3> QED BY <3>2, <3>3
  <2>5. Ops(q)' = Ops(q) /\ step'[q] = step[q]
    BY <1>5, <2>3, <2>4, StepShape
  <2> QED BY <2>1, <2>5
<1> QED BY <1>4, <1>5

(* A client at its Dial has passed what it has to wait for.                  *)
LEMMA DialAfterPass ==
  ASSUME CoreInv, NEW p, At(p, "dial")
  PROVE  p \in 1..plan.n /\ Past(p, Pass)
<1>0. TypeCore /\ StepInv /\ p \in 1..plan.n /\ Ops(p)[step[p]] = "dial"
  BY DEF CoreInv, At, Running
<1>1. PICK i \in 1..Len(Ops(p)) : i = step[p] /\ Ops(p)[i] = "dial"
  BY <1>0 DEF StepInv
<1>2. \A j \in 1..Len(SetupOps) : SetupOps[j] # Ops(p)[i]
  BY <1>0, <1>1, SetupKeepsFacts, PlanType DEF SetupFacts
<1>3. PICK k \in 1..Len(order) : order[k] = p /\ RoleFacts(RoleOps(p, k), p, k)
  BY <1>0, <1>2, InRole
<1> DEFINE B == {Pass}
<1>4. \A j \in 1..Len(RoleOps(p, k)) : RoleOps(p, k)[j] = Ops(p)[i] =>
          \E l \in 1..j - 1 : RoleOps(p, k)[l] \in B
  BY <1>1, <1>3 DEF RoleFacts, RoleOrder, Preceded
<1> HIDE DEF B
<1>5. \E b \in B : Past(p, b)
  BY <1>0, <1>1, <1>2, <1>3, <1>4, Ordered
<1> QED BY <1>0, <1>5 DEF B

LEMMA EarlyKept == ASSUME CoreInv, NeverEarly, [Next]_vars PROVE NeverEarly'
<1>0. plan' = plan
  BY StepShape DEF Stays, Signal, Passes
<1> USE DEF NeverEarly, syncVars, linkVars
<1>1. CASE UNCHANGED early
  BY <1>0, <1>1
<1>2. ASSUME NEW p \in Instances, Step(p) \/ Fail(p) \/ Timeout(p) \/ StackDump(p) PROVE NeverEarly'
  <2>1. ASSUME NEW s \in States, Signal(p, s) \/ PassBarrier(p, s) PROVE UNCHANGED early
    BY <2>1 DEF Signal, PassBarrier
  <2>2. CASE SignalDone(p) \/ PublishPeer(p) \/ CollectPeers(p) \/ AwaitServers(p)
    BY <1>0, <2>2 DEF SignalDone, PublishPeer, CollectPeers, AwaitServers
  <2>3. CASE Listen(p) \/ Spawn(p) \/ Bind(p)
    BY <1>0, <2>3 DEF Listen, Spawn, Bind
  <2>4. CASE PublishRoot(p) \/ AwaitRoot(p) \/ Accept(p) \/ Serve(p)
    BY <1>0, <2>4 DEF PublishRoot, AwaitRoot, Accept, Serve
  <2>5. CASE Dial(p)
    <3>1. CASE UNCHANGED early
      BY <1>1, <3>1
    <3>2. CASE plan.case # "quic" /\ early' = (early \/ TooEarly)
      <4>1. p \in 1..plan.n /\ Past(p, Pass)
        BY <2>5, DialAfterPass DEF Dial
      <4>2. Servers \subseteq listening
        BY <3>2, <4>1, ServersListen
      <4> QED BY <3>2, <4>2 DEF TooEarly
    <3>3. CASE plan.case = "quic"
      BY <1>0, <3>3
    <3> QED BY <2>5, <3>1, <3>2, <3>3 DEF Dial
  <2>6. CASE Download(p)
    <3>1. UNCHANGED <<plan, syncVars, listening, tasks, dialled, served, early, faulty>>
      BY <2>6, Zenon DEF Download
    <3> QED BY <1>1, <3>1
  <2>7. CASE Reject(p) \/ Return(p)
    BY <1>0, <2>7 DEF Reject, Return
  <2>8. CASE Fail(p) \/ Timeout(p) \/ StackDump(p)
    BY <1>0, <2>8 DEF Fail, Timeout, StackDump
  <2> HIDE DEF syncVars, linkVars
  <2> QED BY <1>1, <1>2, <2>1, <2>2, <2>3, <2>4, <2>5, <2>6, <2>7, <2>8 DEF Step
<1>3. CASE UNCHANGED vars
  BY <1>1, <1>3 DEF vars
<1> HIDE DEF syncVars, linkVars
<1> QED BY <1>2, <1>3 DEF Next

(* Who succeeds does so behind a full barrier, or is a client of tcp.rs that *)
(* has its connection.                                                       *)
LEMMA CompleteAtSuccess == ASSUME CoreInv, EndInv PROVE SuccessMeansDownloaded
<1> SUFFICES ASSUME NEW p \in 1..plan.n, Succeeded(p)
             PROVE  IF plan.case = "rust-tcp" /\ p \in Clients
                      THEN p \in Transferred
                      ELSE Clients \subseteq Transferred /\ signals["test-done"] = plan.n
  BY DEF SuccessMeansDownloaded
<1>0. CoreInv /\ TypeCore /\ StepInv /\ BarrierInv /\ LinkInv /\ EndInv
  BY DEF CoreInv
<1>8. TypeCore /\ StepInv
  BY <1>0
<1>1. PICK i \in 1..Len(Ops(p)) : i = step[p] /\ Ops(p)[i] = "return"
  BY <1>0 DEF EndInv, StepInv
<1>2. \A j \in 1..Len(SetupOps) : SetupOps[j] # Ops(p)[i]
  BY <1>0, <1>1, SetupKeepsFacts, PlanType DEF SetupFacts
<1>3. PICK k \in 1..Len(order) : order[k] = p /\ RoleFacts(RoleOps(p, k), p, k)
  BY <1>0, <1>2, InRole
<1> DEFINE B == Signalling("test-done")
<1>4. \A j \in 1..Len(RoleOps(p, k)) : RoleOps(p, k)[j] = Ops(p)[i] =>
          \E l \in 1..j - 1 : RoleOps(p, k)[l] \in B
  BY <1>1, <1>3 DEF RoleFacts, RoleOrder
<1> HIDE DEF B
<1>5. \E b \in B : Past(p, b)
  BY <1>8, <1>1, <1>2, <1>3, <1>4, Ordered
<1>6. CASE Past(p, "test-done")
  <2>1. signals["test-done"] >= plan.n
    BY <1>0, <1>6 DEF BarrierInv, States
  <2>2. signals["test-done"] = plan.n /\ Clients \subseteq Transferred
    BY <1>0, <2>1, ClientsDone
  <2> QED BY <2>2
<1>7. CASE Past(p, "signal-done")
  <2>1. PICK m \in 1..Len(Ops(p)) : Sent(p, m) /\ Ops(p)[m] = "signal-done"
    BY <1>0, <1>7, PastListed
  <2>2. \A j \in 1..Len(SetupOps) : SetupOps[j] # Ops(p)[m]
    BY <1>0, <2>1, SetupKeepsFacts, PlanType DEF SetupFacts
  <2>3. PICK h \in 1..Len(order) :
            /\ order[h] = p
            /\ RoleFacts(RoleOps(p, h), p, h)
            /\ \E j \in 1..Len(RoleOps(p, h)) : RoleOps(p, h)[j] = Ops(p)[m]
    BY <1>0, <2>2, InRole
  <2>4. plan.case = "rust-tcp" /\ IsClient(p, h)
    BY <2>1, <2>3 DEF RoleFacts, RoleOrder
  <2>5. p \in Clients
    BY <1>0, <2>3, <2>4, RoleSets
  <2> DEFINE D == {Goal}
  <2>6. \A j \in 1..Len(RoleOps(p, h)) : RoleOps(p, h)[j] = Ops(p)[m] =>
            \E l \in 1..j - 1 : RoleOps(p, h)[l] \in D
    BY <2>1, <2>3, <2>4 DEF RoleFacts, RoleOrder, Preceded
  <2> HIDE DEF D
  <2>7. \E b \in D : Past(p, b)
    <3>1. order[h] = p /\ (Sent(p, m) \/ m = step[p])
      BY <2>1, <2>3
    <3> QED BY <1>8, <2>2, <2>6, <3>1, Ordered
  <2>8. p \in Transferred
    BY <1>0, <2>4, <2>7 DEF D, LinkInv, Transferred, Goal
  <2> QED BY <2>4, <2>5, <2>8
<1> QED BY <1>5, <1>6, <1>7 DEF B, Signalling

-----------------------------------------------------------------------------
(* An instance behind its set-up is at an operation of its role, and has     *)
(* done the ones before it.                                                  *)
LEMMA Place ==
  ASSUME TypeCore, StepInv, NEW q \in 1..plan.n, step[q] > Len(SetupOps)
  PROVE  \E k \in 1..Len(order) :
            /\ order[k] = q
            /\ RoleFacts(RoleOps(q, k), q, k)
            /\ \E j \in 1..Len(RoleOps(q, k)) :
                  /\ step[q] = Len(SetupOps) + j
                  /\ RoleOps(q, k)[j] = Ops(q)[step[q]]
                  /\ \A l \in 1..j : /\ Len(SetupOps) + l \in 1..Len(Ops(q))
                                     /\ Ops(q)[Len(SetupOps) + l] = RoleOps(q, k)[l]
                  /\ \A l \in 1..j - 1 : Past(q, RoleOps(q, k)[l])
<1>1. step[q] \in 1..Len(Ops(q)) /\ Len(Ops(q)) \in 1..10
  BY OpsFacts DEF StepInv
<1>2. Len(SetupOps) \in 1..5
  BY SetupKeepsFacts, PlanType DEF SetupFacts
<1>3. Numbered(q)
  BY <1>1, <1>2, OpsFacts
<1>4. PICK k \in 1..Len(order) : order[k] = q
  BY <1>3 DEF Numbered
<1>5. RoleFacts(RoleOps(q, k), q, k)
  BY RolesKeepFacts, PlanType
<1>6. Len(RoleOps(q, k)) \in 1..7
  BY <1>5 DEF RoleFacts, RoleShape
<1>7. /\ Len(Ops(q)) = Len(SetupOps) + Len(RoleOps(q, k))
      /\ \A l \in 1..Len(RoleOps(q, k)) : Ops(q)[Len(SetupOps) + l] = RoleOps(q, k)[l]
  BY <1>4, OpsFacts
<1>8. PICK j \in 1..Len(RoleOps(q, k)) : step[q] = Len(SetupOps) + j
  <2>1. step[q] - Len(SetupOps) \in 1..Len(RoleOps(q, k))
        /\ step[q] = Len(SetupOps) + (step[q] - Len(SetupOps))
    <3>1. \A a \in 1..5, b \in 1..7 : \A i \in 1..a + b :
            i > a => i - a \in 1..b /\ i = a + (i - a)
      OBVIOUS
    <3>2. step[q] \in 1..Len(SetupOps) + Len(RoleOps(q, k))
      BY <1>1, <1>7
    <3> QED BY <1>2, <1>6, <3>1, <3>2
  <2> QED BY <2>1
<1>9. \A l \in 1..j : /\ Len(SetupOps) + l \in 1..Len(Ops(q))
                      /\ l \in 1..Len(RoleOps(q, k))
  <2>1. \A a \in 1..5, b \in 1..7 : \A m \in 1..b : \A l \in 1..m : a + l \in 1..a + b /\ l \in 1..b
    OBVIOUS
  <2> QED BY <1>2, <1>6, <1>7, <2>1
<1>10. \A l \in 1..j : Ops(q)[Len(SetupOps) + l] = RoleOps(q, k)[l]
  BY <1>7, <1>9
<1>11. ASSUME NEW l \in 1..j - 1 PROVE Past(q, RoleOps(q, k)[l])
  <2>1. Len(SetupOps) + l \in 1..step[q] - 1 /\ l \in 1..j
    BY <1>2, <1>6, <1>8
  <2> QED BY <1>10, <2>1 DEF Past
<1>12. RoleOps(q, k)[j] = Ops(q)[step[q]]
  BY <1>7, <1>8
<1> QED BY <1>4, <1>5, <1>8, <1>9, <1>10, <1>11, <1>12

LEMMA BehindSetup ==
  ASSUME TypeCore, StepInv, NEW q \in 1..plan.n,
         Ops(q)[step[q]] \notin {"network-configured", "ip-allocation", "initialized",
                                 "publish-peer", "collect-peers"}
  PROVE  step[q] > Len(SetupOps)
<1>1. step[q] \in 1..Len(Ops(q)) /\ Len(Ops(q)) \in 1..10
      /\ \A i \in 1..Len(SetupOps) : Ops(q)[i] = SetupOps[i]
  BY OpsFacts DEF StepInv
<1>2. Len(SetupOps) \in 1..5
      /\ \A i \in 1..Len(SetupOps) :
            SetupOps[i] \in {"network-configured", "ip-allocation", "initialized",
                             "publish-peer", "collect-peers"}
  BY SetupKeepsFacts, PlanType DEF SetupFacts
<1>3. step[q] \notin 1..Len(SetupOps)
  BY <1>1, <1>2
<1> QED BY <1>1, <1>2, <1>3

(* Once one instance is behind its set-up all have their numbers.            *)
LEMMA AllNumbered ==
  ASSUME CoreInv, NEW q \in 1..plan.n, step[q] > Len(SetupOps)
  PROVE  /\ \A r \in 1..plan.n : Numbered(r)
         /\ {1, 2} \subseteq 1..Len(order)
<1>0. TypeCore /\ StepInv /\ NumInv /\ CountInv /\ BarrierInv
  BY DEF CoreInv
<1>1. SetupFacts(SetupOps)
  BY <1>0, SetupKeepsFacts, PlanType
<1>2. /\ Len(SetupOps) \in 1..5 /\ NumPos \in 1..Len(SetupOps)
      /\ SetupOps[NumPos] \in {"ip-allocation", "initialized"}
  BY <1>1 DEF SetupFacts
<1>3. \A r \in 1..plan.n : Len(Ops(r)) \in 1..10 /\ \A i \in 1..Len(SetupOps) : Ops(r)[i] = SetupOps[i]
  BY <1>0, OpsFacts
<1>4. Past(q, SetupOps[NumPos])
  <2>1. step[q] \in 1..Len(Ops(q))
    BY <1>0 DEF StepInv
  <2>2. NumPos \in 1..step[q] - 1
    BY <1>2, <1>3, <2>1
  <2> QED BY <1>2, <1>3, <2>2 DEF Past
<1> DEFINE s == SetupOps[NumPos]
<1>5. s \in States \ {"network-configured"} /\ Signalling(s) = {s}
  BY <1>2 DEF States, Signalling
<1>6. signals[s] >= plan.n
  BY <1>0, <1>4, <1>5 DEF BarrierInv
<1>7. ASSUME NEW r \in 1..plan.n PROVE Numbered(r)
  <2>1. PICK i \in 1..Len(Ops(r)) : Sent(r, i) /\ Ops(r)[i] = s
    BY <1>0, <1>5, <1>6, Everyone
  <2>2. i = NumPos
    <3>1. Ops(r)[i] \in {"ip-allocation", "initialized"}
      BY <1>2, <2>1
    <3> QED BY <1>0, <3>1, NumAtNumPos
  <2> QED BY <1>0, <2>1, <2>2 DEF NumInv
<1>8. {1, 2} \subseteq 1..Len(order)
  <2>1. 1 \in 1..plan.n /\ 2 \in 1..plan.n /\ Len(order) \in Nat
    BY <1>0, PlanType
  <2>2. PICK j \in 1..Len(order) : order[j] = 1
    BY <1>7, <2>1 DEF Numbered
  <2>3. PICK k \in 1..Len(order) : order[k] = 2
    BY <1>7, <2>1 DEF Numbered
  <2>4. j # k
    BY <2>2, <2>3
  <2> QED BY <2>1, <2>4
<1> QED BY <1>7, <1>8

(* There is a server, and the roles of the first two numbers are known.      *)
LEMMA RolesTaken ==
  ASSUME CoreInv, {1, 2} \subseteq 1..Len(order)
  PROVE  /\ Servers # {}
         /\ ~ Awaits => order[1] \in Servers /\ IsServer(order[1], 1) /\ IsClient(order[2], 2)
<1>0. TypeCore
  BY DEF CoreInv
<1>1. CASE plan.case = "kubo"
  <2>1. (1..plan.n) \cap Providers # {}
    BY <1>0, <1>1, PlanAssumption DEF TypeCore
  <2>2. Servers = Providers \cap 1..plan.n
    BY <1>1, Zenon DEF Servers, RustCases
  <2> QED BY <1>1, <2>1, <2>2 DEF Awaits
<1>2. CASE plan.case \in RustCases
  <2>1. IsServer(order[2], 2)
    BY <1>2 DEF IsServer, RustCases
  <2>2. order[2] \in Servers
    BY <1>0, <2>1, RoleSets
  <2> QED BY <1>2, <2>2 DEF Awaits
<1>3. CASE ~ Awaits
  <2>1. IsServer(order[1], 1) /\ IsClient(order[2], 2)
    BY <1>3 DEF IsServer, IsClient, Awaits
  <2>2. order[1] \in Servers
    BY <1>0, <2>1, RoleSets
  <2> QED BY <2>1, <2>2
<1> QED BY <1>1, <1>2, <1>3 DEF Awaits

(* While a client dials or downloads, or the tcp server serves, nobody has   *)
(* ended, but for a client of tcp.rs.                                        *)
LEMMA StillThere ==
  ASSUME CoreInv, EndInv, NEW q \in 1..plan.n, Ops(q)[step[q]] \in {"dial", "serve", "download"},
         NEW r \in 1..plan.n, Succeeded(r)
  PROVE  plan.case = "rust-tcp" /\ r \notin Servers
<1>0. TypeCore /\ StepInv /\ CountInv
  BY DEF CoreInv
<1>1. step[q] > Len(SetupOps)
  BY <1>0, BehindSetup
<1>2. PICK k \in 1..Len(order) :
          /\ order[k] = q
          /\ RoleFacts(RoleOps(q, k), q, k)
          /\ \E j \in 1..Len(RoleOps(q, k)) :
                step[q] = Len(SetupOps) + j /\ RoleOps(q, k)[j] = Ops(q)[step[q]]
  BY <1>0, <1>1, Place
<1>3. PICK j \in 1..Len(RoleOps(q, k)) :
          step[q] = Len(SetupOps) + j /\ RoleOps(q, k)[j] = Ops(q)[step[q]]
  BY <1>2
<1>4. \A l \in 1..j : RoleOps(q, k)[l] \notin Signalling("test-done")
  BY <1>2, <1>3 DEF RoleFacts, RoleKinds
<1>5. ASSUME signals["test-done"] = plan.n PROVE FALSE
  <2>1. "test-done" \in States \ {"network-configured"} /\ signals["test-done"] >= plan.n
    BY <1>0, <1>5, PlanType DEF States
  <2>2. PICK i \in 1..Len(Ops(q)) : Sent(q, i) /\ Ops(q)[i] \in Signalling("test-done")
    BY <1>0, <2>1, Everyone
  <2>3. \A l \in 1..Len(SetupOps) : SetupOps[l] # Ops(q)[i]
    BY <1>0, <2>2, SetupKeepsFacts, PlanType DEF SetupFacts, Signalling
  <2>4. PICK m \in 1..Len(order) :
            /\ order[m] = q
            /\ RoleFacts(RoleOps(q, m), q, m)
            /\ \E l \in 1..Len(RoleOps(q, m)) :
                  i = Len(SetupOps) + l /\ RoleOps(q, m)[l] = Ops(q)[i]
    BY <1>0, <2>3, InRole
  <2>5. m = k
    BY <1>0, <1>2, <2>4 DEF TypeCore
  <2>6. PICK l \in 1..Len(RoleOps(q, k)) : i = Len(SetupOps) + l /\ RoleOps(q, k)[l] = Ops(q)[i]
    BY <2>4, <2>5
  <2>7. Len(SetupOps) \in 1..5 /\ Len(RoleOps(q, k)) \in 1..7
    BY <1>0, <1>2, SetupKeepsFacts, PlanType DEF SetupFacts, RoleFacts, RoleShape
  <2>8. l \in 1..j
    <3>1. i <= step[q]
      BY <1>3, <2>2, <2>6, <2>7 DEF Sent
    <3> QED BY <1>3, <2>6, <2>7, <3>1
  <2> QED BY <1>4, <2>2, <2>6, <2>8
<1>6. plan.case = "rust-tcp" /\ r \in Clients
  BY <1>5, CompleteAtSuccess DEF SuccessMeansDownloaded
<1>7. ASSUME r \in Servers PROVE FALSE
  <2>1. Numbered(r)
    BY <1>1, AllNumbered
  <2>2. PICK m \in 1..Len(order) : order[m] = r
    BY <2>1 DEF Numbered
  <2>3. IsServer(r, m) /\ IsClient(r, m)
    BY <1>0, <1>6, <1>7, <2>2, RoleSets
  <2> QED BY <1>6, <2>3 DEF IsServer, IsClient, RustCases
<1> QED BY <1>6, <1>7

(* No instance of a supported plan has a number that its plan rejects.       *)
LEMMA NoReject ==
  ASSUME CoreInv, Supported, NEW q \in 1..plan.n
  PROVE  Ops(q)[step[q]] # "reject"
<1> SUFFICES ASSUME Ops(q)[step[q]] = "reject" PROVE FALSE
  OBVIOUS
<1>0. TypeCore /\ StepInv
  BY DEF CoreInv
<1>1. step[q] > Len(SetupOps)
  BY <1>0, BehindSetup
<1>2. PICK k \in 1..Len(order) :
          /\ RoleFacts(RoleOps(q, k), q, k)
          /\ \E j \in 1..Len(RoleOps(q, k)) : RoleOps(q, k)[j] = Ops(q)[step[q]]
  BY <1>0, <1>1, Place, SMTT(30)
<1>3. k > 2 /\ plan.case \notin RustCases \cup {"bitswap1toN", "manifetch", "kubo"}
  BY <1>2 DEF RoleFacts, RoleKinds
<1>4. plan.n = 2
  BY <1>3 DEF Supported
<1>5. /\ {1, 2, k} \subseteq 1..Len(order)
      /\ \A i, j \in 1..Len(order) : order[i] = order[j] => i = j
      /\ \A i \in 1..Len(order) : order[i] \in 1..2
  BY <1>0, <1>3, <1>4, PlanType DEF TypeCore
<1>6. order[1] # order[2] /\ order[1] # order[k] /\ order[2] # order[k]
  BY <1>3, <1>5
<1> QED BY <1>5, <1>6

(* While nothing has failed by itself or timed out, nobody ends with an      *)
(* error in a supported plan.                                                *)
LEMMA CleanKept == ASSUME IInv, [Next]_vars PROVE CleanInv'
<1>0. CoreInv /\ TypeCore /\ StepInv /\ TypeLinks /\ EndInv /\ CleanInv
  BY DEF IInv, CoreInv
<1>1. plan' = plan /\ (faulty' = {} => faulty = {})
  BY StepShape DEF Stays, Signal, Passes, LinksKept
<1> SUFFICES ASSUME Supported', faulty' = {}, NEW q \in 1..plan.n
             PROVE  outcome'[q] \notin {"error", "panic"}
  BY <1>1 DEF CleanInv
<1>2. Supported /\ faulty = {}
  BY <1>1 DEF Supported
<1>3. \A r \in 1..plan.n : outcome[r] \notin {"error", "panic"}
  BY <1>0, <1>2 DEF CleanInv
<1>4. \A r \in 1..plan.n : r \in Running \/ Succeeded(r)
  <2>1. 1..plan.n \subseteq Instances
    BY <1>0, PlanType
  <2>2. outcome \in [Instances -> {"running", "ok", "unreported", "error", "panic"}]
    BY <1>0 DEF TypeLinks
  <2> QED BY <1>3, <2>1, <2>2 DEF Running, Succeeded
<1>5. ASSUME NEW p, At(p, "dial") \/ At(p, "serve") \/ At(p, "download")
      PROVE  /\ p \in 1..plan.n
             /\ Servers \subseteq Running /\ Servers # {}
             /\ plan.case # "rust-tcp" => 1..plan.n \subseteq Running
             /\ {1, 2} \subseteq 1..Len(order)
  <2>1. p \in 1..plan.n /\ Ops(p)[step[p]] \in {"dial", "serve", "download"}
    BY <1>5 DEF At, Running
  <2>2. \A r \in 1..plan.n : Succeeded(r) => plan.case = "rust-tcp" /\ r \notin Servers
    BY <1>0, <2>1, StillThere
  <2>3. step[p] > Len(SetupOps)
    BY <1>0, <2>1, BehindSetup
  <2>4. {1, 2} \subseteq 1..Len(order)
    BY <1>0, <2>1, <2>3, AllNumbered
  <2>5. Servers \subseteq 1..plan.n /\ Servers # {}
    BY <1>0, <2>4, RoleSets, RolesTaken
  <2> QED BY <1>4, <2>1, <2>2, <2>4, <2>5
<1>6. CASE UNCHANGED outcome
  BY <1>3, <1>6
<1>7. ASSUME NEW p \in Instances, Step(p) \/ Fail(p) \/ Timeout(p) \/ StackDump(p)
      PROVE  outcome'[q] \notin {"error", "panic"}
  <2> USE DEF syncVars, linkVars
  <2>1. ASSUME NEW s \in States, Signal(p, s) \/ PassBarrier(p, s) PROVE UNCHANGED outcome
    BY <2>1 DEF Signal, PassBarrier
  <2>2. CASE SignalDone(p) \/ PublishPeer(p) \/ CollectPeers(p) \/ AwaitServers(p)
    BY <1>6, <2>2 DEF SignalDone, PublishPeer, CollectPeers, AwaitServers
  <2>3. CASE Listen(p) \/ Spawn(p) \/ Bind(p)
    BY <1>6, <2>3 DEF Listen, Spawn, Bind
  <2>4. CASE PublishRoot(p) \/ AwaitRoot(p) \/ Accept(p)
    BY <1>6, <2>4 DEF PublishRoot, AwaitRoot, Accept
  <2>5. CASE Dial(p)
    <3>1. At(p, "dial")
      BY <2>5 DEF Dial
    <3>2. ASSUME plan.case # "quic" PROVE CanConnect
      <4>1. Past(p, Pass) /\ p \in 1..plan.n
        BY <1>0, <3>1, DialAfterPass
      <4>2. Servers \subseteq listening
        BY <1>0, <3>2, <4>1, ServersListen
      <4>3. Dialled \subseteq Running
        <5>1. CASE plan.case \in {"bitswap1to1", "bitswap1toN"}
          BY <1>5, <3>1, <5>1 DEF Dialled
        <5>2. CASE plan.case \notin {"bitswap1to1", "bitswap1toN"}
          BY <1>5, <3>1, <5>2 DEF Dialled
        <5> QED BY <5>1, <5>2
      <4> QED BY <4>2, <4>3 DEF CanConnect
    <3> QED BY <1>6, <2>5, <3>2 DEF Dial
  <2>6. CASE Serve(p)
    <3>1. At(p, "serve")
      BY <2>6 DEF Serve
    <3>2. p \in 1..plan.n /\ step[p] > Len(SetupOps) /\ Ops(p)[step[p]] = "serve"
      BY <1>0, <3>1, BehindSetup DEF At, Running
    <3>3. PICK k \in 1..Len(order) :
              /\ RoleFacts(RoleOps(p, k), p, k)
              /\ \E j \in 1..Len(RoleOps(p, k)) : RoleOps(p, k)[j] = Ops(p)[step[p]]
      BY <1>0, <3>2, Place, ZenonT(30)
    <3>4. plan.case = "tcp"
      BY <3>2, <3>3 DEF RoleFacts, RoleKinds
    <3>5. order[2] \in Running
      BY <1>0, <1>5, <3>1, <3>4, PlanType
    <3> QED BY <1>6, <2>6, <3>5 DEF Serve
  <2>7. CASE Download(p)
    <3>1. At(p, "download") /\ (UNCHANGED outcome \/ ServersGone)
      BY <2>7 DEF Download
    <3> QED BY <1>5, <1>6, <3>1 DEF ServersGone
  <2>8. CASE Reject(p)
    BY <1>0, <1>2, <2>8, NoReject DEF Reject, At, Running
  <2>9. CASE Return(p)
    <3>1. outcome' = [outcome EXCEPT ![p] = "unreported"] \/ outcome' = [outcome EXCEPT ![p] = "ok"]
      BY <2>9 DEF Return, End
    <3>2. q \in Instances
      BY <1>0, PlanType
    <3> QED BY <1>0, <1>3, <3>1, <3>2 DEF TypeLinks
  <2>10. CASE Fail(p) \/ Timeout(p) \/ StackDump(p)
    BY <2>10 DEF Fail, Timeout, StackDump
  <2> HIDE DEF syncVars, linkVars
  <2> QED BY <1>6, <1>7, <2>1, <2>2, <2>3, <2>4, <2>5, <2>6, <2>7, <2>8, <2>9, <2>10 DEF Step
<1>8. CASE UNCHANGED vars
  BY <1>6, <1>8 DEF vars
<1> QED BY <1>7, <1>8 DEF Next

LEMMA NextIInv == IInv /\ [Next]_vars => IInv'
<1> SUFFICES ASSUME IInv, [Next]_vars PROVE IInv'
  OBVIOUS
<1>1. CoreInv /\ TypeLinks /\ EndInv /\ NeverEarly
  BY DEF IInv
<1>2. CoreInv'
  <2>1. CASE Stays
    BY <1>1, <2>1, StaysKeeps
  <2>2. ASSUME NEW p \in 1..plan.n, NEW s \in States, Signal(p, s) PROVE CoreInv'
    BY <1>1, <2>2, SignalKeeps
  <2>3. ASSUME NEW p \in 1..plan.n, NEW op, Passes(p, op) PROVE CoreInv'
    BY <1>1, <2>3, PassesKeeps
  <2> QED BY <2>1, <2>2, <2>3, StepShape
<1>3. TypeLinks' /\ EndInv' /\ NeverEarly' /\ CleanInv'
  BY <1>1, LinksTyped, EndKept, EarlyKept, CleanKept
<1> QED BY <1>2, <1>3 DEF IInv

LEMMA InvariantHolds == Spec => []IInv
BY InitIInv, NextIInv, PTL DEF Spec

-----------------------------------------------------------------------------
(* Every instance stays within the operations of its role and no state is    *)
(* signalled more often than the instances come to it (at most twice, by the *)
(* two ConfigureNetwork of setupBaseLibp2pTest), however many there are.     *)
THEOREM TypeCorrect == Spec => []TypeOK
<1>1. IInv => TypeOK
  <2> SUFFICES ASSUME IInv PROVE TypeOK
    OBVIOUS
  <2>0. TypeCore /\ StepInv /\ CountInv /\ TypeLinks /\ NeverEarly
    BY DEF IInv, CoreInv
  <2>1. plan.n \in Nat /\ plan.n >= 2 /\ 1..plan.n \subseteq Instances
    BY <2>0, PlanType
  <2>2. \A q \in 1..plan.n : step[q] \in 1..Len(Ops(q)) /\ Len(Ops(q)) \in 1..10
    BY <2>0, OpsFacts DEF StepInv
  <2>3. step \in [Instances -> 1..11]
    <3>1. step \in [Instances -> Nat]
      BY <2>0 DEF TypeCore
    <3>2. ASSUME NEW q \in Instances PROVE step[q] \in 1..11
      <4>1. \A a \in 1..10 : \A x \in 1..a : x \in 1..11
        OBVIOUS
      <4>2. CASE q \in 1..plan.n
        BY <2>2, <4>1, <4>2
      <4>3. CASE q \notin 1..plan.n
        BY <2>0, <4>3 DEF StepInv
      <4> QED BY <4>2, <4>3
    <3> QED BY <3>1, <3>2
  <2>4. \A p \in Running : step[p] <= Len(Ops(p))
    <3>1. \A a \in 1..10 : \A x \in 1..a : x <= a
      OBVIOUS
    <3> QED BY <2>2, <3>1 DEF Running
  <2>5. signals \in [States -> 0..(2 * plan.n)]
    <3>1. signals \in [States -> Nat]
      BY <2>0 DEF TypeCore
    <3>2. ASSUME NEW s \in States PROVE signals[s] \in 0..(2 * plan.n)
      <4>1. signals[s] \in Nat /\ signals[s] <= Cardinality(Given(s))
        BY <2>0, <3>1 DEF CountInv
      <4>2. Cardinality(Given(s)) \in Nat
        BY <2>0, GivenFinite, FS_CardinalityType
      <4>3. Cardinality(Given(s)) <= 2 * plan.n
        <5>1. CASE s = "network-configured"
          BY <2>0, <5>1, NetworkBound
        <5>2. CASE s # "network-configured"
          <6>1. Cardinality(Given(s)) <= plan.n
            BY <2>0, <5>2, GivenBound
          <6> QED BY <2>1, <4>2, <6>1
        <5> QED BY <5>1, <5>2
      <4> QED BY <2>1, <4>1, <4>2, <4>3
    <3> QED BY <3>1, <3>2
  <2>6. order \in Seq(Instances)
    <3>1. order \in Seq(1..plan.n)
      BY <2>0 DEF TypeCore
    <3> QED BY <2>1, <3>1, SeqMonotonic, Zenon
  <2>7. plan \in Plans /\ waiting \subseteq Instances /\ peers \subseteq Instances /\ rootCid \in BOOLEAN
    BY <2>0, <2>1 DEF TypeCore
  <2>8. {served, early} \subseteq BOOLEAN
    <3>1. served \in BOOLEAN /\ early \in BOOLEAN
      BY <2>0 DEF TypeLinks
    <3> QED BY <3>1, Zenon
  <2> QED BY <2>0, <2>3, <2>4, <2>5, <2>6, <2>7, <2>8 DEF TypeOK, TypeLinks
<1> QED BY <1>1, InvariantHolds, PTL

(* In every plan but quic and with any number of instances, no client dials  *)
(* a server that runs and does not listen: the barrier, the topic of the     *)
(* root CID or the one of the addresses orders the two.  quic.rs has nothing *)
(* that does: its address is published while the bind is still to come.      *)
THEOREM NoDialIsEarly == Spec => []NeverEarly
<1>1. IInv => NeverEarly
  BY DEF IInv
<1> QED BY <1>1, InvariantHolds, PTL

(* Whoever returns without an error returns after every client has got what  *)
(* it came for and everyone has signalled test-done, whatever failed, timed  *)
(* out or panicked elsewhere.                                                *)
THEOREM SuccessIsComplete == Spec => []SuccessMeansDownloaded
<1>1. IInv => SuccessMeansDownloaded
  BY CompleteAtSuccess DEF IInv
<1> QED BY <1>1, InvariantHolds, PTL

-----------------------------------------------------------------------------
(* A set of numbers that is not empty has a least one.                       *)
LEMMA LeastNat ==
  ASSUME NEW T, T \subseteq Nat, T # {}
  PROVE  \E x \in T : \A y \in T : x <= y
<1> DEFINE R == {ss \in Nat \X Nat : ss[1] < ss[2]}
<1>1. IsWellFoundedOn(R, Nat)
  BY NatLessThanWellFounded, Zenon DEF OpToRel
<1>2. \A x, y \in Nat : y < x => <<y, x>> \in R
  OBVIOUS
<1> HIDE DEF R
<1>3. PICK x \in T : \A y \in T : ~ (<<y, x>> \in R)
  BY <1>1, WFMin
<1>4. \A y \in T : ~ (y < x) /\ y \in Nat /\ x \in Nat
  BY <1>2, <1>3
<1> QED BY <1>4

(* A barrier to which everyone has come is open.                             *)
LEMMA AllGiven ==
  ASSUME TypeCore, CountInv, NEW s \in States,
         \A q \in 1..plan.n :
            \E i \in 1..Len(Ops(q)) : Sent(q, i) /\ Ops(q)[i] \in Signalling(s)
  PROVE  BarrierOpen(s)
<1> DEFINE G == Given(s)
           f == [x \in G |-> x[1]]
<1>1. IsFiniteSet(1..plan.n) /\ Cardinality(1..plan.n) = plan.n
  BY InstanceCount
<1>2. f \in [G -> 1..plan.n]
  <2>1. \A x \in G : x[1] \in 1..plan.n
    BY DEF Given
  <2> HIDE DEF G
  <2> QED BY <2>1
<1>3. ASSUME NEW q \in 1..plan.n PROVE \E x \in G : f[x] = q
  <2>1. PICK i \in 1..Len(Ops(q)) : Sent(q, i) /\ Ops(q)[i] \in Signalling(s)
    OBVIOUS
  <2>2. i \in 1..10 /\ i <= Len(Ops(q))
    <3>1. \A a \in 1..10 : \A x \in 1..a : x \in 1..10 /\ x <= a
      OBVIOUS
    <3>2. Len(Ops(q)) \in 1..10
      BY OpsFacts
    <3> QED BY <3>1, <3>2
  <2>3. <<q, i>> \in G
    BY <2>1, <2>2 DEF Given
  <2> QED BY <2>3
<1>4. IsFiniteSet(G)
  BY GivenFinite
<1>5. f \in Surjection(G, 1..plan.n)
  BY <1>2, <1>3, Zenon DEF Surjection
<1> HIDE DEF f, G
<1>6. plan.n <= Cardinality(G)
  BY <1>1, <1>4, <1>5, FS_Surjection
<1>7. signals[s] = Cardinality(G) /\ signals[s] \in Nat /\ plan.n \in Nat
  BY PlanType DEF CountInv, TypeCore, G
<1> QED BY <1>6, <1>7 DEF BarrierOpen

(* Nobody can go on, although nothing has failed.                            *)
Stuck ==
    /\ Supported /\ faulty = {}
    /\ \A p \in 1..plan.n : ~ CanStep(p)

(* Who runs is at the operation of its step.                                 *)
LEMMA RunningAt ==
  ASSUME TypeCore, StepInv, NEW q \in Running
  PROVE  q \in 1..plan.n /\ At(q, Ops(q)[step[q]])
<1>1. q \in 1..plan.n
  BY DEF Running
<1>2. step[q] <= Len(Ops(q))
  <2>1. \A a \in 1..10 : \A x \in 1..a : x <= a
    OBVIOUS
  <2> QED BY <1>1, <2>1, OpsFacts DEF StepInv
<1> QED BY <1>1, <1>2 DEF At

(* The set-up holds nobody back: the instance that is least far has nobody   *)
(* to wait for.                                                              *)
LEMMA SetupFree ==
  ASSUME IInv, Stuck, NEW q \in 1..plan.n
  PROVE  step[q] > Len(SetupOps)
<1>0. TypeCore /\ StepInv /\ CountInv /\ TopicInv /\ TypeLinks /\ EndInv /\ CleanInv
  BY DEF IInv, CoreInv
<1>1. \A r \in 1..plan.n : step[r] \in 1..Len(Ops(r)) /\ Len(Ops(r)) \in 1..10
      /\ \A i \in 1..Len(SetupOps) : Ops(r)[i] = SetupOps[i]
  BY <1>0, OpsFacts DEF StepInv
<1>2. SetupFacts(SetupOps)
  BY <1>0, SetupKeepsFacts, PlanType
<1>3. Len(SetupOps) \in 1..5
  BY <1>2 DEF SetupFacts
<1>4. PICK m \in 1..plan.n : \A r \in 1..plan.n : step[m] <= step[r]
  <2> DEFINE T == {step[r] : r \in 1..plan.n}
  <2>1. T \subseteq Nat /\ T # {}
    BY <1>1
  <2>2. PICK x \in T : \A y \in T : x <= y
    BY <2>1, LeastNat
  <2> QED BY <2>2
<1> SUFFICES ASSUME ~ (step[m] > Len(SetupOps)) PROVE FALSE
  <2>1. step[m] \in Nat /\ step[q] \in Nat /\ step[m] <= step[q]
    BY <1>1, <1>4
  <2> QED BY <1>3, <2>1
<1> DEFINE o == step[m]
           op == SetupOps[o]
<1>5. o \in 1..Len(SetupOps) /\ o \in 1..5
  BY <1>1, <1>3
<1>6. /\ op \in {"network-configured", "ip-allocation", "initialized", "publish-peer", "collect-peers"}
      /\ op = "collect-peers" => \E j \in 1..o - 1 : SetupOps[j] = "publish-peer"
  BY <1>2, <1>5 DEF SetupFacts
<1>7. ASSUME NEW r \in 1..plan.n, step[r] = o PROVE At(r, op)
  <2>1. Ops(r)[step[r]] = op
    BY <1>1, <1>5, <1>7
  <2>2. r \in Running
    <3>1. outcome[r] \in {"running", "ok", "unreported", "error", "panic"}
      BY <1>0, PlanType DEF TypeLinks
    <3>2. outcome[r] \notin {"error", "panic"}
      BY <1>0 DEF CleanInv, Stuck
    <3>3. ~ Succeeded(r)
      BY <1>0, <1>6, <2>1 DEF EndInv
    <3> QED BY <3>1, <3>2, <3>3 DEF Running, Succeeded
  <2> QED BY <1>0, <2>1, <2>2, RunningAt
<1>8. At(m, op) /\ ~ CanStep(m)
  BY <1>7 DEF Stuck
<1>9. CASE op = "publish-peer"
  BY <1>8, <1>9 DEF CanStep, AtOnce
<1>10. CASE op = "collect-peers"
  <2>1. PICK j \in 1..o - 1 : SetupOps[j] = "publish-peer"
    BY <1>6, <1>10
  <2>2. ASSUME NEW r \in 1..plan.n PROVE r \in peers
    <3>1. step[r] \in Nat /\ o <= step[r]
      BY <1>1, <1>4
    <3>2. j \in 1..step[r] - 1 /\ j \in 1..Len(SetupOps)
      BY <1>3, <1>5, <3>1
    <3>3. Past(r, "publish-peer")
      BY <1>1, <2>1, <3>2 DEF Past
    <3> QED BY <1>0, <3>3 DEF TopicInv
  <2>3. peers = 1..plan.n
    BY <1>0, <2>2 DEF TypeCore
  <2>4. AllCollected
    BY <1>0, <2>3, InstanceCount, PlanType DEF AllCollected
  <2> QED BY <1>8, <1>10, <2>4 DEF CanStep
<1>11. CASE op \in {"network-configured", "ip-allocation", "initialized"}
  <2>1. op \in States /\ op \in Signalling(op)
    BY <1>11 DEF States, Signalling
  <2>2. ASSUME NEW r \in 1..plan.n
        PROVE  o \in 1..Len(Ops(r)) /\ Sent(r, o) /\ Ops(r)[o] \in Signalling(op)
    <3>1. step[r] \in Nat /\ o <= step[r] /\ o \in 1..Len(Ops(r))
      BY <1>1, <1>4, <1>5
    <3>2. Ops(r)[o] = op
      BY <1>1, <1>5
    <3>3. CASE step[r] = o
      <4>1. At(r, op) /\ ~ CanStep(r)
        BY <1>7, <3>3 DEF Stuck
      <4>2. r \in waiting
        BY <2>1, <4>1 DEF CanStep
      <4> QED BY <2>1, <3>1, <3>2, <3>3, <4>2 DEF Sent
    <3>4. CASE step[r] # o
      <4>1. o < step[r]
        BY <1>5, <3>1, <3>4
      <4> QED BY <2>1, <3>1, <3>2, <4>1 DEF Sent
    <3> QED BY <3>3, <3>4
  <2> HIDE DEF op, o
  <2>3. BarrierOpen(op)
    BY <1>0, <2>1, <2>2, AllGiven
  <2> QED BY <1>8, <2>1, <2>3 DEF CanStep
<1> QED BY <1>6, <1>9, <1>10, <1>11

(* The servers of a client that dials, downloads or is served run.           *)
LEMMA ServersRun ==
  ASSUME IInv, Supported, faulty = {}, NEW q \in 1..plan.n,
         Ops(q)[step[q]] \in {"dial", "serve", "download"}
  PROVE  Servers \subseteq Running
<1>0. CoreInv /\ TypeCore /\ TypeLinks /\ EndInv /\ CleanInv
  BY DEF IInv, CoreInv
<1> SUFFICES ASSUME NEW r \in Servers PROVE r \in Running
  OBVIOUS
<1>1. r \in 1..plan.n /\ r \in Instances
  BY <1>0, RoleSets, PlanType
<1>2. ~ Succeeded(r)
  BY <1>0, <1>1, StillThere
<1>3. outcome[r] \in {"running", "ok", "unreported", "error", "panic"}
  BY <1>0, <1>1 DEF TypeLinks
<1>4. outcome[r] \notin {"error", "panic"}
  BY <1>0, <1>1 DEF CleanInv
<1> QED BY <1>1, <1>2, <1>3, <1>4 DEF Running, Succeeded

(* A quic client whose handshake is not answered waits for a task that can   *)
(* bind.                                                                     *)
LEMMA HandshakeAnswered ==
  ASSUME IInv, Stuck, NEW q \in Running
  PROVE  Ops(q)[step[q]] # "dial"
<1> SUFFICES ASSUME Ops(q)[step[q]] = "dial" PROVE FALSE
  OBVIOUS
<1>0. CoreInv /\ TypeCore /\ StepInv /\ LinkInv /\ TopicInv /\ AwaitInv
  BY DEF IInv, CoreInv
<1>1. q \in 1..plan.n /\ At(q, "dial") /\ ~ CanStep(q) /\ Supported /\ faulty = {}
  BY <1>0, RunningAt DEF Stuck
<1>2. plan.case = "quic" /\ ~ CanConnect
  BY <1>1 DEF CanStep
<1>3. Servers \subseteq Running
  BY <1>1, ServersRun
<1>4. PICK r \in Servers : r \notin listening
  BY <1>2, <1>3 DEF CanConnect, Dialled
<1>5. Past(q, "await-servers") /\ Awaits
  BY <1>0, <1>1, <1>2, DialAfterPass DEF Pass, Awaits, RustCases
<1>6. r \in 1..plan.n /\ Past(r, "publish-peer")
  BY <1>0, <1>1, <1>5, RoleSets DEF AwaitInv, TopicInv
<1>7. PICK i \in 1..Len(Ops(r)) : Sent(r, i) /\ Ops(r)[i] = "publish-peer"
  BY <1>0, <1>6, PastListed
<1>8. \A j \in 1..Len(SetupOps) : SetupOps[j] # Ops(r)[i]
  BY <1>0, <1>5, <1>7, SetupKeepsFacts, PlanType DEF SetupFacts
<1>9. PICK k \in 1..Len(order) : order[k] = r /\ RoleFacts(RoleOps(r, k), r, k)
  BY <1>0, <1>6, <1>8, InRole
<1> DEFINE B == {"spawn"}
<1>10. \A j \in 1..Len(RoleOps(r, k)) : RoleOps(r, k)[j] = Ops(r)[i] =>
          \E l \in 1..j - 1 : RoleOps(r, k)[l] \in B
  BY <1>2, <1>7, <1>9 DEF RoleFacts, RoleKinds
<1> HIDE DEF B
<1>11. \E b \in B : Past(r, b)
  BY <1>0, <1>6, <1>7, <1>8, <1>9, <1>10, Ordered
<1>12. r \in tasks
  BY <1>0, <1>1, <1>4, <1>6, <1>11 DEF B, LinkInv
<1> QED BY <1>3, <1>4, <1>6, <1>12 DEF CanStep, Stuck

(* If nobody can go on, everyone waits or is at its return; and everyone has *)
(* done what those wait for whose operation has no higher rank.              *)
LEMMA EveryoneWaits ==
  ASSUME IInv, Stuck, NEW q \in 1..plan.n
  PROVE  /\ Ops(q)[step[q]] \in Waits
         /\ q \in Running => Ops(q)[step[q]] # "return"
         /\ q \in Running /\ Ops(q)[step[q]] \in States => q \in waiting /\ Ops(q)[step[q]] \in Barriers
         /\ q \notin Running => Ops(q)[step[q]] = "return"
<1>0. CoreInv /\ TypeCore /\ StepInv /\ TypeLinks /\ EndInv /\ CleanInv
  BY DEF IInv, CoreInv
<1>1. step[q] > Len(SetupOps)
  BY SetupFree
<1> DEFINE op == Ops(q)[step[q]]
<1>2. CASE q \in Running
  <2>1. At(q, op) /\ ~ CanStep(q)
    BY <1>0, <1>2, RunningAt DEF Stuck
  <2>2. PICK k \in 1..Len(order) :
            /\ RoleFacts(RoleOps(q, k), q, k)
            /\ \E j \in 1..Len(RoleOps(q, k)) : RoleOps(q, k)[j] = op
    BY <1>0, <1>1, Place
  <2>3. op \in AtOnce \cup Waits \cup {"dial"} /\ (op \in States => op \in Barriers)
    BY <2>2 DEF RoleFacts, RoleKinds
  <2>4. op # "dial"
    BY <1>2, HandshakeAnswered
  <2>5. op \notin AtOnce
    BY <2>1 DEF CanStep
  <2>6. op \in States => q \in waiting
    BY <2>1 DEF CanStep
  <2> QED BY <1>2, <2>3, <2>4, <2>5, <2>6 DEF AtOnce
<1>3. CASE q \notin Running
  <2>1. outcome[q] \in {"running", "ok", "unreported", "error", "panic"}
    BY <1>0, PlanType DEF TypeLinks
  <2>2. outcome[q] \notin {"error", "panic"}
    BY <1>0 DEF CleanInv, Stuck
  <2>3. Succeeded(q)
    BY <1>3, <2>1, <2>2 DEF Running, Succeeded
  <2> QED BY <1>0, <1>3, <2>3 DEF EndInv, Waits
<1> QED BY <1>2, <1>3

LEMMA RankFacts ==
  /\ \A op : Rank(op) \in 1..6
  /\ Rank("return") = 6
BY DEF Rank

(* Everyone who is as far as m has come to the state m is at.                *)
LEMMA BarrierReached ==
  ASSUME IInv, Stuck, NEW s \in Barriers,
         \A q \in 1..plan.n : Rank(Ops(q)[step[q]]) >= Rank(s)
  PROVE  BarrierOpen(s)
<1>0. CoreInv /\ TypeCore /\ StepInv /\ CountInv
  BY DEF IInv, CoreInv
<1>1. s \in States
  BY DEF Barriers, States
<1>2. ASSUME NEW q \in 1..plan.n
      PROVE  \E i \in 1..Len(Ops(q)) : Sent(q, i) /\ Ops(q)[i] \in Signalling(s)
  <2>1. step[q] > Len(SetupOps)
    BY SetupFree
  <2>2. PICK k \in 1..Len(order) :
            /\ order[k] = q
            /\ RoleFacts(RoleOps(q, k), q, k)
            /\ \E j \in 1..Len(RoleOps(q, k)) :
                  /\ step[q] = Len(SetupOps) + j
                  /\ RoleOps(q, k)[j] = Ops(q)[step[q]]
                  /\ \A l \in 1..j : /\ Len(SetupOps) + l \in 1..Len(Ops(q))
                                     /\ Ops(q)[Len(SetupOps) + l] = RoleOps(q, k)[l]
                  /\ \A l \in 1..j - 1 : Past(q, RoleOps(q, k)[l])
    BY <1>0, <2>1, Place, Zenon
  <2>3. PICK j \in 1..Len(RoleOps(q, k)) :
            /\ step[q] = Len(SetupOps) + j
            /\ RoleOps(q, k)[j] = Ops(q)[step[q]]
            /\ \A l \in 1..j : /\ Len(SetupOps) + l \in 1..Len(Ops(q))
                               /\ Ops(q)[Len(SetupOps) + l] = RoleOps(q, k)[l]
    BY <2>2
  <2>4. RoleOps(q, k)[j] \in Waits /\ Rank(RoleOps(q, k)[j]) >= Rank(s)
    BY <2>3, EveryoneWaits
  <2>5. PICK l \in 1..j : RoleOps(q, k)[l] \in Signalling(s)
    BY <2>2, <2>4 DEF RoleFacts, RoleWaits
  <2>6. Len(SetupOps) \in 1..5 /\ Len(RoleOps(q, k)) \in 1..7
    BY <1>0, <2>2, SetupKeepsFacts, PlanType DEF SetupFacts, RoleFacts, RoleShape
  <2> DEFINE i == Len(SetupOps) + l
  <2>7. i \in 1..Len(Ops(q)) /\ Ops(q)[i] \in Signalling(s)
    BY <2>3, <2>5
  <2>8. CASE l < j
    <3>1. i < step[q]
      BY <2>3, <2>6, <2>8
    <3> QED BY <2>7, <3>1 DEF Sent
  <2>9. CASE l = j
    <3>1. i = step[q] /\ Ops(q)[step[q]] \in Signalling(s)
      BY <2>3, <2>7, <2>9
    <3>2. Ops(q)[step[q]] \in Waits
      BY EveryoneWaits
    <3>3. Ops(q)[step[q]] = s
      BY <3>1, <3>2 DEF Signalling, Waits
    <3>4. Ops(q)[step[q]] # "return"
      BY <1>1, <3>3 DEF States
    <3>5. q \in waiting
      BY <1>1, <3>3, <3>4, EveryoneWaits
    <3> QED BY <2>7, <3>1, <3>5 DEF Sent
  <2> QED BY <2>6, <2>8, <2>9
<1> QED BY <1>0, <1>1, <1>2, AllGiven

(* What a server, or the client of tcp, has done when it waits               *)
LEMMA DoneByRank ==
  ASSUME IInv, Stuck, NEW q \in 1..plan.n, NEW k \in 1..Len(order), order[k] = q
  PROVE  LET r == Rank(Ops(q)[step[q]]) IN
         /\ Awaits /\ IsServer(q, k) => Past(q, "publish-peer")
         /\ ByRoot /\ IsServer(q, k) => Past(q, "publish-root")
         /\ plan.case = "kubo" /\ IsServer(q, k) /\ r >= 5 => Past(q, "publish-root")
         /\ plan.case = "tcp" /\ IsClient(q, k) /\ r >= 4 => Past(q, "dial")
         /\ plan.case = "tcp" /\ IsServer(q, k) /\ r >= 5 => Past(q, "serve")
<1>0. TypeCore /\ StepInv
  BY DEF IInv, CoreInv
<1>1. step[q] > Len(SetupOps)
  BY SetupFree
<1>2. PICK h \in 1..Len(order) :
          /\ order[h] = q
          /\ RoleFacts(RoleOps(q, h), q, h)
          /\ \E j \in 1..Len(RoleOps(q, h)) :
                /\ RoleOps(q, h)[j] = Ops(q)[step[q]]
                /\ \A l \in 1..j - 1 : Past(q, RoleOps(q, h)[l])
  BY <1>0, <1>1, Place
<1>3. h = k
  BY <1>0, <1>2 DEF TypeCore
<1>4. PICK j \in 1..Len(RoleOps(q, k)) :
          /\ RoleOps(q, k)[j] = Ops(q)[step[q]]
          /\ \A l \in 1..j - 1 : Past(q, RoleOps(q, k)[l])
  BY <1>2, <1>3
<1>5. RoleOps(q, k)[j] \in Waits
  BY <1>4, EveryoneWaits
<1> DEFINE t == RoleOps(q, k)
<1>6. /\ Awaits /\ IsServer(q, k) => \E l \in 1..j - 1 : t[l] = "publish-peer"
      /\ ByRoot /\ IsServer(q, k) => \E l \in 1..j - 1 : t[l] = "publish-root"
      /\ plan.case = "kubo" /\ IsServer(q, k) /\ Rank(t[j]) >= 5 =>
            \E l \in 1..j - 1 : t[l] = "publish-root"
      /\ plan.case = "tcp" /\ IsClient(q, k) /\ Rank(t[j]) >= 4 =>
            \E l \in 1..j - 1 : t[l] = "dial"
      /\ plan.case = "tcp" /\ IsServer(q, k) /\ Rank(t[j]) >= 5 =>
            \E l \in 1..j - 1 : t[l] = "serve"
  BY <1>2, <1>3, <1>5, SMTT(30) DEF RoleFacts, RoleWaits
<1> QED BY <1>4, <1>6

(* In a supported plan in which nothing fails or times out, whatever the     *)
(* number of instances, somebody can go on until all have succeeded: nobody  *)
(* waits, at a barrier, for an address, for the root CID, for a connection   *)
(* or for a file, in a circle.                                               *)
THEOREM NoCircularWait == Spec => []NobodyBlocked
<1>1. IInv => NobodyBlocked
  <2> SUFFICES ASSUME IInv, Stuck, NEW w \in 1..plan.n, ~ Succeeded(w) PROVE FALSE
    BY DEF NobodyBlocked, Stuck
  <2>0. CoreInv /\ TypeCore /\ StepInv /\ TypeLinks /\ LinkInv /\ TopicInv /\ EndInv /\ CleanInv
    BY DEF IInv, CoreInv
  <2>1. w \in Running
    <3>1. outcome[w] \in {"running", "ok", "unreported", "error", "panic"}
      BY <2>0, PlanType DEF TypeLinks
    <3>2. outcome[w] \notin {"error", "panic"}
      BY <2>0 DEF CleanInv, Stuck
    <3> QED BY <3>1, <3>2 DEF Running, Succeeded
  <2>2. PICK m \in Running : \A q \in Running : Rank(Ops(m)[step[m]]) <= Rank(Ops(q)[step[q]])
    <3> DEFINE T == {Rank(Ops(q)[step[q]]) : q \in Running}
    <3>1. T \subseteq Nat /\ T # {}
      BY <2>1, RankFacts
    <3>2. PICK x \in T : \A y \in T : x <= y
      BY <3>1, LeastNat
    <3> QED BY <3>2
  <2> DEFINE op == Ops(m)[step[m]]
  <2>3. m \in 1..plan.n /\ At(m, op) /\ ~ CanStep(m)
    BY <2>0, RunningAt DEF Stuck
  <2>4. ASSUME NEW q \in 1..plan.n PROVE Rank(Ops(q)[step[q]]) >= Rank(op)
    <3>1. CASE q \in Running
      BY <2>2, <3>1, RankFacts
    <3>2. CASE q \notin Running
      <4>1. Rank(Ops(q)[step[q]]) = 6
        BY <3>2, EveryoneWaits, RankFacts
      <4>2. Rank(op) \in 1..6
        BY RankFacts
      <4> QED BY <4>1, <4>2
    <3> QED BY <3>1, <3>2
  <2>5. /\ op \in Waits /\ op # "return"
        /\ op \in States => op \in Barriers
    BY <2>3, EveryoneWaits
  <2>6. step[m] > Len(SetupOps)
    BY <2>3, SetupFree
  <2>7. {1, 2} \subseteq 1..Len(order) /\ \A q \in 1..plan.n : Numbered(q)
    BY <2>0, <2>3, <2>6, AllNumbered
  <2>8. /\ Servers # {} /\ Servers \subseteq 1..plan.n /\ IsFiniteSet(Servers)
        /\ ~ Awaits => order[1] \in Servers /\ IsServer(order[1], 1) /\ IsClient(order[2], 2)
    BY <2>0, <2>7, RolesTaken, RoleSets
  <2>9. \A k \in 1..Len(order) : order[k] \in 1..plan.n
    BY <2>0, PlanType
  <2>10. PICK k \in 1..Len(order) :
            /\ RoleFacts(RoleOps(m, k), m, k)
            /\ \E j \in 1..Len(RoleOps(m, k)) : RoleOps(m, k)[j] = op
    BY <2>0, <2>3, <2>6, Place
  <2>11. CASE op \in States
    <3>1. BarrierOpen(op)
      BY <2>4, <2>5, <2>11, BarrierReached
    <3> QED BY <2>3, <2>11, <3>1 DEF CanStep
  <2>12. CASE op = "await-servers"
    <3>1. Awaits
      BY <2>10, <2>12 DEF RoleFacts, RoleOrder
    <3>2. ASSUME NEW q \in Servers PROVE q \in peers
      <4>1. PICK h \in 1..Len(order) : order[h] = q
        BY <2>7, <2>8 DEF Numbered
      <4>2. IsServer(q, h)
        BY <2>0, <4>1, RoleSets
      <4>3. Past(q, "publish-peer")
        BY <2>8, <3>1, <4>1, <4>2, DoneByRank
      <4> QED BY <2>0, <2>8, <4>3 DEF TopicInv
    <3>3. IsFiniteSet(peers)
      BY <2>0, InstanceCount, FS_Subset DEF TypeCore
    <3>4. Cardinality(Servers) <= Cardinality(peers)
      BY <3>2, <3>3, FS_Subset
    <3>5. Cardinality(Servers) \in Nat /\ Cardinality(peers) \in Nat
      BY <2>8, <3>3, FS_CardinalityType
    <3>6. ServersKnown
      BY <3>4, <3>5 DEF ServersKnown
    <3> QED BY <2>3, <2>12, <3>6 DEF CanStep
  <2>13. CASE op = "await-root"
    <3>1. ByRoot /\ ~ Awaits
      BY <2>10, <2>13 DEF RoleFacts, RoleKinds, ByRoot, Awaits, RustCases
    <3>2. Past(order[1], "publish-root") /\ order[1] \in 1..plan.n
      BY <2>7, <2>8, <2>9, <3>1, DoneByRank
    <3>3. rootCid
      BY <2>0, <3>2 DEF TopicInv
    <3> QED BY <2>3, <2>13, <3>3 DEF CanStep
  <2>14. CASE op = "accept"
    <3>1. plan.case = "tcp" /\ ~ Awaits
      BY <2>10, <2>14 DEF RoleFacts, RoleKinds, Awaits, RustCases
    <3>2. order[2] \in 1..plan.n /\ Rank(op) = 4
      BY <2>7, <2>9, <2>14 DEF Rank
    <3>3. Rank(Ops(order[2])[step[order[2]]]) >= 4
      BY <2>4, <3>2
    <3>4. Past(order[2], "dial")
      BY <2>7, <2>8, <3>1, <3>2, <3>3, DoneByRank
    <3>5. dialled # {}
      BY <2>0, <3>2, <3>4 DEF LinkInv
    <3> QED BY <2>3, <2>14, <3>5 DEF CanStep
  <2>15. CASE op = "download"
    <3>1. Servers \subseteq Running
      BY <2>3, <2>15, ServersRun DEF Stuck
    <3>2. Rank(op) = 5
      BY <2>15 DEF Rank
    <3>3. CASE plan.case = "tcp"
      <4>1. ~ Awaits /\ order[1] \in 1..plan.n
        BY <2>7, <2>9, <3>3 DEF Awaits, RustCases
      <4>2. Rank(Ops(order[1])[step[order[1]]]) >= 5
        BY <2>4, <3>2, <4>1
      <4>3. Past(order[1], "serve")
        BY <2>7, <2>8, <3>3, <4>1, <4>2, DoneByRank
      <4>4. ContentThere
        BY <2>0, <3>3, <4>1, <4>3, Zenon DEF LinkInv, ContentThere
      <4> QED BY <2>3, <2>15, <4>4 DEF CanStep
    <3>4. CASE plan.case = "kubo"
      <4>1. PICK r \in Servers : r \in 1..plan.n
        BY <2>8
      <4>2. PICK h \in 1..Len(order) : order[h] = r
        BY <2>7, <4>1 DEF Numbered
      <4>3. IsServer(r, h)
        BY <2>0, <4>2, RoleSets
      <4>4. Rank(Ops(r)[step[r]]) >= 5
        BY <2>4, <3>2, <4>1
      <4>5. Past(r, "publish-root")
        BY <3>4, <4>1, <4>2, <4>3, <4>4, DoneByRank
      <4>6. rootCid /\ Servers \cap Running # {}
        BY <2>0, <2>8, <3>1, <4>1, <4>5 DEF TopicInv
      <4>7. ContentThere
        BY <3>4, <4>6, Zenon DEF ContentThere
      <4> QED BY <2>3, <2>15, <4>7 DEF CanStep
    <3>5. CASE plan.case \notin {"tcp", "kubo"}
      <4>1. ContentThere
        BY <3>1, <3>5, Zenon DEF ContentThere
      <4> QED BY <2>3, <2>15, <4>1 DEF CanStep
    <3> QED BY <3>3, <3>4, <3>5
  <2> QED BY <2>5, <2>11, <2>12, <2>13, <2>14, <2>15 DEF Waits, States
<1> QED BY <1>1, InvariantHolds, PTL

(* In a plan with the number of instances it is written for, nobody ends in  *)
(* an error or a panic of its own accord: as long as no call has failed and  *)
(* no deadline has passed, a dial finds its servers listening and running, a *)
(* tcp server its client and a download its server, in any order of the      *)
(* instances' steps; no instance returns before the others are done with it. *)
THEOREM NobodyFailsAlone == Spec => []CleanInv
<1>1. IInv => CleanInv
  BY DEF IInv
<1> QED BY <1>1, InvariantHolds, PTL
=============================================================================
