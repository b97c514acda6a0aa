------------------------------ MODULE TestPlan ------------------------------
(***************************************************************************)
(* The test plans.  Go, protocol_comparison: tcptest, libp2pTest,           *)
(* bitswap1to1 and bitswap1toN (the case "manifetch" is either with         *)
(* manifestfetchtype manifetch) and graphsync1to1.  Go, kubo: speed-test.   *)
(* Rust: tcp, quic and krakensync.  Several instances of one process run    *)
(* the same function and find their role from the number the sync service   *)
(* gives them, or from their group (kubo).  They meet only through the sync *)
(* service, at states (SignalAndWait: a counter, and a wait until it        *)
(* reaches the number of instances) and on topics.                          *)
(*                                                                          *)
(* An instance is where it is in the list of operations its function makes  *)
(* on the sync service, the network and its peer.                           *)
(***************************************************************************)
EXTENDS Integers, Sequences, FiniteSets

CONSTANTS
    MaxInstances,   \* a bound on the number of instances
    Plans,          \* the test cases and TestInstanceCounts to run: records [case, n]
    Providers       \* the instances of kubo's group "providers"

GoCases == {"tcp", "libp2p", "bitswap1to1", "bitswap1toN", "manifetch", "graphsync"}
RustCases == {"rust-tcp", "quic", "krakensync"}
Cases == GoCases \cup RustCases \cup {"kubo"}
Instances == 1..MaxInstances

(* The manifests: every test case has at least two instances, and the Rust   *)
(* ones exactly two.  kubo's groups are given by the composition.            *)
ASSUME PlanAssumption ==
    /\ MaxInstances \in Nat
    /\ Plans \subseteq [case : Cases, n : 2..MaxInstances]
    /\ \A pl \in Plans : pl.case \in RustCases => pl.n = 2
    /\ Providers \subseteq Instances
    /\ \A pl \in Plans : pl.case = "kubo" => (1..pl.n) \cap Providers \notin {{}, 1..pl.n}

(* States of the sync service.  ConfigureNetwork is a SignalAndWait as well: *)
(* it waits until CallbackState was signalled TestInstanceCount times.       *)
(* "initialized" is the state new_and_init numbers the Rust instances at,    *)
(* "test-done" is called "done" in Rust.                                     *)
States == {"initialized", "network-configured", "ip-allocation", "ip-changed",
           "protocol-registered", "ready-to-publish", "ready-to-download", "test-done"}

VARIABLES
    plan,        \* the plan that is run
    order,       \* the instances in the order the sync service numbered them
    step,        \* which of its operations each instance is at
    waiting,     \* the instances that have signalled the state they are at
    signals,     \* how often each state was signalled
    peers,       \* the instances whose address is on the peers topic
    rootCid,     \* whether the root CID (kubo: the blocks) is on its topic
    listening,   \* the instances that listen, or have their stream handler
    tasks,       \* the quic servers whose run_server task has still to bind
    dialled,     \* the clients that have a connection and a stream
    served,      \* whether the tcp server has sent the file
    downloaded,  \* the clients that have everything
    early,       \* whether a client dialled before the server listened (history)
    outcome,     \* how each instance ended, "running" if it has not
    faulty       \* the instances that met an error or a timeout (history)

syncVars == <<order, waiting, signals, peers, rootCid>>
linkVars == <<listening, tasks, dialled, served, downloaded, early>>
vars == <<plan, step, syncVars, linkVars, outcome, faulty>>

Running == {p \in 1..plan.n : outcome[p] = "running"}

-----------------------------------------------------------------------------
(* What an instance does before it knows its role: setupBaseLibp2pTest, and  *)
(* its counterparts in the other plans                                       *)
Libp2pSetupOps ==
    <<"network-configured", "ip-allocation", "publish-peer", "collect-peers",
      "network-configured">>

KuboSetupOps == <<"network-configured", "ip-allocation">>

KrakenSetupOps == <<"initialized", "network-configured">>

SetupOps ==
    CASE plan.case = "tcp"        -> <<"network-configured", "ip-allocation">>
      [] plan.case = "kubo"       -> KuboSetupOps
      [] plan.case = "krakensync" -> KrakenSetupOps
      [] plan.case \in {"rust-tcp", "quic"} -> <<"initialized">>
      [] OTHER -> Libp2pSetupOps

TcpOps(seq) ==
    CASE seq = 1 -> <<"listen", "ip-changed", "accept", "serve", "test-done", "return">>
      [] seq = 2 -> <<"ip-changed", "dial", "download", "test-done", "return">>
      [] OTHER   -> <<"ip-changed", "reject">>

Libp2pOps(seq) ==
    CASE seq = 1 -> <<"listen", "protocol-registered", "test-done", "return">>
      [] seq = 2 -> <<"protocol-registered", "dial", "download", "test-done", "return">>
      [] OTHER   -> <<"reject">>

ClientOps == <<"await-root", "dial", "download", "test-done", "return">>

(* wrong: every server publishes the root *)
ServerOpsAllPublish(seq) == <<"listen", "publish-root", "test-done", "return">>

(* bitswapServer and gsServer; only the first server publishes the root.     *)
ServerOps(seq) ==
    IF seq = 1 THEN <<"listen", "publish-root", "test-done", "return">>
               ELSE <<"listen", "test-done", "return">>

(* The functions of bitswap.go and graphsync.go: a third instance is a       *)
(* server in bitswap1toN, and a panic in the others.                         *)
RootOps(seq) ==
    CASE seq = 2 -> ClientOps
      [] seq = 1 \/ (seq > 2 /\ plan.case \in {"bitswap1toN", "manifetch"}) -> ServerOps(seq)
      [] OTHER -> <<"reject">>

(* tcp.rs: the client signals the end without waiting for it.                *)
RustTcpOps(seq) ==
    IF seq % 2 = 0
      THEN <<"listen", "publish-peer", "test-done", "return">>
      ELSE <<"await-servers", "dial", "signal-done", "return">>

(* quic.rs: the endpoint is bound by the task that was spawned.              *)
QuicOps(seq) ==
    IF seq % 2 = 0
      THEN <<"spawn", "publish-peer", "test-done", "return">>
      ELSE <<"await-servers", "dial", "test-done", "return">>

KrakenOps(seq) ==
    IF seq % 2 = 0
      THEN <<"listen", "publish-peer", "test-done", "return">>
      ELSE <<"await-servers", "dial", "download", "test-done", "return">>

(* runProvide and runRequest, after the host was made.  runRequest takes one *)
(* address and connects to it before it takes the next; here it takes all    *)
(* and then connects, which is the same with one provider.                   *)
KuboOps(p) ==
    IF p \in Providers
      THEN <<"listen", "publish-peer", "ready-to-publish", "publish-root",
             "ready-to-download", "test-done", "return">>
      ELSE <<"await-servers", "dial", "ready-to-publish", "ready-to-download",
             "download", "test-done", "return">>

RoleOps(p, seq) ==
    CASE plan.case = "tcp"        -> TcpOps(seq)
      [] plan.case = "libp2p"     -> Libp2pOps(seq)
      [] plan.case = "rust-tcp"   -> RustTcpOps(seq)
      [] plan.case = "quic"       -> QuicOps(seq)
      [] plan.case = "krakensync" -> KrakenOps(seq)
      [] plan.case = "kubo"       -> KuboOps(p)
      [] OTHER                    -> RootOps(seq)

SeqOf(p) == {k \in 1..Len(order) : order[k] = p}

Ops(p) == IF SeqOf(p) = {} THEN SetupOps
          ELSE SetupOps \o RoleOps(p, CHOOSE k \in SeqOf(p) : TRUE)

At(p, op) == p \in Running /\ step[p] <= Len(Ops(p)) /\ Ops(p)[step[p]] = op

(* The instances that serve and the ones that download; in bitswap1toN the   *)
(* client asks the first server.                                             *)
Servers ==
    CASE plan.case = "kubo" -> Providers \cap 1..plan.n
      [] plan.case \in RustCases -> {order[k] : k \in {i \in 1..Len(order) : i % 2 = 0}}
      [] OTHER -> {order[k] : k \in 1..Len(order) \cap {1}}

Clients ==
    CASE plan.case = "kubo" -> 1..plan.n \ Providers
      [] plan.case \in RustCases -> {order[k] : k \in {i \in 1..Len(order) : i % 2 = 1}}
      [] OTHER -> {order[k] : k \in 1..Len(order) \cap {2}}

TypeOK ==
    /\ plan \in Plans
    /\ order \in Seq(Instances)
    /\ step \in [Instances -> 1..11]
    /\ \A p \in Running : step[p] <= Len(Ops(p))
    /\ waiting \subseteq Instances
    /\ signals \in [States -> 0..(2 * plan.n)]
    /\ peers \subseteq Instances
    /\ rootCid \in BOOLEAN
    /\ listening \subseteq Instances
    /\ tasks \cup dialled \cup downloaded \subseteq Instances
    /\ {served, early} \subseteq BOOLEAN
    /\ outcome \in [Instances -> {"running", "ok", "unreported", "error", "panic"}]
    /\ faulty \subseteq Instances

Init ==
    /\ plan \in Plans
    /\ order = <<>>
    /\ step = [p \in Instances |-> 1]
    /\ waiting = {}
    /\ signals = [s \in States |-> 0]
    /\ peers = {}
    /\ rootCid = FALSE
    /\ listening = {}
    /\ tasks = {}
    /\ dialled = {}
    /\ served = FALSE
    /\ downloaded = {}
    /\ early = FALSE
    /\ outcome = [p \in Instances |-> "running"]
    /\ faulty = {}

-----------------------------------------------------------------------------
Advance(p) == step' = [step EXCEPT ![p] = @ + 1]

End(p, how) == outcome' = [outcome EXCEPT ![p] = how]

(* The signal of SignalAndWait (or of the sidecar, for ConfigureNetwork); at *)
(* ip-allocation, or in new_and_init, it returns the sequence number.        *)
Signal(p, s) ==
    /\ At(p, s)
    /\ p \notin waiting
    /\ waiting' = waiting \cup {p}
    /\ signals' = [signals EXCEPT ![s] = @ + 1]
    /\ order' = IF s \in {"ip-allocation", "initialized"} THEN Append(order, p) ELSE order
    /\ UNCHANGED <<plan, step, peers, rootCid, linkVars, outcome, faulty>>

(* wrong: one instance need not have signalled; a wait that skips what       *)
(* comes after it                                                            *)
PassBarrierEarly(p, s) ==
    /\ At(p, s)
    /\ p \in waiting
    /\ signals[s] >= plan.n - 1
    /\ waiting' = waiting \ {p}
    /\ Advance(p)
    /\ UNCHANGED <<plan, order, signals, peers, rootCid, linkVars, outcome, faulty>>

PassBarrierTwice(p, s) ==
    /\ At(p, s)
    /\ p \in waiting
    /\ signals[s] >= plan.n
    /\ waiting' = waiting \ {p}
    /\ step' = [step EXCEPT ![p] = @ + 2]
    /\ UNCHANGED <<plan, order, signals, peers, rootCid, linkVars, outcome, faulty>>

BarrierOpen(s) == signals[s] >= plan.n

(* The wait of SignalAndWait is over.  The second ConfigureNetwork of the    *)
(* libp2p set-up signals a state that has reached its target before: it is   *)
(* no barrier.                                                               *)
PassBarrier(p, s) ==
    /\ At(p, s)
    /\ p \in waiting
    /\ BarrierOpen(s)
    /\ waiting' = waiting \ {p}
    /\ Advance(p)
    /\ UNCHANGED <<plan, order, signals, peers, rootCid, linkVars, outcome, faulty>>

(* client.signal("done") of the tcp.rs client                                *)
SignalDone(p) ==
    /\ At(p, "signal-done")
    /\ signals' = [signals EXCEPT !["test-done"] = @ + 1]
    /\ Advance(p)
    /\ UNCHANGED <<plan, order, waiting, peers, rootCid, linkVars, outcome, faulty>>

(* The address goes to the topic peers, provider, server or responders.      *)
PublishPeer(p) ==
    /\ At(p, "publish-peer")
    /\ peers' = peers \cup {p}
    /\ Advance(p)
    /\ UNCHANGED <<plan, order, waiting, signals, rootCid, linkVars, outcome, faulty>>

(* wrong: one address too many is awaited *)
AllCollectedMore == Cardinality(peers) > plan.n

(* for len(peers) < TestInstanceCount: its own address included              *)
AllCollected == Cardinality(peers) >= plan.n

CollectPeers(p) ==
    /\ At(p, "collect-peers")
    /\ AllCollected
    /\ Advance(p)
    /\ UNCHANGED <<plan, syncVars, linkVars, outcome, faulty>>

(* One address for each server is awaited on the topic provider, server or   *)
(* responders: only servers publish there.                                   *)
ServersKnown == Cardinality(peers) >= Cardinality(Servers)

AwaitServers(p) ==
    /\ At(p, "await-servers")
    /\ ServersKnown
    /\ Advance(p)
    /\ UNCHANGED <<plan, syncVars, linkVars, outcome, faulty>>

(* ListenTCP, SetStreamHandler, NewServer, gsimpl.New, libp2p.New, bind or   *)
(* build_node                                                                *)
Listen(p) ==
    /\ At(p, "listen")
    /\ listening' = listening \cup {p}
    /\ Advance(p)
    /\ UNCHANGED <<plan, syncVars, tasks, dialled, served, downloaded, early, outcome, faulty>>

(* tokio::spawn(run_server(...))                                             *)
Spawn(p) ==
    /\ At(p, "spawn")
    /\ tasks' = tasks \cup {p}
    /\ Advance(p)
    /\ UNCHANGED <<plan, syncVars, listening, dialled, served, downloaded, early, outcome, faulty>>

(* The task makes the endpoint, or panics in unwrap: nobody awaits the task, *)
(* and its server waits on.                                                  *)
Bind(p) ==
    /\ p \in tasks \cap Running
    /\ tasks' = tasks \ {p}
    /\ \/ listening' = listening \cup {p} /\ UNCHANGED faulty
       \/ faulty' = faulty \cup {p} /\ UNCHANGED listening
    /\ UNCHANGED <<plan, step, syncVars, dialled, served, downloaded, early, outcome>>

PublishRoot(p) ==
    /\ At(p, "publish-root")
    /\ rootCid' = TRUE
    /\ Advance(p)
    /\ UNCHANGED <<plan, order, waiting, signals, peers, linkVars, outcome, faulty>>

AwaitRoot(p) ==
    /\ At(p, "await-root")
    /\ rootCid
    /\ Advance(p)
    /\ UNCHANGED <<plan, syncVars, linkVars, outcome, faulty>>

(* The instances a client connects to: the servers, and in basicDAGWalker    *)
(* of the bitswap plans every other instance as well.                        *)
Dialled == IF plan.case \in {"bitswap1to1", "bitswap1toN"} THEN 1..plan.n ELSE Servers

CanConnect == Servers \subseteq listening /\ Dialled \subseteq Running

(* A server runs and nobody listens at its address yet.                      *)
TooEarly == (Servers \cap Running) \ listening # {}

(* DialTCP; Connect and NewStream; insecure_connect; endpoint.connect.  It   *)
(* fails if a server does not listen or an instance to connect to is gone;   *)
(* only the handshake of quic is repeated until it is answered.              *)
Dial(p) ==
    /\ At(p, "dial")
    /\ \/ /\ CanConnect
          /\ dialled' = dialled \cup {p}
          /\ Advance(p)
          /\ UNCHANGED <<outcome, early>>
       \/ /\ ~ CanConnect
          /\ early' = (early \/ TooEarly)
          /\ IF plan.case = "quic" THEN UNCHANGED outcome ELSE End(p, "error")
          /\ UNCHANGED <<dialled, step>>
    /\ UNCHANGED <<plan, syncVars, listening, tasks, served, downloaded, faulty>>

(* AcceptTCP, which does not look at the context                             *)
Accept(p) ==
    /\ At(p, "accept")
    /\ dialled # {}
    /\ Advance(p)
    /\ UNCHANGED <<plan, syncVars, linkVars, outcome, faulty>>

(* serverProtocol of the tcp server: it fails if the client is gone.         *)
Serve(p) ==
    /\ At(p, "serve")
    /\ IF order[2] \in Running
         THEN served' = TRUE /\ Advance(p) /\ UNCHANGED outcome
         ELSE End(p, "error") /\ UNCHANGED <<served, step>>
    /\ UNCHANGED <<plan, syncVars, listening, tasks, dialled, downloaded, early, faulty>>

(* What a client downloads is there, or its server is gone.                  *)
ContentThere ==
    CASE plan.case = "tcp"  -> served
      [] plan.case = "kubo" -> rootCid /\ Servers \cap Running # {}
      [] OTHER              -> Servers \subseteq Running

ServersGone == ~ served /\ Servers \cap Running = {} /\ plan.case # "kubo"

(* clientProtocol, the walk of the bitswap client, the graphsync request,    *)
(* GetBlock of kubo, sync: it succeeds while the server is there and fails   *)
(* when it is gone.  An error of Walk2 is a panic; GetBlock without a        *)
(* deadline waits on.                                                        *)
Download(p) ==
    /\ At(p, "download")
    /\ \/ /\ ContentThere
          /\ downloaded' = downloaded \cup {p}
          /\ Advance(p)
          /\ UNCHANGED outcome
       \/ /\ ServersGone
          /\ End(p, IF plan.case = "manifetch" THEN "panic" ELSE "error")
          /\ UNCHANGED <<downloaded, step>>
    /\ UNCHANGED <<plan, syncVars, listening, tasks, dialled, served, early, faulty>>

(* "expected at most two test instances", "unsupported seq %d"               *)
Reject(p) ==
    /\ At(p, "reject")
    /\ End(p, IF plan.case \in {"tcp", "libp2p"} THEN "error" ELSE "panic")
    /\ UNCHANGED <<plan, step, syncVars, linkVars, faulty>>

(* The SDK reports the success of a Go plan that returns nil; tcp.rs and     *)
(* krakensync call record_success, quic.rs does not.                         *)
Return(p) ==
    /\ At(p, "return")
    /\ End(p, IF plan.case = "quic" THEN "unreported" ELSE "ok")
    /\ UNCHANGED <<plan, step, syncVars, linkVars, faulty>>

(* An operation of its own fails: the function returns the error, or a Must  *)
(* method panics.                                                            *)
Fail(p) ==
    /\ p \in Running \ waiting
    /\ ~ At(p, "return")
    /\ \E how \in {"error", "panic"} : End(p, how)
    /\ faulty' = faulty \cup {p}
    /\ UNCHANGED <<plan, step, syncVars, linkVars>>

(* wrong: the topics are awaited without the context                         *)
TimeoutAtBarriers(p) ==
    /\ plan.case \in GoCases
    /\ p \in waiting /\ p \in Running
    /\ End(p, "panic")
    /\ faulty' = faulty \cup {p}
    /\ UNCHANGED <<plan, step, syncVars, linkVars>>

(* The context of the function expires during a wait on the sync service: a  *)
(* Must method panics, a subscription ends with an error.  Only the plans of *)
(* protocol_comparison have one; quic gives up an unanswered handshake.      *)
Timeout(p) ==
    /\ \/ plan.case \in GoCases /\ p \in waiting /\ p \in Running /\ End(p, "panic")
       \/ (At(p, "collect-peers") \/ At(p, "await-root")) /\ End(p, "error")
       \/ plan.case = "quic" /\ At(p, "dial") /\ ~ CanConnect /\ End(p, "error")
    /\ faulty' = faulty \cup {p}
    /\ UNCHANGED <<plan, step, syncVars, linkVars>>

(* Fifteen seconds after the manifest was asked for a goroutine of           *)
(* manifetchDAGWalker panics, whatever the client is doing by then.          *)
StackDump(p) ==
    /\ plan.case = "manifetch"
    /\ p \in Running \cap dialled
    /\ End(p, "panic")
    /\ faulty' = faulty \cup {p}
    /\ UNCHANGED <<plan, step, syncVars, linkVars>>

Step(p) ==
    \/ \E s \in States : Signal(p, s) \/ PassBarrier(p, s)
    \/ SignalDone(p)
    \/ PublishPeer(p)
    \/ CollectPeers(p)
    \/ AwaitServers(p)
    \/ Listen(p)
    \/ Spawn(p)
    \/ Bind(p)
    \/ PublishRoot(p)
    \/ AwaitRoot(p)
    \/ Dial(p)
    \/ Accept(p)
    \/ Serve(p)
    \/ Download(p)
    \/ Reject(p)
    \/ Return(p)

Next == \E p \in Instances : Step(p) \/ Fail(p) \/ Timeout(p) \/ StackDump(p)

Spec == Init /\ [][Next]_vars

(* Instances run, contexts with a timeout do expire and time passes.         *)
FairSpec ==
    /\ Spec
    /\ \A p \in Instances : WF_vars(Step(p)) /\ WF_vars(Timeout(p)) /\ WF_vars(StackDump(p))

-----------------------------------------------------------------------------
(* The numbers of instances each plan is written for                         *)
Supported == plan.case \in {"bitswap1toN", "manifetch", "kubo"} \/ plan.n = 2

Succeeded(p) == outcome[p] \in {"ok", "unreported"}

(* What is to be shown by a plan: a connection, or a transfer                *)
Transferred == IF plan.case \in {"rust-tcp", "quic"} THEN dialled ELSE downloaded

(* "ensuring instance A doesn't dial instance B until instance B has been    *)
(* created & is waiting for a connection" (README.md): no client of another  *)
(* plan than quic dials a server that runs and does not listen yet, although *)
(* the second ConfigureNetwork of the libp2p set-up holds nobody back.       *)
(* quic.rs publishes its address before the spawned task has bound it: its   *)
(* client may dial too early, and lives on the repetition of its handshake.  *)
NeverEarly == plan.case # "quic" => ~ early

(* "ensuring instance C keeps running until instance D has been able to      *)
(* request and verify some content from instance C" (README.md): nobody      *)
(* returns without an error before every client has everything and every     *)
(* instance has come to the end, whatever failed or timed out elsewhere, the *)
(* panic of manifetchDAGWalker included.  The client of tcp.rs, which does   *)
(* not wait, has at least its own connection.                                *)
SuccessMeansDownloaded ==
    \A p \in 1..plan.n : Succeeded(p) =>
        IF plan.case = "rust-tcp" /\ p \in Clients
          THEN p \in Transferred
          ELSE Clients \subseteq Transferred /\ signals["test-done"] = plan.n

(* The operations that wait for nobody                                       *)
AtOnce == {"publish-peer", "publish-root", "listen", "spawn", "serve", "signal-done",
           "reject", "return"}

(* The guards of the actions of Step, but for a handshake of quic that is    *)
(* repeated in vain: what p does next does not make it wait for another, or  *)
(* its task has still to bind.                                               *)
CanStep(p) ==
    \/ \E op \in AtOnce : At(p, op)
    \/ \E s \in States : At(p, s) /\ (p \notin waiting \/ BarrierOpen(s))
    \/ At(p, "collect-peers") /\ AllCollected
    \/ At(p, "await-servers") /\ ServersKnown
    \/ At(p, "await-root") /\ rootCid
    \/ At(p, "dial") /\ (CanConnect \/ plan.case # "quic")
    \/ At(p, "accept") /\ dialled # {}
    \/ At(p, "download") /\ (ContentThere \/ ServersGone)
    \/ p \in tasks \cap Running

(* In a supported plan without errors and timeouts the instances never wait  *)
(* for each other in a circle: somebody can go on until all have succeeded.  *)
NobodyBlocked ==
    Supported /\ faulty = {} =>
        \/ \A p \in 1..plan.n : Succeeded(p)
        \/ \E p \in 1..plan.n : CanStep(p)

(* However many fail, everyone ends in the end, with the one exception of a  *)
(* tcp server in AcceptTCP, which has no deadline.  In kubo and the Rust     *)
(* plans no wait has one: there everyone ends if nobody has failed.          *)
EveryoneEnds ==
    <>[](\A p \in Running : At(p, "accept") \/ (plan.case \notin GoCases /\ faulty # {}))
=============================================================================
