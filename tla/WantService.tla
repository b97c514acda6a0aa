---------------------------- MODULE WantService ----------------------------
(***************************************************************************)
(* What the Client of bitswap/client.go may expect of the process it sends  *)
(* its wants to: each want is answered at least once and a bounded number   *)
(* of times, unless the process goes down.  An attempt to answer that fails *)
(* half-way leaves a broken stream behind.  BitswapServer implements this   *)
(* service for messages of one entry, BitswapClient is composed with it.    *)
(***************************************************************************)
EXTENDS Integers, FiniteSets

CONSTANTS
    Wants,        \* the wants that may be sent
    MaxAnswers    \* how often one of them may be answered

VARIABLES
    asked,     \* the wants the process was sent
    answers,   \* answers[w]: how many whole answers it has sent to w
    broken,    \* the wants it has opened a stream for that broke
    up         \* whether the process runs

serviceVars == <<asked, answers, broken, up>>

ServiceInit ==
    /\ asked = {}
    /\ answers = [w \in Wants |-> 0]
    /\ broken = {}
    /\ up = TRUE

(* A message with the wants W arrives, or is written in vain.                *)
Ask(W) ==
    /\ W # {} /\ W \subseteq Wants \ asked
    /\ asked' = asked \cup W
    /\ UNCHANGED <<answers, broken, up>>

Answer(w) ==
    /\ up
    /\ w \in asked
    /\ answers[w] < MaxAnswers
    /\ answers' = [answers EXCEPT ![w] = @ + 1]
    /\ UNCHANGED <<asked, broken, up>>

Break(w) ==
    /\ up
    /\ w \in asked \ broken
    /\ broken' = broken \cup {w}
    /\ UNCHANGED <<asked, answers, up>>

(* A want that cannot be answered takes the process down.                    *)
GoDown ==
    /\ up
    /\ asked # {}
    /\ up' = FALSE
    /\ UNCHANGED <<asked, answers, broken>>

ServiceNext ==
    \/ \E W \in SUBSET Wants : Ask(W)
    \/ \E w \in Wants : Answer(w) \/ Break(w)
    \/ GoDown

FirstAnswer(w) == answers[w] = 0 /\ Answer(w)

ServiceSpec ==
    /\ ServiceInit
    /\ [][ServiceNext]_serviceVars
    /\ \A w \in Wants : WF_serviceVars(FirstAnswer(w))
=============================================================================
