---------------------------- MODULE PublishedFlows ----------------------------
(***************************************************************************)
(* What publishing promises, flow by flow: the steps of the requests, the  *)
(* documents and the route table are left out.  A request, or the start-up,*)
(* that has a flow to itself may change what is published, and then takes  *)
(* all the old routes away before the first of the new ones answers.  If   *)
(* it ends well the flow answers with the whole definition, and goes on to *)
(* until the next of them or a restart.  Of a flow that several work on at *)
(* once nothing is promised, nor of any flow after a panic.                *)
(***************************************************************************)
CONSTANTS Flows, Definitions, None,
          Routes        \* definition, or None -> the routes it has

VARIABLES
    live,       \* flow -> the definition that is published, or None
    answers,    \* flow -> the routes that answer, each with its definition
    phase       \* flow -> how far the work on it has got

vars == <<live, answers, phase>>

\* "idle": nobody is at work on the flow; "kept": nor has been since its publication was
\* mounted; "shared": several are, or were when this one began; "broken": a registration
\* has panicked.
Phases == {"idle", "kept", "begun", "stored", "mounting", "failed", "shared", "broken"}

Published == Definitions \cup {None}

AllRoutes == UNION {Routes[d] : d \in Published}

Init ==
    /\ live \in [Flows -> Published]
    /\ answers = [f \in Flows |-> {}]
    /\ phase = [f \in Flows |-> "idle"]

Keeps(f) == live'[f] = live[f] /\ answers'[f] = answers[f]

Goes(f, from, to) == phase[f] \in from /\ phase'[f] \in to

Rests(f) == Keeps(f) /\ phase'[f] = phase[f]

\* A request begins, or the start-up, which stores nothing.
Begin(f) == Goes(f, {"idle", "kept"}, {"begun", "stored"}) /\ Keeps(f)

Refuse(f) == Goes(f, {"begun"}, {"idle"}) /\ Keeps(f)

Store(f) ==
    /\ Goes(f, {"begun"}, {"stored"})
    /\ live'[f] \in Published
    /\ answers'[f] = answers[f]

Unload(f) ==
    /\ Goes(f, {"stored"}, {"mounting"})
    /\ answers'[f] = {}
    /\ live'[f] = live[f]

Mount(f) ==
    /\ Goes(f, {"mounting"}, {"mounting"})
    /\ \E r \in Routes[live[f]] : answers'[f] = answers[f] \cup {r}
    /\ live'[f] = live[f]

Settle(f) ==
    /\ Goes(f, {"mounting"}, {"kept"})
    /\ answers[f] = Routes[live[f]]
    /\ Keeps(f)

\* A route cannot be mounted: those that were are withdrawn, unless a node does not parse.
Fail(f) == Goes(f, {"mounting"}, {"failed"}) /\ Keeps(f)

Withdraw(f) ==
    /\ Goes(f, {"failed"}, {"failed"})
    /\ answers'[f] = {}
    /\ live'[f] = live[f]

GiveUp(f) == Goes(f, {"failed"}, {"idle"}) /\ Keeps(f)

\* Another joins, and nothing is promised until all have left.
Join(f) == Goes(f, Phases \ {"broken"}, {"shared"}) /\ Keeps(f)

Contend(f) ==
    /\ Goes(f, {"shared"}, {"shared", "idle"})
    /\ live'[f] \in Published
    /\ answers'[f] \subseteq AllRoutes

\* A panic takes no routes of a flow nobody is mounting.
Break(f) ==
    /\ Goes(f, Phases \ {"broken"}, {"broken"})
    /\ phase[f] \in {"idle", "kept", "begun"} => answers'[f] = answers[f]
    /\ answers'[f] \subseteq AllRoutes
    /\ live'[f] = live[f]

Broken(f) ==
    /\ Goes(f, {"broken"}, {"broken"})
    /\ live'[f] \in Published
    /\ answers'[f] \subseteq AllRoutes

Restart(f) ==
    /\ phase'[f] = "idle"
    /\ answers'[f] = {}
    /\ live'[f] = live[f]

Step(f) ==
    \/ Rests(f)
    \/ Begin(f) \/ Refuse(f) \/ Store(f)
    \/ Unload(f) \/ Mount(f) \/ Settle(f)
    \/ Fail(f) \/ Withdraw(f) \/ GiveUp(f)
    \/ Join(f) \/ Contend(f)
    \/ Break(f) \/ Broken(f) \/ Restart(f)

Next == \A f \in Flows : Step(f)

Spec == Init /\ [][Next]_vars

\* What it comes to: a flow that is kept answers with its whole publication and nothing else,
\* and with nothing if it is offline (endpoint/manager.go SyncFlow).
KeptAnswersWhole == \A f \in Flows : phase[f] = "kept" => answers[f] = Routes[live[f]]
=============================================================================
