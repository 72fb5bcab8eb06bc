---------------------------- MODULE EditorQuery -----------------------------
(***************************************************************************)
(* What a round trip to the editors of a user promises its MCP caller      *)
(* (Hub.QueryActiveFlow, Hub.PatchActiveFlow), connections and queues      *)
(* left out: it returns once, in the end, with the reply of an editor of   *)
(* that user or with an error.                                             *)
(***************************************************************************)
CONSTANTS Queries, Users, Editors, NoUser, NoOutcome

VARIABLES
    joined,     \* user -> editors that have connected for that user
    asked,      \* query -> the user whose editors it asks
    outcome     \* query -> what it returned: an editor's reply, or why there is none

vars == <<joined, asked, outcome>>

Failures == {"no editor", "timeout"}

Init ==
    /\ joined = [u \in Users |-> {}]
    /\ asked = [q \in Queries |-> NoUser]
    /\ outcome = [q \in Queries |-> NoOutcome]

\* An editor connects, for one user and for good.
Join ==
    /\ \E u \in Users, e \in Editors :
           /\ \A v \in Users : e \notin joined[v]
           /\ joined' = [joined EXCEPT ![u] = @ \cup {e}]
    /\ UNCHANGED <<asked, outcome>>

Ask(q) ==
    /\ asked[q] = NoUser
    /\ \E u \in Users : asked' = [asked EXCEPT ![q] = u]
    /\ UNCHANGED <<joined, outcome>>

Return(q) ==
    /\ asked[q] # NoUser
    /\ outcome[q] = NoOutcome
    /\ \E result \in joined[asked[q]] \cup Failures : outcome' = [outcome EXCEPT ![q] = result]
    /\ UNCHANGED <<joined, asked>>

Next == Join \/ \E q \in Queries : Ask(q) \/ Return(q)

Spec == Init /\ [][Next]_vars /\ \A q \in Queries : WF_vars(Return(q))
=============================================================================
