-------------------------- MODULE MCHttpEndpoints --------------------------
(* A small instance of HttpEndpoints: two flows, two addresses, three         *)
(* patterns of which two clash in a mux, and DSLs that share an address,      *)
(* collide on a pattern, disagree on TLS, repeat a router, carry a bad key    *)
(* pair or end in a node that does not parse.                                 *)
EXTENDS HttpEndpoints, TLC

R(a, p, t) == [addr |-> a, pattern |-> p, tls |-> t, parses |-> TRUE]
Unparsed(a, p, t) == [R(a, p, t) EXCEPT !.parses = FALSE]

MCDsls == {
    <<R("a1", "p2", "http"), R("a1", "p1", "http")>>,
    <<R("a1", "p3", "http"), R("a2", "p1", "http")>>,
    <<R("a1", "p2", "https"), R("a2", "p2", "badcert")>>,
    <<R("a2", "p1", "http"), R("a2", "p1", "http"), Unparsed("a2", "p2", "http")>> }

MCClash == {{"p1", "p3"}}

\* Flows and workers are interchangeable; no liveness is checked with it.
MCSymmetry == Permutations(Flows) \cup Permutations(Workers)
============================================================================
