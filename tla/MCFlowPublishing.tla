-------------------------- MODULE MCFlowPublishing --------------------------
(* A small instance of FlowPublishing: two flows, one address, three patterns *)
(* of which two clash in a mux, and two definitions: flows that publish the   *)
(* same one collide on its patterns, flows that publish both clash.  The      *)
(* process starts over flows that were only saved, or one of them published.  *)
EXTENDS FlowPublishing, TLC

R(p) == [addr |-> "a", pattern |-> p, tls |-> "http", parses |-> TRUE]

MCDsls == {<<R("p1"), R("p2")>>, <<R("p3")>>}

MCClash == {{"p2", "p3"}}

\* A flow whose second publication, of e, has replaced its first, of d.
Republished(d, e) ==
    LET first == Saved(Published(Inserted(d), Inserted(d)), e)
    IN  Published(first, first)

MCDatabases ==
    LET saved == {Inserted(d) : d \in MCDsls}
        republished == Republished(<<R("p1"), R("p2")>>, <<R("p3")>>)
    IN  {db \in [Flows -> saved \cup {republished}] :
            \A f, g \in Flows : db[f] = republished /\ db[g] = republished => f = g}

MCSymmetry == Permutations(Flows) \cup Permutations(Workers)
=============================================================================
