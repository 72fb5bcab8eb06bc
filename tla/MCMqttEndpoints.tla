-------------------------- MODULE MCMqttEndpoints ---------------------------
(* Two definitions: an mqttIn that responds with an mqttOut on its connection, and an *)
(* mqttIn that does not, with a persistent mqttOut.                                   *)
EXTENDS MqttEndpoints, TLC

CONSTANTS n1, n2

MCNodes == {n1, n2}
MCDsls ==
    {<<[id |-> n1, kind |-> "in", responds |-> TRUE],
       [id |-> n2, kind |-> "out", from |-> n1]>>,
     <<[id |-> n1, kind |-> "in", responds |-> FALSE],
       [id |-> n2, kind |-> "out", from |-> NoNode]>>}

MCSymmetry == Permutations(Workers) \cup Permutations(Sessions)
=============================================================================
