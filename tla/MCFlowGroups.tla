---------------------------- MODULE MCFlowGroups ----------------------------
(* A small instance of FlowGroups: two flows, a group, two goroutines. *)
EXTENDS FlowGroups, TLC

MCSymmetry == Permutations(Flows) \cup Permutations(Groups) \cup Permutations(Workers)
=============================================================================
