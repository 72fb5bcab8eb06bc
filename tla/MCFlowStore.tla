---------------------------- MODULE MCFlowStore -----------------------------
(* Small instances of FlowStore: two goroutines, so that every update may be *)
(* stale, a history of two entries, which have an order, and four versions,  *)
(* so that the history overflows while the oldest entry is not the only one. *)
EXTENDS FlowStore, TLC

\* Definitions and workers are interchangeable.
MCSymmetry == Permutations(Dsls) \cup Permutations(Workers)

\* Bound: once an update has been stale, or the numbering has started again, a state with
\* two operations under way is checked, and not followed further.
OneByOne == writes = "fresh" \/ \E w \in Workers : call[w] = NoCall
============================================================================
