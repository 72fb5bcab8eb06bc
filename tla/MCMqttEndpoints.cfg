SPECIFICATION Spec
CONSTANTS
    Flows = {f1}
    n1 = n1
    n2 = n2
    Nodes <- MCNodes
    Sessions = {s1, s2}
    Workers = {w1, w2}
    Dsls <- MCDsls
    Conns = {c1, c2, c3, c4, c5}
    MaxCalls = 3
    NoDsl = NoDsl
    NoNode = NoNode
    NoHandle = NoHandle
    NoFlow = NoFlow
    NoSession = NoSession
    NoJob = NoJob
SYMMETRY MCSymmetry
INVARIANTS HandlesListed OpenCountExact ConnectionsHeld HandlesAlive NoDoubleConnection DraftFollowsEditor PublishedWhole
CHECK_DEADLOCK FALSE
