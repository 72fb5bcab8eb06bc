SPECIFICATION Spec
CONSTANTS
    Flows = {f1, f2}
    Groups = {g1}
    Workers = {w1, w2}
    Users = {u1}
    NoUser = NoUser
    NoGroup = NoGroup
    Trash = Trash
    NoFlow = NoFlow
    NoJob = NoJob
    MaxCalls = 3
    MaxEarly = 1
INVARIANTS
    GroupsExist
    TrashedOffline
    ServedIsPublished
PROPERTIES
    ThroughTrash
    ListOnlyGrows
SYMMETRY MCSymmetry
CHECK_DEADLOCK FALSE
