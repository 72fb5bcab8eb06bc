SPECIFICATION Spec
CONSTANTS
    Clients = {cursor, other}
    seeded = cursor
    Users = {u1, u2}
    Tokens = {t1, t2, t3, t4}
    Workers = {w1, w2}
    codeTTL = 1
    RefreshTTL = 2
    MaxTime = 3
    Nothing = Nothing
INVARIANTS GrantInOnePlace LineageKept
PROPERTIES IdleGrantDies
SYMMETRY MCSymmetry
