SPECIFICATION Spec
CONSTANTS
    Users = {u1, u2}
    Conns = {c1, c2}
    Queries = {q1}
    Callers = {u1}
    Switchers = {u1}
    sendBuf = 1
    MaxSaves = 1
    NoUser = NoUser
    NoQuery = NoQuery
    NoOutcome = NoOutcome
INVARIANTS MembersOpen PendingInProgress ClaimedReplyFits SwitchedOffDisconnected
PROPERTIES EditorsDepart RoundTripImplemented
CHECK_DEADLOCK FALSE
