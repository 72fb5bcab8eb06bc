SPECIFICATION Spec
CONSTANTS
    Dsls = {d1, d2}
    NoDsl = NoDsl
    MaxHistory = 1
    Workers = {w1}
    MaxVersion = 2
    NoCall = NoCall
PROPERTIES
    LockedUnchanged
