SPECIFICATION Spec
CONSTANTS
    Dsls = {d1, d2}
    NoDsl = NoDsl
    MaxHistory = 2
    Workers = {w1, w2}
    MaxVersion = 4
    NoCall = NoCall
INVARIANTS
    PublicationWellFormed
    NumbersAscend
PROPERTIES
    NothingLost
    NewLiveNewNumber
CONSTRAINT OneByOne
SYMMETRY MCSymmetry
