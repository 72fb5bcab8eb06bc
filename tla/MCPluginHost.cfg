SPECIFICATION Spec
CONSTANTS
    Plugins = {p1, p2}
    Types = {"t", "u", "builtin"}
    Workers = {w1, w2}
    Procs = {r1, r2, r3}
    MaxCalls = 3
    Builtins = {"builtin"}
    Unmarked = {"u"}
    Binaries <- MCBinaries
    NoBinary = NoBinary
    Absent = Absent
    NoOwner = NoOwner
    Builtin = Builtin
    NotLoaded = NotLoaded
    NoProc = NoProc
    NoJob = NoJob
INVARIANTS
    RegistryAlive
    LoadedServed
    NoOrphan
    ManifestFollowed
    DisabledStays
SYMMETRY MCSymmetry
CHECK_DEADLOCK FALSE
