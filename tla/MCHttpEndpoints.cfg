SPECIFICATION Spec
CONSTANTS
    Flows = {f1, f2}
    Addrs = {"a1", "a2"}
    Patterns = {"p1", "p2", "p3"}
    Tls = {"http", "https", "badcert"}
    BadTls = {"badcert"}
    Clash <- MCClash
    Dsls <- MCDsls
    Workers = {w1, w2}
    NoServer = NoServer
    NoTarget = NoTarget
    NoDsl = NoDsl
    NoFlow = NoFlow
INVARIANTS
    ListenerInUse
    TlsUniform
    IndexExact
    MuxExact
    SoloSyncExact
    CheckedSyncNotRefused
PROPERTIES
    OnlyOwnerRemoves
SYMMETRY MCSymmetry
