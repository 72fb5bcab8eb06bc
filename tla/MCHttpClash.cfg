SPECIFICATION Spec
CONSTANTS
    Flows = {f1, f2}
    Addrs = {"a1", "a2"}
    Patterns = {"p1", "p2", "p3"}
    Tls = {"http", "https", "badcert"}
    BadTls = {"badcert"}
    Clash <- MCClash
    Dsls <- MCDsls
    Workers = {w1}
    NoServer = NoServer
    NoTarget = NoTarget
    NoDsl = NoDsl
    NoFlow = NoFlow
PROPERTIES
    RemoveUnloadsAll
