SPECIFICATION PublishingSpec
CONSTANTS
    Flows = {f1, f2}
    Addrs = {"a"}
    Patterns = {"p1", "p2", "p3"}
    Tls = {"http"}
    BadTls = {}
    Clash <- MCClash
    Dsls <- MCDsls
    Workers = {w1, w2}
    MaxHistory = 2
    Databases <- MCDatabases
    MaxCalls = 2
    NoServer = NoServer
    NoTarget = NoTarget
    NoDsl = NoDsl
    NoFlow = NoFlow
    NoJob = NoJob
    NoRecord = NoRecord
INVARIANTS
    MqttAsPublished
    QuietHandlerNotRefused
PROPERTIES
    PublishingImplemented
SYMMETRY MCSymmetry
CHECK_DEADLOCK FALSE
