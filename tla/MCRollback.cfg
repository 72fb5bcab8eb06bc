SPECIFICATION PublishingSpec
CONSTANTS
    Flows = {f1}
    Addrs = {"a"}
    Patterns = {"p1", "p2", "p3"}
    Tls = {"http"}
    BadTls = {}
    Clash <- MCClash
    Dsls <- MCDsls
    Workers = {w1}
    MaxHistory = 2
    Databases <- MCDatabases
    MaxCalls = 6
    NoServer = NoServer
    NoTarget = NoTarget
    NoDsl = NoDsl
    NoFlow = NoFlow
    NoJob = NoJob
    NoRecord = NoRecord
PROPERTIES
    StoresWhatItChecked
CHECK_DEADLOCK FALSE
