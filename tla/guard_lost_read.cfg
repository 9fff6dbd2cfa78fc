SPECIFICATION Spec
CONSTANTS
    Components = {1}
    Sizes <- MCSizes
    NoSize = NoSize
    Qty <- MCQty
    Classes = {"fast"}
    Hosts = {"a", "b"}
    NoHost = NoHost
    MaxRev = 6
    Clis = {p1}
    Manifests <- Moving
    FlagSets <- PlainFlags
    Deleting = FALSE
    LostReads = TRUE
    MaxRuns = 3
PROPERTY
    HostnameGuardClosed
CHECK_DEADLOCK FALSE
