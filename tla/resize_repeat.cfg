SPECIFICATION Spec
CONSTANTS
    Components = {1}
    Sizes <- MCSizes
    NoSize = NoSize
    Qty <- MCQty
    Classes = {"fast"}
    Hosts = {"a", "b"}
    NoHost = NoHost
    MaxRev = 6
    Clis = {p1}
    Manifests <- Growing
    FlagSets <- ResizeFlags
    Deleting = FALSE
    LostReads = FALSE
    MaxRuns = 3
INVARIANTS
    ResizeRepeatable
CHECK_DEADLOCK FALSE
