SPECIFICATION Spec
CONSTANTS
    Components = {1}
    Sizes <- MCSizes
    NoSize = NoSize
    Qty <- MCQty
    Classes = {"fast"}
    Hosts = {"a", "b"}
    NoHost = NoHost
    MaxRev = 6
    Clis = {p1, p2}
    Manifests <- Growing
    FlagSets <- ResizeFlags
    Deleting = FALSE
    LostReads = TRUE
    MaxRuns = 3
INVARIANTS
    CRDsBeforeRelease
    GuardGaps
PROPERTIES
    NoUpgradeOverPending
CHECK_DEADLOCK FALSE
