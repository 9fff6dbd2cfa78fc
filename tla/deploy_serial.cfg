SPECIFICATION FairSpec
CONSTANTS
    Components = {1, 2}
    Sizes <- MCSizes
    NoSize = NoSize
    Qty <- MCQty
    Classes = {"fast"}
    Hosts = {"a", "b"}
    NoHost = NoHost
    MaxRev = 8
    Clis = {p1}
    Manifests <- TwoComponents
    FlagSets <- SomeFlags
    Deleting = TRUE
    LostReads = FALSE
    MaxRuns = 4
INVARIANTS
    TypeOK
    DeletedIsGone
PROPERTIES
    GuardedUpgrade
    BaselineStable
    GrowthPrepared
    OrphanAfterExpand
    RunsEnd
    ImplementsGuardedRelease
CHECK_DEADLOCK FALSE
