SPECIFICATION FairSpec
CONSTANTS
    Pods <- MCPods
    Component <- MCComponent
    Uids = {u1, u2}
    MaxCount = 2
    Capacity = 1
INVARIANTS
    QuietMeansReady
    WarningsOnTheWay
PROPERTIES
    ViewMovesOn
    WatchEnds
CHECK_DEADLOCK FALSE
