SPECIFICATION Spec
CONSTANTS
    Workers = {w1, w2}
    Keys = {k1, k2}
    Every = 1
    Debug = FALSE
    MaxCalls = 2
    Warm = {k1}
INVARIANTS
    CacheIntact
    ChartInUse
CHECK_DEADLOCK FALSE
