SPECIFICATION FairSpec
CONSTANTS
    Clis = {p1, p2}
    Fanouts <- MCFanouts
    Counts = {0, 2, 3}
    MaxFanoutParallelism = 2
    MaxInt32 = 2
    jobNotFoundLimit = 2
    MaxLag = 1
INVARIANTS
    ReportIsTrue
    JobWellFormed
    DeletedListed
PROPERTIES
    RunsEnd
CHECK_DEADLOCK FALSE
