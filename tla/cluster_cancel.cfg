SPECIFICATION Spec
CONSTANTS
    Clis = {p1}
    Cmds <- UpOnly
    MaxRuns = 2
PROPERTIES
    CleanupDeletesOwnCluster
CHECK_DEADLOCK FALSE
