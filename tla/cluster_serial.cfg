SPECIFICATION FairSpec
CONSTANTS
    Clis = {p1}
    Cmds <- AllCmds
    MaxRuns = 4
INVARIANTS
    OutcomesTrue
PROPERTIES
    CommandsEnd
CHECK_DEADLOCK FALSE
