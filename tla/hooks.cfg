SPECIFICATION RunSpec
CONSTANTS
    Tasks = {1, 2, 3}
    EnvNames <- MCNames
    Prefix <- MCPrefix
    Envs <- MCEnvs
    EnvLists <- MCEnvLists
    MaxDeploys = 2
INVARIANTS
    HooksOrdered
    WeightsExact
    AfterCompleted
    RefusedForCause
CHECK_DEADLOCK FALSE
