SPECIFICATION Spec
CONSTANTS
    Nil = Nil
    MaxInt32 = 63
    EnvNames <- MCNames
    Prefix <- MCPrefix
    Sanitized <- MCSanitized
    SortedNames <- MCSorted
    BadLabels = {"_x"}
    Inputs <- MCInputs
INVARIANTS
    ChartSound
    ProfilesBind
    HostsApart
    VerdictsAgree
    
    RightCluster
    InitRoundTrip
PROPERTIES
    PlatformFileKept
