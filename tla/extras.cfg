SPECIFICATION FairSpec
CONSTANTS
    Clis = {p1, p2}
    Crds = {1, 2}
    Versions = {"v1", "v2"}
    Absent = Absent
    Cluster <- MCCluster
    Nil = Nil
    EnvNames <- MCNames
    Prefix <- MCPrefix
    K8sSafe <- MCSafe
    Project = "shop"
    ReleaseNs = "ns"
    KindOf <- MCKindOf
    Inputs <- MCInputs
INVARIANTS
    ManifestsFit
    BundleAsMeant
    OfflineAgrees
PROPERTIES
    CreateKeeps
    ApplyEnds
CHECK_DEADLOCK FALSE
