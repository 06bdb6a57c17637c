SPECIFICATION FairSpec
CONSTANTS
    k1 = k1
    k2 = k2
    s1 = s1
    s2 = s2
    NoCluster = NoCluster
    Local = Local
    Clusters <- MCOneCluster
    Services <- MCServices
    InitialPhase = "present"
    InitialRef <- MCShared
    Kinds = {"remove"}
    MaxChanges = 1
PROPERTY
    GoneMeansTornDown
CHECK_DEADLOCK FALSE
