SPECIFICATION FairSpec
CONSTANTS
    k1 = k1
    k2 = k2
    s1 = s1
    s2 = s2
    NoCluster = NoCluster
    Local = Local
    Clusters <- MCClusters
    Services <- MCServices
    InitialPhase = "present"
    InitialRef <- MCApart
    Kinds = {"outage"}
    MaxChanges = 1
PROPERTY
    EventuallyWatched
CHECK_DEADLOCK FALSE
