SPECIFICATION FairSpec
CONSTANTS
    a1 = a1
    a2 = a2
    a3 = a3
    h1 = h1
    None = None
    Private = {a2}
    Special = {a3}
    DefaultPolicy <- MCDefaultPolicy
    Malformed = {"10.0.0.0/33"}
    Sources <- MCSources
    Clusters <- MCClusters
    InitialCluster <- MCInitialCluster
    Values <- MCValues
    Objects <- MCObjects
    ChanCap = 1
    MaxChanges = 2
CHECK_DEADLOCK FALSE
INVARIANTS
    TypeOK
    QuietMeansFresh
PROPERTY EventuallyFresh
