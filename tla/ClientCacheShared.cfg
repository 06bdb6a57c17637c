SPECIFICATION HealSpec
CONSTANTS
    k1 = k1
    k2 = k2
    s1 = s1
    s2 = s2
    NoCluster = NoCluster
    Local = Local
    Clusters <- MCOneCluster
    Services <- MCServices
    InitialPhase = "new"
    InitialRef <- MCShared
    Kinds = {"rotate", "edit", "rebind", "remove", "delete", "outage", "fail", "restart"}
    MaxChanges = 2
INVARIANT
    TypeOK
PROPERTIES
    EventuallyWatched
    EventuallyReleased
    CountIsHonest
    ImplementsPool
CHECK_DEADLOCK FALSE
