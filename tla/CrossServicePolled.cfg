SPECIFICATION FairSpec
CONSTANTS
    a1 = a1
    a2 = a2
    Nil = Nil
    Addrs <- MCAddrs
    Policy <- MCPolicyRemove
    Answers <- MCAnswers
    MaxPersisted = 2
    ErrorCap = 3
    Watched = FALSE
    Polled = TRUE
    MaxNow = 2
    MaxLag = 3
    MaxEdits = 1
    MaxSwings = 1
    MaxFaults = 1
INVARIANT
    QuietMeansConverged
PROPERTIES
    EventuallyServed
    OutageEventuallyApplied
CHECK_DEADLOCK FALSE
