SPECIFICATION Spec
CONSTANTS
    a1 = a1
    a2 = a2
    Nil = Nil
    Addrs <- MCAddrs
    Policy <- MCPolicyMark
    Answers <- MCAnswers
    MaxPersisted = 1
    ErrorCap = 3
    Watched = TRUE
    Polled = FALSE
    MaxNow = 3
    MaxLag = 3
    MaxEdits = 1
    MaxSwings = 2
    MaxFaults = 1
INVARIANTS
    TypeOK
    QuietMeansConverged
    ObservedIsHonest
PROPERTY
    ExpiredOutageStaysDown
CHECK_DEADLOCK FALSE
