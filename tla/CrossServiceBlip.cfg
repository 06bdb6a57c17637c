SPECIFICATION Spec
CONSTANTS
    a1 = a1
    a2 = a2
    Nil = Nil
    Addrs <- MCAddrs
    Policy <- MCPolicyMark
    Answers <- MCAnswers
    MaxPersisted = 2
    ErrorCap = 3
    Watched = TRUE
    Polled = FALSE
    MaxNow = 0
    MaxLag = 2
    MaxEdits = 0
    MaxSwings = 1
    MaxFaults = 0
PROPERTY BlipKeepsServing
CHECK_DEADLOCK FALSE
