SPECIFICATION Spec
CONSTANTS
    Unreachable = Unreachable
    Addresses = {1, 2, 3, 11}
    FamilyOf <- MCFamilyOf
    PortTuples = {1, 2}
    Conditions = {"ready", "notReady"}
    IPFamilies = {4, 6}
    maxPer = 2
    Results <- MCMoving
    Stable = {1, 3}
    MaxLag = 3
    MaxSwings = 1
    MaxFaults = 1
    Hands = {"delete", "relabel"}
    MaxHands = 1
INVARIANTS
    TypeOK
    QuietMeansWritten
PROPERTIES
    SyncedKeepsInPlace
    ImplementsBoard
CHECK_DEADLOCK FALSE
