SPECIFICATION PublishFairSpec
CONSTANTS
    Unreachable = Unreachable
    NoService = NoService
    Self = "xsvc"
    FreshNodePort = 30000
    PortNames = {"http", "admin"}
    PortNumbers = {80, 81, 90, 8080, 30000}
    Labels = {"team", "theirs", "cross-service-name"}
    Values = {"a", "b", "kept", "xsvc"}
    Policies = {"", "Cluster", "Local"}
    Addresses = {1}
    Backends = {1}
    FamilyOf <- MCFamilyOf
    PortTuples = {1, 2}
    Conditions = {"ready"}
    IPFamilies = {4}
    maxPer = 1
    Results <- MCResults
    Specs <- MCSpecs
    Found <- MCFound
    Stable = {}
    MaxLag = 3
    MaxSwings = 1
    MaxFaults = 1
    Hands = {"delete", "service"}
    MaxHands = 2
INVARIANTS
    PublishTypeOK
    RestMeansPublished
PROPERTIES
    ForeignSurvives
    PublishImplementsBoard
    EventuallyPublished
CHECK_DEADLOCK FALSE
