SPECIFICATION FairSpec
CONSTANTS
    None = None
    Options <- MCOptions
    Kubeconfigs <- MCKubeconfigs
    Malformed = {"bad", "garbled"}
    Accesses <- MCAccesses
    Initial <- MCInitial
    Grants <- MCGrants
    Contents <- MCContents
    Initially <- MCPresent
    TheCloud <- MCCloud
    MaxLag = 2
    Kinds = {"edit", "secret", "label", "outage"}
    MaxEdits = 1
    MaxChanges = 2
INVARIANTS
    TypeOK
    SettledMeansJudged
    FingerprintTells
PROPERTY
    EventuallyAttached
CHECK_DEADLOCK FALSE
