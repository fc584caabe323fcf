SPECIFICATION FairSpec
CONSTANTS
    Lanes = {l1, l2}
    Lifetime = 4
    Skew = 1
    JobTimeout = 2
    MaxFaults = 2
INVARIANTS
    ContainersTornDown
PROPERTIES
    HandedOutFresh
    MintedLastsJob
    VerdictsKeepComing
