SPECIFICATION FairSpec
CONSTANTS
    RetryCap = 3
    Origins <- MCOrigins
    Quotes <- MCQuotes
    MaxNits = 2
    MaxMishaps = 2
CHECK_DEADLOCK FALSE
INVARIANTS
    TypeOK
    OpenedWasReviewed
    DepthBelowCap
PROPERTIES
    PushFollowsGreen
    ChainsEnd
    KeepsPromise
