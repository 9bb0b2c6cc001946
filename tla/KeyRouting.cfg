SPECIFICATION FairSpec
CONSTANTS
    r1 = r1
    r2 = r2
    k1 = k1
    k2 = k2
    Requests = {r1, r2}
    Keys = {k1, k2}
    Written <- MCWritten
    MaxRewrites = 1
    Default = "default"
    Configs <- MCConfigs
    Calls <- MCCalls
    Offers <- MCOffers
    Timeout = 1
    MaxOffers = 1
    MaxTime = 2
INVARIANTS
    SnapshotIsCurrent
    KeyWasListed
    DecisionWasTrue
PROPERTY
    RequestsAreAnswered
CHECK_DEADLOCK FALSE
