SPECIFICATION Spec
CONSTANTS
    r1 = r1
    r2 = r2
    k1 = k1
    k2 = k2
    Requests = {r1, r2}
    Keys = {k1, k2}
    Written <- ByKeyWritten
    MaxRewrites = 0
    Default = "default"
    Configs <- ByKeyConfigs
    Calls <- ByKeyCalls
    Offers <- ByKeyOffers
    Timeout = 1
    MaxOffers = 0
    MaxTime = 2
INVARIANTS
    DecisionWasTrue
CHECK_DEADLOCK FALSE
