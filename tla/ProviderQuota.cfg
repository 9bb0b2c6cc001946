SPECIFICATION SpecProvider
CONSTANTS
    claude = claude
    antigravity = antigravity
    other = other
    c1 = c1
    none = none
    NCreds = 4
    MaxRewrites = 1
    NEndpoints = 3
    Keys <- MCKeys
    Callers = {c1}
    Cancellable = {}
    ProviderOf <- MCProviderOf
    AuthOf <- MCAuthOf
    KindOf <- MCKindOf
    TTL <- MCTTL
    Mine <- MCMine
    WithProject <- MCWithProject
    Listings <- MCListings
    NoAuth = 0
    None = none
    MaxEntries = 2
    MaxFlights = 3
    MaxTime = 2
CHECK_DEADLOCK FALSE
INVARIANTS
    ProviderTypeOK
    NoPreviousQuota
    VerdictIsTrue
    GroupsWin
    CacheBounded
PROPERTIES
    NothingLostEarly
    SuccessIsCached
