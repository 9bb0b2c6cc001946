SPECIFICATION FairSpec
CONSTANTS
    kResource = kResource
    kDirect = kDirect
    c1 = c1
    c2 = c2
    codex = codex
    a1 = a1
    noAuth = noAuth
    none = none
    Keys = {kResource, kDirect}
    Callers = {c1, c2}
    Cancellable = {c2}
    ProviderOf <- MCProviderOf
    AuthOf <- MCAuthOf
    NoAuth = noAuth
    None = none
    TTL <- OneTick
    MaxEntries = 2
    MaxFlights = 3
    MaxTime = 1
INVARIANTS
    TypeOK
    FreshForLaterCallers
    EntriesAreCurrent
    MissesCoalesce
PROPERTIES
    AnswersAreFreshReads
    WaitersAreReleased
