SPECIFICATION SpecReads
CONSTANTS
    resource = resource
    native = native
    r1 = r1
    r2 = r2
    s1 = s1
    d1 = d1
    codex = codex
    a1 = a1
    noAuth = noAuth
    none = none
    Visitors = {d1}
    Readers = {r1, r2}
    Resetters = {s1}
    ResourceKey = resource
    NativeKey = native
    NCredits = 1
    Keys = {resource, native}
    Callers <- MCCallers
    Cancellable = {}
    ProviderOf <- MCProviderOf
    AuthOf <- MCAuthOf
    NoAuth = noAuth
    None = none
    TTL <- OneTick
    MaxEntries = 2
    MaxFlights = 3
    MaxTime = 1
SYMMETRY Alike
CONSTRAINT VisitsBesideFewReads
CHECK_DEADLOCK FALSE
INVARIANTS
    AnswersItsKey
    UsageIsFresh
    NoSpentCreditOffered
    ResetHidesOldQuota
    LagWithinTTLsAndReads
