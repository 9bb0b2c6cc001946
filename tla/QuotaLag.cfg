SPECIFICATION SpecReads
CONSTANTS
    resource = resource
    native = native
    r1 = r1
    r2 = r2
    s1 = s1
    d1 = d1
    codex = codex
    a1 = a1
    noAuth = noAuth
    none = none
    Visitors = {}
    Readers = {r1}
    Resetters = {}
    ResourceKey = resource
    NativeKey = native
    NCredits = 0
    Keys = {resource, native}
    Callers <- MCCallers
    Cancellable = {}
    ProviderOf <- MCProviderOf
    AuthOf <- MCAuthOf
    NoAuth = noAuth
    None = none
    TTL <- TwoTicks
    MaxEntries = 2
    MaxFlights = 3
    MaxTime = 2
CHECK_DEADLOCK FALSE
INVARIANT
    LagWithinTTL
