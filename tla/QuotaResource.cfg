SPECIFICATION FairSpec
CONSTANTS
    r1 = r1
    a = a
    b = b
    c = c
    Requests = {r1}
    Creds = {a, b, c}
    Files <- MCFiles
    PrefixNames = {"team", "spare", "last"}
    Fallbacks <- MCFallbacks
    Emails = {"x", "y"}
    NoEmail = "none"
    Retries = 1
    Worlds <- MCWorlds
    MaxChanges = 1
INVARIANTS
    TypeOK
    AvailableIsReported
    ActualHadQuota
    PartialIsTold
    SuccessIsComplete
    ResetsAreListed
    ConsumedOnce
PROPERTIES
    EveryoneIsAnswered
CHECK_DEADLOCK FALSE
