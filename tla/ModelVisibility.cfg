SPECIFICATION Spec
CONSTANTS
    k1 = k1
    other = other
    a = a
    b = b
    MappedKeys = {k1}
    OtherKeys = {other}
    DeduplicationPrefixes <- MCPrefixes
    Offers <- MCOffers
    Registrars = {a, b}
    MaxRuntimes = 2
    MaxCalls = 3
INVARIANTS
    TypeOK
    OwnInputsAreWhole
    HiddenOnlyWithAliases
