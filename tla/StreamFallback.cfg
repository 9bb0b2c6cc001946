SPECIFICATION FairSpec
CONSTANTS
    r1 = r1
    Requests = {r1}
    Segments <- MCSegments
    Models <- MCModels
    Inputs <- MCInputs
    NoRuntime <- NoRuntimeYet
    MaxPayloads = 2
INVARIANTS
    TypeOK
    OneSource
    HostStreamsReleased
    TriedInOrder
    FallbackIsExact
PROPERTIES
    DeliveryKept
    StreamsEnd
