SPECIFICATION LineSpec
CONSTANTS
    Radix = 7
    WordBytes = 2
    ShortBytes = 1
    LongBytes = 3
    FrameMagic = 13
    PacketMagic = 17
    Version = 1
    Messages <- SomeMessages
    Requests <- SomeRequests
    Responses <- SomeResponses
    RequestMagic <- MagicOfRequest
    ResponseMagic <- MagicOfResponse
INVARIANTS
    LineTypeOK
    RoundTrip
    DamageDetected
    NoPrefixDecodes
    ReadsWhatIsThere
\* A line carries one thing.
CHECK_DEADLOCK FALSE
