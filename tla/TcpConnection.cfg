SPECIFICATION Spec
CONSTANTS
    Radix = 12
    WordBytes = 1
    FrameMagic = 3
    client = client
    server = server
    Ends <- BothEnds
    Packets <- ThreePackets
    Window = 3
    MaxSends = 2
INVARIANTS
    TypeOK
    InStep
PROPERTIES
    IsChannel
    ReceiveEnds
    DrainEnds
\* Once both ends have closed, nothing happens.
CHECK_DEADLOCK FALSE
