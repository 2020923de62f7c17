SPECIFICATION RequestSpec
CONSTANTS
    Modulus = 32
    Capacity = 9
    Buffers = {0, 5, 8, 15}
    Sizes = {0, 2, 3, 5, 15}
    Alignments = {0, 1, 2, 3, 4, 8}
    MaxDepth = 3
INVARIANTS
    TypeOK
    BlocksSound
    FirstFit
PROPERTY
    KeptUntilReturn
