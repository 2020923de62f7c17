SPECIFICATION PoolSpec
CONSTANTS
    BlockSize = 3
    BlockCount = 4
    c1 = c1
    c2 = c2
    Client = {c1, c2}
SYMMETRY Symmetry
INVARIANTS
    PoolTypeOK
    FreeListExact
PROPERTY
    IsAllocator
