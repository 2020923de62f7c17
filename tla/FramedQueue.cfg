SPECIFICATION QueueSpec
CONSTANTS
    r1 = r1
    r2 = r2
    Runtime = {r1, r2}
    MaxSent = 4
INVARIANT
    QueueTypeOK
PROPERTIES
    GivesUpRightly
    NoneBlocks
