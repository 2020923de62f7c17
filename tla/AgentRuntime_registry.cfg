SPECIFICATION Spec
CONSTANTS
    a1 = a1
    a2 = a2
    Agent = {a1, a2}
    MayCall <- MayCallRegistry
    RemovesExecuting = FALSE
    MayThrow = {"on_message"}
    SendOutcomes = {TRUE, FALSE}
    MaxId = 2
    MaxPosted = 1
    MaxDepth = 5
SYMMETRY Symmetry
INVARIANTS
    TypeOK
    NoUndefined
    InOrder
    StoppedMeansStopped
PROPERTY
    KeepsLifecycle
