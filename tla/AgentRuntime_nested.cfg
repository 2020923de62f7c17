SPECIFICATION FairSpec
CONSTANTS
    a1 = a1
    a2 = a2
    Agent = {a1, a2}
    MayCall <- MayCallNested
    RemovesExecuting = TRUE
    MayThrow <- AnyCallback
    SendOutcomes = {TRUE}
    MaxId = 2
    MaxPosted = 1
    MaxDepth = 5
INVARIANT
    StoppedMeansStopped
PROPERTY
    CallsReturn
