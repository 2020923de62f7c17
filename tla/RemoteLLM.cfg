SPECIFICATION FairSpec
CONSTANTS
    c1 = c1
    guest = guest
    s1 = s1
    alien = alien
    None = None
    Client = {c1, guest}
    Server = {s1, alien}
    Foreign = {guest, alien}
    Strange <- OddMessages
    Results = {"Ok"}
    Backlog = 2
    MaxCalls <- Calling
INVARIANTS
    TypeOK
    OwnAnswer
PROPERTIES
    AtMostOnce
    GenerateEnds
