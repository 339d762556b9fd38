SPECIFICATION FairSpec
CONSTANTS
    Messages = {m1}
    Clicks = {c1, c2, c3}
    TTL = 2
    MaxUnheard = 1
    MaxUnsaved = 1
INVARIANTS
    TypeOK
    OneHolder
    PrintedOnce
    CancelHolds
    HolderKeepsFile
    ClaimableHasFile
    NoOrphanFile
PROPERTIES
    KeepsPromise
    SessionsEnd
