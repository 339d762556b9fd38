SPECIFICATION FairSpec
CONSTANTS
    Requests = {r1, r2}
    Hashes = {h1}
    MaxPolls = 2
INVARIANTS
    TypeOK
    OneAtATime
    SlotNeverLost
    OwnConversionStays
PROPERTIES
    FreshFileStays
    RequestsEnd
