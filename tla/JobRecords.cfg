SPECIFICATION FairSpec
CONSTANTS
    Docs = {d1}
    Manual = {d1}
    Servers = {s1}
    Server <- OneServer
    MaxJobs = 2
    MaxAttempts = 2
    MaxMishaps = 2
CHECK_DEADLOCK FALSE
INVARIANTS
    TypeOK
    NoFalseCompletion
    NoOpenRecordForgotten
PROPERTIES
    KeepsLife
    RecordsClose
