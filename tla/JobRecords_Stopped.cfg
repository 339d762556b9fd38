SPECIFICATION Spec
CONSTANTS
    Docs = {d1}
    Manual = {}
    Servers = {s1}
    Server <- OneServer
    MaxJobs = 2
    MaxAttempts = 2
    MaxMishaps = 0
CHECK_DEADLOCK FALSE
INVARIANTS
    ReleasedRecordAgrees
