SPECIFICATION Spec
CONSTANTS
    Docs = {d1, d2}
    Manual = {}
    Servers = {s1, s2}
    Server <- OwnServer
    MaxJobs = 1
    MaxAttempts = 2
    MaxMishaps = 0
CHECK_DEADLOCK FALSE
INVARIANTS
    NoFalseCompletion
