SPECIFICATION Spec
CONSTANTS
    Docs = {d1, d2}
    Manual = {}
    Servers = {s1}
    Server <- OneServer
    MaxJobs = 2
    MaxAttempts = 1
    MaxMishaps = 1
SYMMETRY Symmetry
CHECK_DEADLOCK FALSE
INVARIANTS
    NoFalseCompletion
