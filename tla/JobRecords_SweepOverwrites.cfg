SPECIFICATION Spec
CONSTANTS
    Docs = {d1}
    Manual = {d1}
    Servers = {s1}
    Server <- OneServer
    MaxJobs = 2
    MaxAttempts = 2
    MaxMishaps = 0
CHECK_DEADLOCK FALSE
PROPERTIES
    SweepClosesOpenRecords
