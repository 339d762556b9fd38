SPECIFICATION Spec
CONSTANTS
    Tokens = {t1}
    Requests = {r1, r2}
    PageCounts = {0, 3}
    PerPageTimeout = 1
    MinTimeout = 2
    ExtendWindow = 1
    MaxTime = 4
    MaxUnheard = 1
INVARIANTS
    CancelCardIsTrue
