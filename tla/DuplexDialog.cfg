SPECIFICATION DialogFairSpec
CONSTANTS
    Tokens = {t1}
    Requests = {r1, r2}
    PageCounts = {0}
    PerPageTimeout = 1
    MinTimeout = 2
    ExtendWindow = 3
    MaxTime = 6
    MaxUnheard = 1
    Tabs = {d1}
    None = None
    Minute = 4
    Zone = 2
INVARIANTS
    DialogTypeOK
    ToldIsTrue
PROPERTIES
    CountdownKept
    PressesEnd
