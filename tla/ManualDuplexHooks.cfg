SPECIFICATION FairSpec
CONSTANTS
    Tokens = {t1}
    Requests = {r1, r2, r3}
    PageCounts = {0, 4}
    PerPageTimeout = 1
    MinTimeout = 2
    ExtendWindow = 3
    MaxTime = 4
    MaxUnheard = 1
INVARIANTS
    TypeOK
    OneHolder
    PrintedAtMostOnce
    OfferedHookHasFile
    NoFileWithoutHook
    IndInv
PROPERTIES
    SettledIsFinal
    ExtensionBounded
    KeepsPromise
    ClaimsEnd
