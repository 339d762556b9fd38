SPECIFICATION Spec
CONSTANTS
    MaxPages = 5
    MaxCopies = 3
    Nups = {1, 2}
    Origins = {"web", "bot"}
INVARIANTS
    SheetsRight
    NothingLost
