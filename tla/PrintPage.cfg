SPECIFICATION Spec
CONSTANTS
    Picks = {a, b, x, y}
    Pictures = {x, y}
    None = None
    MaxChanges = 1
CHECK_DEADLOCK FALSE
INVARIANTS
    TypeOK
    SendsThePick
    CountIsOfFile
