CONSTANTS
    Handles = {h1}
    Receipts = {r1, r2}
    Nothing = Nothing
    MaxTears = 1
SPECIFICATION Spec
INVARIANTS
    AckedIsReadable
CHECK_DEADLOCK FALSE
