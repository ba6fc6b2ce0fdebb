CONSTANTS
    Handles = {h1, h2, h3}
    Receipts = {r1, r2, r3, r4, r5}
    Nothing = Nothing
    MaxTears = 2
SPECIFICATION Spec
SYMMETRY Symmetry
INVARIANTS
    ReadsInAppendOrder
    LossHasCause
PROPERTIES
    AckedLinesAreFinal
CHECK_DEADLOCK FALSE
