CONSTANTS
    Calls = {a, b}
    MaxTime = 2
    Ttls = {0, 1}
    NoReceipt = NoReceipt
SPECIFICATION Spec
INVARIANTS
    ToolRunsBehindGate
    OneRunPerProof
PROPERTIES
    DecisionsAreCurrent
    EveryCallSettles
    ImplementsGate
CHECK_DEADLOCK FALSE
