CONSTANTS
    Nonces = {n1, n2}
    Callers = {c1, c2}
    MaxTime = 2
    Ttls = {0, 1, 2}
    NoRequest = NoRequest
    NoCaller = NoCaller
SPECIFICATION Spec
SYMMETRY Symmetry
INVARIANTS
    DisjointWindows
PROPERTIES
    ImplementsReplayWindow
