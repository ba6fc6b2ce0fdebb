CONSTANTS
    Roots = {r1}
    Ids = {cap1}
    k1 = k1
    Keys = {k1, k2}
    p1 = p1
    p2 = p2
    Collide = TRUE
    Predicates <- MCPredicates
    HokMessage <- MCHokMessage
    NoKey = NoKey
    NoBuilder = NoBuilder
    MaxCaveats = 1
    MaxBindings = 2
    MaxTokens = 2
SPECIFICATION Spec
INVARIANTS
    SignatureBindsContents
