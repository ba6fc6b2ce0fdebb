CONSTANTS
    v1 = v1
    v2 = v2
    Verifiers = {v1, v2}
    root = root
    other = other
    Roots = {root, other}
    RootKey <- MCRootKey
    Ids = {1, 2}
    k1 = k1
    k2 = k2
    Keys = {k1, k2}
    NoKey = NoKey
    p1 = p1
    p2 = p2
    Predicates = {p1, p2}
    HokMessage <- MCHokMessage
    Stores = {s1}
    NoStore = NoStore
    NoList = NoList
    Ttls = {0, 2}
    DefaultTtl = 2
    MaxTime = 3
    q1 = q1
    q2 = q2
    a1 = a1
    a2 = a2
    Inputs <- MCInputs
    server = server
    Caps <- MCCaps
    Lists <- MCLists
    ServerChallenges = {server}
    Proofs <- MCProofs
    NoProof = NoProof
    NoCall = NoCall
    Holds <- MCHolds
SPECIFICATION Spec
SYMMETRY Symmetry
INVARIANTS
    ProofClearsOnce
    StoreHoldsOnlyProven
    ProofGatesDecision
    AttenuationNarrows
    RevokedIsRefused
