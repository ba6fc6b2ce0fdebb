CONSTANTS
    MaxLength = 6
    SecondsPerMinute = 2
    MinutesPerHour = 2
    HoursPerDay = 2
    Nanos = 2
    Grain = 4
    Precision = 3
    Exponent = 6
    Units = {usd}
    NoUnit = NoUnit
    Numerals <- MCNumerals
    Dates <- MCDates
    Contexts <- MCContexts
    Idents <- MCIdents
    Literals <- MCLiterals
    Roots = {r1, r2}
    Ids = {cap1, cap2}
    k1 = k1
    Keys = {k1, k2}
    p1 = p1
    p2 = p2
    Collide = FALSE
    Predicates <- MCPredicates
    HokMessage <- MCHokMessage
    NoKey = NoKey
    NoBuilder = NoBuilder
    MaxCaveats = 2
    MaxBindings = 2
    MaxTokens = 2
SPECIFICATION CaveatsSpec
SYMMETRY Symmetry
INVARIANTS
    VerifiedExtendsMinted
    BuiltVerifies
    SignatureBindsContents
    FollowsGrammar
    NumbersKeepTheirOrder
    TimesCompareAsInstants
    OnlyLikeFactsAllow
CHECK_DEADLOCK FALSE
