CONSTANTS
    Objects = {o1, o2, o3}
    Good = {p1, p2}
    Bad = {bad}
    Key = Key
    ShortKey = ShortKey
    Lists = {l1}
    Forged = Forged
    NoList = NoList
    Width = 2
    Lifetimes <- MCLifetimes
    Unused = Unused
    Gone = Gone
    Tools = {t1, t2}
    MaxNow = 2
    Given <- MCGiven
    Fraction = Fraction
    Width64 = 16
    NoTime = NoTime
    Nothing = Nothing
SPECIFICATION BindingsSpec
SYMMETRY Symmetry
INVARIANTS
    NarrowingIsKept
    NothingUnrestricted
    ConfigIsAsTold
    ErrorsNameTheirCause
    AcceptedIsAsSigned
    TimesAreKept
CHECK_DEADLOCK FALSE
