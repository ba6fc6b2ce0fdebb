CONSTANTS
    Ids = {1, 2}
    Times = {0, 1}
    Verifiers = {rust, js}
    JsVerifiers = {js}
    RootKey = RootKey
    OtherKey = OtherKey
    NoList = NoList
    MaxLength = 2
    MaxLists = 1
SPECIFICATION Spec
INVARIANTS
    InstalledListDenies
