CONSTANTS
    Ids = {1, 2}
    Times = {0, 1}
    Verifiers = {rust, js}
    JsVerifiers = {js}
    RootKey = RootKey
    OtherKey = OtherKey
    NoList = NoList
    MaxLength = 3
    MaxLists = 3
SPECIFICATION Spec
INVARIANTS
    InstalledIsPublished
    PublishedListsAreExact
PROPERTIES
    ListIsNeverLost
