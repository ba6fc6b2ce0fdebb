CONSTANTS
    Calls <- MCCalls
    Form <- MCForm
    Urls <- MCUrls
    NoUrl = NoUrl
    Callers = {"me", "you"}
    Allowlists <- MCAllowlists
    HttpMenu <- MCHttpMenu
    MaxHops = 1
    Words <- MCWords
    Empty = ""
    Quoted = {"quoted"}
    NotString = NotString
    NoWord = NoWord
    Commands <- MCCommands
    ShellMenu <- MCShellMenu
    Places <- MCPlaces
    Tree <- MCTree
    Up = ".."
    Decoded <- MCDecoded
    Sandboxes <- MCSandboxes
    TooShort <- MCTooShort
    FsMenu <- MCFsMenu
    NoPath = NoPath
    MaxIterations = 2
    MaxUses = 2
    Uses <- MCUses
    NoValue = NoValue
SPECIFICATION Spec
INVARIANTS
    AllowlistIsExact
    ExecutedIsListed
    SerialUnlessCrossed
    EveryUseIsAnswered
    ReportsAreTrue
    DemosGoAsExpected
    ShopSeesItsScope
PROPERTIES
    StaysInSandbox
    RunsEnd
CHECK_DEADLOCK FALSE
