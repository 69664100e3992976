INIT Init
NEXT Next
CONSTANTS
    Supported = {"go"}
    LongFile = 3
    Verbatim = 2
    MaxMods = 1
    MaxLines = 3
    Prefix <- MemberPrefix
    LargeFile = 40
    HeadBytes = 8
    PathBytes = 4
    BlockedBytes = 40
    ManyEntries = 3
    TopEntries = 2
    FromCli = {"cli"}
    FromHooks = {"hook-read"}
    Wasted = {"wasted-rg", "wasted-find"}
    Audit = {"workflow-audit:x"}
    MaxWalkLevels = 3
    FallbackAgents = {"browzer:b"}
    LargeDelete = 2
INVARIANTS
    CommandsKept
    GuardsSpeakInTurn
    RequestsBounded
    WalksStayInBounds
    NothingHidden
    SavingsHonest
    ChangesAsAsked
