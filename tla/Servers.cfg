SPECIFICATION ServersSpec
CONSTANTS
    Permission <- FourPermissions
    Administrator = "Administrator"
    ManageRoles = "ManageRoles"
    ViewChannels = "ViewChannels"
    KickMembers = "KickMembers"
    Everyone = everyone
    Owner = zoe
    Member = {kim, lee}
    Role = {r1, r2}
    Default <- SeesOnly
    Wants <- TwoWants
    MaxAsks = 2
    MaxChanges = 3
    MaxGets = 1
    Channel = {c1, c2, c3}
    Category = {k1, k2, k3}
    NoCategory = NoCategory
    MaxCategories = 2
    MaxOrders = 3
    Entry = {e1, e2, e3, e4}
    NoEntry = NoEntry
    MaxEntries = 2
    MaxEdits = 5
    MaxFiles = 2
    MaxWait = 2
    MaxSessions = 2
    MaxCuts = 2
    NoTimer = NoTimer
INVARIANTS
    ReferencesLive ResolvesByPrecedence
    NothingFromNowhere RoomsFollow SidebarFollows
    SomewhereToTalk OrderHolds CacheFollows
    OneDefault
    UploadsGoOn OneCopyEach
CHECK_DEADLOCK FALSE
