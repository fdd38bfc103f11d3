SPECIFICATION AccountsSpec
CONSTANTS
    x = x
    y = y
    z = z
    v0 = v0
    v1 = v1
    Tab = {t1, t2}
    MaxEvents = 3
    Device = {d1, d2}
    Sid = {s1, s2}
    NoSid = NoSid
    Ttl = 3
    RenewAfter = 1
    LastDay = 5
    MaxVersion = 1
    MaxBusy = 2
    Person <- ThreePeople
    MediaServer <- TwoServers
    Instance = v0
    May <- MaySome
    Unsettled = Unsettled
    Limit = 1
    MaxMints = 3
    Margin = 1
    MaxAge = 1
    PerConversation = 1
    MaxTime = 2
    MaxMessages = 2
    MaxFaults = 1
    Never = Never
INVARIANTS
    ShownIsEffective
    SignedOutStaysOut CookieNamesRow
    TogetherUnlessApart
    NothingLost
CHECK_DEADLOCK FALSE
