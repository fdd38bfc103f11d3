SPECIFICATION ClientsSpec
CONSTANTS
    kim = kim
    lee = lee
    Nobody = Nobody
    Moderator <- Both
    Power <- UnequalPowers
    MaxRequests = 2
    MaxTokens = 1
    MayFail = TRUE
    Call = {dm, hall}
    None = None
    MaxAttempts = 2
    MaxPresses = 3
    MaxFaults = 2
    ann = ann
    bob = bob
    cy = cy
    a1 = a1
    a2 = a2
    b1 = b1
    User <- Three
    Socket <- Tabs
    Of <- TabsOf
    Cap = 2
    MaxAsks = 3
    MaxDrops = 1
    busy = busy
    quiet = quiet
    Chan <- TwoChannels
    Written <- History
    Limit = 3
    MaxFetches = 2
    MaxMoves = 3
INVARIANTS
    WithinPermits InOneCall
    AnswersStand GroupRoomFollows WindowSound
CHECK_DEADLOCK FALSE
