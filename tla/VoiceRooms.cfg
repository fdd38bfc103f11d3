SPECIFICATION VoiceRoomsSpec
CONSTANTS
    kim = kim
    Nobody = Nobody
    Moderator <- JustKim
    Power <- AllPowers
    MaxRequests = 3
    MaxTokens = 3
    MayFail = TRUE
    User = {ann, bob}
    Room = {hall, attic}
    Channel = {m1, m2, m3}
    PerCall = 2
    PerInstance = 2
    MaxJoins = 3
    Silence = Silence
    QueueCap = 2
    HistoryCap = 2
    MaxEntries = 5
    MaxMarks = 7
    Call = {dm, stage}
    None = None
    MaxAttempts = 2
    MaxPresses = 2
    MaxFaults = 2
INVARIANTS
    LiveIsStored
    ClockRunsWhileEmpty LeftIsTunedOut
    EachEntryOnce
PROPERTIES
    AbandonedCloses ConnectingConcludes
CHECK_DEADLOCK FALSE
