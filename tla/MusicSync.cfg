SPECIFICATION FairSyncSpec
CONSTANTS
    Silence = Silence
    QueueCap = 1
    HistoryCap = 1
    MaxEntries = 3
    MaxMarks = 3
    MaxPresses = 2
    MaxFaults = 1
INVARIANTS
    HeardIsShown PausedIsHeld
PROPERTIES
    PressesConclude
CHECK_DEADLOCK FALSE
