SPECIFICATION FairSpec
CONSTANTS
    ann = ann
    bob = bob
    a1 = a1
    a2 = a2
    b1 = b1
    dm = dm
    hall = hall
    attic = attic
    v1 = v1
    v2 = v2
    Unfixed = Unfixed
    User <- TwoUsers
    Owner <- OwnerOf
    Sock <- AnnSocks
    Background = {}
    Room = {hall}
    VoiceRoom = {hall}
    VoiceServer = {v1}
    MaxRequests = 2
    MaxReports = 0
    MaxRestarts = 0
    MayShutDown = FALSE
INVARIANTS
    OccupantConnected
CHECK_DEADLOCK FALSE
