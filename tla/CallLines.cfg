SPECIFICATION Spec
CONSTANTS
    ann = ann
    bob = bob
    a1 = a1
    a2 = a2
    b1 = b1
    dm = dm
    hall = hall
    attic = attic
    v1 = v1
    v2 = v2
    Unfixed = Unfixed
    User <- TwoUsers
    Owner <- OwnerOf
    Sock <- ThreeSocks
    Background = {}
    Room = {dm, hall}
    VoiceRoom = {hall}
    VoiceServer = {v1}
    MaxRequests = 3
    MaxReports = 0
    MaxRestarts = 1
    MayShutDown = FALSE
INVARIANTS
    StartOnlyWhileLive
    ShownOrAnnouncing
PROPERTIES
    KeepsPromise
