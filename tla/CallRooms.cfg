SPECIFICATION FairSpec
CONSTANTS
    ann = ann
    bob = bob
    a1 = a1
    a2 = a2
    b1 = b1
    dm = dm
    hall = hall
    attic = attic
    v1 = v1
    v2 = v2
    Unfixed = Unfixed
    User <- TwoUsers
    Owner <- OwnerOf
    Sock <- ThreeSocks
    Background = {a2}
    Room = {dm, hall}
    VoiceRoom = {hall}
    VoiceServer = {v1}
    MaxRequests = 3
    MaxReports = 1
    MaxRestarts = 0
    MayShutDown = FALSE
INVARIANTS
    StatesOfOccupants
PROPERTIES
    GraceConcludes
    OccupancyIsShown
