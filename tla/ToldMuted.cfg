SPECIFICATION Spec
CONSTANTS
    kim = kim
    lee = lee
    Nobody = Nobody
    Moderator <- JustKim
    Power <- AllPowers
    MaxRequests = 1
    MaxTokens = 1
    MayFail = FALSE
INVARIANTS
    ToldMutedIsSilent
CHECK_DEADLOCK FALSE
