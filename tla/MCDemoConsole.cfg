SPECIFICATION ConsoleFairSpec
CONSTANTS
    Key <- MCKey
    Who = {"ana", "concierge"}
    Client = {c1}
    Slot <- MCSlot
    Posts <- MCPosts
    MaxRequests = 2
    MaxMishaps = 1
INVARIANTS NoEventMissed VerifyMeansVerified
PROPERTIES PageCatchesUp
CHECK_DEADLOCK FALSE
