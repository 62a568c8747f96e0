SPECIFICATION ConsoleSpec
CONSTANTS
    Key <- MCKey
    Who = {"ana", "concierge"}
    Client = {c1}
    Slot <- MCSlot
    Posts <- MCPosts
    MaxRequests = 2
    MaxMishaps = 0
INVARIANTS PositionsAreReal
CHECK_DEADLOCK FALSE
