SPECIFICATION Spec
CONSTANTS
    Requests <- MCRequests
    Replies <- MCReplies
    Size <- MCSize
    Reply <- MCReply
    Score <- MCScore
    HasMalloc = TRUE
    CanGrow = TRUE
    HeapBase = 2
    MemorySize = 8
    MaxMemory = 12
    MaxCalls = 2
INVARIANT
    ThrowsOnlyIfGuestFails
