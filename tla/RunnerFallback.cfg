SPECIFICATION Spec
CONSTANTS
    Requests <- MCRequests
    Replies <- MCEchoes
    Size <- MCEchoSize
    Reply <- MCEcho
    Score <- MCScore
    HasMalloc = FALSE
    CanGrow = FALSE
    HeapBase = 4
    MemorySize = 10
    MaxMemory = 10
    MaxCalls = 2
INVARIANT
    ResultFaithful
