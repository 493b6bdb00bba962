SPECIFICATION Spec
CONSTANTS
    Requests <- MCRequests
    Replies <- MCReplies
    Size <- MCSize
    Reply <- MCReply
    Score <- MCScore
    HasMalloc = TRUE
    CanGrow = TRUE
    HeapBase = 2
    MemorySize = 9
    MaxMemory = 11
    MaxCalls = 2
INVARIANTS
    TypeOK
    NoResidue
    ResultFaithful
    ThrowsHaveCause
    HostBlocksAccounted
PROPERTY
    HostWritesItsOwn
    CallSpec
