SPECIFICATION Spec
CONSTANTS
    Exports = {"predicate", "request", "response", "filter"}
    Encodings <- SomeEncodings
    MaxCalls = 2
    Depth = 4
    Addresses <- HeapAddresses
    Nothing = Nothing
INVARIANT
    SoundHeap
PROPERTY
    ObjectsSpec
