SPECIFICATION Spec
CONSTANTS
    MaxBody = 2
    MaxFail = 1
    BuffSize = 32
    Stream <- MCStream
    Chunks <- MCChunks
INVARIANTS
    UriParts
    CallbackOrder
    HeadWhole
    BodyExact
    ChunkedBody
CHECK_DEADLOCK FALSE
