\* Every cut of every script, failed reads and repeated calls.
SPECIFICATION Spec
CONSTANTS
    MaxCStringLength = 5
    MaxCapacity = 4
    MaxI64 = 20
    ReadChunkSize = 60
    MaxDepth = 3
    MaxCalls = 4
    Utf8 <- MCUtf8
    Messages <- MCMessages
    Scripts <- MCScripts
INVARIANTS
    BytesKept
    DecodesWhatWasSent
    NoWaitOnWholeResponse
PROPERTIES
    PoisonLasts
CHECK_DEADLOCK FALSE
