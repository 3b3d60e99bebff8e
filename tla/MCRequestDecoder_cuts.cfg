\* Every cut of every script, failed reads and repeated calls.
SPECIFICATION Spec
CONSTANTS
    None = None
    MaxArrayLength = 3
    MaxCStringLength = 5
    ReadChunkSize = 60
    MaxCalls = 5
    Scripts <- MCScripts
INVARIANTS
    TypeOK
    PlaceKept
    DecodesWhatWasSent
    NoWaitOnWholeRequest
PROPERTIES
    PoisonLasts
CHECK_DEADLOCK FALSE
