\* Short arguments: three appends, two of them torn anywhere.
SPECIFICATION LogSpec
CONSTANTS
    None = None
    Unknown = Unknown
    Keys <- MCKeys
    Values <- MCValues
    NumberOf <- MCNumberOf
    NotUtf8 = {Unknown}
    BytesOf <- MCBytesOf
    EntryLists <- MCEntryLists
    KeyLists <- MCKeyLists
    Logged <- MCShort
    Now = 1
    MaxTimestamp = 2
    MaxArrayLength = 5
    MaxCStringLength = 20
    ReadChunkSize = 40
    MaxCalls = 0
    Scripts = {}
    MaxAppends = 3
    MaxTears = 2
INVARIANTS
    AppliedIsAcknowledged
    RefusedForAReason
PROPERTIES
    TornLogRefused
CHECK_DEADLOCK FALSE
