\* A long value, torn: the claim TornLogRefused alone.
SPECIFICATION LogSpec
CONSTANTS
    None = None
    Unknown = Unknown
    Keys <- MCKeys
    Values <- MCValues
    NumberOf <- MCNumberOf
    NotUtf8 = {Unknown}
    BytesOf <- MCBytesOf
    EntryLists <- MCEntryLists
    KeyLists <- MCKeyLists
    Logged <- MCLong
    Now = 1
    MaxTimestamp = 2
    MaxArrayLength = 5
    MaxCStringLength = 20
    ReadChunkSize = 40
    MaxCalls = 0
    Scripts = {}
    MaxAppends = 3
    MaxTears = 1
PROPERTIES
    TornLogRefused
CHECK_DEADLOCK FALSE
