\* Two clients, one of which need not take its answers, beside the cleanup.
SPECIFICATION LiveSpec
CONSTANTS
    None = None
    Malformed = Malformed
    Cleaner = Cleaner
    c1 = c1
    c2 = c2
    Clients = {c1, c2}
    Attentive = {c1}
    Keys <- MCKeys
    Values <- MCValues
    NumberOf <- MCNumberOf
    NotUtf8 <- MCNotUtf8
    EntryLists <- MCEntryLists
    KeyLists <- MCKeyLists
    InitialStores <- MCStores
    Requests <- MCRequests
    MaxTimestamp = 7
    MaxRequests = 1
    MaxClock = 1
INVARIANTS
    TypeOK
PROPERTIES
    ImplementsExpiringMap
    ExpireWindow
    TtlAgreesWithGet
    NobodyStarves
    EveryRequestAnswered
CHECK_DEADLOCK FALSE
