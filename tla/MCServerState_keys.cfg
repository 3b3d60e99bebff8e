\* Two keys, commands that name several of them at once, and the fairness of
\* the server's own threads.
SPECIFICATION LiveSpec
CONSTANTS
    k1 = k1
    k2 = k2
    v1 = v1
    v2 = v2
    None = None
    Keys = {k1, k2}
    Values = {v1}
    MaxTimestamp = 2
    EntryLists <- MCEntryLists
    KeyLists <- MCKeyLists
    MaxClock = 1
    MaxWal = 3
PROPERTIES
    NoResurrection
    PersistentKeysSurvive
    LossNeedsPassedDeadline
    EventuallyDurable
    RestoreTerminates
