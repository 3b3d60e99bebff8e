\* The claim RestoreSucceeds alone.
SPECIFICATION Spec
CONSTANTS
    k1 = k1
    k2 = k2
    v1 = v1
    v2 = v2
    None = None
    Keys = {k1}
    Values = {v1, v2}
    MaxTimestamp = 3
    EntryLists <- MCOneKeyEntryLists
    KeyLists <- MCOneKeyLists
    MaxClock = 2
    MaxWal = 4
INVARIANT
    RestoreSucceeds
