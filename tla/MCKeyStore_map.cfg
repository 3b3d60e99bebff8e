\* Three keys, two values, two resizes; clusters over the end of the table.
SPECIFICATION Spec
CONSTANTS
    Keys = {k1, k2, k3}
    Values = {v1, v2}
    None = None
    Hashes = {2, 3, 7}
    StartCapacity = 2
INVARIANTS
    TypeOK
    RobinHood
    LoadBounded
PROPERTIES
    ImplementsKeyMap
    EveryCallReturns
    MissMeansAbsent
