SPECIFICATION Spec
CONSTANTS
    Keys = {k1, k2, k3}
    Unsigned = Unsigned
    MaxEntries = 3
    MaxNotes = 2
    MaxRequired = 3
    Stores <- SomeStores
INVARIANTS
    EveryEntryCountsOnce
    CheckFollowsRule
PROPERTY
    CheckEnds
CHECK_DEADLOCK FALSE
