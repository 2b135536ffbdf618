SPECIFICATION Spec
CONSTANTS
    Empty = Empty
    Good = Good
    Bad = Bad
    Other = Other
    NoConfig = NoConfig
    Limits <- SomeLimits
    Requests = {p1, p2}
    MaxRequests = 3
    MaxFaults = 1
    Objects = {o1, o2, o3}
    Sizes <- SomeSizes
INVARIANTS
    StoredWasValidated
    CloneKeepsLimit
PROPERTY
    UpdateKeepsTheRest
CHECK_DEADLOCK FALSE
