SPECIFICATION Spec
CONSTANTS
    a = a
    b = b
    c = c
    p = p
    q = q
    r = r
    d1 = d1
    d2 = d2
    d3 = d3
    Names = {a, b, c}
    Paths = {p, q, r}
    Data = {d1, d2, d3}
    NoValue = NoValue
    Histories <- PassingHistories
    Silent = {r}
    Numeric = {q}
    Undeletable = {r}
INVARIANTS
    CommitIsLive
    NothingLeftBehind
PROPERTIES
    AppliedAfterDependencies
    SecondRunIsQuiet
    DeclaredIsNotDeleted
    RunsRecover
