SPECIFICATION FairSpec
CONSTANTS
    r1 = r1
    r2 = r2
    v1 = v1
    v2 = v2
    Resources = {r1, r2}
    Values = {v1, v2}
    Absent = Absent
    NoFile = NoFile
    Broken = Broken
    N = 3
    Histories <- AllHistories
    Exclusive = {}
    MaxFaults = 2
    FailingOps <- AllButWrite
INVARIANTS
    NothingOrphaned
    RecordedIsDeployed
    RemovedIsDestroyed
PROPERTIES
    StateIsNotForgotten
    RunsRecover
