SPECIFICATION Spec
CONSTANTS
    a = a
    b = b
    c = c
    t1 = t1
    t2 = t2
    k1 = k1
    Commits <- MCCommits
    NoCommit = NoCommit
    NoConfig = NoConfig
    Date <- MCDate
    Calls = {t1}
    Keys = {k1}
    Log <- LineLog
    Configs <- OneSignature
    TicksPerSecond = 2
    Cap = 3
    MaxDay = 1
    MaxEdits = 1
    MaxFaults = 1
    FailingOps <- OnlyGetLast
INVARIANT
    GuardMeansRunning
