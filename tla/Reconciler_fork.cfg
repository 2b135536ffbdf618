SPECIFICATION Spec
CONSTANTS
    a = a
    b = b
    c = c
    t1 = t1
    t2 = t2
    k1 = k1
    Commits <- MCCommits
    NoCommit = NoCommit
    NoConfig = NoConfig
    Date <- MCDate
    Calls <- MCCalls
    Keys = {k1}
    Log <- ForkLog
    Configs <- OneSignature
    TicksPerSecond = 2
    Cap = 3
    MaxDay = 1
    MaxEdits = 2
    MaxFaults = 2
    FailingOps <- SafetyFaults
SYMMETRY CallSymmetry
INVARIANTS
    TypeOK
    AtMostOneRun
    FinishedWasApplied
    SuccessWasApplied
    AppliedNotOlder
    RunAgreesWithStorage
PROPERTIES
    FinishedMovesForward
    PollsAreSpaced
    ImplementsProgress
