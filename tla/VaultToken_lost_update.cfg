SPECIFICATION Spec
CONSTANTS
    t1 = t1
    t2 = t2
    t3 = t3
    c1 = c1
    c2 = c2
    r1 = r1
    r2 = r2
    Tokens = {t1, t2, t3}
    NoToken = NoToken
    Absent = Absent
    Period <- LongTokens
    Issued = {t1}
    Kinds <- Rotations
    Checks = {c1}
    Requests = {r1, r2}
    Day = 3
    MaxFaults = 0
    FailingOps <- AllButExisting
INVARIANT
    ConfiguredIsLive
