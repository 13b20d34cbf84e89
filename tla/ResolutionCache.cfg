SPECIFICATION FairSpec
CONSTANTS
    Workers = {w1, w2}
    Keys = {k1, k2}
    CinesrcKeys = {k2}
    MaxRecords = 1
    TTL = 0
    MaxTime = 1
    MaxResolves = 2
    WritesMayFail = TRUE
    NoWorker = NoWorker
INVARIANTS
    WithinCap
    SnapshotsKeepUp
    DroppedStayOut
PROPERTIES
    HealersFinish
