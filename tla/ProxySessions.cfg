SPECIFICATION FairSpec
CONSTANTS
    Workers = {w1, w2}
    Sweeper = Sweeper
    Tokens = {t1}
    Viewers = {v1, v2}
    MaxSessions = 1
    TTL = 1
    MaxSwaps = 1
    NoViewer = NoViewer
INVARIANTS
    OnePipeline
    HeldRequestsRefused
PROPERTIES
    ClosedAddsNothing
    ExpiredSessionsGo
CHECK_DEADLOCK FALSE
