SPECIFICATION FairSpec
CONSTANTS
    Sessions = {s1, s2}
    Players = {p1}
    Last = 1
    Lookahead = 1
    InitialMax = 1
    SteadyMax = 2
    LiveMax = 1
    Backoff = 1
    Capacity = 1
    Nobody = Nobody
INVARIANTS
    InflightRuns
    WaitersAreHeard
    LedgersAreTrue
PROPERTIES
    JoinsEnd
