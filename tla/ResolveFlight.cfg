SPECIFICATION FairSpec
CONSTANTS
    c1 = c1
    c2 = c2
    c3 = c3
    k1 = k1
    k2 = k2
    Callers <- MCCallers
    Keys <- MCKeys
    LowQualityKeys <- MCLowQualityKeys
    CinesrcKeys <- MCCinesrcKeys
    Requests <- MCRequests
    MaxBrowserSessions = 1
    MaxDisconnects = 1
    NoFlight = NoFlight
INVARIANTS
    TypeOK
    FlightIsChain
    SlotsAreBrowsers
    JoinerAnswer
PROPERTIES
    FlightLands
CHECK_DEADLOCK FALSE
