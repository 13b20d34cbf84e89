SPECIFICATION Spec
CONSTANTS
    Fetches = {f1, f2}
    Slots = 1
    Attempts = 3
    Base = 1
    MaxCool = 4
    MaxWait = 3
    RetryBase = 1
    LimitedBase = 2
    MaxDelay = 5
    Width = 5
    MaxStarts = 5
INVARIANTS
    SlotsReturned
PROPERTIES
    WidensOnly
    GoneCallersEnd
    FetchesEnd
CHECK_DEADLOCK FALSE
