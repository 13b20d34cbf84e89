SPECIFICATION Spec
CONSTANTS
    Devices = {d1}
    Users = {u1, u2}
    Titles = {t1, t2}
    MaxClock = 2
    MaxFlights = 2
    MaxLoads = 1
    CWMax = 1
    Nobody = Nobody
INVARIANTS
    BoundBeforeSync
    NoZombies
PROPERTIES
    ServerKeepsNewest
    PrefsNeverBack
SYMMETRY MCSymmetry
CHECK_DEADLOCK FALSE
