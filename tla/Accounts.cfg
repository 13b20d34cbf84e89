SPECIFICATION Spec
CONSTANTS
    Ids = {a1, a2, n1}
    LegacyAdmins = {a1, a2}
    LegacyPlain = {}
    Tokens = {k1, k2}
    Reqs = {r1, r2}
    SessionTTL = 1
    MaxServed = 3
    MaxCrashes = 1
    CountMayFail = FALSE
    Household = Household
    Nobody = Nobody
    Ended = Ended
SYMMETRY Symmetry
INVARIANTS
    SessionsHaveAccounts
    AdminRemains
PROPERTIES
    KeepsTheBook
CHECK_DEADLOCK FALSE
