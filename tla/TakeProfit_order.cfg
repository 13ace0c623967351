SPECIFICATION MCSpec
CONSTANTS
    j1 = j1
    j2 = j2
    k1 = k1
    k2 = k2
    p1 = p1
    p2 = p2
    Procs = {p1, p2}
    Journals = {j1, j2}
    Keys = {k1, k2}
    Shares = 1
    None = None
    MaxClaims = 2
    MaxFaults = 1
SYMMETRY Symmetry
INVARIANTS
    OneOrderAtVenue
    LaunchedKeepsReservation
    DoubtHoldsLock
    EndsAreTrue
    LockHasWayOut
PROPERTIES
    RefinesDesk
CHECK_DEADLOCK FALSE
