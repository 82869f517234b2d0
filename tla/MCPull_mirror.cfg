SPECIFICATION FairSpec
CONSTANTS
    r1 = r1
    r2 = r2
    r3 = r3
    s1 = s1
    s2 = s2
    Rec = {r1, r2}
    Lag = 1
    MaxClock = 2
    Scope = {s1}
    ScopeOf <- MCScopeOf
    InWindow = {}
    Options <- Scheduled
    Overlap = 1
    Workers = 1
    PageSize = 1
    ReconcileInterval = 1
    MinSweepFloor = 1
    SweepNum = 1
    SweepDen = 2
    HonoursFilter = TRUE
    BankScoped = FALSE
    MaxWalk = 0
    MaxFaults = 1
    PageShift = TRUE
    MidWalkForbidden = FALSE
PROPERTIES
    EventuallyMirrored
