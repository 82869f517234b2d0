SPECIFICATION Spec
CONSTANTS
    r1 = r1
    r2 = r2
    r3 = r3
    s1 = s1
    s2 = s2
    Rec = {r1, r2}
    Lag = 0
    MaxClock = 2
    Scope = {s1, s2}
    ScopeOf <- MCScopesOf
    InWindow = {}
    Options <- Sweeps
    Overlap = 1
    Workers = 2
    PageSize = 1
    ReconcileInterval = 1
    MinSweepFloor = 1
    SweepNum = 1
    SweepDen = 2
    HonoursFilter = TRUE
    BankScoped = TRUE
    MaxWalk = 1
    MaxFaults = 1
    PageShift = FALSE
    MidWalkForbidden = TRUE
INVARIANTS
    StampHonest
PROPERTIES
    SweepSound
    SweepBounded
