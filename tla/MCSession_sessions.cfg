SPECIFICATION Spec
CONSTANTS
    p1 = p1
    p2 = p2
    acme = acme
    beta = beta
    None = None
    Processes = {p1, p2}
    Slugs = {acme, beta}
    Newest = 2
    MaxId = 2
    Commands <- Commandlines
    MaxStarts = 3
    MaxPages = 2
    MaxFaults = 1
SYMMETRY Alike
CHECK_DEADLOCK FALSE
INVARIANTS
    TypeOK
    OneRun
    NoOrphans
    WorksOnItsSchema
    ExitTells
    
