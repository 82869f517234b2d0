SPECIFICATION FairSpec
CONSTANTS
    a1 = a1
    a2 = a2
    a3 = a3
    scan = scan
    other = other
    Content <- SameScan
    Truncated = cut
    Attachments = {a1, a2, a3}
    Oversize = {a3}
    Broken = {a3}
    Workers = 2
    Limits = {0, 1}
    DefaultLimit = 2
    MayBeTimed = TRUE
    MaxAttempts = 2
    MaxFaults = 1
INVARIANTS TypeOK StoredIsHeld OkMeansFetched
PROPERTIES NothingForgotten EverythingKept
