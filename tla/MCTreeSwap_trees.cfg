SPECIFICATION FairSpec
CONSTANTS
    r1 = r1
    r2 = r2
    r3 = r3
    pull = pull
    reconcile = reconcile
    rebuild = rebuild
    Entries = {r1, r2, r3}
    Absent = absent
    Archives <- TwoArchives
    Processes = {pull, reconcile}
    LockHolders = {pull, reconcile}
    MaxFaults = 2
INVARIANTS TypeOK NeverHalf
PROPERTY CatchesUp
