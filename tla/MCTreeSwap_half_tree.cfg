SPECIFICATION Spec
CONSTANTS
    r1 = r1
    r2 = r2
    r3 = r3
    pull = pull
    reconcile = reconcile
    rebuild = rebuild
    Entries = {r1, r2, r3}
    Absent = absent
    Archives <- TwoArchives
    Processes = {pull, rebuild}
    LockHolders = {pull}
    MaxFaults = 0
INVARIANT NeverHalf
