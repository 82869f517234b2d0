SPECIFICATION Spec
CONSTANTS
    p1 = p1
    p2 = p2
    c1 = c1
    Parents = {p1, p2}
    Children = {c1}
    ParentOf <- MCParentOf
    Options <- Commandline
    Ignores = {"children"}
    Workers = 2
    MaxChanges = 2
    MaxFaults = 1
INVARIANTS
    TypeOK
    TwoRunsMirror
PROPERTIES
    SweptKnownGone
    ProbeHonest
