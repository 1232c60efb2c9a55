\* Every part whose behaviours must get somewhere in the end.
CONSTANTS
    Parts = {"accounts", "synchronizing", "caching", "policy"}
    p1 = p1
    p2 = p2
    i1 = i1
    i2 = i2
    i3 = i3
    c1 = c1
    c2 = c2
    Nothing = Nothing
    NoId = NoId
    Absent = Absent
    Broken = Broken
    Paths = {p1}
    Ids = {i1, i2}
    Calls = {c1, c2}
    SplitFailures = TRUE
    SyncOverlaps = TRUE
SPECIFICATION MCFairSpec
INVARIANT AnsweredIsKnown
PROPERTIES  SettlesInTheEnd
CHECK_DEADLOCK FALSE
