\* A wallet is deleted between the two writes of a synchronisation.
SPECIFICATION Spec
CONSTANTS
    Paths = {p1}
    Ids = {i1, i2, i3}
    NoId = NoId
    Absent = Absent
    Broken = Broken
    Calls = {c1, c2}
    SplitFailures = FALSE
    SyncOverlaps = TRUE
INVARIANT EveryEntryWhole
