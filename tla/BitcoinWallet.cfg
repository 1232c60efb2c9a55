\* Every part whose requirements are of single states and steps. Two calls compete for two paths; no wallet is
\* deleted while it is between the two writes of a synchronisation (BitcoinAccountsBroken.cfg lets it be).
CONSTANTS
    Parts = {"accounts", "waves", "sending", "signing", "proving"}
    p1 = p1
    p2 = p2
    i1 = i1
    i2 = i2
    i3 = i3
    c1 = c1
    c2 = c2
    Nothing = Nothing
    NoId = NoId
    Absent = Absent
    Broken = Broken
    Paths = {p1, p2}
    Ids = {i1, i2, i3}
    Calls = {c1, c2}
    SplitFailures = FALSE
    SyncOverlaps = FALSE
SPECIFICATION MCSpec
INVARIANTS OneAccountPerPath PromiseKept EveryEntryWhole SentRight
PROPERTY Idempotent
CHECK_DEADLOCK FALSE
