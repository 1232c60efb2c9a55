\* Every part, each with bounds of its own, so that their states add up; two accounts are synchronised by
\* overlapping calls, one of which may come from the tracking of t, which is retried in a part of its own.
CONSTANTS
    Parts = {"synchronize", "tracking", "transactions", "simulation", "mapper", "readable", "send", "creating",
             "signing", "reading", "proving"}
    x = x
    y = y
    t = t
    c1 = c1
    c2 = c2
    Absent = Absent
    NoAccount = NoAccount
    NoCall = NoCall
    Accounts = {x, y}
    Selections <- MCGrow
    Txs = {t}
    Sender <- MCSender
    Receiver <- MCReceiver
    Calls = {c1, c2}
    MaxVersion = 1
    MaxReschedules = 0
SYMMETRY MCSymmetry
SPECIFICATION MCSpec
INVARIANTS RunsExclusive HistoryRight AmountsRight 
PROPERTY NeverBackwards
CHECK_DEADLOCK FALSE
