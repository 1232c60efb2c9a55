\* Every part, each with bounds of its own, so that their states add up; the sockets of two networks.
CONSTANTS
    Parts = {"sockets", "signatures", "accounts", "failing", "history", "dialog", "crowd", "sending", "mapping",
             "creating", "signing", "proving"}
    h1 = h1
    h2 = h2
    e1 = e1
    e2 = e2
    e3 = e3
    Networks = {mainnet, devnet}
    Handlers = {h1, h2}
    EventIds = {e1, e2, e3}
    NoEvent = NoEvent
    MaxAttempts = 2
    Isolated = TRUE
    MaxRestarts = 0
    MaxPending = 2
    MaxFailures = 1
SYMMETRY MCSymmetry
SPECIFICATION MCSafeSpec
INVARIANTS  RecordsRight SignedRight
PROPERTIES  StepsRight
CHECK_DEADLOCK FALSE
