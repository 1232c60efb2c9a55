\* Every part whose behaviours must get somewhere in the end.
CONSTANTS
    Parts = {"sockets", "signatures", "accounts", "history", "dialog", "crowd"}
    h1 = h1
    h2 = h2
    e1 = e1
    e2 = e2
    e3 = e3
    Networks = {mainnet}
    Handlers = {h1, h2}
    EventIds = {e1, e2, e3}
    NoEvent = NoEvent
    MaxAttempts = 2
    Isolated = TRUE
    MaxRestarts = 1
    MaxPending = 2
    MaxFailures = 0
SPECIFICATION MCSpec
PROPERTIES SocketsSettle SettlesInTheEnd
CHECK_DEADLOCK FALSE
