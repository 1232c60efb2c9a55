\* The same when a turn of the event loop does not run alone.
CONSTANTS
    Keys = {k1, k2}
    Paths = {{k1}, {k1, k2}}
    Ops = {a, b, c}
    NoOp = NoOp
    IsolatedTurns = FALSE
SPECIFICATION Spec
INVARIANT BlobExclusive
