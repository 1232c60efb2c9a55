\* Three calls on two leaves, one of them also reachable through a path over both.
CONSTANTS
    Keys = {k1, k2}
    Paths = {{k1}, {k1, k2}}
    Ops = {a, b, c}
    NoOp = NoOp
    IsolatedTurns = TRUE
SPECIFICATION FairSpec
INVARIANT BlobExclusive
PROPERTIES Atomic EveryCallReturns
