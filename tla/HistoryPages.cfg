SPECIFICATION Spec
CONSTANTS
    Wallet = "stellar"
    Txs = {"t", "u", "v"}
    Uuids = {"x"}
    Limit = 1
    MaxChanges = 1
INVARIANT MatchingCursorServed
