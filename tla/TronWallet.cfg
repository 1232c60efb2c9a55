\* Each part with bounds of its own, so that their states add up.
CONSTANTS
    Parts = {"transactions", "dialogs", "assets", "sending", "staking", "expiring", "pages", "creating",
             "proving", "fees", "holdings", "mapper"}
    Txs = {t}
    MaxRetries = 1
    MaxAttempts = 2
    MaxTroubles = 2
    NoDialog = NoDialog
    NoScan = NoScan
    Expired = Expired
SPECIFICATION MCSpec
INVARIANTS AmountsRight HistoryRight AgreedRight AccountsRight
PROPERTIES DemotedBySendOnly SettlesInTheEnd
CHECK_DEADLOCK FALSE
