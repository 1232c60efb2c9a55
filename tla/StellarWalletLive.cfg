\* Every part whose behaviours must get somewhere in the end: x sends s and receives i; two calls of synchronize()
\* overlap while the user switches between two accounts.
CONSTANTS
    Parts = {"transactions", "synchronize", "confirmation", "metadata"}
    x = x
    y = y
    s = s
    i = i
    c1 = c1
    c2 = c2
    NoOne = NoOne
    Gone = Gone
    Accounts = {x}
    Txs = {s, i}
    Owner <- MCOwner
    Sent = {s}
    Dust = {}
    Recipient <- MCRecipient
    PageLimit = 1
    MaxAttempts = 1
    PromptWallet = TRUE
SPECIFICATION MCSpec
INVARIANTS AnswersRight PendingCorrectable
PROPERTIES PendingKept EventuallySettled SettlesInTheEnd ConfirmationSettles
CHECK_DEADLOCK FALSE
