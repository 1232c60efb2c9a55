\* One coin, one trustline and one token, with balances 0 and 1.
SPECIFICATION FairSpec
CONSTANTS
    Native = xlm
    Classics = {usdc}
    Tokens = {sol}
    MaxAmount = 1
    Catalogs = {{sol}}
    None = None
    Gone = Gone
PROPERTIES HoldingsKept SettlesInTheEnd
INVARIANTS RoundTrip BalancesHeal ClientExact
