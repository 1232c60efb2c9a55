---------------------------- MODULE MCTronWallet ----------------------------
(***************************************************************************)
(* The parts of the Tron wallet that are checked together: a behaviour     *)
(* runs one part. Transactions, dialogs and assets, which also have to get *)
(* somewhere in the end, keep their own variables; the others find theirs  *)
(* in v1, ..., v9. Inputs of computations are restricted to families.      *)
(***************************************************************************)
EXTENDS TronTransactions, Integers, SequencesExt

CONSTANTS Parts, NoDialog, NoScan, Expired

VARIABLES
    part,
    scanning, head, ui, context, opening, result, kept, idMap, answer, due, jobs, active, mishaps,
    version, cached, saved, savedAt, listed, told, runs, failures,
    v1, v2, v3, v4, v5, v6, v7, v8, v9

dialogsVars == <<scanning, head, ui, context, opening, result, kept, idMap, answer, due, jobs, active, mishaps>>
heldVars    == <<version, cached, saved, savedAt, listed, told, runs, failures>>
slots       == <<v1, v2, v3, v4, v5, v6, v7, v8, v9>>
walletVars  == <<part, tronVars, dialogsVars, heldVars, slots>>

Dialogs == INSTANCE TronConfirmation WITH
    Dialogs <- {"c"}, Signing <- FALSE, MaxHead <- 1, MaxTroubles <- 0,
    flow <- opening, job <- jobs, open <- active, troubles <- mishaps

Account == INSTANCE TronAssets WITH
    Assets <- {"trx", "tok"}, Essential <- {"trx"}, Jobs <- {"s", "q"}, Silent <- {"q"},
    History <- <<[trx |-> 1, tok |-> 1], [trx |-> 2, tok |-> -1]>>,
    MaxTroubles <- 1, shown <- told, jobs <- runs, troubles <- failures,
    Tokens <- {"T", "U"}, Trc10 <- {"T"}, Sums <- {0, 1, 2}, Times <- {0, 1, 2}, given <- v1, fetched <- v2

\* A send and a staking take turns in the slots; of a staking, one step fails.
Requests == INSTANCE TronRequests WITH
    Kinds <- {"trx", "token"}, MaxBalance <- 1, Burned <- 1, MaxAmount <- 1, MaxChanges <- 1,
    MaxScheduled <- 2, MaxTroubles <- 2,
    node <- v1, cached <- v2, stored <- v3, send <- v4, typed <- v5, steady <- v6, fetchedOk <- v7,
    chain <- v1, held <- v2, call <- v3, scheduled <- v4, behind <- v5, remembered <- v6, undisturbed <- v7, changes <- v8, troubles <- v9

Staking == INSTANCE TronRequests WITH
    Kinds <- {"trx", "token"}, MaxBalance <- 1, Burned <- 1, MaxAmount <- 1, MaxChanges <- 2,
    MaxScheduled <- 2, MaxTroubles <- 1,
    node <- v1, cached <- v2, stored <- v3, send <- v4, typed <- v5, steady <- v6, fetchedOk <- v7,
    chain <- v1, held <- v2, call <- v3, scheduled <- v4, behind <- v5, remembered <- v6, undisturbed <- v7, changes <- v8, troubles <- v9

\* Fees and the time a transaction is good for as well.
Terms == INSTANCE TronTerms WITH
    Chain <- [bandwidth |-> 1, energy |-> 2, activate |-> 5, create |-> 3, upgrade |-> 9],
    Fallback <- [bandwidth |-> 2, energy |-> 1, activate |-> 6, create |-> 2, upgrade |-> 9],
    MemoFee <- 1, DefaultEnergy <- 4, Amounts <- {0, 3},
    Window <- 3, Buffer <- 1, Lifetime <- 4, Longest <- 6, MaxBlock <- 6,
    tx <- v1, failed <- v2, named <- v3, fee <- v4,
    current <- v1, fork <- v2, now <- v3, raw <- v4, signed <- v5, told <- v6

Pages == INSTANCE HistoryPages WITH
    Wallet <- "tron", Uuids <- {}, Txs <- {"p", "q", "r", "s"}, Limit <- 2, MaxChanges <- 1,
    history <- v1, next <- v2, seen <- v3, refused <- v4, kept <- v5, moved <- v6, derailed <- v7, walked <- v8

Creating == INSTANCE TronAccounts WITH
    Sources <- {"s"}, Calls <- {"c", "d"}, MaxIndex <- 1, MaxIds <- 4, MaxDeletions <- 1,
    accounts <- v1, calls <- v2, drawn <- v3, deleted <- v4, request <- v5

Proving == INSTANCE OwnershipProofs WITH
    Wallet <- "tron", Accounts <- {"a", "b"}, Source <- [a |-> "s", b |-> "t"], Names <- {"a", "b", "x"},
    Of <- [a |-> "a", b |-> "b", x |-> "nobody"], Longest <- 3, MaxFaults <- 1, batch <- v1, results <- v2

Mapper == INSTANCE TronMapper WITH
    Parties <- {"me", "you", "dex"}, Me <- "me", Tokens <- {"T", "U"}, Dust <- 2,
    given <- v1, entry <- v2

ASSUME Assumptions ==
    /\ Dialogs!TronConfirmationAssumption /\ Account!TronAssetsAssumption /\ Requests!TronRequestsAssumption
    /\ Terms!TronTermsAssumption /\ Pages!HistoryPagesAssumption /\ Creating!TronAccountsAssumption
    /\ Proving!OwnershipProofsAssumption /\ Mapper!TronMapperAssumption

------------------------------------------------------------------------------
\* What an account may hold: one family varies what is staked, the other the rest.
Stakes == [Account!FrozenTypes -> {0, 1}]
NoStakes == [t \in Account!FrozenTypes |-> 0]
Pairs(S) == [{"bandwidth", "energy"} -> S]
Full == [ok |-> TRUE, freeNetLimit |-> 1, NetLimit |-> 1, freeNetUsed |-> 2, NetUsed |-> 1,
         EnergyLimit |-> 1, EnergyUsed |-> 2]
Snapshots ==
    [info : {"active"}, balance : {1}, frozen : Stakes, delegated : Pairs({0, 1}),
     unfrozen : [1..2 -> [amount : {0, 1}, expires : {0, 1, 2}]], reads : {<<0, 0>>, <<0, 1>>, <<1, 1>>, <<0, 2>>},
     net : {Full}, reward : {1}, tokens : {[T |-> 1, U |-> 1]}, fallback : {TRUE},
     known : {{"T"}}, metadata : {TRUE}, prices : {[ok |-> TRUE, of |-> {"T"}]}]
    \cup
    [info : {"active", "absent", "failed"}, balance : {0, 2}, frozen : {NoStakes}, delegated : Pairs({0}),
     unfrozen : {[i \in 1..2 |-> [amount |-> 1, expires |-> i]]}, reads : {<<1, 1>>},
     net : {[ok |-> FALSE], Full, [Full EXCEPT !.NetUsed = 0, !.freeNetUsed = 1]}, reward : {-1, 0, 1},
     tokens : {[T |-> 0, U |-> 1], [T |-> 1, U |-> 0]}, fallback : BOOLEAN,
     known : SUBSET {"T", "U"}, metadata : BOOLEAN,
     prices : {[ok |-> FALSE], [ok |-> TRUE, of |-> {}], [ok |-> TRUE, of |-> {"T"}], [ok |-> TRUE, of |-> {"T", "U"}]}]

\* Transactions that are no calls, and calls with up to two transfers, the second of which is the account's.
Transfer(type, from, to, token) == [type |-> type, from |-> from, to |-> to, token |-> token, value |-> 1]
Mine2 == {Transfer("Transfer", "me", "dex", "U"), Transfer("Transfer", "dex", "me", "U"),
          Transfer("Transfer", "dex", "me", "T")}
Lists == {<<>>, <<Transfer("Transfer", "you", "dex", "T")>>}
         \cup {<<Transfer(type, from, to, "T")>> : type \in {"Transfer", "Approval"}, from \in {"me", "you"},
                                                   to \in {"me", "dex"}}
         \cup {<<Transfer("Transfer", from, to, "T"), u>> : from \in {"me", "dex"}, to \in {"me", "dex"}, u \in Mine2}
Chained ==
    [contract : {"TransferContract", "TransferAssetContract", "FreezeBalance", "UnfreezeBalance", "other", "none"},
     owner : {"me", "you"}, target : {"me", "you"}, amount : {1, 2}, resource : {"ENERGY", "none"},
     block : BOOLEAN, ret : {"SUCCESS", "REVERT", "none"}, paid : {0, 1}, internal : {{}}, listed : {FALSE},
     found : {FALSE}, transfers : {<<>>}, alone : {FALSE}, priced : {{}, {"trc10"}, Mapper!NoPrices}]
    \cup
    [contract : {"TriggerSmartContract"}, owner : {"me", "you"}, target : {"dex"}, amount : {0, 1},
     resource : {"none"}, block : BOOLEAN, ret : {"SUCCESS", "REVERT"}, paid : {1},
     internal : {{}, {[from |-> "me", to |-> "dex", value |-> 1]}, {[from |-> "dex", to |-> "me", value |-> 1]}},
     listed : BOOLEAN, found : BOOLEAN, transfers : Lists, alone : BOOLEAN, priced : {{}, {"T"}, Mapper!NoPrices}]

------------------------------------------------------------------------------
\* Slots a part does not use.
Free7 == v7 = 0 /\ v8 = 0 /\ v9 = 0
Free5 == v5 = 0 /\ v6 = 0 /\ Free7
Free3 == v3 = 0 /\ v4 = 0 /\ Free5

MCInit ==
    /\ part \in Parts
    /\ Init /\ Dialogs!Init /\ Account!Init
    /\ part # "transactions" => \A t \in Txs : flow[t] = "confirmSend"
    /\ part # "dialogs" => scanning
    /\ CASE part = "sending"  -> Requests!SendInit
         [] part = "staking"  -> Staking!StakingInit
         [] part = "expiring" -> Terms!ExpirationInit /\ Free7
         [] part = "pages"    -> Pages!Init /\ v9 = 0
         [] part = "creating" -> Creating!Init /\ v6 = 0 /\ Free7
         [] part = "proving"  -> Proving!Init /\ Free3
         [] part = "fees"     -> Terms!FeeInit /\ Free5
         [] part = "holdings" -> v1 \in Snapshots /\ v2 = Account!Pending /\ Free3
         [] part = "mapper"   -> v1 \in Chained /\ v2 = Mapper!NotYet /\ Free3
         [] OTHER             -> v1 = 0 /\ v2 = 0 /\ Free3

Keep3 == UNCHANGED <<v3, v4, v5, v6, v7, v8, v9>>
Keep5 == UNCHANGED <<v5, v6, v7, v8, v9>>
Keep6 == UNCHANGED <<v6, v7, v8, v9>>
Keep7 == UNCHANGED <<v7, v8, v9>>

Slots(Action, Rest) == Action /\ Rest /\ UNCHANGED <<tronVars, dialogsVars, heldVars>>

Transacting == part = "transactions" /\ Next /\ UNCHANGED <<dialogsVars, heldVars, slots>>
Asking      == part = "dialogs" /\ Dialogs!Next /\ UNCHANGED <<tronVars, heldVars, slots>>
Holding     == part = "assets" /\ Account!Next /\ UNCHANGED <<tronVars, dialogsVars, slots>>

MCNext ==
    /\ UNCHANGED part
    /\ \/ Transacting
       \/ Asking
       \/ Holding
       \/ part = "sending" /\ Slots(Requests!SendStep, TRUE)
       \/ part = "staking" /\ Slots(Staking!StakingNext, TRUE)
       \/ part = "expiring" /\ Slots(Terms!ExpirationNext, Keep7)
       \/ part = "pages" /\ Slots(Pages!Next, UNCHANGED v9)
       \/ part = "creating" /\ Slots(Creating!Next, Keep6)
       \/ part = "proving" /\ Slots(Proving!Next, Keep3)
       \/ part = "fees" /\ Slots(Terms!FeeNext, Keep5)
       \/ part = "holdings" /\ Slots(Account!HoldingsNext, Keep3)
       \/ part = "mapper" /\ Slots(Mapper!Next, Keep3)

\* The fairness of FairSpec, Dialogs!FairSpec and Account!FairSpec, each for the behaviours of its part.
InTransactions(Action) == part = "transactions" /\ Action /\ UNCHANGED <<part, dialogsVars, heldVars, slots>>
InDialogs(Action)      == part = "dialogs" /\ Action /\ UNCHANGED <<part, tronVars, heldVars, slots>>
InAssets(Action)       == part = "assets" /\ Action /\ UNCHANGED <<part, tronVars, dialogsVars, slots>>

MCSpec ==
    /\ MCInit /\ [][MCNext]_walletVars
    /\ \A t \in Txs : WF_walletVars(InTransactions(Track(t))) /\ WF_walletVars(InTransactions(Mine(t)))
                      /\ WF_walletVars(InTransactions(Request(t)))
    /\ \A k \in Kinds : WF_walletVars(InTransactions(Sync(k)))
    /\ WF_walletVars(InTransactions(Cron)) /\ WF_walletVars(InTransactions(Wanted))
    /\ WF_walletVars(InDialogs(Dialogs!Request("c")))
    /\ \A j \in Dialogs!Jobs : WF_walletVars(InDialogs(Dialogs!Run(j)))
    /\ WF_walletVars(InAssets(Account!CacheExpires)) /\ WF_walletVars(InAssets(Account!AccountChanges))
    /\ WF_walletVars(InAssets(Account!Start("s")))
    /\ \A j \in {"s", "q"} : WF_walletVars(InAssets(Account!Work(j)))

------------------------------------------------------------------------------
\* What amounts are told to be: an estimate is never below the charge when the wallet knew what it needed,
\* nothing an account holds is counted twice or lost, whatever failed, an entry of the history names what
\* moved, and pages leave nothing out (FeeCalculatorService, SnapAssetsAdapter, TransactionsMapper).
AmountsRight ==
    /\ TypeOK
    /\ part = "fees" => Terms!FeeTypeOK /\ Terms!NeverTooLow /\ Terms!ExactWhenKnown
    /\ part = "holdings" => Account!NothingCountedTwice /\ Account!AccountModelComplete
    /\ Account!TypeOK /\ Account!ShownIsKnown
    /\ part = "mapper" => Mapper!DirectionTold /\ Mapper!StatusTold
    /\ part = "pages" => Pages!TypeOK /\ Pages!WalkComplete

\* What the user agrees to is what was judged, scanned and made fresh, and what goes out
\* (confirmSend, the confirmation dialogs, TransactionExpirationRefresherService).
AgreedRight ==
    /\ part = "sending" => Requests!SendTypeOK /\ Requests!ConfirmAgrees /\ Requests!RefusedOnlyIfMoved
                           /\ Requests!FeeShownIsFeeJudged
    /\ part = "staking" => Staking!StakingTypeOK /\ Staking!SentIsSynchronised /\ Staking!StakeJudgedAlike
                           /\ Staking!AllSentWhenValid
    /\ part = "expiring" => Terms!ExpirationTypeOK /\ Terms!SignedIsAccepted /\ Terms!CheckedRight
    /\ Dialogs!TypeOK /\ Dialogs!ScanOfShown

\* Accounts and signatures are not mixed up: one account for an index, one result for each item, by
\* the key of the account it names (createAccounts, signProofOfOwnershipBatch).
AccountsRight ==
    /\ part = "creating" => Creating!TypeOK /\ Creating!ServingTypeOK /\ Creating!OneAccountPerIndex
                            /\ Creating!AnswerIsSaved /\ Creating!SignedForTheNamed
    /\ part = "proving" => Proving!BatchIsSingles /\ Proving!MessagesAreOwn

\* Transactions end up confirmed and untracked, refreshing goes on while a dialog is open and ends
\* with it, and the client ends up with what the account holds.
SettlesInTheEnd ==
    /\ part = "transactions" => EventuallyConfirmed /\ EventuallyUntracked
    /\ part = "dialogs" => Dialogs!EventuallyIdle /\ Dialogs!RepeatedlyFresh
    /\ part = "assets" => Account!EventuallyShown

==============================================================================
