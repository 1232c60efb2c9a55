--------------------------- MODULE MCSolanaWallet ---------------------------
(***************************************************************************)
(* The parts of the Solana wallet that are checked together: a behaviour   *)
(* runs one part. Sockets, subscriptions, synchronisation and dialogs,     *)
(* which have to get somewhere in the end, keep their own variables; the   *)
(* others find theirs in v1, ..., v8. Inputs of computations are families. *)
(* Signatures, accounts and a second dialog are each left out by some part.*)
(***************************************************************************)
EXTENDS SolanaConnections, Sequences, SequencesExt, TLC

CONSTANTS Parts, MaxFailures, h1, h2, e1, e2, e3

VARIABLES
    part,
    online, server, inbox, sent, reached, kept, expired, watched, selected, subscribing, confirming, ending,
    resending, saved, crossed, mishaps,
    chain, history, balance, told, sends, runs, notes, causes, failures,
    simulates, aged, ui, context, flow, answer, clearing, folding, slot, due, refreshes, slips,
    v1, v2, v3, v4, v5, v6, v7, v8

subscriptionsVars == <<online, server, inbox, sent, reached, kept, expired, watched, selected, subscribing,
                       confirming, ending, resending, saved, crossed, mishaps>>
historyVars == <<chain, history, balance, told, sends, runs, notes, causes, failures>>
dialogsVars == <<simulates, aged, ui, context, flow, answer, clearing, folding, slot, due, refreshes, slips>>
slots       == <<v1, v2, v3, v4, v5, v6, v7, v8>>
walletVars  == <<part, vars, subscriptionsVars, historyVars, dialogsVars, slots>>

Signed == INSTANCE SolanaSubscriptions WITH
    Signatures <- {"s"}, Accounts <- {"a"}, Troubles <- {}, Recurring <- {"loss"},
    up <- online, stored <- kept, troubles <- mishaps

Monitored == INSTANCE SolanaSubscriptions WITH
    Signatures <- {"s"}, Accounts <- {"a"}, Troubles <- {}, Recurring <- {"loss"},
    up <- online, stored <- kept, troubles <- mishaps

Failing == INSTANCE SolanaSubscriptions WITH
    Signatures <- {"s"}, Accounts <- {"a"}, Troubles <- {"expiry", "fetch", "refusal", "restart"}, Recurring <- {},
    up <- online, stored <- kept, troubles <- mishaps

\* Spam of a token to the account, after a transaction of its own.
History == INSTANCE SolanaSync WITH
    Accounts <- {"a"}, Txs <- {"t", "u"}, Touches <- [t |-> {"a"}, u |-> {"a"}], Tokens <- [t |-> {}, u |-> {"a"}],
    Sender <- [t |-> "a"], Spam <- {<<"a", "u">>}, Sets <- {{"a"}}, Limit <- 1, Total <- 1, MaxTroubles <- MaxFailures,
    stored <- history, troubles <- failures,
    Parties <- {"me", "you", "dex"}, Me <- "me", Mints <- {"m"}, Dust <- 2, Base <- 1, given <- v1, entry <- v2

Alone == INSTANCE SolanaConfirmation WITH
    Dialogs <- {"d", "e"}, NoDialog <- "none", Runners <- {1}, Folding <- {"d"}, Dapp <- TRUE, MaxDue <- 1,
    MaxTroubles <- 1, expired <- aged, job <- refreshes, troubles <- slips

Crowded == INSTANCE SolanaConfirmation WITH
    Dialogs <- {"d", "e"}, NoDialog <- "none", Runners <- {1}, Folding <- {}, Dapp <- TRUE, MaxDue <- 2,
    MaxTroubles <- 0, expired <- aged, job <- refreshes, troubles <- slips

Sending == INSTANCE SolanaSending WITH
    Kinds <- {"native", "token", "approve", "given"}, Base <- 1, Price <- 1, SendLimit <- 1, TokenLimit <- 1,
    DefaultLimit <- 2, Rent <- 1, TokenRent <- 1, Top <- 4, Ages <- 2,
    Given <- [signers : 1..2, verified : 0..1, limit : 0..1, price : 0..1, hash : {0},
              encoded : {"message", "transaction"}, touched : BOOLEAN, source : {"metamask", "dapp"}, create : {FALSE}],
    chain <- v1, saved <- v2, request <- v3, verdict <- v4, message <- v5, signed <- v6

Creating == INSTANCE SolanaKeyring WITH
    Sources <- {"s"}, Calls <- {"c", "d"}, Methods <- {}, MaxIndex <- 0, MaxIds <- 3, MaxDeletions <- 1,
    accounts <- v1, owned <- v2, watched <- v3, wanted <- v4, drawn <- v5, deleted <- v6, calls <- v7, signed <- v8

Signing == INSTANCE SolanaKeyring WITH
    Sources <- {"s"}, Calls <- {"c"}, Methods <- {"signTransaction", "signIn"}, MaxIndex <- 1, MaxIds <- 2,
    MaxDeletions <- 1,
    accounts <- v1, owned <- v2, watched <- v3, wanted <- v4, drawn <- v5, deleted <- v6, calls <- v7, signed <- v8

Proving == INSTANCE OwnershipProofs WITH
    Wallet <- "solana", Accounts <- {"a", "b"}, Source <- [a |-> "s", b |-> "t"], Names <- {"a", "A", "b", "x"},
    Of <- [a |-> "a", A |-> "a", b |-> "b", x |-> "nobody"], Longest <- 2, MaxFaults <- 2, batch <- v1, results <- v2

ASSUME Assumptions ==
    /\ Signed!SolanaSubscriptionsAssumption /\ Monitored!SolanaSubscriptionsAssumption
    /\ Failing!SolanaSubscriptionsAssumption /\ History!SolanaSyncAssumption
    /\ Alone!SolanaConfirmationAssumption /\ Crowded!SolanaConfirmationAssumption
    /\ Sending!SolanaSendingAssumption
    /\ Creating!SolanaKeyringAssumption /\ Signing!SolanaKeyringAssumption /\ Proving!OwnershipProofsAssumption

MCSymmetry == Permutations({h1, h2}) \cup Permutations({e1, e2, e3})

------------------------------------------------------------------------------
\* Transactions of up to two moves and two token accounts, of which the account pays or does not.
Moves == [from : {1, 2}, to : {1, 2, 3}, amount : {1, 2}, how : {"transfer", "inner"}]
Swapped == {<<>>, <<[owner |-> "me", mint |-> "m", pre |-> 1, post |-> 0], [owner |-> "dex", mint |-> "m", pre |-> 0, post |-> 1]>>,
            <<[owner |-> "me", mint |-> "m", pre |-> 0, post |-> 1], [owner |-> "dex", mint |-> "m", pre |-> 1, post |-> 0]>>,
            <<[owner |-> "me", mint |-> "m", pre |-> 1, post |-> 0], [owner |-> "me", mint |-> "m", pre |-> 0, post |-> 1]>>}
Transactions ==
    [keys : {<<"me", "you", "dex">>, <<"you", "me", "dex">>}, moves : {<<m>> : m \in Moves}, tokens : Swapped,
     selves : {<<>>}, failed : BOOLEAN, signatures : {1}, priority : {0, 1}]
    \cup
    [keys : {<<"me", "you", "dex">>, <<"you", "me", "dex">>},
     moves : {<<m, n>> : m \in {x \in Moves : x.how = "transfer"}, n \in {x \in Moves : x.from = 2 /\ x.amount = 1}},
     tokens : {<<>>}, selves : {<<>>}, failed : BOOLEAN, signatures : {2}, priority : {0}]
    \cup
    [keys : {<<"me", "you", "dex">>, <<"you", "me", "dex">>}, moves : {<<>>}, tokens : Swapped \ {<<>>},
     selves : {<<[account |-> 1, amount |-> 1]>>}, failed : BOOLEAN, signatures : {1}, priority : {1}]

\* Sends of some amounts, and transactions given by somebody to a full account.
Requests ==
    /\ v1.theirs => v1.place # "none"
    /\ v1.tokens <= 1 /\ v1.place \notin {"program", "other token account"} /\ v1.sol # 2
    /\ v3.kind \in {"native", "token"} => v3.amount <= 2
    /\ v3.kind \notin {"native", "token"} => v3.amount = 1 /\ v1.sol = 1 /\ v1.tokens = 0 /\ v1.place = "system"

------------------------------------------------------------------------------
\* Slots a part does not use.
Free7 == v7 = 0 /\ v8 = 0
Free3 == v3 = 0 /\ v4 = 0 /\ v5 = 0 /\ v6 = 0 /\ Free7

MCInit ==
    /\ part \in Parts
    /\ Init /\ History!Init
    /\ CASE part = "accounts" -> Monitored!Init [] part = "failing" -> Failing!Init [] OTHER -> Signed!Init
    /\ CASE part = "crowd" -> Crowded!Init /\ simulates [] part = "dialog" -> Alone!Init [] OTHER -> Alone!Init /\ simulates
    /\ CASE part = "sending"  -> Sending!Init /\ Requests /\ Free7
         [] part = "mapping"  -> v1 \in Transactions /\ v2 = History!NotYet /\ Free3
         [] part = "creating" -> Creating!Init
         [] part = "signing"  -> Signing!Init
         [] part = "proving"  -> Proving!Init /\ Free3
         [] OTHER             -> v1 = 0 /\ v2 = 0 /\ Free3

Keep7 == UNCHANGED <<v7, v8>>
Keep3 == UNCHANGED <<v3, v4, v5, v6, v7, v8>>

Connections(Action) == part = "sockets" /\ Action /\ UNCHANGED <<part, subscriptionsVars, historyVars, dialogsVars, slots>>
Subscriptions(of, Action) == part = of /\ Action /\ UNCHANGED <<part, vars, historyVars, dialogsVars, slots>>
Synchronising(Action) == part = "history" /\ Action /\ UNCHANGED <<part, vars, subscriptionsVars, dialogsVars, slots>>
Showing(of, Action) == part = of /\ Action /\ UNCHANGED <<part, vars, subscriptionsVars, historyVars, slots>>
Computing(of, Action) == part = of /\ Action /\ UNCHANGED <<part, vars, subscriptionsVars, historyVars, dialogsVars>>

MCNext ==
    \/ Connections(Next)
    \/ Subscriptions("signatures", Signed!Next /\ UNCHANGED selected)
    \/ Subscriptions("accounts", Monitored!Next /\ UNCHANGED sent)
    \/ Subscriptions("failing", Failing!Next /\ UNCHANGED selected)
    \/ Synchronising(History!Next)
    \/ Showing("dialog", Alone!Next /\ flow'["e"] = "idle") \/ Showing("crowd", Crowded!Next /\ UNCHANGED aged)
    \/ Computing("sending", Sending!Next /\ Keep7)
    \/ Computing("mapping", History!MapNext /\ Keep3)
    \/ Computing("creating", Creating!Next)
    \/ Computing("signing", Signing!Next)
    \/ Computing("proving", Proving!Next /\ Keep3)

MCSafeSpec == MCInit /\ [][MCNext]_walletVars

\* The fairness of each part's FairSpec, for the behaviours of the part; two parts share their variables.
Following(signed_, monitored_) == (part = "signatures" /\ signed_) \/ (part = "accounts" /\ monitored_)
Asking(alone_, crowded_)       == (part = "dialog" /\ alone_) \/ (part = "crowd" /\ crowded_)

MCSpec ==
    /\ MCSafeSpec
    /\ WF_vars(part = "sockets" /\ Fire)
    /\ \A h \in Handlers : WF_vars(part = "sockets" /\ HandlerStep(h))
    /\ \A n \in Networks : WF_vars(part = "sockets" /\ SocketStep(n))
    /\ \A c \in Signed!Callers : WF_subscriptionsVars(Following(Signed!Subscribing(c), Monitored!Subscribing(c)))
    /\ \A e \in Signed!Enders : WF_subscriptionsVars(Following(Signed!Finishing(e), Monitored!Finishing(e)))
    /\ WF_subscriptionsVars(Following(Signed!Recovering, Monitored!Recovering))
    /\ WF_subscriptionsVars(Following(Signed!Receiving, Monitored!Receiving))
    /\ WF_subscriptionsVars(Following(Signed!Connect, Monitored!Connect))
    /\ WF_subscriptionsVars(Following(Signed!SetMonitored, Monitored!SetMonitored))
    /\ WF_historyVars(part = "history" /\ History!RunStep({"a"}))
    /\ WF_historyVars(part = "history" /\ History!Working("t"))
    /\ WF_historyVars(part = "history" /\ History!Handling)
    /\ \A d \in {"d", "e"} : /\ WF_dialogsVars(Asking(Alone!Render(d), Crowded!Render(d)))
                             /\ WF_dialogsVars(Asking(Alone!Buttons(d), Crowded!Buttons(d)))
    /\ WF_dialogsVars(Asking(Alone!Refresh(1), Crowded!Refresh(1)))

------------------------------------------------------------------------------
\* What is stored is so: a subscription waits for something that will come, what is confirmed is on the
\* chain, and an entry of the history shows what the account gave, got and paid
\* (SubscriptionService, TransactionsService, TransactionMapper).
RecordsRight ==
    /\ part = "signatures" => Signed!TypeOK /\ Signed!StoredIsLive
    /\ part = "accounts" => Monitored!TypeOK /\ Monitored!StoredIsLive
    /\ part = "failing" => Failing!TypeOK /\ Failing!StoredIsLive
    /\ part = "history" => History!TypeOK /\ History!HistoryHonest
    /\ part = "mapping" => History!OwnChangeShown /\ History!FeesShown /\ History!SpamGaveNothing

\* Accounts stay until they are deleted, and what is signed is what was agreed to, for the account and at the
\* fee that were shown (Keyring, ClientRequestHandler, ConfirmationHandler, SendService, FeeCalculator).
SignedRight ==
    /\ part = "creating" => Creating!TypeOK /\ Creating!AccountsStay /\ Creating!SelectionHolds
    /\ part = "signing" => Signing!TypeOK /\ Signing!AccountsStay /\ Signing!SignedAsAsked
    /\ part = "proving" => Proving!BatchIsSingles /\ Proving!MessagesAreOwn
    /\ part = "dialog" => Alone!TypeOK /\ Alone!AnswersCount
    /\ part = "crowd" => Crowded!TypeOK /\ Crowded!AnswersCount
    /\ part = "sending" => Sending!TypeOK /\ Sending!FeeAsShown /\ Sending!ValidSendLands

\* A dapp's transaction is signed as it is, the wallet's own with a new blockhash and a price (PreparedWell).
StepsRight == [][part = "sending" => Sending!PreparedWell]_walletVars

\* Once the surroundings are calm, sockets are connected or given up. Parts that do not run keep to their first
\* state, of which this holds.
SocketsSettle == EventuallyConnected /\ EventuallyQuiet

\* Signatures that were reached are saved, selected accounts monitored, histories catch up, and a dialog is
\* refreshed as long as it is open and no longer.
SettlesInTheEnd ==
    /\ Signed!EventuallySaved /\ Monitored!EventuallyMonitored
    /\ History!EventuallyCaughtUp
    /\ Alone!RepeatedlyTimely /\ Crowded!EventuallyQuiet

==============================================================================
