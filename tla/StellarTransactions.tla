-------------------------- MODULE StellarTransactions --------------------------
(***************************************************************************)
(* The transaction history of the Stellar snap: class                      *)
(* TransactionSynchronizeService with TransactionRepository, and the       *)
(* savePendingKeyringTransaction of TransactionService.  Horizon holds an  *)
(* ever longer list of transactions per account; a sync run scans it from  *)
(* a saved cursor, looks up the pending transactions the scan did not      *)
(* return, tells the controller what it found, and only then saves.        *)
(* Meanwhile the wallet sends transactions of its own, and any run may     *)
(* fail or die with the snap.                                              *)
(***************************************************************************)
EXTENDS Naturals, Sequences, FiniteSets

CONSTANTS
    Accounts,       \* the keyring accounts of the snap
    Txs,
    Owner,          \* Owner[t]: the account in whose history t appears
    Sent,           \* the transactions this wallet submits
    Dust,           \* incoming transactions omitted from the history
    Recipient,      \* Recipient[t]: the account receiving a SEP-41 send, or NoOne
    NoOne,
    PageLimit,      \* the most transactions one fetch returns
    MaxAttempts,    \* AppConfig.transaction.maxReconcileAttempts
    PromptWallet    \* whether a sent transaction reaches Horizon only after the
                    \* wallet has told the controller about it

ASSUME TxsAssumption ==
    /\ Owner \in [Txs -> Accounts]
    /\ Sent \subseteq Txs
    /\ Dust \subseteq Txs \ Sent
    /\ Recipient \in [Txs -> Accounts \cup {NoOne}]
    /\ NoOne \notin Accounts
ASSUME LimitsAssumption ==
    /\ PageLimit \in Nat \ {0}
    /\ MaxAttempts \in Nat \ {0}
    /\ PromptWallet \in BOOLEAN

VARIABLES
    \* Horizon
    ledger,         \* ledger[a]: the transactions of a, oldest first
    outcome,        \* outcome[t]: "none", "confirmed" or "failed"
    \* the wallet
    wallet,         \* wallet[t]: how far submitting t is
    aged,           \* submitted more than maxPendingTransactionAge ago
    \* snap state
    held,           \* the pending transactions saved
    tries,          \* tries[t]: reconcileAttemptCount
    cursor,         \* cursor[a]: position of the last scan token, 0 for null
    first,          \* first[a]: oldest position the scans have covered
    \* the controller
    told,           \* told[t][a]: the last status emitted to account a
    delivered,      \* <<t, a>>: a final status of t was emitted to a
    \* the sync run and its SyncContext
    run,            \* the await it is at
    accts, cHeld, cTries, cCursor, cFirst,
    page,           \* page[a]: the positions the fetch for a returned
    lookups,        \* pending transactions still to be looked up
    toSave          \* transactionsToSave: set of <<t, a>>

horizon == <<ledger, outcome>>
saved   == <<held, tries, cursor, first>>
context == <<accts, cHeld, cTries, cCursor, cFirst, page, lookups, toSave>>
vars    == <<horizon, wallet, aged, saved, told, delivered, run, context>>

Unfetched == [st |-> "unfetched", lo |-> 0, hi |-> 0]

Init ==
    /\ ledger = [a \in Accounts |-> <<>>]
    /\ outcome = [t \in Txs |-> "none"]
    /\ wallet = [t \in Txs |-> IF t \in Sent THEN "idle" ELSE "other"]
    /\ aged = {}
    /\ held = {}
    /\ tries = [t \in Txs |-> 0]
    /\ cursor = [a \in Accounts |-> 0]
    /\ first = [a \in Accounts |-> 1]
    /\ told = [t \in Txs |-> [a \in Accounts |-> "none"]]
    /\ delivered = {}
    /\ run = "idle"
    /\ accts = {}
    /\ cHeld = {}
    /\ cTries = tries
    /\ cCursor = cursor
    /\ cFirst = first
    /\ page = [a \in Accounts |-> Unfetched]
    /\ lookups = {}
    /\ toSave = {}

------------------------------------------------------------------------------
(* Horizon and the wallet *)

\* Horizon indexes a transaction: one the wallet has sent, or an incoming one.
Include(t) ==
    /\ outcome[t] = "none"
    /\ wallet[t] # "idle"
    /\ PromptWallet => wallet[t] # "sent"
    /\ \E o \in {"confirmed", "failed"} : outcome' = [outcome EXCEPT ![t] = o]
    /\ ledger' = [ledger EXCEPT ![Owner[t]] = Append(@, t)]
    /\ UNCHANGED <<wallet, aged, saved, told, delivered, run, context>>

\* sendTransaction has returned the hash.
Send(t) ==
    /\ wallet[t] = "idle"
    /\ wallet' = [wallet EXCEPT ![t] = "sent"]
    /\ UNCHANGED <<horizon, aged, saved, told, delivered, run, context>>

\* #saveAndEmit: the pending transaction is emitted first.
EmitPending(t) ==
    /\ wallet[t] = "sent"
    /\ wallet' = [wallet EXCEPT ![t] = "emitted"]
    /\ told' = [told EXCEPT ![t][Owner[t]] = "pending"]
    /\ UNCHANGED <<horizon, aged, saved, delivered, run, context>>

\* ... and then saved.
SavePending(t) ==
    /\ wallet[t] = "emitted"
    /\ wallet' = [wallet EXCEPT ![t] = "saved"]
    /\ held' = held \cup {t}
    /\ tries' = [tries EXCEPT ![t] = 0]
    /\ UNCHANGED <<horizon, aged, cursor, first, told, delivered, run, context>>

\* savePendingKeyringTransactionSafe swallows a failure of either request.
LosePending(t) ==
    /\ wallet[t] \in {"sent", "emitted"}
    /\ wallet' = [wallet EXCEPT ![t] = "lost"]
    /\ UNCHANGED <<horizon, aged, saved, told, delivered, run, context>>

\* maxPendingTransactionAge passes for a submitted transaction.
Age(t) ==
    /\ wallet[t] \in {"emitted", "saved", "lost"}
    /\ t \notin aged
    /\ aged' = aged \cup {t}
    /\ UNCHANGED <<horizon, wallet, saved, told, delivered, run, context>>

------------------------------------------------------------------------------
(* A sync run *)

\* #createSyncContext: what the state holds for the accounts of the run.
StartSync ==
    /\ run = "idle"
    /\ \E S \in (SUBSET Accounts) \ {{}} : accts' = S
    /\ run' = "scan"
    /\ cHeld' = {t \in held : Owner[t] \in accts'}
    /\ cTries' = tries
    /\ cCursor' = cursor
    /\ cFirst' = first
    /\ page' = [a \in Accounts |-> Unfetched]
    /\ lookups' = {}
    /\ toSave' = {}
    /\ UNCHANGED <<horizon, wallet, aged, saved, told, delivered>>

\* Faulty variant: the scan token is taken as the first position to return.
WindowInclusive(a) ==
    IF cCursor[a] = 0
    THEN [st |-> "fetched", hi |-> Len(ledger[a]),
          lo |-> IF Len(ledger[a]) > PageLimit THEN Len(ledger[a]) - PageLimit + 1 ELSE 1]
    ELSE [st |-> "fetched", lo |-> cCursor[a],
          hi |-> IF Len(ledger[a]) >= cCursor[a] + PageLimit
                 THEN cCursor[a] + PageLimit - 1 ELSE Len(ledger[a])]

\* #fetchOnChainTransactionsAndNextScanToken: the first scan of an account
\* takes the newest transactions, later ones continue from the cursor.
Window(a) ==
    IF cCursor[a] = 0
    THEN [st |-> "fetched", hi |-> Len(ledger[a]),
          lo |-> IF Len(ledger[a]) > PageLimit THEN Len(ledger[a]) - PageLimit + 1 ELSE 1]
    ELSE [st |-> "fetched", lo |-> cCursor[a] + 1,
          hi |-> IF Len(ledger[a]) > cCursor[a] + PageLimit
                 THEN cCursor[a] + PageLimit ELSE Len(ledger[a])]

Fetch(a) ==
    /\ run = "scan"
    /\ a \in accts
    /\ page[a].st = "unfetched"
    /\ page' = [page EXCEPT ![a] = Window(a)]
    /\ UNCHANGED <<horizon, wallet, aged, saved, told, delivered, run,
                   accts, cHeld, cTries, cCursor, cFirst, lookups, toSave>>

FetchFails(a) ==
    /\ run = "scan"
    /\ a \in accts
    /\ page[a].st = "unfetched"
    /\ page' = [page EXCEPT ![a].st = "failed"]
    /\ UNCHANGED <<horizon, wallet, aged, saved, told, delivered, run,
                   accts, cHeld, cTries, cCursor, cFirst, lookups, toSave>>

\* #appendMappedTransaction: t for account a, and the receive of a confirmed
\* SEP-41 send for a recipient of this wallet; dust is omitted.
Mapped(t, a) ==
    IF t \in Dust THEN {}
    ELSE {<<t, a>>} \cup
         {<<t, b>> : b \in {b \in Accounts \ {a} :
                              Recipient[t] = b /\ outcome[t] = "confirmed"}}

Scanned == {a \in accts : page[a].st = "fetched"}
Found(a) == {ledger[a][p] : p \in page[a].lo .. page[a].hi}

\* The loop over the fetch results: found transactions are mapped, pending
\* ones among them are resolved, and the cursors of the fetched accounts move.
MapScan ==
    /\ run = "scan"
    /\ \A a \in accts : page[a].st # "unfetched"
    /\ toSave' = UNION {UNION {Mapped(t, a) : t \in Found(a)} : a \in Scanned}
    /\ cHeld' = {t \in cHeld : Owner[t] \notin Scanned \/ t \notin Found(Owner[t])}
    /\ cCursor' = [a \in Accounts |-> IF a \in Scanned THEN page[a].hi ELSE cCursor[a]]
    /\ cFirst' = [a \in Accounts |-> IF a \in Scanned /\ cCursor[a] = 0
                                     THEN page[a].lo ELSE cFirst[a]]
    /\ lookups' = cHeld'
    /\ run' = "reconcile"
    /\ UNCHANGED <<horizon, wallet, aged, saved, told, delivered, accts, cTries, page>>

\* Faulty variant: the receive is only mapped for scanned transactions.
LookupFindsSendOnly(t) ==
    /\ run = "reconcile"
    /\ t \in lookups
    /\ outcome[t] # "none"
    /\ lookups' = lookups \ {t}
    /\ cHeld' = cHeld \ {t}
    /\ toSave' = toSave \cup {<<t, Owner[t]>>}
    /\ UNCHANGED <<horizon, wallet, aged, saved, told, delivered, run,
                   accts, cTries, cCursor, cFirst, page>>

\* #reconcilePendingTransactionsAndMap, for a transaction Horizon returns.
LookupFinds(t) ==
    /\ run = "reconcile"
    /\ t \in lookups
    /\ outcome[t] # "none"
    /\ lookups' = lookups \ {t}
    /\ cHeld' = cHeld \ {t}
    /\ toSave' = toSave \cup Mapped(t, Owner[t])
    /\ UNCHANGED <<horizon, wallet, aged, saved, told, delivered, run,
                   accts, cTries, cCursor, cFirst, page>>

\* Faulty variant: attempts are counted past the limit they are compared with.
LookupMissesUncapped(t) ==
    /\ run = "reconcile"
    /\ t \in lookups
    /\ outcome[t] = "none"
    /\ lookups' = lookups \ {t}
    /\ cTries' = [cTries EXCEPT ![t] = @ + 1]
    /\ UNCHANGED <<horizon, wallet, aged, saved, told, delivered, run,
                   accts, cHeld, cCursor, cFirst, page, toSave>>

\* ... and for one it does not know: #incrementReconcileAttempt.  The count
\* stops at the limit it is compared with.
LookupMisses(t) ==
    /\ run = "reconcile"
    /\ t \in lookups
    /\ outcome[t] = "none"
    /\ lookups' = lookups \ {t}
    /\ cTries' = [cTries EXCEPT ![t] = IF @ < MaxAttempts THEN @ + 1 ELSE @]
    /\ UNCHANGED <<horizon, wallet, aged, saved, told, delivered, run,
                   accts, cHeld, cCursor, cFirst, page, toSave>>

LookupFails(t) ==
    /\ run = "reconcile"
    /\ t \in lookups
    /\ lookups' = lookups \ {t}
    /\ UNCHANGED <<horizon, wallet, aged, saved, told, delivered, run,
                   accts, cHeld, cTries, cCursor, cFirst, page, toSave>>

\* Faulty variant: a failed emit is logged and the run goes on to save.
EmitUnchecked ==
    /\ run = "reconcile"
    /\ lookups = {}
    /\ \/ /\ told' = [t \in Txs |-> [a \in Accounts |->
                   IF <<t, a>> \in toSave THEN outcome[t] ELSE told[t][a]]]
          /\ delivered' = delivered \cup toSave
       \/ UNCHANGED <<told, delivered>>
    /\ run' = "save"
    /\ UNCHANGED <<horizon, wallet, aged, saved, context>>

\* All look-ups are settled and the controller has been sent the update.
Emit ==
    /\ run = "reconcile"
    /\ lookups = {}
    /\ told' = [t \in Txs |-> [a \in Accounts |->
                   IF <<t, a>> \in toSave THEN outcome[t] ELSE told[t][a]]]
    /\ delivered' = delivered \cup toSave
    /\ run' = "save"
    /\ UNCHANGED <<horizon, wallet, aged, saved, context>>

\* Faulty variant: either limit is enough.
DropEither(t) == cTries[t] >= MaxAttempts \/ t \in aged

\* shouldDropPendingTransaction, of the attempts recorded in the context.
Drop(t) == cTries[t] >= MaxAttempts /\ t \in aged

\* Faulty variant: the run writes back the pending transactions it has read,
\* not merged into those the state holds by now.
SaveWithoutMerge ==
    /\ run = "save"
    /\ held' = {t \in cHeld : ~Drop(t)} \cup {t \in held : Owner[t] \notin accts}
    /\ tries' = [t \in Txs |-> IF t \in cHeld THEN cTries[t] ELSE tries[t]]
    /\ cursor' = cCursor
    /\ first' = cFirst
    /\ run' = "idle"
    /\ UNCHANGED <<horizon, wallet, aged, told, delivered, context>>

\* saveMany, in one update of the state: settled transactions are removed,
\* pending ones are kept unless they are to be dropped, cursors are stored.
Save ==
    /\ run = "save"
    /\ held' = (held \cup cHeld) \
               ({t \in Txs : <<t, Owner[t]>> \in toSave} \cup {t \in cHeld : Drop(t)})
    /\ tries' = [t \in Txs |-> IF t \in cHeld THEN cTries[t] ELSE tries[t]]
    /\ cursor' = cCursor
    /\ first' = cFirst
    /\ run' = "idle"
    /\ UNCHANGED <<horizon, wallet, aged, told, delivered, context>>

\* Loading the context, the emit or the save fails: the run is given up.
FailSync ==
    /\ run # "idle"
    /\ run' = "idle"
    /\ UNCHANGED <<horizon, wallet, aged, saved, told, delivered, context>>

\* The snap is stopped: the run and the requests in progress are gone.
Stop ==
    /\ run' = "idle"
    /\ wallet' = [t \in Txs |-> IF wallet[t] \in {"sent", "emitted"}
                                THEN "lost" ELSE wallet[t]]
    /\ UNCHANGED <<horizon, aged, saved, told, delivered, context>>

Submit(t) == Send(t) \/ EmitPending(t) \/ SavePending(t) \/ LosePending(t)
Lookup(t) == LookupFinds(t) \/ LookupMisses(t) \/ LookupFails(t)

\* What happens while requests are answered and the snap runs ...
Work ==
    \/ \E t \in Txs : Include(t) \/ Submit(t) \/ Age(t) \/ Lookup(t)
    \/ \E a \in Accounts : Fetch(a)
    \/ StartSync \/ MapScan \/ Emit \/ Save
\* ... and while they are not.
Trouble == FailSync \/ Stop \/ \E a \in Accounts : FetchFails(a)

Next == Work \/ Trouble

Spec == Init /\ [][Next]_vars

\* The cron job starts runs for ever, and a run takes the steps it can take.
Fairness ==
    /\ WF_vars(StartSync) /\ WF_vars(MapScan) /\ WF_vars(Emit) /\ WF_vars(Save)
    /\ \A a \in Accounts : WF_vars(Fetch(a))
    /\ \A t \in Txs : WF_vars(Lookup(t)) /\ WF_vars(SavePending(t) \/ LosePending(t))

------------------------------------------------------------------------------

Status == {"none", "pending", "confirmed", "failed"}

\* The variables stay in their ranges; a cursor points into the history.
TypeOK ==
    /\ ledger \in [Accounts -> Seq(Txs)]
    /\ outcome \in [Txs -> {"none", "confirmed", "failed"}]
    /\ wallet \in [Txs -> {"idle", "sent", "emitted", "saved", "lost", "other"}]
    /\ aged \subseteq Txs
    /\ held \subseteq Txs
    /\ tries \in [Txs -> 0 .. MaxAttempts]
    /\ cursor \in [Accounts -> Nat]
    /\ first \in [Accounts -> Nat \ {0}]
    /\ told \in [Txs -> [Accounts -> Status]]
    /\ delivered \subseteq Txs \X Accounts
    /\ run \in {"idle", "scan", "reconcile", "save"}
    /\ accts \subseteq Accounts
    /\ cHeld \subseteq Txs
    /\ cTries \in [Txs -> 0 .. MaxAttempts]
    /\ cCursor \in [Accounts -> Nat]
    /\ cFirst \in [Accounts -> Nat \ {0}]
    /\ page \in [Accounts -> [st : {"unfetched", "fetched", "failed"}, lo : Nat, hi : Nat]]
    /\ lookups \subseteq Txs
    /\ toSave \subseteq Txs \X Accounts

\* "Emit runs first so a failed emit skips the save and the next sync can
\* retry from the last scan token": whatever fails and whenever the snap
\* stops, every transaction the cursor has passed was emitted to the controller.
NothingSkipped ==
    \A a \in Accounts : \A p \in first[a] .. cursor[a] :
        ledger[a][p] \in Dust \/ <<ledger[a][p], a>> \in delivered

\* The recipient of a SEP-41 send, whose own history omits it, is told of it
\* whenever the sender is, by whichever path the send was found.
RecipientTold ==
    \A t \in Txs :
        /\ <<t, Owner[t]>> \in delivered
        /\ outcome[t] = "confirmed"
        /\ Recipient[t] # NoOne
        => <<t, Recipient[t]>> \in delivered

\* Both: the history is complete as far as the cursors have come.
HistoryComplete == NothingSkipped /\ RecipientTold

\* A pending transaction the state holds is dropped only after its outcome
\* was emitted, or when "both limits" are exceeded; a run that overlaps the
\* wallet's save does not lose it.
KeptUntilHopeless ==
    \A t \in held \ held' :
        \/ <<t, Owner[t]>> \in delivered
        \/ tries'[t] >= MaxAttempts /\ t \in aged

PendingKept == [][KeptUntilHopeless]_vars

\* While the controller shows a saved transaction as pending, the snap can
\* still correct it: the transaction is held, or was given up after both limits.
PendingCorrectable ==
    \A t \in Sent :
        wallet[t] = "saved" /\ told[t][Owner[t]] = "pending" /\ run = "idle" =>
            t \in held \/ (tries[t] >= MaxAttempts /\ t \in aged)

\* Every transaction Horizon indexes past the first scan reaches the
\* controller in its final state and stays so there.
EventuallySettled ==
    \A t \in Txs \ Dust : <>[](
        outcome[t] # "none" /\ wallet[t] # "lost" =>
            \/ told[t][Owner[t]] = outcome[t]
            \/ \E p \in 1 .. first[Owner[t]] - 1 : ledger[Owner[t]][p] = t)
==============================================================================
