# Internal snaps: specifications

This directory specifies the MetaMask *internal snaps*: what their correctness
depends on when asynchronous things happen in any order (the persisted state and
its lock, synchronisations, subscriptions, tracking, confirmation dialogs,
account creation, caches), and what they compute from what they were told (fees,
simulations, histories, holdings). The modules are checked with TLC on small
instances; the properties that matter most are proved for every value of the
constants with TLAPS.

`PROJECT.json` is the index: every component, run, mutant (a plausible bug and
the property that catches it), mapped definition with its source lines, finding,
hazard and theorem.

## 1. The system

Four wallets run as *snaps* (`bitcoin-`, `solana-`, `stellar-`, `tron-wallet-snap`)
on one shared library (`snap-networks-utils`). A snap is a single-threaded
JavaScript worker that the client (the MetaMask extension or mobile app) starts,
calls and terminates as it likes. Three facts shape everything below:

- **Interleaving happens at every `await`.** Handlers of user requests, cron
  jobs, background events and socket messages run concurrently.
- **Only what was written with `snap_setState`/`snap_manageState` survives a
  termination**, and the client terminates an idle or stuck worker at any time.
  Background events scheduled with the client survive too.
- **The network answers late, not at all, or with an error**, and the client
  acknowledges events on its own terms.

| Component | State it keeps | Operations | Talks to |
|---|---|---|---|
| `State`, `StateLock` (shared) | the persisted blob; three mutexes, a counter, a releaser | `get`, `getKey`, `setKey`, `setKeyWith`, `update`, `deleteKeys` | client's state store |
| Caches (shared) | entries with an expiry, in memory or in `State`; a map of expiries | `get`, `set`, `mget`, `mset`, `mdelete`, `useCache`, `useCacheUntil` | `State`, the wrapped fetch |
| Fetch policy, batches, coalescer (shared) | circuit breaker; calls in flight | `executeWithFetchPolicy`, `batchesAllSettled`, `InFlightCoalescer.run` | remote services |
| Stellar synchronisation | `#synchronizeMutex`, `#accountsInSync`, scheduled events | `synchronize`, `trackTransaction`, cron jobs | history and account services |
| Stellar history | saved transactions, scan cursors, pending transactions with attempts | scan, reconcile, emit, save, `savePendingKeyringTransaction` | Horizon, Soroban RPC, client |
| Stellar account snapshots | saved balances with tombstones | load, fetch tokens, merge, save, emit | Horizon, Soroban RPC, client |
| Stellar requests and dialogs | interface context, event of the next refresh | simulate, confirm, sign, send, refresh, edit the memo | user, networks |
| Stellar accounts, asset metadata | accounts; rows of assets and the stamp of the catalogue | create, delete, list; copy and look up assets | key store, token API, client |
| Solana sockets | open sockets (in the client), retry counters, close-job id | activation, inactivation, close job, reopen | client |
| Solana subscriptions, monitors | saved subscriptions | subscribe, confirm, notify, resubscribe, expire | sockets, accounts |
| Solana accounts, assets, history | accounts, balances, histories | synchronise, monitor, map | RPC, client |
| Solana requests and dialogs | interface context, one name for all dialogs | prepare, price, confirm, sign, refresh | user, RPC |
| Bitcoin accounts | wallets (encrypted store), index of derivation paths (plain store), mutation queue | create, discover, delete, repair the index | key store, client |
| Bitcoin synchronisation | wallets, repair list `rescanV1`, runs in flight | sync, full scan, repair, broadcast | Esplora, client |
| Bitcoin flows | interface context, frozen coins | send form, review, fill and sign a PSBT | user, Esplora |
| Tron transactions | saved transactions, tracking events | send, track, synchronise | TronGrid, client |
| Tron assets | saved assets, cached answers | synchronise, fetch, compute holdings | TronGrid, price API, client |
| Tron requests and dialogs | interface contexts, names of dialogs | judge amounts, fees, send, stake, make fresh, refresh | user, TronGrid |
| UIs, clients, conversions | none that outlives a call | rendering, remote calls, parsing | |

How they interact: user requests and cron jobs call the services; services read
remote state, merge it into what `State` holds and emit events to the client; the
wallet's own sends are saved as pending and corrected by later synchronisation
(Stellar, Tron, Bitcoin) or by the monitor of a signature (Solana); sockets
(Solana) push changes between cron jobs; dialogs are refreshed by background
events that write the same context as the user's clicks. Everything persisted
goes through `State`, whose atomicity the other modules rely on.

### What is hard, and what makes each component correct

- **State and lock.** Path operations may overlap each other but not a blob
  operation, with a counter shared across awaits. Correct when a blob operation
  is alone, every call takes effect atomically, and every call returns.
- **Synchronisation.** Requests collide, runs fail, a skipped request relies on
  the run it met, runs write from old copies. Correct when saved copies never go
  backwards, the client is told what is saved, and a calm system ends up fresh.
- **History.** Emission and saving are two steps; sends overlap runs. Correct
  when no transaction behind a cursor is unreported, a pending transaction is
  never lost nor frozen, nothing is invented, both parties are told.
- **Snapshots and holdings.** Partial reads, tombstones, lost events. Correct when
  a failed read never removes a holding and nothing is counted twice.
- **Sockets and subscriptions.** A close job with a cancellable id, lifecycle
  events that overlap, restarts, late confirmations. Correct when an open client
  keeps its sockets and what is stored as a subscription will be served.
- **Accounts.** Lists that are read long before they are written; two stores
  without a transaction between them (Bitcoin). Correct when a path or an index
  has one account whatever overlaps or stops, and a returned account exists.
- **Dialogs.** One context, many writers with old copies. Correct when what is
  confirmed is what was shown and scanned, and refreshing goes on while, and only
  while, a dialog is open.
- **Sends.** Judged on one state and sent on another. Correct when what is sent is
  what was reviewed, at a fee that covers it, once.
- **Computations** (fees, simulation, mapping): correct against a reference
  definition over every input of a bounded family.

## 2. The plan, and where it stands

| Modules | Compose with | Abstract specification or reference | State |
|---|---|---|---|
| `StateLock` | every module that persists | `AtomicState` (a store whose calls take effect at one instant) | done, proved |
| `StellarTransactions` | run by `StellarSynchronize` | – | done, proved |
| `StellarSynchronize` | runs the two synchronisations | `Replica` (a copy that only moves forward) | done, proved |
| `StellarAccountSync` | run by `StellarSynchronize` | – | done, proved |
| `SolanaConnections` | carries `SolanaSubscriptions` | – | done, proved |
| `BitcoinAccounts` | its accounts are those of `BitcoinSync` | – | done, proved |
| `BitcoinSync` | – | `Replica`, for the stored wallets | done, proved |
| `TronTransactions` | sends of `TronRequests` | – | done, proved |
| `Cache`, `FetchPolicy` | the fetches of all | a value by its time; the order of a batch | done, proved except for the waves of a batch |
| `SolanaSubscriptions`, `SolanaKeyring` | sockets | – | done, proved |
| `SolanaSync`, `SolanaSending`, `SolanaConfirmation` | sockets | what the chain did to an account | done |
| `StellarKeyring`, `StellarMetadata` | snapshots | – | done, proved |
| `StellarConfirmation`, `StellarSend`, `StellarSimulation`, `StellarMapper` | history, snapshots | the ledger applying the transaction | done |
| `TronRequests`, `TronAccounts`, `TronConfirmation` | `TronTransactions` | what the account holds | done, proved |
| `TronAssets`, `TronTerms`, `TronMapper` | `TronTransactions` | the charge of the network | done |
| `BitcoinSend` | `BitcoinSync` | – | done, proved |
| `BitcoinSigning` | `BitcoinSync` | – | done |
| `HistoryPages`, `OwnershipProofs` (one module for the wallets that share the protocol) | – | a walk over the whole; singles for a batch | done |

What is left to prove: the requests that end in a Stellar or a Solana transaction
(`StellarSend`, `SolanaSending`), the filling and signing of a PSBT (`BitcoinSigning`), the
holdings of one Tron account (`TronAssets`) and the batches of `OwnershipProofs`. Modules to
be proved about have constants with named assumptions, one action per await, no recursive
operator and invariants that are conjunctions of named parts.

## 3. The modules

Every step of a module ends where the code awaits, and everything the code does
up to there is in it. What only a call knows is a variable indexed by the call.

### Shared

**AtomicState, StateLock** (`State.ts`). `AtomicState` is what callers assume of
`IStateManager`: a call begins, takes effect at one instant, and what it read is the
state of that instant. Values are sets of the calls that contributed to them, so a
lost update shows as a missing member. `StateLock` has the three mutexes of `class
StateLock` (`admission`, `writer`, `locked` for the update mutex), the counter
`pending` and whether a `releaser` is kept. `LockWrites`, `AdmitPath`, `Register` are
`lockRegularStateWrites` and `wrapRegularStateOperation`, whose test `isLocked()`
(`"sawLocked"`, `"acquired"`) and increment are separated by an await; `AdmitBlob` and
`Drained` are `wrapManageStateOperation`. `Read`, `WritePath` and `WriteBlob` are the
requests to the client, `RequestFails` any of them rejecting, `Finish` the finally
blocks, `Stop` the end of the worker. The merge of defaults and the serialisation keep
the values and are left out; keys are leaves and a path is the set of leaves under it.

**Cache** (`StateCache`, `InMemoryCache`, `useCache`, `useCacheUntil`). One key, since
keys only meet when expired ones are cleaned up; a clock, two overlapping callers and
both stores and wrappers, chosen initially.

**FetchPolicy** (`executeWithFetchPolicy`, `createFetchPolicy`, `async.ts`). Requests with
retries, back-off, an abort signal and the circuit breaker they share; and the waves in
which a batch is worked off, for every order in which the calls of a wave end.

**OwnershipProofs** (the proof-of-ownership handlers of all four wallets). One request
after the other, alone or in a batch; `BatchIsSingles` compares a batch with its items
asked for one at a time.

**HistoryPages** (`getAccountTransactions` of Tron and Stellar). The client walks through
a history that changes between two pages.

### Stellar

**StellarTransactions** (`TransactionSynchronizeService.ts`, `TransactionRepository.ts`,
`TransactionService.ts`). `ledger[a]` is what Horizon has of account a, oldest first;
positions in it stand for scan tokens. `StartSync` reads cursors and pending
transactions into the context of the run (`cHeld`, `cCursor`, ...), `Fetch` gets a page
for each account, `MapScan` is the synchronous part between the fetches and the
look-ups (mapping, dust, recipients, cursors), `Lookup` looks up a pending transaction
that no page had, counts attempts and drops what is over both limits, `Emit` tells the
client and `Save` writes cursors and pending transactions; `SavePending`, `Send`,
`EmitPending` are the wallet's own send, which overlaps. `FailSync`, `Stop`,
`LosePending`, `FetchFails` and `LookupFails` are what goes wrong. `told` and `delivered`
remember what the client was sent.

**StellarSynchronize** (`SynchronizeService.ts`, `trackTransaction.ts`, `syncAccounts.ts`).
Who asks for a run and what happens to requests that meet one. `Cron`, `FireSync` and
`TrackSyncs` call `synchronize` (`Call`); `Acquire` is `tryAcquire` with the entry of the
accounts in `#accountsInSync`; `Busy` schedules the accounts the running call does not
serve; `Load`, `StartTasks`, `SaveAccounts`, `HistoryEnds` and `Finish` are the run, with
the two tasks joined by `Promise.allSettled`. Versions stand for the content of an
account. `FireTrack`, `TrackFinds`, `TrackMisses` and `TrackEnds` are the handler of
`trackTransaction` and its chain of events. `Replica` says what the saved accounts
promise; `NeverBackwards` is the refinement, with `chain` as source, `snapshot` as copy.

**StellarAccountSync** (`OnChainAccountSynchronizeService.ts`, `OnChainAccount.ts`). One
run for one account: `Load` (coin and trustlines, and the catalogue of tokens),
`FetchTokens` or `FetchFails`, `Merge` (persisted entries fill the gaps, trustlines that
vanished become tombstones, the deltas are computed), `Save`, `EmitBalances`,
`EmitList`, with `LedgerMoves` between any two and `Stop` at any await. `Visible`, `Merged`,
`Change` and `AmountOf` are the functions of the same purpose in `OnChainAccount` and in
the service. `seenGone` and `behind` only remember.

**StellarConfirmation** (confirmation controller, `refreshConfirmationContext`, `events.tsx`):
the context, who holds which copy of it, and the event that refreshes next.
**StellarMetadata**: rows, stamp, catalogue copies and look-ups. **StellarSend**: the
requests that end in a transaction, with a ledger that moves between any two calls.
**StellarKeyring**: accounts, SEP-43 signing and cached balances. **StellarSimulation**
and **StellarMapper** are computations: every transaction of a family is simulated, and
compared with the ledger applying it (`SimulationRight`), mapped (`MappedRight`) and
written out for the dialog (`NothingHidden`, `ShownApart`).

### Solana

**SolanaConnections** (`WebSocketConnectionService.ts`). The lifecycle handlers
(`Activate`, `Deactivate`, `Restart`, `JobFires`) and their awaits (`ReadEvent` …
`ClearEvent`); the sockets (`OpenConnection`, `Connected`, `Disconnected`, `TimerFires`,
`Drop`). `stored` is the id of the close job in the state, `scheduled` the jobs the client
holds, `retry` the number of attempts, which is not persisted.

**SolanaSubscriptions** (subscription service, signature and account monitors): requests
that wait for a number from the server, messages on their way, recovery after a
reconnection. **SolanaSync**: the three writers of balances and histories, and the
mapping of one transaction (`OwnChangeShown`, `FeesShown`, `SpamGaveNothing`).
**SolanaSending**: one request from its fields to the chain, whose blockhash, rent and
balances change meanwhile. **SolanaKeyring**: accounts,
the address a dapp's request is resolved to and the request routed by it, signing, export.
**SolanaConfirmation**: the renders, refreshes and clicks of dialogs that share a name.

### Bitcoin

**BitcoinAccounts** (`AccountUseCases.ts`, `BdkAccountRepository.ts`). `accounts` is the
encrypted store and `index` the plain one. Calls `Ask` for a turn in `queue`
(`#runAccountMutation`). A creation looks both stores up (`ReadIndex`, `ReadAccounts` in
either order), resolves paths through the index and by scanning the wallets (`Resolve`,
with `Fallback`), mends the index (`Mend`), derives what is missing and writes both stores
in parallel (`Derive`, `Land` per store); `Return` answers. `BeginDelete` and `Land` delete.
`WriteFails` lets one write fail while the other is still on its way. `SyncWallet` and
`SyncInscriptions` are the two writes of a synchronisation, which takes no turn.

**BitcoinSync** (`CronHandler.ts`, `synchronize`, `fullScan`, `#broadcast`). `stored[t]` is
what the wallet of t's owner knows of it: nothing, unconfirmed, confirmed. Four kinds of
runs, cron, selected, scan and send, each on wallets it loaded earlier (`before`,
`after`); `rescan` is the list `rescanV1`, `NoAccount` while there is no valid one.
`lossy`, `scanned` and `refused` only remember.

**BitcoinSend** is the send form and its review over one context. Every click and every
refresh of the rates carries a copy of it (`edits[e].c`, `refresh.c`) from its await to its
write; `Change` is a synchronisation of a wallet in between. An amount or a recipient not
given is `Nothing`. The review keeps the errors of the form it was made from, because the
button to continue is disabled without a fee only (`SendFormView.tsx:51`): see section 6.
**BitcoinSigning** is the requests that fill, sign and send a PSBT from a copy of the wallet.

### Tron

**TronTransactions** (`clientRequest.ts`, `trackTransaction`, `synchronizeTransactions`,
`TransactionsService.ts`). `send[t]` is where the send of t is, in the order of its kind of
request; `run[k]` a synchronisation from its fetch over its save to its event, `job[t]` the
attempt of the tracking event; `stored` and `shown` are the copies of the state and of
the client, `finalized` counts the reports.

**TronAssets**: snapshots of an account between node, state and client
(`ShownIsKnown`, `EventuallyShown`), and what one fetch makes of three answers, some of
which failed (`NothingCountedTwice`, `AccountModelComplete`). **TronRequests**, a sending and a
staking half: the judges of an amount that is typed, priced and confirmed, against the saved
balances, and the network. Stakes are kept per purpose (energy, bandwidth); staking,
unstaking, withdrawing and claiming are one or more transactions, any of which may fail or
stay unanswered (`ForgetAnswer`), with the synchronisation they schedule (`scheduled`, bounded by
`MaxScheduled`). **TronTerms**: the fee
calculator against the charge, and the age of a transaction on a chain that forks.
**TronMapper**: one transaction to one entry. **TronConfirmation**: dialogs, scan and price
jobs. **TronAccounts**: overlapping creations and
deletions, and the requests served meanwhile: the resolution of an address, consent,
signatures and the export of a key (`request`).


## 4. The runs

Most parts are small and independent, so the runs of a wallet are *unions*: a variable
`part`, chosen initially and never changed, says which part a behaviour runs; the others
rest. The states of the parts add up instead of multiplying, and a property of the union,
`part = "sending" => ...` for each part, says of every part what a run of its own would say.
The part a union is built on (`StellarSynchronize`, `SolanaConnections`,
`BitcoinAccounts`, ...) is extended and keeps its variables; so do parts with liveness
properties; the rest is instantiated over shared slots `v1`, `v2`, ... Each MC module gives
its parts their constants, next to the instance.

| Run | Parts | Properties |
|---|---|---|
| `state_lock` | three calls of any kind on two leaves and the path over both | blob operations are alone and the counter is exact (`BlobExclusive`), the lock implements `AtomicState` (`Atomic`), `EveryCallReturns` |
| `state_lock_race` | the same, turns not isolated | the finding on `State.ts:60` |
| `stellar_account` | a coin, a trustline, a token, balances 0 and 1 | `HoldingsKept`; both events agree with the snapshot (`RoundTrip`); `BalancesHeal`; `ClientExact` while no event is lost; all of it settles |
| `stellar_wallet` | synchronisation of two accounts by overlapping calls; the tracking of a transfer between them, looked up to three times; history of two accounts with a send and dust; simulation, mapping, dialog, sends, accounts, signing, reading of balances, proofs | `RunsExclusive` (one scan at a time, exact skip set, tracked once); `NeverBackwards` (implements `Replica`); `HistoryRight` (nothing behind a cursor untold, recipients told, pending correctable, a tracked payment final once); `AmountsRight` (`SimulationRight`, `MappedRight`, `NothingHidden`, `ShownApart`); `SentRight` (what is sent, created, signed and listed is what was asked) |
| `stellar_wallet_live` | history of one account; synchronisation while the selection switches; a dialog; asset metadata | `PendingKept`, `PendingCorrectable`; `AnswersRight` (a confirmation was scanned, a stamp and a look-up are true); `EventuallySettled` (every transaction reaches the client in its final state); `ConfirmationSettles`; `SettlesInTheEnd` (`EventuallyFresh`, `ServedWhenCalm`, the catalogue becomes current) |
| `stellar_pages` | a history of three transactions, pages of one | the finding on `api.ts:221` |
| `solana_wallet` | sockets of two networks; subscriptions of a signature, of an account, and with refusals and restarts; history; one and two dialogs; sending; mapping; accounts; signing; proofs | `JobCancelled`, `KeptWhileActive`; `RecordsRight` (stored subscriptions are live or will be served, histories are honest, changes and fees are shown, spam is not); `SignedRight` (accounts and their selection stay, what is signed is what was asked, the fee is the one shown, a valid send lands); `StepsRight` (a transaction is prepared from what holds) |
| `solana_wallet_live` | sockets of one network with a restart; subscriptions; history; dialogs | `SocketsSettle` (an open client on a good network gets its socket, without one the snap stops trying); `SettlesInTheEnd` (subscriptions are confirmed, changes reach the state, dialogs are refreshed while open and then left alone) |
| `bitcoin_wallet` | two paths, two calls, three ids; scan waves; send form; PSBT signing; proofs | `OneAccountPerPath`, `PromiseKept`, `EveryEntryWhole`, `Idempotent`; `SentRight` (review shown together, sent as reviewed although a wallet changes meanwhile, frozen coins kept, signing right, waves in order, batches are singles) |
| `bitcoin_wallet_live` | accounts with all failures; synchronisation; caches; fetch policy | `AnsweredIsKnown` (the client is told what is stored, an answer from a cache is not older than it may be); `StepsRight` (nothing stored is forgotten, an account leaves the repair list scanned, a caller that gave up is done with); `SettlesInTheEnd` (every call ends, the client is told and the list repaired, a fresh entry stays, every request is answered) |
| `bitcoin_accounts_broken` | one path, a deletion overlaps a synchronisation | the finding on `BdkAccountRepository.ts:452` |
| `tron_wallet` | a send with its tracking and synchronisation; dialogs; assets; sending; staking; expiry; pages; accounts; proofs; fees; holdings; mapping | `AmountsRight` (a fee is never too low and exact when all is known, holdings count nothing twice, the client is shown what is known); `HistoryRight` (nothing invented, confirmed is told, finalised once, direction and status, pages complete); `AgreedRight` (the judges of sends and stakes agree, a valid request is sent whole, stakes sent are synchronised, what is signed is accepted, the scan is of what is shown); `AccountsRight` (one account per index, an answer is saved, signatures are of the account named, batches are singles); `DemotedBySendOnly` (only a send's own late save takes a confirmation back); `SettlesInTheEnd` |

**Bounds.** Three state calls are what the lock needs to go wrong (one path operation
that ends, one that is between its test and its increment, one blob operation).
Two overlapping synchronisations and two accounts give every relation between
the set in a run and the set asked for. One transaction per page makes a scan
take several runs. Amounts 0 and 1 are what the code tells apart (a balance, a
zero, no entry, a tombstone); where amounts are compared with a fee or a reserve,
`Top` is above the sum of all thresholds. Two reconnection attempts are first, last and
one too many. `MaxPending` bounds how many reconnections are in progress when the user
acts; `Room` only holds the user back, never the snap. Two paths and three ids let a path
be deleted and created again. `MaxFailures`, `MaxTroubles`, `MaxFaults`, `MaxMoves` count what
goes wrong outside, each enough for a failure and its repetition or for two different ones.
In the send form of Bitcoin one change of a wallet between a refresh and the review is what
makes a fee impossible to compute; `MaxScheduled` is one synchronisation more than a request
schedules. A computation is checked for every input of a family, which is listed with its constants.

**Fairness.** Only steps the runtime takes by itself are fair: a request is answered
or rejected (`Step`, `Run`, `RunStep`, `HandlerStep`, `SocketStep`), a timer or a scheduled
event fires. Nothing is assumed of the user, the network or of failures. Strong
fairness is used for the cron job and for scheduled synchronisations: the client tries
these again and again, and a free call comes and goes. What must happen "eventually"
can only be asked when failures end at some time: some properties say so themselves
(`CalmsDown`: from some time on only calm steps), some modules have a variable `calm` that
may become true at any time and switches off what goes wrong, and the others bound the
number of failures.

**Deadlock** is checked in `state_lock` and `stellar_account`, whose systems never stop. In a
union, a part really ends (its calls are answered, its computation is done, its bounds are
used up), so the unions say `CHECK_DEADLOCK FALSE`; that nothing is left waiting is what
`EveryCallEnds`, `SettlesInTheEnd` and their like say.

Every property of a passing run has a mutant: a definition replaced by a faulty
variant that is kept next to it ("Faulty variant: ..." or "A fault to compare with: ..."), which
the run must catch.

## 5. The proofs

`*_proofs.tla`, checked by TLAPS for every value of the constants, under the assumptions the
modules name (`OpsAssumption`, `NamesAssumption`, `BitcoinSyncAssumption`, ...: sentinels that
differ from the values, bounds that are numbers, sets that are finite where the code iterates).
A module proves about the component it extends and, through instances, about the smaller parts
around it, under the assumptions those parts name.

| Module | Theorem | Says | Assumes besides |
|---|---|---|---|
| `StateLock_proofs` | `CountCorrect`, `SameSortSeparated` | the counter is exact; operations of one sort do not overlap | – |
| | `BlobSeparated`, `AtomicCorrect` | `BlobExclusive`; the lock implements `AtomicState` | `IsolatedTurns` |
| `StellarTransactions_proofs` | `CursorCorrect`, `RecipientCorrect`, `HistoryCorrect` | `NothingSkipped`, `RecipientTold`, and both as `HistoryComplete` | – |
| | `PendingCorrect` | `PendingKept` | – |
| | `CorrectableCorrect` | `PendingCorrectable` | `PromptWallet` |
| `StellarSynchronize_proofs` | `RunCorrect`, `SkipCorrect`, `TrackingCorrect`, `ExclusiveCorrect` | `OneHistoryRun`, `InSyncExact`, `TrackedOnce`, together `RunsExclusive` | – |
| | `CopyCorrect` | `NeverBackwards`: the saved accounts implement `Replica` | – |
| `StellarAccountSync_proofs` | `HoldingsCorrect`, `RoundTripCorrect`, `ClientCorrect` | `HoldingsKept`, `RoundTrip`, `ClientExact` | the catalogue is complete (`Full`) |
| | `HealCorrect`, `ListCorrect` | `BalancesHeal`; the client's list is the snapshot's | – (any catalogues) |
| – of `StellarKeyring` | `AccountsAsAsked`, `SignedWithConsent`, `ListedAnswered` | `CreatedAsAsked`, `SignedKnowingly`, `ListedHaveBalances` | an activated account holds the coin |
| – of `StellarMetadata` | `MetadataTrue` | `StampTrue`, `AnswersKept` | – |
| `SolanaConnections_proofs` | `JobCorrect`, `KeptCorrect` | `JobCancelled`, `KeptWhileActive` | lifecycle calls do not overlap, no restart (`Orderly`) |
| – of `SolanaSubscriptions` | `StoredLive` | `StoredIsLive` | – (but see `crossed` in it) |
| – of `SolanaKeyring` | `AccountsStayed`, `SelectionHeld`, `SignedForAsked` | `AccountsStay`, `SelectionHolds`, `SignedAsAsked` | – |
| `BitcoinAccounts_proofs` | `PathCorrect`, `PromiseCorrect`, `WholeCorrect`, `IdempotentCorrect` | `OneAccountPerPath`, `PromiseKept`, `EveryEntryWhole`, `Idempotent` | parallel writes do not fail apart, no deletion inside a synchronisation (`Orderly`) |
| `BitcoinSync_proofs` | `ToldCorrect`, `HistoryKeptCorrect`, `RepairCorrect` | `ToldIsStored`, `HistoryKept`, `RepairedIsScanned` | – |
| | `CopyCorrect` | the stored wallets implement `Replica`, the network being the source | – |
| – of `BitcoinSend` | `SentCorrect` | `ShownTogether`, `SentAsReviewed`, `FrozenKept` | – |
| – of `FetchPolicy` | `PolicyCorrect` | types, `AbortIsFinal` | – |
| – of `Cache` | `StaleCorrect` | types, `StaleBounded` | – |
| `TronTransactions_proofs` | `InventedCorrect`, `ToldCorrect`, `FinalizedCorrect`, `HistoryCorrect` | `NothingInvented`, `ConfirmedIsTold`, `FinalizedOnce`, together `HistoryRight` | – |
| | `DemotedCorrect` | `DemotedBySendOnly` | – |
| – of `TronRequests` | `SendAgreed`, `SendAccepted` | `ConfirmAgrees`; `RefusedOnlyIfMoved`, `FeeShownIsFeeJudged` | – |
| | `StakesSynchronised`, `StakesJudged` | `SentIsSynchronised`; `StakeJudgedAlike`, `AllSentWhenValid` | – |
| – of `TronAccounts` | `AccountsCreated`, `SignedAsNamed` | `OneAccountPerIndex`, `AnswerIsSaved`; `SignedForTheNamed` | – |
| – of `TronConfirmation` | `ScanShown` | `ScanOfShown` | – |

Each module also has `TypeCorrect` for the component it extends. Eighteen of the theorems state
a property a run checks under the same name: `BlobExclusive`, `Atomic`, `PendingKept`,
`PendingCorrectable`, `RunsExclusive`, `NeverBackwards`, `HoldingsKept`, `RoundTrip`, `BalancesHeal`,
`ClientExact`, `HistoryRight` and `DemotedBySendOnly` of Tron, and those of `SolanaConnections` and
`BitcoinAccounts`. The others state a part of a union's property, which is a conjunction over
its parts and is defined in the MC module, beside the instances:

| Union's property | Proved parts | Only model-checked |
|---|---|---|
| `HistoryRight` (Stellar) | history, tracking: all | – |
| `SentRight` (Stellar) | accounts, signing, reading of balances | `SendRight`, proofs of ownership |
| `AnswersRight` | stamp and look-ups of the metadata | `ConfirmedKnowingly` |
| `RecordsRight` (Solana) | stored subscriptions | histories, mapping |
| `SignedRight` (Solana) | accounts, selection, signing | dialogs, the fee and the landing of a send |
| `SentRight` (Bitcoin) | send form and requests | PSBT requests, waves of a batch, proofs of ownership |
| `AnsweredIsKnown` | synchronisation, caches, fetch policy: all | – |
| `StepsRight` (Bitcoin) | its three steps: all | – |
| `AgreedRight` (Tron) | sends, stakes, scans of dialogs | the age of a transaction on a fork |
| `AccountsRight` (Tron) | accounts and signatures | proofs of ownership |
| `AmountsRight` (Stellar, Tron) | – | computations |

The arguments:

- **StateLock.** `OwnerInv` (who owns each mutex, and that the counter counts) is
  inductive by itself. Exclusion of blob operations needs `LockInv`: the update mutex
  is locked exactly while some path operation is registered. Atomicity needs `Fresh`
  besides: what a call has read is still what the store holds, until it has written.
  Each step is then mapped to a commit, an abort or a stutter of `AtomicState`.
- **StellarTransactions.** `ScanInv` relates what the run holds in memory to what it
  will save: the cursor in the context is covered by what was emitted or is about to
  be. `PairInv` says that a sender and its recipient enter the list to be emitted
  together. `CorrectableInv` follows what is held through a run: what the client shows as
  pending is held or was given up as too old and too often looked up; it needs that the event
  of the wallet's own submission does not arrive after the scan's.
- **StellarSynchronize.** `RunInv`: exactly the call past `tryAcquire` holds the mutex,
  and what it has loaded is at least as new as what is saved. `ChainInv`: the attempt
  number of the one event or handler of a transaction is the number of look-ups.
- **StellarAccountSync.** `IInv` follows the run: what was loaded, fetched, merged and
  announced, each related to the old snapshot and to what was seen gone. What does not
  depend on a complete catalogue follows from a weaker invariant, `AnyCatalogInv`: the
  coin was read, what is prepared and announced agrees with the snapshot, and the client's
  list is the snapshot's whenever nothing is being announced.
- **StellarKeyring.** `KeyringInv`: an id is drawn once and stays that of its address, also
  after a deletion, so what a creation has found for an index stays true; a request in its
  dialog knows the named account's signer and a payload that was shown; while the list a call
  gave is fresh, its snapshot is the cached one. `ListedHaveBalances` needs that an activated
  account holds the coin, which the assumption on the ledger states.
- **StellarMetadata.** `MetadataInv`: `StampTrue` itself, and that what a look-up has found so far
  it was asked for and the next caller finds too (`Kept`), because rows are joined, never emptied.
- **SolanaConnections.** `CallInv`: at each await, the jobs the client holds are among
  the id the handler knows of.
- **SolanaSubscriptions.** `SocketInv`: a stored subscription either has the number the server has
  for it, or can still hope (`Hope`): the connection is down and will be recovered, a recovery is
  about to treat it, a confirmation is on its way, or its request is still to be sent or to fail.
- **SolanaKeyring.** `KeyringInv`: an id is drawn once; what a call has read stays true of the
  accounts and of those that were deleted (`Holds`); and a selection that nothing overlapped watches
  the addresses of the chosen accounts, perhaps with some of accounts that are gone (`AloneHolds`).
- **BitcoinAccounts.** `PathInv`: what the call with the turn has read is still true,
  because only it writes, and an index entry that leads to a wallet leads to the right
  one.
- **BitcoinSync.** A run works on wallets loaded long before and stores them over those of
  others, so the invariant speaks of what a run holds: `Seen` (a run's copies and the stored
  ones never exceed what the network has), `DoneIsStored` (what a run has saved stays at
  least so), `HeadRepaired` (the account the repair works on is the first of a valid list, which
  advances when that account is scanned). That a store is merged with, not replaced by, an
  older copy (the wallet's change set) is what makes `HistoryKept` and the refinement hold.
- **BitcoinSend.** `SendingInv`: every form anywhere (on the screen, in a click, in the refresh)
  with a fee has a recipient and an amount, and its fee is the one at its rate unless an error is
  shown with it (`Priced`); a review pays another amount than it shows only under a drain with
  another balance or an error (`ReviewHolds`); a request has one dialog, which nobody edits or
  refreshes (`RequestHolds`). Attempting this proof found what section 6 says of the review.
- **FetchPolicy.** `PolicyInv`: a call that may be tried again has retries left, and one more
  failure may always be counted. `AbortIsFinal` then follows step by step.
- **Cache.** `CachingInv`: an entry expires no later than its value is good and its fetch took
  (`Timely`), so does one a call is about to set, and what a call is about to answer was not
  expired when it looked (`CallHolds`).
- **TronTransactions.** `BroadcastFirst` (nothing of a send is stored or shown before it
  was broadcast), `FoundInBlock` (what a synchronisation carries was found in a block), and
  `TrackedOnce` (tracking is scheduled once, and what is tracked is not reported yet).
- **TronRequests.** `SendInv`: while nothing changed since the balances were fetched
  (`FetchedHolds`), or since the amount was typed (`SteadyHolds`), what the request holds and what is
  saved is what the node has. `StakingInv`: saved and remembered stakes differ from the real ones only
  while a synchronisation is owed (`Owed`: scheduled, to be scheduled by the request under way, or
  known to have failed), and every judgement is of the same stakes until something interferes.
- **TronAccounts.** `CreatingInv`: ids are drawn once, no index has two accounts, and what a call has
  read or derived is in the state unless it was deleted (`CallHolds`). `ServingInv`: the account a
  request was resolved to has the address that was named, and what is signed was agreed to.
- **TronConfirmation.** `ConfirmInv`: a scan held anywhere (a dialog, the answer of the first scan, a
  job's old copy) is the scan of the data held with it and was asked for (`ScansHeld`).

**Only model-checked.** All liveness (`EveryCallReturns`, `SettlesInTheEnd`, `EventuallySettled`,
`ConfirmationSettles`, `SocketsSettle`), since the prover treats neither fairness nor
ENABLED. What a recursive definition computes for every input (simulation, mapping, the fee
calculator, pages, the holdings of an account), which would need induction over data.
`ConfirmedKnowingly` of `StellarConfirmation` for the same reason: the context a dialog merges
is a recursive function over the results of its refreshers, and the theorem that unfolds one takes an operator
as a parameter. And the parts in the third column of the table above, for which no theorem is
written yet.

## 6. What the assumptions stand for

Some properties hold under a condition on the surroundings. Each condition is a
constant or an instance, so that it can be lifted; this is what TLC answers then.

- `IsolatedTurns = FALSE` (`StateLock`). Between the test `isLocked()`
  (`State.ts:60`) and the increment, another path operation may finish and release
  the update mutex: the operation then runs without holding it, and an update
  overlaps it. This is the run `state_lock_race`.
- `PromptWallet = FALSE` (`StellarTransactions`). If a sync finds a transaction
  before the wallet has told the client of its own submission, the late "pending"
  event is shown after the final one, and nothing corrects it: `PendingCorrectable`
  is violated.
- `Catalogs` with `{}` (`StellarAccountSync`). When the catalogue of tokens cannot be
  fetched, `SynchronizeService.ts:239` goes on with an empty one: no token counts as
  unresolved, none is copied, and the tokens disappear from snapshot and client until
  the next complete run. `HoldingsKept` is violated; `BalancesHeal` is not.
- Events the client refuses (`behind`). A lost list event
  (`OnChainAccountSynchronizeService.ts:219` and `:539`) is not sent again, since
  the next difference starts from the snapshot already saved; amounts do heal
  (`BalancesHeal`), the list does not until an asset changes again.
- The synchronisation at the end of a tracking (`trackTransaction.ts:254`) may be
  skipped for a run in flight that loaded the account before the transaction:
  what the user sent shows only after the next cron job (`EventuallyFresh`).
- The page cursor of the Stellar history is the hash of a transaction
  (`TransactionMapper.ts:249`), and the request for the next page takes only UUIDs
  (`api.ts:221`): no second page is served. This is the run `stellar_pages`; the walk
  through the pages (`WalkComplete`) is checked for Tron, whose request takes any string.
- `Isolated = FALSE` (`SolanaConnections`). The id of the close job is written after
  the await that schedules the job (`WebSocketConnectionService.ts:401`): a client that
  becomes active in between finds no id to cancel, and the job closes its sockets.
- `MaxRestarts > 0`. After a restart while the client is open, the handler of
  `onStart` (`:128`) does not cancel a job from before, which then fires.
- A reconnection timer (`:352`) is not cancelled when the client becomes inactive;
  it opens a socket after the close job has run, and nobody closes it before the
  next deactivation.
- `SplitFailures = TRUE` (`BitcoinAccounts`). `Promise.all` over two writes
  (`BdkAccountRepository.ts:469`) gives up at the first failure while the other write
  is on its way and the queue has moved on; two wallets for a path are then possible.
- `SyncOverlaps = TRUE`. A deletion between the two writes of a synchronisation
  (`:452`) leaves an entry with inscriptions and nothing else: the run
  `bitcoin_accounts_broken`.
- A wallet that changes (`MaxChanges > 0` in `BitcoinSend`) between a refresh of the rates and the
  click that continues may make the fee impossible to compute. `#computeFee`
  (`SendFlowUseCases.ts:606`) then leaves the last fee and amount, and the button to continue is
  only disabled without a fee (`SendFormView.tsx:51`): when the coins come back before the click
  is handled, the review of a drain shows the last amount while the transaction, built anew
  (`:460`), pays another. The form said so: `SentAsReviewed` exempts a review made from a form
  with errors, and without the exemption TLC finds the violation.
- The full scan of a new Bitcoin account is one background event
  (`AccountUseCases.ts:462`): when the client is locked as it fires, the event is dropped
  (`refused` remembers it) and no later creation schedules another; only synchronisations
  look at the account from then on.
- The late save of a Tron send (`clientRequest.ts:746`) may take back what a
  synchronisation found meanwhile; `DemotedBySendOnly` says that nothing else does, and
  `EventuallyConfirmed` that the next synchronisation mends it.

Three of these disagree with what the repository says of itself and are listed as
findings, with the quotations (the first, the page cursor and `SyncOverlaps`); the others
contradict no text of the repository or depend on what the client and the network do, and
are listed as hazards.

## 7. What is not modelled

- **Conversions and parsing** of addresses, derivation paths, encodings, units and
  schemas: functions of their input, well covered by tests. Amounts, fees, the mapping of
  transactions and the simulation, where a decision hangs on the result, are modelled.
- **User interfaces**: rendering keeps nothing. The contexts the dialogs write, and what a
  dialog must show (`NothingHidden`, `FeeShownIsFeeJudged`), are modelled.
- **Clients of remote services**: calls and schemas; their failures appear as the
  failing variants of the steps that call them.
- **Shared clients, providers and shared UI components**: thin layers over the client's API.
- **Cryptography, the client and the chains** are outside: what the code sees of
  them is modelled as external actions (`LedgerMoves`, `Include`, `Drop`, `Stop`, ...).
