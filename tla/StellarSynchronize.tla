--------------------------- MODULE StellarSynchronize ---------------------------
(***************************************************************************)
(* When the Stellar snap synchronises: SynchronizeService with the cron    *)
(* job, the background events of an account switch and the tracking of a   *)
(* submitted transaction, which all ask for a run while one may be going   *)
(* on.  One mutex admits one run; a request that finds it taken skips the  *)
(* accounts of that run and schedules the others for later.  What a run    *)
(* does to a transaction history is module StellarTransactions, to the     *)
(* assets of an account module StellarAccountSync.                         *)
(***************************************************************************)
EXTENDS Naturals, FiniteSets

CONSTANTS
    Accounts,
    Selections,         \* the sets of accounts the user selects
    Txs,                \* transactions the wallet submits
    Sender, Receiver,   \* Sender[t], Receiver[t]: accounts of this keyring, or NoAccount
    NoAccount,
    Calls,              \* synchronize() calls that may be in progress at once
    NoCall,
    MaxVersion,         \* bound on the changes of an account on chain
    MaxReschedules      \* AppConfig.transaction.trackTransactionMaxReschedules

ASSUME NamesAssumption ==
    /\ Selections \subseteq SUBSET Accounts
    /\ Sender \in [Txs -> Accounts]
    /\ Receiver \in [Txs -> Accounts \cup {NoAccount}]
    /\ NoAccount \notin Accounts
    /\ NoCall \notin Calls
ASSUME BoundsAssumption == MaxVersion \in Nat /\ MaxReschedules \in Nat

VARIABLES
    \* outside the snap
    chain,      \* chain[a]: version of a on the network, 0 before it is funded
    tx,         \* tx[t]: "new", "sent" or "indexed"
    ready,      \* the client is active and unlocked
    selected,   \* the accounts selected in the client
    events,     \* scheduled background events
    \* snap state
    snapshot,   \* snapshot[a]: version of the saved on-chain account, 0 for none
    \* the process
    lock,       \* the call that holds #synchronizeMutex
    inSync,     \* #accountsInSync
    pc, accts, waiting, got,    \* of each call
    saving, history,                    \* its two tasks
    track,      \* track[t]: the tracking handler in progress
    \* what was observed
    asked,      \* asked[t]: look-ups made to track t
    finalized   \* finalized[t]: finalized events sent for t

world   == <<chain, tx, ready, selected>>
call    == <<pc, accts, waiting, got, saving, history>>
mutex   == <<lock, inSync>>
tracker == <<track, asked, finalized>>
vars    == <<world, events, snapshot, mutex, call, tracker>>

SyncEvent(S) == [kind |-> "synchronizeAccounts", accts |-> S]
TrackEvent(t, n) == [kind |-> "trackTransaction", tx |-> t, attempt |-> n]
Events ==
    {SyncEvent(S) : S \in (SUBSET Accounts) \ {{}}}
    \cup {TrackEvent(t, n) : t \in Txs, n \in 0 .. MaxReschedules}

NotTracking == [st |-> "none", attempt |-> 0]
TrackSteps == {"none", "asking", "final"}

Nothing == [a \in Accounts |-> 0]

Init ==
    /\ chain = Nothing
    /\ tx = [t \in Txs |-> "new"]
    /\ ready = TRUE
    /\ selected \in Selections
    /\ events = {}
    /\ snapshot = [a \in Accounts |-> 0]
    /\ lock = NoCall
    /\ inSync = {}
    /\ pc = [c \in Calls |-> "free"]
    /\ accts = [c \in Calls |-> {}]
    /\ waiting = [c \in Calls |-> {}]
    /\ got = [c \in Calls |-> Nothing]
    /\ saving = [c \in Calls |-> "none"]
    /\ history = [c \in Calls |-> "none"]
    /\ track = [t \in Txs |-> NotTracking]
    /\ asked = [t \in Txs |-> 0]
    /\ finalized = [t \in Txs |-> 0]

------------------------------------------------------------------------------
(* Outside the snap *)

Change(a) ==
    /\ chain[a] < MaxVersion
    /\ chain' = [chain EXCEPT ![a] = @ + 1]
    /\ UNCHANGED <<tx, ready, selected, events, snapshot, mutex, call, tracker>>

ClientStatus ==
    /\ ready' = ~ready
    /\ UNCHANGED <<chain, tx, selected, events, snapshot, mutex, call, tracker>>

Touched(t) == {Sender[t]} \cup ({Receiver[t]} \ {NoAccount})

\* The network executes t, and Horizon indexes it.
Index(t) ==
    /\ tx[t] = "sent"
    /\ tx' = [tx EXCEPT ![t] = "indexed"]
    /\ chain' = [a \in Accounts |-> IF a \in Touched(t) THEN chain[a] + 1 ELSE chain[a]]
    /\ UNCHANGED <<ready, selected, events, snapshot, mutex, call, tracker>>

------------------------------------------------------------------------------
(* Requests that ask for a run *)

\* A submitted transaction is tracked from its first background event on,
\* unless the request that schedules the event fails.
Submit(t) ==
    /\ tx[t] = "new"
    /\ chain[Sender[t]] # 0
    /\ tx' = [tx EXCEPT ![t] = "sent"]
    /\ \E e \in {{TrackEvent(t, 0)}, {}} : events' = events \cup e
    /\ UNCHANGED <<chain, ready, selected, snapshot, mutex, call, tracker>>

\* setSelectedAccounts of the keyring.
SetSelectedAccounts(S) ==
    /\ S # selected
    /\ selected' = S
    /\ events' = IF S = {} THEN events ELSE events \cup {SyncEvent(S)}
    /\ UNCHANGED <<chain, tx, ready, snapshot, mutex, call, tracker>>

Call(c, S) ==
    /\ pc[c] = "free"
    /\ pc' = [pc EXCEPT ![c] = "trying"]
    /\ accts' = [accts EXCEPT ![c] = S]
    /\ UNCHANGED <<waiting, got, saving, history>>

\* The declarative cron job, which names no accounts.
Cron(c) ==
    /\ ready
    /\ selected # {}
    /\ Call(c, selected)
    /\ UNCHANGED <<world, events, snapshot, mutex, tracker>>

FireSync(c, S) ==
    /\ ready
    /\ SyncEvent(S) \in events
    /\ events' = events \ {SyncEvent(S)}
    /\ Call(c, S)
    /\ UNCHANGED <<world, snapshot, mutex, tracker>>

\* CronjobHandler: an event that fires while the client is away is not run.
Discard(e) ==
    /\ ~ready
    /\ e \in events
    /\ events' = events \ {e}
    /\ UNCHANGED <<world, snapshot, mutex, call, tracker>>

------------------------------------------------------------------------------
(* Tracking a transaction *)

FireTrack(t, n) ==
    /\ ready
    /\ TrackEvent(t, n) \in events
    /\ events' = events \ {TrackEvent(t, n)}
    /\ track' = [track EXCEPT ![t] = [st |-> "asking", attempt |-> n]]
    /\ asked' = [asked EXCEPT ![t] = @ + 1]
    /\ UNCHANGED <<world, snapshot, mutex, call, finalized>>

\* Horizon reports the transaction; the finalized event is sent.
TrackFinds(t) ==
    /\ track[t].st = "asking"
    /\ tx[t] = "indexed"
    /\ track' = [track EXCEPT ![t] = [st |-> "final", attempt |-> @.attempt]]
    /\ finalized' = [finalized EXCEPT ![t] = @ + 1]
    /\ UNCHANGED <<world, events, snapshot, mutex, call, asked>>

\* Faulty variant: one attempt too many.
TrackMissesOnceMore(t) ==
    /\ track[t].st = "asking"
    /\ events' = IF track[t].attempt <= MaxReschedules
                 THEN events \cup {TrackEvent(t, track[t].attempt + 1)} ELSE events
    /\ track' = [track EXCEPT ![t] = NotTracking]
    /\ UNCHANGED <<world, snapshot, mutex, call, asked, finalized>>

\* Faulty variant: the first event is scheduled again beside the next attempt.
TrackMissesTwice(t) ==
    /\ track[t].st = "asking"
    /\ events' = IF track[t].attempt < MaxReschedules
                 THEN events \cup {TrackEvent(t, track[t].attempt),
                                   TrackEvent(t, track[t].attempt + 1)} ELSE events
    /\ track' = [track EXCEPT ![t] = NotTracking]
    /\ UNCHANGED <<world, snapshot, mutex, call, asked, finalized>>

\* It is not indexed yet or the request failed: try again while attempts
\* are left, #rescheduleWhenHorizonNotIndexed.
TrackMisses(t) ==
    /\ track[t].st = "asking"
    /\ events' = IF track[t].attempt < MaxReschedules
                 THEN events \cup {TrackEvent(t, track[t].attempt + 1)} ELSE events
    /\ track' = [track EXCEPT ![t] = NotTracking]
    /\ UNCHANGED <<world, snapshot, mutex, call, asked, finalized>>

\* Any other error, and a sender that is gone, end the tracking.
TrackEnds(t) ==
    /\ track[t].st # "none"
    /\ track' = [track EXCEPT ![t] = NotTracking]
    /\ UNCHANGED <<world, events, snapshot, mutex, call, asked, finalized>>

TrackSyncs(c, t) ==
    /\ track[t].st = "final"
    /\ Call(c, Touched(t))
    /\ track' = [track EXCEPT ![t] = NotTracking]
    /\ UNCHANGED <<world, events, snapshot, mutex, asked, finalized>>

------------------------------------------------------------------------------
(* A synchronize() call *)

\* The call returns: what it held in local variables is gone.
Return(c) ==
    /\ pc' = [pc EXCEPT ![c] = "free"]
    /\ accts' = [accts EXCEPT ![c] = {}]
    /\ waiting' = [waiting EXCEPT ![c] = {}]
    /\ got' = [got EXCEPT ![c] = Nothing]
    /\ saving' = [saving EXCEPT ![c] = "none"]
    /\ history' = [history EXCEPT ![c] = "none"]

\* Faulty variant: the mutex is not asked for.
AcquireAnyway(c) ==
    /\ pc[c] = "trying"
    /\ lock' = c
    /\ inSync' = inSync \cup accts[c]
    /\ pc' = [pc EXCEPT ![c] = "loading"]
    /\ waiting' = [waiting EXCEPT ![c] = accts[c]]
    /\ UNCHANGED <<world, events, snapshot, accts, got, saving, history, tracker>>

\* tryAcquire succeeds; the accounts are entered before anything is awaited.
Acquire(c) ==
    /\ pc[c] = "trying"
    /\ lock = NoCall
    /\ lock' = c
    /\ inSync' = inSync \cup accts[c]
    /\ pc' = [pc EXCEPT ![c] = "loading"]
    /\ waiting' = [waiting EXCEPT ![c] = accts[c]]
    /\ UNCHANGED <<world, events, snapshot, accts, got, saving, history, tracker>>

\* Faulty variant: any overlapping request is skipped.
BusySkipsAll(c) ==
    /\ pc[c] = "trying"
    /\ lock # NoCall
    /\ UNCHANGED events
    /\ Return(c)
    /\ UNCHANGED <<world, snapshot, mutex, tracker>>

\* E_ALREADY_LOCKED, #handleBusySynchronize: accounts that are not in the
\* run that holds the mutex are scheduled.
Busy(c) ==
    /\ pc[c] = "trying"
    /\ lock # NoCall
    /\ events' = IF accts[c] \subseteq inSync THEN events
                 ELSE events \cup {SyncEvent(accts[c] \ inSync)}
    /\ Return(c)
    /\ UNCHANGED <<world, snapshot, mutex, tracker>>

\* The request to schedule them fails.
BusyFails(c) ==
    /\ pc[c] = "trying"
    /\ lock # NoCall
    /\ ~(accts[c] \subseteq inSync)
    /\ Return(c)
    /\ UNCHANGED <<world, events, snapshot, mutex, tracker>>

\* #loadActivatedPairsSafe: an account without funds has version 0 ...
Load(c, a) ==
    /\ pc[c] = "loading"
    /\ a \in waiting[c]
    /\ waiting' = [waiting EXCEPT ![c] = @ \ {a}]
    /\ got' = [got EXCEPT ![c][a] = chain[a]]
    /\ UNCHANGED <<world, events, snapshot, mutex, pc, accts, saving, history, tracker>>

\* ... and one that cannot be loaded is left out like one without funds.
LoadFails(c, a) ==
    /\ pc[c] = "loading"
    /\ a \in waiting[c]
    /\ waiting' = [waiting EXCEPT ![c] = @ \ {a}]
    /\ UNCHANGED <<world, events, snapshot, mutex, pc, accts, got, saving, history, tracker>>

StartTasks(c) ==
    /\ pc[c] = "loading"
    /\ waiting[c] = {}
    /\ pc' = [pc EXCEPT ![c] = "tasks"]
    /\ saving' = [saving EXCEPT ![c] = "running"]
    /\ history' = [history EXCEPT ![c] = "running"]
    /\ UNCHANGED <<world, events, snapshot, mutex, accts, waiting, got, tracker>>

\* OnChainAccountSynchronizeService saves the loaded accounts in one update.
SaveAccounts(c) ==
    /\ saving[c] = "running"
    /\ snapshot' = [a \in Accounts |-> IF got[c][a] # 0 THEN got[c][a] ELSE snapshot[a]]
    /\ saving' = [saving EXCEPT ![c] = "done"]
    /\ UNCHANGED <<world, events, mutex, pc, accts, waiting, got, history, tracker>>

SaveFails(c) ==
    /\ saving[c] = "running"
    /\ saving' = [saving EXCEPT ![c] = "done"]
    /\ UNCHANGED <<world, events, snapshot, mutex, pc, accts, waiting, got, history, tracker>>

\* TransactionSynchronizeService returns or throws.
HistoryEnds(c) ==
    /\ history[c] = "running"
    /\ history' = [history EXCEPT ![c] = "done"]
    /\ UNCHANGED <<world, events, snapshot, mutex, pc, accts, waiting, got, saving, tracker>>

\* Faulty variant: Promise.all, which returns when the first task throws.
FinishEarly(c) ==
    /\ pc[c] = "tasks"
    /\ saving[c] = "done" \/ history[c] = "done"
    /\ lock' = NoCall
    /\ inSync' = {}
    /\ pc' = [pc EXCEPT ![c] = "free"]
    /\ UNCHANGED <<world, events, snapshot, accts, waiting, got, saving, history, tracker>>

\* Faulty variant: the set of accounts in sync is not cleared.
FinishUncleared(c) ==
    /\ pc[c] = "tasks"
    /\ saving[c] = "done"
    /\ history[c] = "done"
    /\ lock' = NoCall
    /\ UNCHANGED inSync
    /\ Return(c)
    /\ UNCHANGED <<world, events, snapshot, tracker>>

\* Faulty variant: the mutex is not released.
FinishHolding(c) ==
    /\ pc[c] = "tasks"
    /\ saving[c] = "done"
    /\ history[c] = "done"
    /\ inSync' = {}
    /\ Return(c)
    /\ UNCHANGED <<world, events, snapshot, lock, tracker>>

\* Both tasks are settled.
Finish(c) ==
    /\ pc[c] = "tasks"
    /\ saving[c] = "done"
    /\ history[c] = "done"
    /\ lock' = NoCall
    /\ inSync' = {}
    /\ Return(c)
    /\ UNCHANGED <<world, events, snapshot, tracker>>

\* The snap is stopped: what it holds in memory is gone, events stay scheduled.
Stop ==
    /\ lock' = NoCall
    /\ inSync' = {}
    /\ pc' = [c \in Calls |-> "free"]
    /\ accts' = [c \in Calls |-> {}]
    /\ waiting' = [c \in Calls |-> {}]
    /\ got' = [c \in Calls |-> Nothing]
    /\ saving' = [c \in Calls |-> "none"]
    /\ history' = [c \in Calls |-> "none"]
    /\ track' = [t \in Txs |-> NotTracking]
    /\ UNCHANGED <<world, events, snapshot, asked, finalized>>

------------------------------------------------------------------------------

Run(c) ==
    \/ Acquire(c) \/ Busy(c) \/ StartTasks(c) \/ SaveAccounts(c) \/ HistoryEnds(c) \/ Finish(c)
    \/ \E a \in Accounts : Load(c, a)

FireEvent(c) == \E S \in SUBSET Accounts : FireSync(c, S)

Track(t) ==
    \/ \E n \in 0 .. MaxReschedules : FireTrack(t, n)
    \/ TrackFinds(t)
    \/ \E c \in Calls : TrackSyncs(c, t)

\* The network, the user, and the snap while nothing fails ...
Work ==
    \/ \E a \in Accounts : Change(a)
    \/ \E t \in Txs : Index(t) \/ Submit(t) \/ Track(t) \/ TrackMisses(t)
    \/ \E S \in Selections : SetSelectedAccounts(S)
    \/ \E c \in Calls : FireEvent(c) \/ Run(c)
\* ... and what goes wrong.
Trouble ==
    \/ ClientStatus \/ Stop
    \/ \E e \in events : Discard(e)
    \/ \E t \in Txs : TrackEnds(t)
    \/ \E c \in Calls : BusyFails(c) \/ SaveFails(c) \/ \E a \in Accounts : LoadFails(c, a)

Next == Work \/ Trouble \/ \E c \in Calls : Cron(c)

Spec == Init /\ [][Next]_vars

\* Scheduled events fire, and a call takes the steps it can take.
Fairness ==
    /\ \A S \in SUBSET Accounts : SF_vars(\E c \in Calls : FireSync(c, S))
    /\ \A c \in Calls : WF_vars(Run(c))

------------------------------------------------------------------------------

\* The variables stay in their ranges.
TypeOK ==
    /\ chain \in [Accounts -> Nat]
    /\ tx \in [Txs -> {"new", "sent", "indexed"}]
    /\ ready \in BOOLEAN
    /\ selected \subseteq Accounts
    /\ events \subseteq Events
    /\ snapshot \in [Accounts -> Nat]
    /\ lock \in Calls \cup {NoCall}
    /\ inSync \subseteq Accounts
    /\ pc \in [Calls -> {"free", "trying", "loading", "tasks"}]
    /\ accts \in [Calls -> SUBSET Accounts]
    /\ waiting \in [Calls -> SUBSET Accounts]
    /\ got \in [Calls -> [Accounts -> Nat]]
    /\ saving \in [Calls -> {"none", "running", "done"}]
    /\ history \in [Calls -> {"none", "running", "done"}]
    /\ track \in [Txs -> [st : TrackSteps, attempt : 0 .. MaxReschedules]]
    /\ asked \in [Txs -> Nat]
    /\ finalized \in [Txs -> Nat]

\* "Only one sync runs at a time": no two calls scan histories at once,
\* which the scan cursors of StellarTransactions rely on, whatever fails.
OneHistoryRun ==
    \A c, d \in Calls : history[c] = "running" /\ history[d] = "running" => c = d

\* An account may be skipped as "already in that run" only if it is: the
\* set is that of the run that holds the mutex, and empty without one.
InSyncExact ==
    inSync = IF lock = NoCall THEN {} ELSE accts[lock]

\* A submitted transaction is looked up once and rescheduled at most
\* trackTransactionMaxReschedules times, and its finalized event is sent at
\* most once, by whatever mixture of retries, stops and lost events.
TrackedOnce ==
    \A t \in Txs : asked[t] <= MaxReschedules + 1 /\ finalized[t] <= 1

\* All three, for the runs there are and the requests that were turned away.
RunsExclusive == OneHistoryRun /\ InSyncExact /\ TrackedOnce

\* The saved accounts follow the network: a sync never replaces a snapshot
\* by an older one, and stores only what the network has shown.
Follows == INSTANCE Replica WITH Items <- Accounts, source <- chain, copy <- snapshot
NeverBackwards == Follows!Spec
==============================================================================
