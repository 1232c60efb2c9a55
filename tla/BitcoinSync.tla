----------------------------- MODULE BitcoinSync -----------------------------
(***************************************************************************)
(* The synchronisation of Bitcoin wallets: the cron job with its repair    *)
(* scan, the synchronisation of selected accounts, the first full scan of  *)
(* an account and a send. Each run works on wallets it loaded earlier.     *)
(***************************************************************************)
EXTENDS Naturals, Sequences, FiniteSets

CONSTANTS
    Accounts,
    Txs,
    Owner,      \* the account of each transaction
    Hidden,     \* transactions on addresses only a full scan looks at
    Own,        \* transactions the user sends
    Born,       \* the accounts that exist from the beginning
    NoAccount,
    Mixes,      \* bound: sets of runs that take place in one behaviour
    MaxTroubles \* bound: refusals, failures, locks, deletions and stops

BitcoinSyncAssumption ==
    /\ IsFiniteSet(Accounts) /\ Born \subseteq Accounts /\ NoAccount \notin Accounts \cup Seq(Accounts)
    /\ Owner \in [Txs -> Accounts] /\ Own \subseteq Txs \ Hidden
    /\ MaxTroubles \in Nat

VARIABLES
    chain,     \* status of each transaction on the network
    stored,    \* the same in the persisted wallets
    live,      \* accounts that exist
    open,      \* the client is active and unlocked
    rescan,    \* the list rescanV1 of accounts to repair; NoAccount: not valid yet
    events,    \* scheduled full scans
    pc,        \* where each run stands
    phase,     \* how far a run is with each account
    before,    \* what the wallets a run loaded knew
    after,     \* what they know now
    target,    \* the account the repair scan works on
    told,      \* what the client shows of each transaction
    lossy,     \* remembers: transactions of a run that did not reach the client, or too late
    scanned,   \* remembers: accounts whose full scan was stored
    refused,   \* remembers: accounts whose first full scan did not take place
    troubles,  \* how much went wrong
    mix        \* the runs of this behaviour

syncVars == <<chain, stored, live, open, rescan, events, pc, phase, before, after, target,
              told, lossy, scanned, refused, troubles, mix>>

wallets == <<stored, live>>
runs    == <<pc, phase, before, after, target, mix>>
history == <<lossy, scanned, refused>>

Runs   == {"cron", "selected", "scan", "send"}
Status == 0..2                      \* unknown, in the mempool, confirmed
Of(a)  == {t \in Txs : Owner[t] = a}
MaxOf(m, n) == IF m >= n THEN m ELSE n

Steps  == {"idle", "work", "check", "list", "repair", "advance"}
Phases == {"off", "sync", "scan", "send", "update", "done", "failed"}

TypeOK ==
    /\ chain \in [Txs -> Status] /\ stored \in [Txs -> Status] /\ told \in [Txs -> Status]
    /\ live \in SUBSET Accounts /\ events \in SUBSET Accounts
    /\ open \in BOOLEAN /\ troubles \in 0..MaxTroubles /\ mix \in Mixes
    /\ rescan = NoAccount \/ rescan \in Seq(Accounts)
    /\ pc \in [Runs -> Steps]
    /\ phase \in [Runs -> [Accounts -> Phases]]
    /\ before \in [Runs -> [Txs -> Status]] /\ after \in [Runs -> [Txs -> Status]]
    /\ target \in Accounts \cup {NoAccount}
    /\ lossy \in SUBSET Txs /\ scanned \in SUBSET Accounts /\ refused \in SUBSET Accounts

Nowhere == [a \in Accounts |-> "off"]
Unknown == [t \in Txs |-> 0]

Init ==
    /\ chain = Unknown /\ stored = Unknown /\ told = Unknown
    /\ live = Born
    /\ open = TRUE
    /\ rescan = NoAccount
    /\ events = {}
    /\ pc = [r \in Runs |-> "idle"]
    /\ phase = [r \in Runs |-> Nowhere]
    /\ before = [r \in Runs |-> Unknown]
    /\ after = [r \in Runs |-> Unknown]
    /\ target = NoAccount
    /\ lossy = {} /\ scanned = {} /\ refused = {}
    /\ troubles = 0
    /\ mix \in Mixes

------------------------------------------------------------------------------
Trouble == troubles < MaxTroubles /\ troubles' = troubles + 1

\* A run loads the wallets of some accounts: what it does to each is its kind.
Load(r, as, kind, where) ==
    /\ r \in mix
    /\ pc' = [pc EXCEPT ![r] = where]
    /\ phase' = [phase EXCEPT ![r] = [a \in Accounts |-> IF a \in as THEN kind ELSE "off"]]
    /\ before' = [before EXCEPT ![r] = [t \in Txs |-> IF Owner[t] \in as THEN stored[t] ELSE 0]]
    /\ after' = [after EXCEPT ![r] = before'[r]]

\* synchronizeAccounts and syncSelectedAccounts for the accounts that are selected; a
\* call that meets one of its key in flight shares it.
Synchronize(r, as) ==
    /\ r \in {"cron", "selected"}
    /\ open
    /\ pc[r] = "idle"
    /\ Load(r, as \cap live, "sync", "work")
    /\ UNCHANGED <<chain, wallets, open, rescan, events, target, told, history, troubles, mix>>

\* The background event of a new account; the router drops it unless the client is open.
FireScan(a) ==
    /\ a \in events
    /\ pc["scan"] = "idle"
    /\ events' = events \ {a}
    /\ IF open /\ a \in live
       THEN Load("scan", {a}, "scan", "work") /\ UNCHANGED refused
       ELSE refused' = refused \cup {a} /\ UNCHANGED <<pc, phase, before, after>>
    /\ UNCHANGED <<chain, wallets, open, rescan, target, told, lossy, scanned, troubles, mix>>

\* A send of t: the wallet is loaded, the transaction broadcast, then saved.
Send(t) ==
    /\ pc["send"] = "idle"
    /\ chain[t] = 0 /\ t \in Own
    /\ Owner[t] \in live
    /\ Load("send", {Owner[t]}, "send", "work")
    /\ UNCHANGED <<chain, wallets, open, rescan, events, target, told, history, troubles, mix>>

Broadcast(t) ==
    LET a == Owner[t]
    IN  /\ phase["send"][a] = "send"
        /\ t \in Own /\ chain[t] = 0
        /\ chain' = [chain EXCEPT ![t] = 1]
        /\ after' = [after EXCEPT !["send"][t] = MaxOf(@, 1)]
        /\ phase' = [phase EXCEPT !["send"][a] = "update"]
        /\ UNCHANGED <<wallets, open, rescan, events, pc, before, target, told, history, troubles, mix>>

\* Esplora answers for the addresses the wallet watches, or for all of them in a full scan.
Watched(r, t) == phase[r][Owner[t]] = "scan" \/ t \notin Hidden \/ after[r][t] # 0

Fetch(r, a) ==
    /\ phase[r][a] \in {"sync", "scan"}
    /\ after' = [after EXCEPT ![r] = [t \in Txs |->
                    IF t \in Of(a) /\ Watched(r, t) THEN MaxOf(@[t], chain[t]) ELSE @[t]]]
    /\ phase' = [phase EXCEPT ![r][a] = "update"]
    /\ UNCHANGED <<chain, wallets, open, rescan, events, pc, before, target, told, history, troubles, mix>>

IsScan(r) == r = "scan" \/ (r = "cron" /\ pc[r] = "repair")

\* repository.update: what is staged is merged into what is stored by now; an account
\* that was deleted has nothing to update.
Update(r, a) ==
    /\ phase[r][a] = "update"
    /\ a \in live
    /\ stored' = [t \in Txs |-> IF t \in Of(a) THEN MaxOf(stored[t], after[r][t]) ELSE stored[t]]
    /\ phase' = [phase EXCEPT ![r][a] = "done"]
    /\ scanned' = IF IsScan(r) THEN scanned \cup {a} ELSE scanned
    /\ UNCHANGED <<chain, live, open, rescan, events, pc, before, after, target, told, lossy, refused, troubles, mix>>

\* A request fails (or the account is gone): this account is not synchronised.
Fails(r, a) ==
    /\ phase[r][a] \in {"sync", "scan", "send", "update"}
    /\ phase' = [phase EXCEPT ![r][a] = "failed"]
    /\ IF a \in live THEN Trouble ELSE UNCHANGED troubles
    /\ refused' = IF r = "scan" THEN refused \cup {a} ELSE refused
    /\ UNCHANGED <<chain, wallets, open, rescan, events, pc, before, after, target, told, lossy, scanned, mix>>

\* A fault to compare with: it also tells of accounts whose write is still to come or has failed.
NotifiedAnyway(r) == {t \in Txs : /\ phase[r][Owner[t]] # "off"
                                  /\ after[r][t] # 0
                                  /\ IsScan(r) \/ after[r][t] # before[r][t]}

\* What a run has to tell: a full scan everything, else what is new or confirmed.
Notified(r) == {t \in Txs : /\ phase[r][Owner[t]] = "done"
                            /\ after[r][t] # 0
                            /\ IsScan(r) \/ after[r][t] # before[r][t]}

Settled(r) == \A a \in Accounts : phase[r][a] \in {"off", "done", "failed"}

\* Where a run goes on after it has told the client.
After(r) == CASE r = "cron" /\ pc[r] = "work"   -> "check"
              [] r = "cron" /\ pc[r] = "repair" -> IF phase[r][target] = "done" THEN "advance" ELSE "idle"
              [] OTHER -> "idle"

Rest(r, where) ==
    /\ pc' = [pc EXCEPT ![r] = where]
    /\ phase' = [phase EXCEPT ![r] = Nowhere]
    /\ before' = [before EXCEPT ![r] = Unknown]
    /\ after' = [after EXCEPT ![r] = Unknown]

\* emitSyncEvents: balances and transactions, as the wallets of this run know them.
Emit(r) ==
    /\ pc[r] \in {"work", "repair"}
    /\ Settled(r)
    /\ told' = [t \in Txs |-> IF t \in Notified(r) THEN after[r][t] ELSE told[t]]
    /\ lossy' = (lossy \ {t \in Notified(r) : after[r][t] = stored[t]}) \cup {t \in Notified(r) : after[r][t] < told[t]}
    /\ Rest(r, After(r))
    /\ UNCHANGED <<chain, wallets, open, rescan, events, target, scanned, refused, troubles, mix>>

\* The client refuses an event: the run ends.
EmitFails(r) ==
    /\ pc[r] \in {"work", "repair"}
    /\ Settled(r)
    /\ Notified(r) # {}
    /\ Trouble
    /\ lossy' = lossy \cup Notified(r)
    /\ Rest(r, "idle")
    /\ UNCHANGED <<chain, wallets, open, rescan, events, target, told, scanned, refused, mix>>

------------------------------------------------------------------------------
\* The repair that follows a cron synchronisation, unless the client was locked meanwhile
\* or there is nothing left to repair.
Check ==
    /\ pc["cron"] = "check"
    /\ pc' = [pc EXCEPT !["cron"] = IF open /\ rescan # <<>> THEN "list" ELSE "idle"]
    /\ UNCHANGED <<chain, wallets, open, rescan, events, phase, before, after, target, told, history, troubles, mix>>

\* The sequences of all the elements of a set.
Orderings(S) == {f \in [1..Cardinality(S) -> S] : \A e \in S : \E k \in DOMAIN f : f[k] = e}

\* The places of the list whose accounts are still there, in their order.
Remaining == {f \in Orderings({i \in DOMAIN rescan : rescan[i] \in live}) :
                 \A j, k \in DOMAIN f : j < k => f[j] < f[k]}

\* repairNextAccount: all accounts when there is no valid list yet, in some order; the
\* accounts that are gone leave the list, and the first one is scanned.
Listed == IF rescan = NoAccount THEN Orderings(live)
          ELSE {[k \in DOMAIN f |-> rescan[f[k]]] : f \in Remaining}

RepairNext ==
    /\ pc["cron"] = "list"
    /\ \E pending \in Listed :
         /\ rescan' = pending
         /\ IF pending = <<>>
            THEN Rest("cron", "idle") /\ target' = NoAccount
            ELSE Load("cron", {pending[1]}, "scan", "repair") /\ target' = pending[1]
    /\ UNCHANGED <<chain, wallets, open, events, told, history, troubles, mix>>

\* The scan was stored and told: the account leaves the list.
Advance ==
    /\ pc["cron"] = "advance"
    /\ rescan' = Tail(rescan)
    /\ target' = NoAccount
    /\ pc' = [pc EXCEPT !["cron"] = "idle"]
    /\ UNCHANGED <<chain, wallets, open, events, phase, before, after, told, history, troubles, mix>>

------------------------------------------------------------------------------
\* Accounts are created, with a full scan scheduled, and deleted.
Create(a) ==
    /\ a \notin live
    /\ a \notin Born
    /\ \A t \in Of(a) : stored[t] = 0
    /\ a \notin scanned \cup refused \cup events
    /\ live' = live \cup {a}
    /\ events' = events \cup {a}
    /\ UNCHANGED <<chain, stored, open, rescan, runs, told, history, troubles>>

Delete(a) ==
    /\ a \in live
    /\ live' = live \ {a}
    /\ Trouble
    /\ UNCHANGED <<chain, stored, open, rescan, events, runs, told, history>>

\* Others pay, blocks are mined, the user locks and unlocks, the client stops the snap.
Pay(t) ==
    /\ chain[t] < 2
    /\ chain[t] = 0 => t \notin Own
    /\ chain' = [chain EXCEPT ![t] = @ + 1]
    /\ UNCHANGED <<wallets, open, rescan, events, runs, told, history, troubles>>

Lock ==
    /\ open
    /\ open' = FALSE
    /\ Trouble
    /\ UNCHANGED <<chain, wallets, rescan, events, runs, told, history>>

Unlock ==
    /\ ~open
    /\ open' = TRUE
    /\ UNCHANGED <<chain, wallets, rescan, events, runs, told, history, troubles>>

Stop ==
    /\ \E r \in Runs : pc[r] # "idle"
    /\ Trouble
    /\ pc' = [r \in Runs |-> "idle"]
    /\ phase' = [r \in Runs |-> Nowhere]
    /\ before' = [r \in Runs |-> Unknown]
    /\ after' = [r \in Runs |-> Unknown]
    /\ target' = NoAccount
    /\ lossy' = lossy \cup UNION {Notified(r) : r \in {q \in Runs : pc[q] \in {"work", "repair"}}}
    /\ refused' = refused \cup {a \in Accounts : phase["scan"][a] # "off"}
    /\ UNCHANGED <<chain, wallets, open, rescan, events, told, scanned, mix>>

------------------------------------------------------------------------------
Work(r) ==
    \/ \E a \in Accounts : Fetch(r, a) \/ Update(r, a)
    \/ \E a \in Accounts \ live : Fails(r, a)
    \/ \E t \in Txs : r = "send" /\ Broadcast(t)
    \/ Emit(r)
    \/ r = "cron" /\ (Check \/ RepairNext \/ Advance)

Cron == Synchronize("cron", Accounts)

Next ==
    \/ \E r \in Runs : Work(r) \/ EmitFails(r)
    \/ \E r \in Runs, a \in Accounts : Fails(r, a)
    \/ Cron
    \/ \E as \in {{a} : a \in Accounts} : Synchronize("selected", as)
    \/ \E a \in Accounts : FireScan(a) \/ Create(a) \/ Delete(a)
    \/ \E t \in Txs : Send(t) \/ Pay(t)
    \/ Lock
    \/ Unlock
    \/ Stop

Spec == Init /\ [][Next]_syncVars
FairSpec ==
    /\ Spec
    /\ \A r \in Runs : WF_syncVars(Work(r))
    /\ WF_syncVars(Cron)

------------------------------------------------------------------------------
\* Overlapping runs and sends do not undo each other: what is stored of a transaction
\* never goes back, although each run writes from a wallet it loaded earlier.
NeverForgotten == \A t \in Txs : stored'[t] >= stored[t]
HistoryKept == [][NeverForgotten]_syncVars

\* The client is told nothing that is not stored.
ToldIsStored == \A t \in Txs : told[t] <= stored[t]

\* "Advances the pending list only after the scan succeeds": an account leaves the repair
\* list once its full scan is stored, or when it is gone.
LeavesScanned ==
    rescan # NoAccount =>
        /\ rescan' # NoAccount
        /\ \A i \in DOMAIN rescan : \/ rescan[i] \in scanned
                                    \/ rescan[i] \notin live
                                    \/ \E j \in DOMAIN rescan' : rescan'[j] = rescan[i]
RepairedIsScanned == [][LeavesScanned]_syncVars

\* Troubles end (MaxTroubles): once the client stays open, the repair list empties and the
\* client shows what is stored, but for what a refused event, a stop or an overtaken run
\* cost it.
ToldAndRepaired ==
    /\ rescan = <<>>
    /\ \A t \in Txs : t \in lossy \/ Owner[t] \notin live \/ told[t] = stored[t]
EventuallyToldAndRepaired == (<>[]open) => <>[]ToldAndRepaired

==============================================================================
