-------------------------- MODULE TronTransactions --------------------------
(***************************************************************************)
(* The life of Tron transactions an account sends: the two ways to send    *)
(* (confirmSend and signAndSendTransaction save and schedule in different  *)
(* orders), tracking by background events, and the synchronisations that   *)
(* store what the network confirmed and tell the client.                   *)
(***************************************************************************)
EXTENDS Naturals, Sequences

CONSTANTS
    Txs,
    MaxRetries,   \* of a broadcast
    MaxAttempts,  \* TRACK_TX_MAX_ATTEMPTS
    MaxTroubles   \* bound: lost answers, failures, refusals and locks

ASSUME TronTransactionsAssumption ==
    /\ MaxRetries \in Nat /\ MaxAttempts \in Nat \ {0} /\ MaxTroubles \in Nat

VARIABLES
    chain,     \* none, in the pool of a node, in a block
    stored,    \* the transactions of the state
    shown,     \* the client's copy
    flow,      \* the request that sends a transaction: confirmSend or signAndSendTransaction
    send,      \* how far the request is: a number of steps, or its end
    tries,     \* attempts to broadcast
    job,       \* tracking: the attempt that is scheduled, 0 for none
    finalized, \* finalized events reported
    wanted,    \* a synchronisation of the selected accounts is scheduled
    run,       \* the synchronisations under way
    open,      \* the client is active and unlocked
    missed,    \* remembers: what the client was not told, or too late
    troubles

tronVars == <<chain, stored, shown, flow, send, tries, job, finalized, wanted, run, open, missed,
              troubles>>

network == <<chain, tries, flow>>
tracker == <<job, finalized>>

Flows  == {"confirmSend", "signAndSend"}
Ok     == 4                        \* every step of a request is done
Failed == 5

Kinds == {"shared", "direct"}      \* through the coalescer, or not
Idle  == [at |-> "idle", known |-> {}, found |-> {}]

TypeOK ==
    /\ chain \in [Txs -> {"none", "pool", "block"}]
    /\ {stored, shown} \subseteq [Txs -> {"none", "pending", "confirmed"}]
    /\ flow \in [Txs -> Flows] /\ send \in [Txs -> 0..Failed]
    /\ tries \in [Txs -> 0..MaxRetries]
    /\ job \in [Txs -> 0..MaxAttempts]
    /\ finalized \in [Txs -> 0..2]
    /\ wanted \in BOOLEAN /\ open \in BOOLEAN
    /\ run \in [Kinds -> [at : {"idle", "fetch", "save", "emit"}, known : SUBSET Txs, found : SUBSET Txs]]
    /\ missed \in SUBSET Txs
    /\ troubles \in 0..MaxTroubles

Init ==
    /\ chain = [t \in Txs |-> "none"]
    /\ stored = [t \in Txs |-> "none"] /\ shown = stored
    /\ flow \in [Txs -> Flows] /\ send = [t \in Txs |-> 0]
    /\ tries = [t \in Txs |-> 0]
    /\ job = [t \in Txs |-> 0]
    /\ finalized = [t \in Txs |-> 0]
    /\ wanted = FALSE
    /\ run = [k \in Kinds |-> Idle]
    /\ open = TRUE
    /\ missed = {}
    /\ troubles = 0

Trouble == troubles < MaxTroubles /\ troubles' = troubles + 1

------------------------------------------------------------------------------
\* What a request does after it has signed, in this order.
Steps(t) == IF flow[t] = "confirmSend"
            THEN <<"broadcast", "schedule", "save", "emit">>
            ELSE <<"broadcast", "save", "emit", "schedule">>

At(t, step) == send[t] < Ok /\ Steps(t)[send[t] + 1] = step

Done(t) == send' = [send EXCEPT ![t] = @ + 1]

\* The node takes the transaction; or it has it already and says so (DUP_TRANSACTION).
Broadcast(t) ==
    /\ At(t, "broadcast")
    /\ chain' = [chain EXCEPT ![t] = IF @ = "none" THEN "pool" ELSE @]
    /\ Done(t)
    /\ UNCHANGED <<stored, shown, flow, tries, tracker, wanted, run, open, missed, troubles>>

\* A transient failure: the node is busy, or its answer is lost after it took it.
Transient(t) ==
    /\ At(t, "broadcast")
    /\ Trouble
    /\ \E taken \in BOOLEAN :
          chain' = IF taken /\ chain[t] = "none" THEN [chain EXCEPT ![t] = "pool"] ELSE chain
    /\ IF tries[t] < MaxRetries
       THEN tries' = [tries EXCEPT ![t] = @ + 1] /\ UNCHANGED send
       ELSE send' = [send EXCEPT ![t] = Failed] /\ UNCHANGED tries
    /\ UNCHANGED <<stored, shown, flow, tracker, wanted, run, open, missed>>

Schedule(t) ==
    /\ At(t, "schedule")
    /\ job' = [job EXCEPT ![t] = 1]
    /\ Done(t)
    /\ UNCHANGED <<network, stored, shown, finalized, wanted, run, open, missed, troubles>>

\* save writes the pending transaction over what is stored of it.
SavePending(t) ==
    /\ At(t, "save")
    /\ stored' = [stored EXCEPT ![t] = "pending"]
    /\ Done(t)
    /\ UNCHANGED <<network, shown, tracker, wanted, run, open, missed, troubles>>

\* A fault to compare with: the event is emitted by saving the transaction once more.
EmitPendingSaved(t) ==
    /\ At(t, "emit")
    /\ stored' = [stored EXCEPT ![t] = "pending"] /\ shown' = [shown EXCEPT ![t] = "pending"]
    /\ Done(t)
    /\ UNCHANGED <<network, tracker, wanted, run, open, missed, troubles>>

EmitPending(t) ==
    /\ At(t, "emit")
    /\ shown' = [shown EXCEPT ![t] = "pending"]
    /\ missed' = IF stored[t] = "confirmed" THEN missed \cup {t} ELSE missed
    /\ Done(t)
    /\ UNCHANGED <<network, stored, tracker, wanted, run, open, troubles>>

\* The node refuses for good, or a step after the broadcast fails: the request fails.
Abandon(t) ==
    /\ send[t] < Ok
    /\ Trouble
    /\ send' = [send EXCEPT ![t] = Failed]
    /\ missed' = IF At(t, "emit") THEN missed \cup {t} ELSE missed
    /\ UNCHANGED <<network, stored, shown, tracker, wanted, run, open>>

------------------------------------------------------------------------------
\* Tracking: the client refuses events while it is locked, which ends it.
Drop(t) ==
    /\ job[t] > 0
    /\ ~open
    /\ job' = [job EXCEPT ![t] = 0]
    /\ UNCHANGED <<network, stored, shown, send, finalized, wanted, run, open, missed, troubles>>

\* A fault to compare with: what is stored is known, the pending transactions too.
StartKnowing(k) ==
    run' = IF run[k].at # "idle" THEN run
           ELSE [run EXCEPT ![k] = [at    |-> "fetch", found |-> {},
                                    known |-> {t \in Txs : stored[t] # "none"}]]

\* A synchronisation reads the confirmed transactions of the state; one of the shared
\* kind that is under way serves all who ask.
Start(k) ==
    run' = IF run[k].at # "idle" THEN run
           ELSE [run EXCEPT ![k] = [at    |-> "fetch", found |-> {},
                                    known |-> {t \in Txs : stored[t] = "confirmed"}]]

Later(t) == job' = [job EXCEPT ![t] = IF @ = MaxAttempts THEN 0 ELSE @ + 1]

\* Not confirmed yet: later, or after the last attempt a synchronisation.
TrackAgain(t) ==
    /\ job[t] > 0 /\ open
    /\ chain[t] # "block"
    /\ Later(t)
    /\ IF job[t] = MaxAttempts THEN Start("shared") ELSE UNCHANGED run
    /\ UNCHANGED <<network, stored, shown, send, finalized, wanted, open, missed, troubles>>

\* A request of the tracker fails, before or after it scheduled the synchronisation.
TrackFails(t) ==
    /\ job[t] > 0 /\ open
    /\ Trouble
    /\ Later(t)
    /\ IF job[t] = MaxAttempts THEN Start("shared") ELSE UNCHANGED run
    /\ wanted' \in IF chain[t] = "block" THEN {wanted, TRUE} ELSE {wanted}
    /\ UNCHANGED <<network, stored, shown, send, finalized, open, missed>>

\* A fault to compare with: the event that found it is tried again like the others.
TrackConfirmedAgain(t) ==
    /\ job[t] > 0 /\ open
    /\ chain[t] = "block"
    /\ Later(t)
    /\ wanted' = TRUE
    /\ finalized' = [finalized EXCEPT ![t] = @ + 1]
    /\ UNCHANGED <<network, stored, shown, send, run, open, missed, troubles>>

TrackConfirmed(t) ==
    /\ job[t] > 0 /\ open
    /\ chain[t] = "block"
    /\ job' = [job EXCEPT ![t] = 0]
    /\ wanted' = TRUE
    /\ finalized' = [finalized EXCEPT ![t] = @ + 1]
    /\ UNCHANGED <<network, stored, shown, send, run, open, missed, troubles>>

------------------------------------------------------------------------------
\* The cron job, the scheduled synchronisation, and the one of transactions alone that
\* does not go through the coalescer.
Cron ==
    /\ open
    /\ run["shared"].at = "idle"
    /\ Start("shared")
    /\ UNCHANGED <<network, stored, shown, send, tracker, wanted, open, missed, troubles>>

Wanted ==
    /\ wanted
    /\ wanted' = FALSE
    /\ IF open THEN Start("shared") ELSE UNCHANGED run
    /\ UNCHANGED <<network, stored, shown, send, tracker, open, missed, troubles>>

Direct ==
    /\ open
    /\ run["direct"].at = "idle"
    /\ Start("direct")
    /\ UNCHANGED <<network, stored, shown, send, tracker, wanted, open, missed, troubles>>

\* Only what is not known to be confirmed is looked at again.
Fetch(k) ==
    /\ run[k].at = "fetch"
    /\ LET found == {t \in Txs : chain[t] = "block"} \ run[k].known
       IN  run' = [run EXCEPT ![k] = [@ EXCEPT !.at = IF found = {} THEN "idle" ELSE "save",
                                               !.found = found, !.known = {}]]
    /\ UNCHANGED <<network, stored, shown, send, tracker, wanted, open, missed, troubles>>

FetchFails(k) ==
    /\ run[k].at = "fetch"
    /\ Trouble
    /\ run' = [run EXCEPT ![k] = Idle]
    /\ UNCHANGED <<network, stored, shown, send, tracker, wanted, open, missed>>

Save(k) ==
    /\ run[k].at = "save"
    /\ stored' = [t \in Txs |-> IF t \in run[k].found THEN "confirmed" ELSE stored[t]]
    /\ run' = [run EXCEPT ![k].at = "emit"]
    /\ UNCHANGED <<network, shown, send, tracker, wanted, open, missed, troubles>>

Emit(k) ==
    /\ run[k].at = "emit"
    /\ shown' = [t \in Txs |-> IF t \in run[k].found THEN "confirmed" ELSE shown[t]]
    /\ missed' = missed \ run[k].found
    /\ run' = [run EXCEPT ![k] = Idle]
    /\ UNCHANGED <<network, stored, send, tracker, wanted, open, troubles>>

\* The client refuses the event: these transactions are known, and are not told again.
EmitFails(k) ==
    /\ run[k].at = "emit"
    /\ Trouble
    /\ missed' = missed \cup run[k].found
    /\ run' = [run EXCEPT ![k] = Idle]
    /\ UNCHANGED <<network, stored, shown, send, tracker, wanted, open>>

------------------------------------------------------------------------------
Mine(t) ==
    /\ chain[t] = "pool"
    /\ chain' = [chain EXCEPT ![t] = "block"]
    /\ UNCHANGED <<tries, flow, stored, shown, send, tracker, wanted, run, open, missed, troubles>>

Lock ==
    /\ open /\ open' = FALSE
    /\ Trouble
    /\ UNCHANGED <<network, stored, shown, send, tracker, wanted, run, missed>>

Unlock ==
    /\ ~open /\ open' = TRUE
    /\ UNCHANGED <<network, stored, shown, send, tracker, wanted, run, missed, troubles>>

Request(t) == Broadcast(t) \/ Schedule(t) \/ SavePending(t) \/ EmitPending(t)
Track(t)   == Drop(t) \/ TrackAgain(t) \/ TrackConfirmed(t)
Sync(k)    == Fetch(k) \/ Save(k) \/ Emit(k)

Next ==
    \/ \E t \in Txs : Request(t) \/ Transient(t) \/ Abandon(t) \/ Track(t) \/ TrackFails(t) \/ Mine(t)
    \/ \E k \in Kinds : Sync(k) \/ FetchFails(k) \/ EmitFails(k)
    \/ Cron
    \/ Wanted
    \/ Direct
    \/ Lock
    \/ Unlock

Spec == Init /\ [][Next]_tronVars

FairSpec ==
    /\ Spec
    /\ \A t \in Txs : WF_tronVars(Track(t)) /\ WF_tronVars(Mine(t)) /\ WF_tronVars(Request(t))
    /\ \A k \in Kinds : WF_tronVars(Sync(k))
    /\ WF_tronVars(Cron) /\ WF_tronVars(Wanted)

------------------------------------------------------------------------------
\* A transaction that is stored, shown, tracked or answered for was broadcast, and one that is
\* confirmed or reported final is in a block, whatever was lost or repeated on the way.
NothingInvented ==
    \A t \in Txs :
        /\ stored[t] # "none" \/ shown[t] # "none" \/ job[t] > 0 \/ send[t] = Ok => chain[t] # "none"
        /\ stored[t] = "confirmed" \/ shown[t] = "confirmed" \/ finalized[t] > 0 => chain[t] = "block"

\* The client shows as confirmed what the state has as confirmed, or is being told so, or was
\* not told (saveManyAndEmit: the save, then the event).
ConfirmedIsTold ==
    \A t \in Txs : stored[t] = "confirmed" =>
        \/ shown[t] = "confirmed"
        \/ t \in missed
        \/ \E k \in Kinds : run[k].at = "emit" /\ t \in run[k].found

\* A confirmed transaction becomes pending again only by the send's own late save.
DemotedBySendOnly ==
    [][\A t \in Txs : stored[t] = "confirmed" /\ stored'[t] # "confirmed" => At(t, "save")]_tronVars

\* Retries of the tracker do not report a transaction twice.
FinalizedOnce == \A t \in Txs : finalized[t] <= 1

\* What the history says happened, and the client is told of it once (saveManyAndEmit, trackTransaction).
HistoryRight == NothingInvented /\ ConfirmedIsTold /\ FinalizedOnce

\* What is in a block is confirmed in the state in the end, even if the late save of its
\* send took it back, and the client shows it so unless it refused the event or was told
\* in the wrong order.
EventuallyConfirmed ==
    (<>[]open) => \A t \in Txs : <>[](chain[t] = "block" =>
                        stored[t] = "confirmed" /\ (shown[t] = "confirmed" \/ t \in missed))

\* Tracking ends.
EventuallyUntracked == \A t \in Txs : <>[](job[t] = 0)

==============================================================================
