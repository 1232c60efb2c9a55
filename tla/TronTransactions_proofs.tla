----------------------- MODULE TronTransactions_proofs -----------------------
(***************************************************************************)
(* Proofs about TronTransactions, for any transactions, retries, attempts  *)
(* and troubles: nothing is invented, what is confirmed reaches the client *)
(* or is known to have been missed, and nothing is reported final twice.   *)
(* Then about TronRequests (what is agreed to is what is judged, shown and *)
(* sent), TronAccounts (one account for an index, signatures by the named  *)
(* account) and TronConfirmation (a scan is the scan of the data shown).   *)
(***************************************************************************)
EXTENDS TronTransactions, Integers, FiniteSetTheorems, TLAPS

\* A request that is past its broadcast has broadcast.
BroadcastFirst == \A t \in Txs : send[t] \in 1..Ok => chain[t] # "none"

\* A run has found only what is in a block.
FoundInBlock == \A k \in Kinds : \A t \in run[k].found : chain[t] = "block"

\* Tracking was scheduled: the step is behind, or the request has failed.
Scheduled(t) == send[t] >= IF flow[t] = "confirmSend" THEN 2 ELSE 4

\* What is tracked was scheduled once and is not reported yet; what is reported is not tracked.
TrackedOnce ==
    \A t \in Txs : /\ job[t] > 0 => Scheduled(t) /\ finalized[t] = 0
                   /\ finalized[t] > 0 => Scheduled(t) /\ finalized[t] = 1

IInv == TypeOK /\ BroadcastFirst /\ FoundInBlock /\ NothingInvented /\ ConfirmedIsTold /\ TrackedOnce

------------------------------------------------------------------------------
\* Where a request stands when its next step is the given one.
LEMMA AtFacts ==
    ASSUME TypeOK, NEW t \in Txs
    PROVE  /\ At(t, "broadcast") => send[t] = 0
           /\ At(t, "schedule") => send[t] = IF flow[t] = "confirmSend" THEN 1 ELSE 3
           /\ At(t, "save") => send[t] = IF flow[t] = "confirmSend" THEN 2 ELSE 1
           /\ At(t, "emit") => send[t] = IF flow[t] = "confirmSend" THEN 3 ELSE 2
<1>1. send[t] \in 0..5
  BY DEF TypeOK, Failed
<1>2. CASE send[t] >= 4
  BY <1>1, <1>2 DEF At, Ok
<1>3. CASE send[t] \in 0..3
  BY <1>3 DEF At, Steps
<1> QED  BY <1>1, <1>2, <1>3

\* A step of a request moves it on by one.
LEMMA DoneFacts ==
    ASSUME TypeOK, NEW t \in Txs, NEW step, At(t, step), Done(t)
    PROVE  /\ send' \in [Txs -> 0..Failed]
           /\ send[t] \in 0..3 /\ send'[t] = send[t] + 1
           /\ \A u \in Txs : u # t => send'[u] = send[u]
BY DEF TypeOK, At, Done, Ok, Failed

\* A synchronisation that starts has found nothing yet, and disturbs none that is under way.
LEMMA StartFacts ==
    ASSUME TypeOK, NEW k \in Kinds, Start(k)
    PROVE  /\ run' \in [Kinds -> [at : {"idle", "fetch", "save", "emit"}, known : SUBSET Txs, found : SUBSET Txs]]
           /\ \A q \in Kinds : run'[q] = run[q] \/ (run[q].at = "idle" /\ run'[q].at = "fetch" /\ run'[q].found = {})
BY DEF TypeOK, Start

LEMMA LaterFacts ==
    ASSUME TypeOK, NEW t \in Txs, job[t] > 0, Later(t)
    PROVE  job' \in [Txs -> 0..MaxAttempts] /\ \A u \in Txs : u # t => job'[u] = job[u]
BY TronTransactionsAssumption DEF TypeOK, Later

LEMMA TroubleFacts == ASSUME TypeOK, Trouble PROVE troubles' \in 0..MaxTroubles
BY TronTransactionsAssumption DEF TypeOK, Trouble

LEMMA InitInv == Init => IInv
<1> SUFFICES ASSUME Init PROVE IInv
  OBVIOUS
<1>1. TypeOK
  <2>1. 0 \in 0..MaxRetries /\ 0 \in 0..MaxAttempts /\ 0 \in 0..MaxTroubles
    BY TronTransactionsAssumption
  <2>2. Idle \in [at : {"idle", "fetch", "save", "emit"}, known : SUBSET Txs, found : SUBSET Txs]
    BY DEF Idle
  <2>3. run \in [Kinds -> [at : {"idle", "fetch", "save", "emit"}, known : SUBSET Txs, found : SUBSET Txs]]
    BY <2>2 DEF Init
  <2>4. wanted \in BOOLEAN /\ open \in BOOLEAN
    BY DEF Init
  <2> QED  BY <2>1, <2>3, <2>4 DEF Init, TypeOK, Failed
<1>2. \A t \in Txs : /\ send[t] = 0 /\ job[t] = 0 /\ finalized[t] = 0
                     /\ stored[t] = "none" /\ shown[t] = "none"
  BY DEF Init
<1>3. \A k \in Kinds : run[k].found = {}
  BY DEF Init, Idle
<1>4. ~(0 > 0) /\ 0 \notin 1..Ok /\ 0 # Ok
  BY DEF Ok
<1> QED  BY <1>1, <1>2, <1>3, <1>4 DEF IInv, BroadcastFirst, FoundInBlock, NothingInvented, ConfirmedIsTold, TrackedOnce

------------------------------------------------------------------------------
\* Types

LEMMA StepTypes == ASSUME IInv, [Next]_tronVars PROVE TypeOK'
<1> USE DEF network, tracker
<1>0. TypeOK /\ TrackedOnce
  BY DEF IInv
<1>1. ASSUME NEW t \in Txs, Broadcast(t) PROVE TypeOK'
  BY <1>0, <1>1, DoneFacts DEF TypeOK, Broadcast
<1>2. ASSUME NEW t \in Txs, Transient(t) PROVE TypeOK'
  <2>1. tries' \in [Txs -> 0..MaxRetries]
    BY <1>0, <1>2, TronTransactionsAssumption DEF TypeOK, Transient
  <2>2. send' \in [Txs -> 0..Failed]
    BY <1>0, <1>2 DEF TypeOK, Transient, Failed
  <2> QED  BY <1>0, <1>2, <2>1, <2>2, TroubleFacts DEF TypeOK, Transient
<1>3. ASSUME NEW t \in Txs, Schedule(t) PROVE TypeOK'
  <2>1. 1 \in 0..MaxAttempts
    BY TronTransactionsAssumption
  <2> QED  BY <1>0, <1>3, <2>1, DoneFacts DEF TypeOK, Schedule
<1>4. ASSUME NEW t \in Txs, SavePending(t) PROVE TypeOK'
  BY <1>0, <1>4, DoneFacts DEF TypeOK, SavePending
<1>5. ASSUME NEW t \in Txs, EmitPending(t) PROVE TypeOK'
  BY <1>0, <1>5, DoneFacts DEF TypeOK, EmitPending
<1>6. ASSUME NEW t \in Txs, Abandon(t) PROVE TypeOK'
  <2>1. send' \in [Txs -> 0..Failed]
    BY <1>0, <1>6 DEF TypeOK, Abandon, Failed
  <2> QED  BY <1>0, <1>6, <2>1, TroubleFacts DEF TypeOK, Abandon
<1>7. ASSUME NEW t \in Txs, Drop(t) PROVE TypeOK'
  BY <1>0, <1>7, TronTransactionsAssumption DEF TypeOK, Drop
<1>8. ASSUME NEW t \in Txs, TrackAgain(t) PROVE TypeOK'
  <2>1. job' \in [Txs -> 0..MaxAttempts]
    BY <1>0, <1>8, LaterFacts DEF TrackAgain
  <2>2. run' \in [Kinds -> [at : {"idle", "fetch", "save", "emit"}, known : SUBSET Txs, found : SUBSET Txs]]
    BY <1>0, <1>8, StartFacts DEF TrackAgain, TypeOK, Kinds
  <2> QED  BY <1>0, <1>8, <2>1, <2>2 DEF TypeOK, TrackAgain
<1>9. ASSUME NEW t \in Txs, TrackFails(t) PROVE TypeOK'
  <2>1. job' \in [Txs -> 0..MaxAttempts]
    BY <1>0, <1>9, LaterFacts DEF TrackFails
  <2>2. run' \in [Kinds -> [at : {"idle", "fetch", "save", "emit"}, known : SUBSET Txs, found : SUBSET Txs]]
    BY <1>0, <1>9, StartFacts DEF TrackFails, TypeOK, Kinds
  <2>3. wanted' \in BOOLEAN
    <3>1. wanted' = wanted \/ wanted' = TRUE
      BY <1>9 DEF TrackFails
    <3> QED  BY <1>0, <3>1 DEF TypeOK
  <2> QED  BY <1>0, <1>9, <2>1, <2>2, <2>3, TroubleFacts DEF TypeOK, TrackFails
<1>10. ASSUME NEW t \in Txs, TrackConfirmed(t) PROVE TypeOK'
  <2>1. finalized[t] = 0
    BY <1>0, <1>10 DEF TrackConfirmed, TrackedOnce
  <2>2. finalized' \in [Txs -> 0..2] /\ job' \in [Txs -> 0..MaxAttempts]
    BY <1>0, <1>10, <2>1, TronTransactionsAssumption DEF TypeOK, TrackConfirmed
  <2> QED  BY <1>0, <1>10, <2>2 DEF TypeOK, TrackConfirmed
<1>11. CASE Cron \/ Wanted \/ Direct
  <2>1. "shared" \in Kinds /\ "direct" \in Kinds
    BY DEF Kinds
  <2>2. run' \in [Kinds -> [at : {"idle", "fetch", "save", "emit"}, known : SUBSET Txs, found : SUBSET Txs]]
    BY <1>0, <1>11, <2>1, StartFacts DEF Cron, Wanted, Direct, TypeOK
  <2> QED  BY <1>0, <1>11, <2>2 DEF TypeOK, Cron, Wanted, Direct
<1>12. ASSUME NEW k \in Kinds, Fetch(k) \/ FetchFails(k) PROVE TypeOK'
  <2>1. run' \in [Kinds -> [at : {"idle", "fetch", "save", "emit"}, known : SUBSET Txs, found : SUBSET Txs]]
    <3>1. run \in [Kinds -> [at : {"idle", "fetch", "save", "emit"}, known : SUBSET Txs, found : SUBSET Txs]]
      BY <1>0 DEF TypeOK
    <3>2. CASE Fetch(k)
      <4> DEFINE found == {t \in Txs : chain[t] = "block"} \ run[k].known
                 now   == [run[k] EXCEPT !.at = IF found = {} THEN "idle" ELSE "save", !.found = found, !.known = {}]
      <4>1. found \subseteq Txs
        OBVIOUS
      <4>2. run' = [run EXCEPT ![k] = now]
        BY <3>2 DEF Fetch
      <4> HIDE DEF found
      <4>3. now \in [at : {"idle", "fetch", "save", "emit"}, known : SUBSET Txs, found : SUBSET Txs]
        BY <3>1, <4>1
      <4> HIDE DEF now
      <4> QED  BY <3>1, <4>2, <4>3
    <3>3. CASE FetchFails(k)
      BY <3>1, <3>3 DEF FetchFails, Idle
    <3> QED  BY <1>12, <3>2, <3>3
  <2> QED  BY <1>0, <1>12, <2>1, TroubleFacts DEF TypeOK, Fetch, FetchFails
<1>13. ASSUME NEW k \in Kinds, Save(k) \/ Emit(k) \/ EmitFails(k) PROVE TypeOK'
  <2>1. run' \in [Kinds -> [at : {"idle", "fetch", "save", "emit"}, known : SUBSET Txs, found : SUBSET Txs]]
    BY <1>0, <1>13 DEF TypeOK, Save, Emit, EmitFails, Idle
  <2>2. {stored', shown'} \subseteq [Txs -> {"none", "pending", "confirmed"}] /\ missed' \in SUBSET Txs
    BY <1>0, <1>13 DEF TypeOK, Save, Emit, EmitFails
  <2> QED  BY <1>0, <1>13, <2>1, <2>2, TroubleFacts DEF TypeOK, Save, Emit, EmitFails
<1>14. ASSUME NEW t \in Txs, Mine(t) PROVE TypeOK'
  BY <1>0, <1>14 DEF TypeOK, Mine
<1>15. CASE Lock \/ Unlock
  BY <1>0, <1>15, TroubleFacts DEF TypeOK, Lock, Unlock
<1>16. CASE UNCHANGED tronVars
  BY <1>0, <1>16 DEF TypeOK, tronVars
<1> QED  BY <1>1, <1>2, <1>3, <1>4, <1>5, <1>6, <1>7, <1>8, <1>9, <1>10, <1>11, <1>12, <1>13, <1>14, <1>15, <1>16
         DEF Next, Request, Track, Sync

------------------------------------------------------------------------------
\* What was broadcast, and what is in a block

\* What the network has of a transaction only grows.
LEMMA ChainGrows ==
    ASSUME TypeOK, [Next]_tronVars, NEW t \in Txs
    PROVE  /\ chain[t] # "none" => chain'[t] # "none"
           /\ chain[t] = "block" => chain'[t] = "block"
<1> USE DEF network, tracker
<1>1. CASE chain' = chain
  BY <1>1
<1>2. CASE chain' # chain
  <2>1. PICK u \in Txs : Broadcast(u) \/ Transient(u) \/ Mine(u)
    BY <1>2 DEF Next, Request, Track, Sync, Schedule, SavePending, EmitPending, Abandon, Drop, TrackAgain, TrackFails,
       TrackConfirmed, Fetch, FetchFails, Save, Emit, EmitFails, Cron, Wanted, Direct, Lock, Unlock, tronVars
  <2> QED  BY <2>1 DEF TypeOK, Broadcast, Transient, Mine
<1> QED  BY <1>1, <1>2

LEMMA StepBroadcast == ASSUME IInv, [Next]_tronVars PROVE BroadcastFirst'
<1> USE DEF network, tracker
<1>0. TypeOK /\ BroadcastFirst
  BY DEF IInv
<1> SUFFICES ASSUME NEW u \in Txs, send'[u] \in 1..Ok PROVE chain'[u] # "none"
  BY DEF BroadcastFirst
<1>1. chain[u] # "none" => chain'[u] # "none"
  BY <1>0, ChainGrows
<1>2. CASE send'[u] = send[u]
  BY <1>0, <1>1, <1>2 DEF BroadcastFirst
<1>3. CASE send'[u] # send[u]
  <2>1. PICK t \in Txs : Request(t) \/ Transient(t) \/ Abandon(t)
    BY <1>3 DEF Next, Track, Sync, Drop, TrackAgain, TrackFails, TrackConfirmed, Fetch, FetchFails, Save, Emit,
       EmitFails, Cron, Wanted, Direct, Lock, Unlock, Mine, tronVars
  <2>2. CASE Transient(t) \/ Abandon(t)
    BY <1>0, <1>3, <2>2 DEF TypeOK, Transient, Abandon, Ok, Failed
  <2>3. CASE Broadcast(t)
    <3>1. t = u
      BY <1>0, <1>3, <2>3, DoneFacts DEF Broadcast
    <3> QED  BY <1>0, <2>3, <3>1 DEF TypeOK, Broadcast
  <2>4. CASE Schedule(t) \/ SavePending(t) \/ EmitPending(t)
    <3>1. Done(t) /\ send[t] \in 1..3
      BY <1>0, <2>4, AtFacts DEF Schedule, SavePending, EmitPending
    <3>2. t = u
      BY <1>0, <1>3, <2>4, DoneFacts DEF Schedule, SavePending, EmitPending
    <3> QED  BY <1>0, <1>1, <3>1, <3>2 DEF BroadcastFirst, Ok
  <2> QED  BY <2>1, <2>2, <2>3, <2>4 DEF Request
<1> QED  BY <1>2, <1>3

LEMMA StepFound == ASSUME IInv, [Next]_tronVars PROVE FoundInBlock'
<1> USE DEF network, tracker
<1>0. TypeOK /\ FoundInBlock
  BY DEF IInv
<1> SUFFICES ASSUME NEW k \in Kinds, NEW t \in run'[k].found PROVE chain'[t] = "block"
  BY DEF FoundInBlock
<1>1. CASE run' = run
  <2>1. t \in Txs /\ chain[t] = "block"
    BY <1>0, <1>1 DEF TypeOK, FoundInBlock
  <2> QED  BY <1>0, <2>1, ChainGrows
<1>2. CASE run' # run
  <2>0. chain' = chain
    BY <1>2 DEF Next, Request, Track, Sync, Broadcast, Schedule, SavePending, EmitPending, Transient, Abandon, Drop,
       TrackAgain, TrackFails, TrackConfirmed, Fetch, FetchFails, Save, Emit, EmitFails, Cron, Wanted, Direct, Lock,
       Unlock, Mine, tronVars
  <2>1. CASE run'[k].found \subseteq run[k].found
    BY <1>0, <2>0, <2>1 DEF FoundInBlock
  <2>2. CASE \E q \in Kinds : Start(q)
    BY <1>0, <2>1, <2>2, StartFacts
  <2>3. ASSUME NEW q \in Kinds, Fetch(q) PROVE chain'[t] = "block"
    <3>1. CASE k = q
      BY <1>0, <2>0, <2>3, <3>1 DEF Fetch, TypeOK
    <3>2. CASE k # q
      BY <1>0, <2>1, <2>3, <3>2 DEF Fetch, TypeOK
    <3> QED  BY <3>1, <3>2
  <2>4. ASSUME NEW q \in Kinds, FetchFails(q) \/ Save(q) \/ Emit(q) \/ EmitFails(q) PROVE chain'[t] = "block"
    BY <1>0, <2>1, <2>4 DEF FetchFails, Save, Emit, EmitFails, TypeOK, Idle
  <2> QED
    BY <1>2, <2>2, <2>3, <2>4
    DEF Next, Request, Track, Sync, Broadcast, Schedule, SavePending, EmitPending, Transient, Abandon, Drop,
        TrackAgain, TrackFails, TrackConfirmed, Cron, Wanted, Direct, Lock, Unlock, Mine, tronVars, Kinds
<1> QED  BY <1>1, <1>2

\* What is written to the state, shown or reported keeps to the chain.
LEMMA StepNothingInvented == ASSUME IInv, [Next]_tronVars PROVE NothingInvented'
<1> USE DEF network, tracker
<1>0. TypeOK /\ BroadcastFirst /\ FoundInBlock /\ NothingInvented
  BY DEF IInv
<1>g. \A t \in Txs : /\ chain[t] # "none" => chain'[t] # "none"
                     /\ chain[t] = "block" => chain'[t] = "block"
  BY <1>0, ChainGrows
<1>1. ASSUME NEW t \in Txs, Schedule(t) \/ SavePending(t) \/ EmitPending(t) PROVE NothingInvented'
  <2>1. Done(t) /\ send[t] \in 1..3 /\ chain[t] # "none"
    BY <1>0, <1>1, AtFacts DEF Schedule, SavePending, EmitPending, BroadcastFirst, Ok
  <2>2. /\ send'[t] = send[t] + 1
        /\ \A u \in Txs : u # t => send'[u] = send[u]
    BY <1>0, <1>1, DoneFacts DEF Schedule, SavePending, EmitPending
  <2>3. CASE Schedule(t)
    <3>1. chain' = chain /\ stored' = stored /\ shown' = shown /\ finalized' = finalized
          /\ job' = [job EXCEPT ![t] = 1]
      BY <2>3 DEF Schedule
    <3> QED  BY <1>0, <2>1, <2>2, <3>1 DEF NothingInvented, TypeOK
  <2>4. CASE SavePending(t)
    <3>1. chain' = chain /\ shown' = shown /\ finalized' = finalized /\ job' = job
          /\ stored' = [stored EXCEPT ![t] = "pending"]
      BY <2>4 DEF SavePending
    <3> QED  BY <1>0, <2>1, <2>2, <3>1 DEF NothingInvented, TypeOK
  <2>5. CASE EmitPending(t)
    <3>1. chain' = chain /\ stored' = stored /\ finalized' = finalized /\ job' = job
          /\ shown' = [shown EXCEPT ![t] = "pending"]
      BY <2>5 DEF EmitPending
    <3> QED  BY <1>0, <2>1, <2>2, <3>1 DEF NothingInvented, TypeOK
  <2> QED  BY <1>1, <2>3, <2>4, <2>5
<1>2. ASSUME NEW t \in Txs, Broadcast(t) PROVE NothingInvented'
  <2>1. send[t] = 0 /\ send'[t] = 1 /\ \A u \in Txs : u # t => send'[u] = send[u]
    BY <1>0, <1>2, AtFacts, DoneFacts DEF Broadcast
  <2>2. stored' = stored /\ shown' = shown /\ job' = job /\ finalized' = finalized
    BY <1>2 DEF Broadcast
  <2> QED  BY <1>0, <1>g, <2>1, <2>2 DEF NothingInvented, Ok
<1>3. ASSUME NEW t \in Txs, Transient(t) \/ Abandon(t) PROVE NothingInvented'
  <2>1. \A u \in Txs : send'[u] = Ok => send[u] = Ok
    BY <1>0, <1>3 DEF Transient, Abandon, TypeOK, Ok, Failed
  <2>2. stored' = stored /\ shown' = shown /\ job' = job /\ finalized' = finalized
    BY <1>3 DEF Transient, Abandon
  <2> QED  BY <1>0, <1>g, <2>1, <2>2 DEF NothingInvented
<1>4. ASSUME NEW t \in Txs, Drop(t) \/ TrackAgain(t) \/ TrackFails(t) \/ TrackConfirmed(t) PROVE NothingInvented'
  <2>1. \A u \in Txs : job'[u] > 0 => job[u] > 0
    BY <1>0, <1>4, LaterFacts DEF Drop, TrackAgain, TrackFails, TrackConfirmed, TypeOK
  <2>2. stored' = stored /\ shown' = shown /\ send' = send /\ chain' = chain
    BY <1>4 DEF Drop, TrackAgain, TrackFails, TrackConfirmed
  <2>3. \A u \in Txs : finalized'[u] > 0 => finalized[u] > 0 \/ chain[u] = "block"
    BY <1>0, <1>4 DEF Drop, TrackAgain, TrackFails, TrackConfirmed, TypeOK
  <2> QED  BY <1>0, <2>1, <2>2, <2>3 DEF NothingInvented
<1>5. ASSUME NEW k \in Kinds, Save(k) \/ Emit(k) PROVE NothingInvented'
  <2>1. \A t \in Txs : t \in run[k].found => chain[t] = "block"
    BY <1>0 DEF FoundInBlock
  <2>2. \A t \in Txs : /\ stored'[t] = stored[t] \/ (stored'[t] = "confirmed" /\ t \in run[k].found)
                       /\ shown'[t] = shown[t] \/ (shown'[t] = "confirmed" /\ t \in run[k].found)
    BY <1>5 DEF Save, Emit
  <2>3. send' = send /\ chain' = chain /\ job' = job /\ finalized' = finalized
    BY <1>5 DEF Save, Emit
  <2> QED  BY <1>0, <2>1, <2>2, <2>3 DEF NothingInvented
<1>6. ASSUME UNCHANGED <<stored, shown, send, job, finalized>> PROVE NothingInvented'
  BY <1>0, <1>g, <1>6 DEF NothingInvented
<1> QED
  BY <1>1, <1>2, <1>3, <1>4, <1>5, <1>6
  DEF Next, Request, Track, Sync, Fetch, FetchFails, EmitFails, Cron, Wanted, Direct, Lock, Unlock, Mine, tronVars

------------------------------------------------------------------------------
\* What the client is told

LEMMA StepTold == ASSUME IInv, [Next]_tronVars PROVE ConfirmedIsTold'
<1> USE DEF network, tracker
<1>0. TypeOK /\ ConfirmedIsTold
  BY DEF IInv
<1>1. ASSUME NEW t \in Txs, SavePending(t) PROVE ConfirmedIsTold'
  <2>1. \A u \in Txs : stored'[u] = "confirmed" => stored[u] = "confirmed"
    BY <1>0, <1>1 DEF SavePending, TypeOK
  <2>2. shown' = shown /\ missed' = missed /\ run' = run
    BY <1>1 DEF SavePending
  <2> QED  BY <1>0, <2>1, <2>2 DEF ConfirmedIsTold
<1>2. ASSUME NEW t \in Txs, EmitPending(t) PROVE ConfirmedIsTold'
  <2>1. \A u \in Txs : shown'[u] = shown[u] \/ (u = t /\ (stored[u] = "confirmed" => u \in missed'))
    BY <1>0, <1>2 DEF EmitPending, TypeOK
  <2>2. stored' = stored /\ missed \subseteq missed' /\ run' = run
    BY <1>2 DEF EmitPending
  <2> QED  BY <1>0, <2>1, <2>2 DEF ConfirmedIsTold
<1>3. ASSUME NEW k \in Kinds, Save(k) PROVE ConfirmedIsTold'
  <2>1. run'[k].at = "emit" /\ run'[k].found = run[k].found /\ run[k].at = "save"
    BY <1>0, <1>3 DEF Save, TypeOK
  <2>2. \A q \in Kinds : run[q].at = "emit" => run'[q] = run[q]
    BY <1>0, <1>3 DEF Save, TypeOK
  <2>3. \A t \in Txs : t \notin run[k].found => stored'[t] = stored[t]
    BY <1>3 DEF Save
  <2>4. shown' = shown /\ missed' = missed
    BY <1>3 DEF Save
  <2> QED  BY <1>0, <2>1, <2>2, <2>3, <2>4 DEF ConfirmedIsTold
<1>4. ASSUME NEW k \in Kinds, Emit(k) PROVE ConfirmedIsTold'
  <2>1. \A t \in Txs : IF t \in run[k].found THEN shown'[t] = "confirmed"
                       ELSE shown'[t] = shown[t] /\ (t \in missed => t \in missed')
    BY <1>4 DEF Emit
  <2>2. stored' = stored /\ \A q \in Kinds : q # k => run'[q] = run[q]
    BY <1>0, <1>4 DEF Emit, TypeOK
  <2> QED  BY <1>0, <2>1, <2>2 DEF ConfirmedIsTold
<1>5. ASSUME NEW k \in Kinds, EmitFails(k) PROVE ConfirmedIsTold'
  <2>1. stored' = stored /\ shown' = shown /\ missed' = missed \cup run[k].found
    BY <1>5 DEF EmitFails
  <2>2. \A q \in Kinds : q # k => run'[q] = run[q]
    BY <1>0, <1>5 DEF EmitFails, TypeOK
  <2> QED  BY <1>0, <2>1, <2>2 DEF ConfirmedIsTold
<1>6. ASSUME NEW k \in Kinds, Start(k), UNCHANGED <<stored, shown, missed>> PROVE ConfirmedIsTold'
  <2>1. \A q \in Kinds : run[q].at = "emit" => run'[q] = run[q]
    BY <1>0, <1>6, StartFacts
  <2> QED  BY <1>0, <1>6, <2>1 DEF ConfirmedIsTold
<1>7. ASSUME NEW k \in Kinds, Fetch(k) \/ FetchFails(k) PROVE ConfirmedIsTold'
  <2>1. \A q \in Kinds : run[q].at = "emit" => run'[q] = run[q]
    BY <1>0, <1>7 DEF Fetch, FetchFails, TypeOK
  <2>2. UNCHANGED <<stored, shown, missed>>
    BY <1>7 DEF Fetch, FetchFails
  <2> QED  BY <1>0, <2>1, <2>2 DEF ConfirmedIsTold
<1>8. ASSUME UNCHANGED <<stored, shown, run>>, missed \subseteq missed' PROVE ConfirmedIsTold'
  BY <1>0, <1>8 DEF ConfirmedIsTold
<1>9. ASSUME NEW t \in Txs, Abandon(t) PROVE ConfirmedIsTold'
  <2>1. missed \subseteq missed'
    BY <1>9 DEF Abandon
  <2> QED  BY <1>8, <1>9, <2>1 DEF Abandon
<1>10. "shared" \in Kinds /\ "direct" \in Kinds
  BY DEF Kinds
<1>11. CASE Cron \/ Wanted \/ Direct
  BY <1>6, <1>8, <1>10, <1>11 DEF Cron, Wanted, Direct
<1>12. ASSUME NEW t \in Txs, TrackAgain(t) \/ TrackFails(t) PROVE ConfirmedIsTold'
  BY <1>6, <1>8, <1>10, <1>12 DEF TrackAgain, TrackFails
<1> QED
  BY <1>1, <1>2, <1>3, <1>4, <1>5, <1>7, <1>8, <1>9, <1>11, <1>12
  DEF Next, Request, Track, Sync, Broadcast, Transient, Schedule, Drop, TrackConfirmed, Lock, Unlock, Mine, tronVars

------------------------------------------------------------------------------
\* What is tracked and reported

LEMMA StepTracked == ASSUME IInv, [Next]_tronVars PROVE TrackedOnce'
<1> USE DEF network, tracker
<1>0. TypeOK /\ TrackedOnce
  BY DEF IInv
<1>f. \A t \in Txs : send[t] \in 0..5 /\ finalized[t] \in 0..2 /\ job[t] \in Nat
  BY <1>0, TronTransactionsAssumption DEF TypeOK, Failed
\* A request goes on or fails: what was scheduled stays so.
<1>1. ASSUME UNCHANGED <<flow, job, finalized>>, \A t \in Txs : send'[t] >= send[t] /\ send'[t] \in 0..5
      PROVE  TrackedOnce'
  BY <1>0, <1>f, <1>1 DEF TrackedOnce, Scheduled
<1>2. ASSUME NEW t \in Txs, Schedule(t) PROVE TrackedOnce'
  <2>1. /\ send[t] = IF flow[t] = "confirmSend" THEN 1 ELSE 3
        /\ send'[t] = send[t] + 1 /\ \A u \in Txs : u # t => send'[u] = send[u]
    BY <1>0, <1>2, AtFacts, DoneFacts DEF Schedule
  <2>2. flow' = flow /\ finalized' = finalized /\ job' = [job EXCEPT ![t] = 1]
    BY <1>2 DEF Schedule
  <2>3. finalized[t] = 0 /\ ~Scheduled(t)
    BY <1>0, <1>f, <2>1 DEF TrackedOnce, Scheduled
  <2>4. Scheduled(t)' /\ \A u \in Txs : u # t => (Scheduled(u)' <=> Scheduled(u))
    BY <2>1, <2>2 DEF Scheduled
  <2>5. \A u \in Txs : u # t => job'[u] = job[u]
    BY <1>0, <2>2 DEF TypeOK
  <2> QED  BY <1>0, <2>2, <2>3, <2>4, <2>5 DEF TrackedOnce
<1>3. ASSUME NEW t \in Txs, Broadcast(t) \/ SavePending(t) \/ EmitPending(t) \/ Transient(t) \/ Abandon(t)
      PROVE  TrackedOnce'
  <2>1. UNCHANGED <<flow, job, finalized>>
    BY <1>3 DEF Broadcast, SavePending, EmitPending, Transient, Abandon
  <2>2. CASE Done(t) /\ \E step : At(t, step)
    <3>1. \A u \in Txs : send'[u] = send[u] \/ (send'[u] = send[u] + 1 /\ send[u] \in 0..3)
      BY <1>0, <2>2, DoneFacts
    <3> QED  BY <1>1, <1>f, <2>1, <3>1
  <2>3. CASE send' = send \/ send' = [send EXCEPT ![t] = Failed]
    <3>1. \A u \in Txs : send'[u] = send[u] \/ send'[u] = 5
      BY <1>0, <2>3 DEF TypeOK, Failed
    <3> QED  BY <1>1, <1>f, <2>1, <3>1
  <2> QED  BY <1>3, <2>2, <2>3 DEF Broadcast, SavePending, EmitPending, Transient, Abandon
<1>4. ASSUME NEW t \in Txs, Drop(t) \/ TrackAgain(t) \/ TrackFails(t) PROVE TrackedOnce'
  <2>1. \A u \in Txs : job'[u] > 0 => job[u] > 0
    BY <1>0, <1>4, LaterFacts DEF Drop, TrackAgain, TrackFails, TypeOK
  <2>2. UNCHANGED <<flow, send, finalized>>
    BY <1>4 DEF Drop, TrackAgain, TrackFails
  <2> QED  BY <1>0, <2>1, <2>2 DEF TrackedOnce, Scheduled
<1>5. ASSUME NEW t \in Txs, TrackConfirmed(t) PROVE TrackedOnce'
  <2>1. Scheduled(t) /\ finalized[t] = 0
    BY <1>0, <1>5 DEF TrackConfirmed, TrackedOnce
  <2>2. UNCHANGED <<flow, send>>
    BY <1>5 DEF TrackConfirmed
  <2>3. job'[t] = 0 /\ finalized'[t] = 1 /\ \A u \in Txs : u # t => job'[u] = job[u] /\ finalized'[u] = finalized[u]
    BY <1>0, <1>5, <2>1 DEF TrackConfirmed, TypeOK
  <2>4. \A u \in Txs : Scheduled(u)' <=> Scheduled(u)
    BY <2>2 DEF Scheduled
  <2> QED  BY <1>0, <2>1, <2>3, <2>4 DEF TrackedOnce
<1>6. ASSUME UNCHANGED <<flow, send, job, finalized>> PROVE TrackedOnce'
  BY <1>0, <1>6 DEF TrackedOnce, Scheduled
<1> QED
  BY <1>2, <1>3, <1>4, <1>5, <1>6
  DEF Next, Request, Track, Sync, Fetch, FetchFails, Save, Emit, EmitFails, Cron, Wanted, Direct, Lock, Unlock, Mine,
      tronVars

------------------------------------------------------------------------------
\* The theorems

LEMMA StepInv == ASSUME IInv, [Next]_tronVars PROVE IInv'
BY StepTypes, StepBroadcast, StepFound, StepNothingInvented, StepTold, StepTracked DEF IInv

LEMMA InvCorrect == Spec => []IInv
BY InitInv, StepInv, PTL DEF Spec

\* The counters stay within their bounds: no request retries, and no tracker tries, too often.
THEOREM TypeCorrect == Spec => []TypeOK
<1>1. IInv => TypeOK
  BY DEF IInv
<1> QED  BY <1>1, InvCorrect, PTL

\* Nothing is stored, shown or tracked that was not broadcast, and nothing called confirmed or
\* final that is not in a block, whatever answers are lost.
THEOREM InventedCorrect == Spec => []NothingInvented
<1>1. IInv => NothingInvented
  BY DEF IInv
<1> QED  BY <1>1, InvCorrect, PTL

\* The client shows as confirmed what the state has as confirmed, or is about to, or an event of
\* it was refused or came late.
THEOREM ToldCorrect == Spec => []ConfirmedIsTold
<1>1. IInv => ConfirmedIsTold
  BY DEF IInv
<1> QED  BY <1>1, InvCorrect, PTL

\* No transaction is reported final twice, however often its tracker is retried.
THEOREM FinalizedCorrect == Spec => []FinalizedOnce
<1>1. IInv => FinalizedOnce
  <2> SUFFICES ASSUME IInv, NEW t \in Txs PROVE finalized[t] <= 1
    BY DEF FinalizedOnce
  <2>1. finalized[t] \in 0..2 /\ (finalized[t] > 0 => finalized[t] = 1)
    BY DEF IInv, TypeOK, TrackedOnce
  <2> QED  BY <2>1
<1> QED  BY <1>1, InvCorrect, PTL

\* The history invents nothing, is told to the client or known to be missed, and is reported final once.
THEOREM HistoryCorrect == Spec => []HistoryRight
<1>1. NothingInvented /\ ConfirmedIsTold /\ FinalizedOnce => HistoryRight
  BY DEF HistoryRight
<1> QED  BY <1>1, InventedCorrect, ToldCorrect, FinalizedCorrect, PTL

\* Only the save of the request that sends it takes a confirmed transaction back to pending.
THEOREM DemotedCorrect == Spec => DemotedBySendOnly
<1>1. IInv /\ [Next]_tronVars
        => [\A t \in Txs : stored[t] = "confirmed" /\ stored'[t] # "confirmed" => At(t, "save")]_tronVars
  <2> SUFFICES ASSUME TypeOK, Next, NEW t \in Txs, stored[t] = "confirmed", stored'[t] # "confirmed"
               PROVE  At(t, "save")
    BY DEF IInv
  <2>1. PICK u \in Txs : SavePending(u)
    BY DEF Next, Request, Track, Sync, Broadcast, Schedule, EmitPending, Transient, Abandon, Drop, TrackAgain,
       TrackFails, TrackConfirmed, Fetch, FetchFails, Save, Emit, EmitFails, Cron, Wanted, Direct, Lock, Unlock, Mine
  <2>2. u = t
    BY <2>1 DEF SavePending, TypeOK
  <2> QED  BY <2>1, <2>2 DEF SavePending
<1> QED  BY <1>1, InvCorrect, PTL DEF Spec, DemotedBySendOnly

------------------------------------------------------------------------------
\* The other components are instanced with constants and variables of their own; those that have the name of one above
\* (stored, send, chain, flow, job, open, troubles, MaxTroubles) belong to no proof about both.
CONSTANTS
    SendKinds, MaxBalance, Burned, MaxAmount, MaxChanges, MaxScheduled,        \* TronRequests
    Sources, Calls, MaxIndex, MaxIds, MaxDeletions,                            \* TronAccounts
    Dialogs, Signing, NoDialog, NoScan, Expired, MaxHead                       \* TronConfirmation

VARIABLES
    node, cached, typed, steady, fetchedOk, held, remembered, call, scheduled, behind, undisturbed, changes,
    accounts, calls, drawn, deleted, request,
    scanning, head, ui, context, result, kept, idMap, answer, due

------------------------------------------------------------------------------
\* Sending and staking

Requests == INSTANCE TronRequests WITH Kinds <- SendKinds

\* While nothing has changed since the balances were fetched, what the request holds, and what is saved, is what the
\* node has; and the fee is that of the node.
FetchedHolds ==
    fetchedOk =>
        /\ send.pc \in {"fetched", "read", "built", "asked"} => send.snapshot = node
        /\ send.pc \in {"read", "built", "asked"} => stored = node
        /\ send.pc \in {"built", "asked"} => send.fee = Requests!trxFee(node)
                                             /\ Requests!Verdict(send.kind, send.amount, node) = "valid"
        /\ send.pc = "asked" => send.paid = Requests!trxFee(node)
        /\ send.answer # "refused"

\* While nothing has changed since the amount was typed, both judges read what the node has.
SteadyHolds ==
    steady /\ send.pc # "answered" =>
        /\ stored = node /\ cached \in {Requests!Nothing, node}
        /\ send.pc = "fetched" => send.snapshot = node
        /\ typed \notin {"invalid", "none"} => typed = Requests!Verdict(send.kind, send.amount, node)
        /\ send.pc \in {"built", "asked"} /\ typed # "invalid" => typed = "valid"

\* A request is confirmed after the amount was typed.
TypedFirst == send.pc # "none" => typed # "none"

Unanswered == send.pc # "answered" => send.answer = "none"

\* Balances were fetched before they are judged.
Snapped == send.pc \in {"fetched", "read", "built", "asked"} => send.snapshot \in Requests!Saved

SendInv == Requests!SendTypeOK /\ Snapped /\ FetchedHolds /\ SteadyHolds /\ TypedFirst /\ Unanswered /\ Requests!ConfirmAgrees

LEMMA SendConstants ==
    ASSUME Requests!TronRequestsAssumption
    PROVE  /\ SendKinds \subseteq {"trx", "token"} /\ MaxBalance \in Nat /\ Burned \in Nat \ {0}
           /\ MaxAmount \in Nat \ {0} /\ MaxChanges \in Nat /\ MaxScheduled \in Nat \ {0} /\ MaxTroubles \in Nat
BY DEF Requests!TronRequestsAssumption

LEMMA SendInitInv == ASSUME Requests!TronRequestsAssumption, Requests!SendInit PROVE SendInv
<1>1. Requests!NoSend \in Requests!Sends
  BY SendConstants DEF Requests!Sends, Requests!NoSend, Requests!Verdicts
<1>2. node \in Requests!Holdings /\ stored \in Requests!Saved
  BY SendConstants DEF Requests!SendInit, Requests!None, Requests!Holdings, Requests!Saved
<1>3. Requests!SendTypeOK
  <2>1. cached \in Requests!Holdings \cup {Requests!Nothing} /\ typed \in Requests!Verdicts
    BY DEF Requests!SendInit, Requests!Verdicts
  <2>2. changes \in 0..MaxChanges /\ troubles \in 0..MaxTroubles
    BY SendConstants DEF Requests!SendInit
  <2>3. steady \in BOOLEAN /\ fetchedOk \in BOOLEAN /\ send = Requests!NoSend
    BY DEF Requests!SendInit
  <2> QED  BY <1>1, <1>2, <2>1, <2>2, <2>3 DEF Requests!SendTypeOK
<1> QED
  BY <1>3 DEF SendInv, Snapped, Requests!SendInit, Requests!NoSend, FetchedHolds, SteadyHolds, TypedFirst, Unanswered,
              Requests!ConfirmAgrees

LEMMA SendTroubles == ASSUME Requests!TronRequestsAssumption, Requests!SendTypeOK, Requests!Trouble PROVE troubles' \in 0..MaxTroubles
BY SendConstants DEF Requests!SendTypeOK, Requests!Trouble

LEMMA VerdictIsOne ==
    ASSUME NEW kind, NEW amount, NEW balances
    PROVE  Requests!Verdict(kind, amount, balances) \in {"insufficientBalance", "insufficientBalanceToCoverFee", "valid"}
BY DEF Requests!Verdict

LEMMA MergedType ==
    ASSUME Requests!TronRequestsAssumption, Requests!SendTypeOK, NEW s \in Requests!Saved
    PROVE  Requests!Merged(s) \in Requests!Saved
BY SendConstants DEF Requests!Merged, Requests!Saved, Requests!None

LEMMA SnapshotType ==
    ASSUME Requests!TronRequestsAssumption, Requests!SendTypeOK
    PROVE  LET got == IF cached = Requests!Nothing THEN node ELSE cached
           IN  /\ got \in Requests!Holdings /\ got \in Requests!Saved
               /\ [got EXCEPT !.token = Requests!None] \in Requests!Saved
BY SendConstants DEF Requests!SendTypeOK, Requests!Holdings, Requests!Saved, Requests!None

\* What the steps of a request leave is a request.
LEMMA SendForms ==
    ASSUME Requests!TronRequestsAssumption, send \in Requests!Sends
    PROVE  /\ [send EXCEPT !.pc = "fetching"] \in Requests!Sends
           /\ \A s \in Requests!Saved : /\ [send EXCEPT !.pc = "fetched", !.snapshot = s] \in Requests!Sends
                                       /\ [send EXCEPT !.pc = "read", !.snapshot = s] \in Requests!Sends
           /\ \A b : [send EXCEPT !.pc = "built", !.fee = Requests!trxFee(b)] \in Requests!Sends
           /\ \A b : [send EXCEPT !.pc = "asked", !.paid = Requests!trxFee(b)] \in Requests!Sends
           /\ \A kind \in SendKinds, amount \in 1..MaxBalance :
                  [Requests!NoSend EXCEPT !.kind = kind, !.amount = amount] \in Requests!Sends
<1>1. /\ [send EXCEPT !.pc = "fetching"] \in Requests!Sends
      /\ \A s \in Requests!Saved : /\ [send EXCEPT !.pc = "fetched", !.snapshot = s] \in Requests!Sends
                                  /\ [send EXCEPT !.pc = "read", !.snapshot = s] \in Requests!Sends
  BY DEF Requests!Sends
<1>2. \A b : Requests!trxFee(b) \in {0, Burned}
  BY DEF Requests!trxFee
<1>3. \A f \in {0, Burned} : /\ [send EXCEPT !.pc = "built", !.fee = f] \in Requests!Sends
                            /\ [send EXCEPT !.pc = "asked", !.paid = f] \in Requests!Sends
  BY DEF Requests!Sends
<1>4. ASSUME NEW kind \in SendKinds, NEW amount \in 1..MaxBalance
      PROVE  [Requests!NoSend EXCEPT !.kind = kind, !.amount = amount] \in Requests!Sends
  <2>1. 0 \in 0..MaxBalance /\ amount \in 0..MaxBalance
    BY SendConstants
  <2> QED  BY <2>1 DEF Requests!Sends, Requests!NoSend, Requests!Verdicts
<1> QED  BY <1>1, <1>2, <1>3, <1>4

LEMMA SendTypes == ASSUME Requests!TronRequestsAssumption, SendInv, Requests!SendStep PROVE Requests!SendTypeOK'
<1>0. Requests!SendTypeOK /\ Snapped
  BY DEF SendInv
<1>a. ASSUME NEW v \in Requests!Verdicts \cup {"submitted", "refused", "rejected", "failed"}
      PROVE  Requests!Answer(v) \in Requests!Sends
  BY <1>0, <1>a DEF Requests!SendTypeOK, Requests!Answer, Requests!Sends
<1>t. Requests!Trouble => troubles' \in 0..MaxTroubles
  BY <1>0, SendTroubles
<1>1. ASSUME NEW kind \in SendKinds, NEW amount \in 1..MaxBalance, Requests!onAmountInput(kind, amount) PROVE Requests!SendTypeOK'
  <2>1. send' \in Requests!Sends
    BY <1>0, <1>1, SendForms DEF Requests!SendTypeOK, Requests!onAmountInput
  <2>2. typed' \in Requests!Verdicts
    BY <1>1, VerdictIsOne DEF Requests!onAmountInput, Requests!Verdicts
  <2>3. troubles' \in 0..MaxTroubles /\ steady' \in BOOLEAN
    BY <1>0, <1>1, <1>t DEF Requests!onAmountInput, Requests!SendTypeOK
  <2> QED  BY <1>0, <1>1, <2>1, <2>2, <2>3 DEF Requests!SendTypeOK, Requests!onAmountInput
<1>2. CASE Requests!ConfirmSend
  <2>1. send' \in Requests!Sends
    BY <1>0, <1>2, SendForms DEF Requests!SendTypeOK, Requests!ConfirmSend
  <2> QED  BY <1>0, <1>2, <2>1 DEF Requests!SendTypeOK, Requests!ConfirmSend
<1>3. CASE Requests!FetchAssets
  <2>1. send' \in Requests!Sends
    <3>1. send' = Requests!Answer("failed") \/ \E s \in Requests!Saved : send' = [send EXCEPT !.pc = "fetched", !.snapshot = s]
      BY <1>0, <1>3, SnapshotType DEF Requests!FetchAssets
    <3> QED  BY <1>0, <1>a, <3>1, SendForms DEF Requests!SendTypeOK
  <2>2. cached' \in Requests!Holdings \cup {Requests!Nothing}
    BY <1>0, <1>3, SnapshotType DEF Requests!FetchAssets, Requests!SendTypeOK
  <2>3. troubles' \in 0..MaxTroubles
    BY <1>0, <1>3, <1>t DEF Requests!FetchAssets, Requests!SendTypeOK
  <2>4. steady' \in BOOLEAN /\ fetchedOk' \in BOOLEAN
    BY <1>0, <1>3 DEF Requests!FetchAssets, Requests!SendTypeOK
  <2> QED  BY <1>0, <1>3, <2>1, <2>2, <2>3, <2>4 DEF Requests!SendTypeOK, Requests!FetchAssets
<1>4. CASE Requests!SaveAndRead
  <2>1. stored' \in Requests!Saved
    BY <1>0, <1>4, MergedType DEF Requests!SaveAndRead, Snapped
  <2>2. send' \in Requests!Sends
    <3>1. send' = Requests!Answer("insufficientBalance") \/ send' = [send EXCEPT !.pc = "read", !.snapshot = stored']
      BY <1>4 DEF Requests!SaveAndRead
    <3> QED  BY <1>0, <1>a, <2>1, <3>1, SendForms DEF Requests!SendTypeOK, Requests!Verdicts
  <2> QED  BY <1>0, <1>4, <2>1, <2>2 DEF Requests!SendTypeOK, Requests!SaveAndRead
<1>5. CASE Requests!ValidateSend
  <2>1. send' \in Requests!Sends
    <3>1. Requests!Verdict(send.kind, send.amount, stored) \in Requests!Verdicts
      BY VerdictIsOne DEF Requests!Verdicts
    <3> QED  BY <1>0, <1>5, <1>a, <3>1, SendForms DEF Requests!SendTypeOK, Requests!ValidateSend
  <2> QED  BY <1>0, <1>5, <2>1 DEF Requests!SendTypeOK, Requests!ValidateSend
<1>6. CASE Requests!AskUser
  <2>1. send' \in Requests!Sends
    BY <1>0, <1>6, <1>a, SendForms DEF Requests!SendTypeOK, Requests!AskUser
  <2>2. troubles' \in 0..MaxTroubles
    BY <1>0, <1>6, <1>t DEF Requests!AskUser, Requests!SendTypeOK
  <2> QED  BY <1>0, <1>6, <2>1, <2>2 DEF Requests!SendTypeOK, Requests!AskUser
<1>7. CASE Requests!UserRejects
  BY <1>0, <1>7, <1>a DEF Requests!SendTypeOK, Requests!UserRejects
<1>8. CASE Requests!Broadcast
  <2>1. send' \in Requests!Sends
    BY <1>8, <1>a DEF Requests!Broadcast
  <2>2. node' \in Requests!Holdings
    <3>1. CASE Requests!Verdict(send.kind, send.amount, node) = "valid"
      <4>1. send.kind \in {"trx", "token"} /\ send.amount \in Nat /\ Requests!trxFee(node) \in Nat
        BY <1>0, SendConstants DEF Requests!SendTypeOK, Requests!Sends, Requests!trxFee
      <4>2. node.trx \in 0..MaxBalance /\ node.token \in 0..MaxBalance /\ node.pays \in BOOLEAN
        BY <1>0 DEF Requests!SendTypeOK, Requests!Holdings
      <4>3. CASE send.kind = "trx"
        <5>1. send.amount + Requests!trxFee(node) <= node.trx
          BY <3>1, <4>1, <4>2, <4>3 DEF Requests!Verdict
        <5>2. node' = [node EXCEPT !.trx = @ - Requests!trxFee(node) - send.amount, !.token = @ - 0]
          BY <1>8, <3>1, <4>3 DEF Requests!Broadcast
        <5>3. node.trx - Requests!trxFee(node) - send.amount \in 0..MaxBalance /\ node.token - 0 \in 0..MaxBalance
          BY <4>1, <4>2, <5>1, SendConstants
        <5>4. node \in [trx : 0..MaxBalance, token : 0..MaxBalance, pays : BOOLEAN]
          BY <1>0 DEF Requests!SendTypeOK, Requests!Holdings
        <5> QED  BY <5>2, <5>3, <5>4 DEF Requests!Holdings
      <4>4. CASE send.kind = "token"
        <5>1. Requests!trxFee(node) <= node.trx /\ send.amount <= node.token
          BY <3>1, <4>1, <4>2, <4>4, SendConstants DEF Requests!Verdict, Requests!Amount, Requests!None
        <5>2. node' = [node EXCEPT !.trx = @ - Requests!trxFee(node) - 0, !.token = @ - send.amount]
          BY <1>8, <3>1, <4>4 DEF Requests!Broadcast
        <5>3. node.trx - Requests!trxFee(node) - 0 \in 0..MaxBalance /\ node.token - send.amount \in 0..MaxBalance
          BY <4>1, <4>2, <5>1, SendConstants
        <5>4. node \in [trx : 0..MaxBalance, token : 0..MaxBalance, pays : BOOLEAN]
          BY <1>0 DEF Requests!SendTypeOK, Requests!Holdings
        <5> QED  BY <5>2, <5>3, <5>4 DEF Requests!Holdings
      <4> QED  BY <4>1, <4>3, <4>4
    <3> QED  BY <1>0, <1>8, <3>1 DEF Requests!SendTypeOK, Requests!Broadcast
  <2> QED  BY <1>0, <1>8, <2>1, <2>2 DEF Requests!SendTypeOK, Requests!Broadcast
<1>9. CASE Requests!AccountChanges
  <2>1. node' \in Requests!Holdings /\ changes' \in 0..MaxChanges /\ steady' \in BOOLEAN /\ fetchedOk' \in BOOLEAN
    <3>1. node' \in Requests!Holdings
      BY <1>9 DEF Requests!AccountChanges
    <3>2. changes' \in 0..MaxChanges
      BY <1>0, <1>9, SendConstants DEF Requests!SendTypeOK, Requests!AccountChanges
    <3>3. steady' \in BOOLEAN /\ fetchedOk' \in BOOLEAN
      BY <1>9 DEF Requests!AccountChanges
    <3> QED  BY <3>1, <3>2, <3>3
  <2> QED  BY <1>0, <1>9, <2>1 DEF Requests!SendTypeOK, Requests!AccountChanges
<1>10. CASE Requests!CacheExpires
  BY <1>0, <1>10 DEF Requests!SendTypeOK, Requests!CacheExpires
<1>11. ASSUME NEW priced \in BOOLEAN, Requests!Synchronise(priced) PROVE Requests!SendTypeOK'
  <2>1. stored' \in Requests!Saved /\ cached' \in Requests!Holdings \cup {Requests!Nothing}
    BY <1>0, <1>11, SnapshotType, MergedType DEF Requests!Synchronise
  <2>2. troubles' \in 0..MaxTroubles
    BY <1>0, <1>11, <1>t DEF Requests!Synchronise, Requests!SendTypeOK
  <2>3. steady' \in BOOLEAN /\ fetchedOk' \in BOOLEAN
    BY <1>11 DEF Requests!Synchronise
  <2> QED  BY <1>0, <1>11, <2>1, <2>2, <2>3 DEF Requests!SendTypeOK, Requests!Synchronise
<1> QED
  BY <1>1, <1>2, <1>3, <1>4, <1>5, <1>6, <1>7, <1>8, <1>9, <1>10, <1>11 DEF Requests!SendStep

\* What the node has is merged into the saved balances as it is.
LEMMA NodeFacts ==
    ASSUME Requests!TronRequestsAssumption, Requests!SendTypeOK
    PROVE  /\ Requests!Merged(node) = node
           /\ \A kind \in SendKinds \cup {"trx"} : node[kind] # Requests!None
           /\ node # Requests!Nothing
<1>1. /\ node \in [trx : 0..MaxBalance, token : 0..MaxBalance, pays : BOOLEAN]
      /\ node.trx # -1 /\ node.token # -1
  BY SendConstants DEF Requests!SendTypeOK, Requests!Holdings
<1>2. Requests!Merged(node) = node
  BY <1>1 DEF Requests!Merged, Requests!None
<1>3. \A kind \in {"trx", "token"} : node[kind] # Requests!None
  BY <1>1 DEF Requests!None
<1> QED  BY <1>1, <1>2, <1>3, SendConstants DEF Requests!Nothing, Requests!None

LEMMA SendFetched == ASSUME Requests!TronRequestsAssumption, SendInv, Requests!SendStep PROVE FetchedHolds'
<1>0. Requests!SendTypeOK /\ FetchedHolds /\ Unanswered
  BY DEF SendInv
<1>s. \A v : Requests!Answer(v).pc = "answered" /\ Requests!Answer(v).answer = v
  BY <1>0 DEF Requests!SendTypeOK, Requests!Sends, Requests!Answer
<1>1. ASSUME NEW kind \in SendKinds, NEW amount \in 1..MaxBalance, Requests!onAmountInput(kind, amount) PROVE FetchedHolds'
  <2>1. send'.pc = "none" /\ send'.answer = "none"
    BY <1>1 DEF Requests!onAmountInput, Requests!NoSend
  <2> QED  BY <2>1 DEF FetchedHolds
<1>2. CASE Requests!ConfirmSend
  <2>1. send'.pc = "fetching" /\ send'.answer = send.answer
    BY <1>0, <1>2 DEF Requests!ConfirmSend, Requests!SendTypeOK, Requests!Sends
  <2> QED  BY <1>0, <1>2, <2>1 DEF FetchedHolds, Requests!ConfirmSend
<1>3. CASE Requests!FetchAssets
  <2>1. CASE send' = Requests!Answer("failed") /\ UNCHANGED fetchedOk
    BY <1>s, <2>1 DEF FetchedHolds
  <2>2. CASE send' # Requests!Answer("failed") \/ fetchedOk' # fetchedOk
    <3>1. PICK priced \in BOOLEAN :
            /\ send' = [send EXCEPT !.pc = "fetched", !.snapshot = IF priced THEN IF cached = Requests!Nothing THEN node ELSE cached
                          ELSE [IF cached = Requests!Nothing THEN node ELSE cached EXCEPT !.token = Requests!None]]
            /\ fetchedOk' = (priced /\ (IF cached = Requests!Nothing THEN node ELSE cached) = node)
      BY <1>3, <2>2 DEF Requests!FetchAssets
    <3>2. fetchedOk' => send'.snapshot = node
      BY <1>0, <3>1 DEF Requests!SendTypeOK, Requests!Sends
    <3>3. send'.pc = "fetched" /\ send'.answer = "none"
      BY <1>0, <1>3, <3>1 DEF Requests!SendTypeOK, Requests!Sends, Unanswered, Requests!FetchAssets
    <3> QED  BY <1>3, <3>2, <3>3 DEF FetchedHolds, Requests!FetchAssets
  <2> QED  BY <2>1, <2>2
<1>4. CASE Requests!SaveAndRead
  <2>1. fetchedOk => stored' = node
    BY <1>0, <1>4, NodeFacts DEF FetchedHolds, Requests!SaveAndRead
  <2>2. CASE send' = Requests!Answer("insufficientBalance")
    BY <1>s, <2>2 DEF FetchedHolds
  <2>3. CASE send' = [send EXCEPT !.pc = "read", !.snapshot = stored']
    <3>1. send'.pc = "read" /\ send'.snapshot = stored' /\ send'.answer = "none"
      BY <1>0, <1>4, <2>3 DEF Requests!SendTypeOK, Requests!Sends, Unanswered, Requests!SaveAndRead
    <3> QED  BY <1>4, <2>1, <3>1 DEF FetchedHolds, Requests!SaveAndRead
  <2> QED  BY <1>4, <2>2, <2>3 DEF Requests!SaveAndRead
<1>5. CASE Requests!ValidateSend
  <2>0. Requests!Verdict(send.kind, send.amount, stored) # "refused"
    BY VerdictIsOne
  <2>1. CASE Requests!Verdict(send.kind, send.amount, stored) # "valid"
    BY <1>5, <1>s, <2>0, <2>1 DEF FetchedHolds, Requests!ValidateSend
  <2>2. CASE Requests!Verdict(send.kind, send.amount, stored) = "valid"
    <3>1. /\ send'.pc = "built" /\ send'.fee = Requests!trxFee(stored) /\ send'.answer = "none"
          /\ send'.snapshot = send.snapshot /\ send'.kind = send.kind /\ send'.amount = send.amount
      BY <1>0, <1>5, <2>2 DEF Requests!SendTypeOK, Requests!Sends, Unanswered, Requests!ValidateSend
    <3> QED  BY <1>0, <1>5, <2>2, <3>1 DEF FetchedHolds, Requests!ValidateSend
  <2> QED  BY <2>1, <2>2
<1>6. CASE Requests!AskUser
  <2>1. CASE send' = Requests!Answer("failed")
    BY <1>s, <2>1 DEF FetchedHolds
  <2>2. CASE send' = [send EXCEPT !.pc = "asked", !.paid = Requests!trxFee(send.snapshot)]
    <3>1. /\ send'.pc = "asked" /\ send'.paid = Requests!trxFee(send.snapshot) /\ send'.answer = "none"
          /\ send'.snapshot = send.snapshot /\ send'.kind = send.kind /\ send'.amount = send.amount /\ send'.fee = send.fee
      BY <1>0, <1>6, <2>2 DEF Requests!SendTypeOK, Requests!Sends, Unanswered, Requests!AskUser
    <3> QED  BY <1>0, <1>6, <3>1 DEF FetchedHolds, Requests!AskUser
  <2> QED  BY <1>6, <2>1, <2>2 DEF Requests!AskUser
<1>7. CASE Requests!UserRejects
  BY <1>7, <1>s DEF FetchedHolds, Requests!UserRejects
<1>8. CASE Requests!Broadcast
  <2>1. send'.pc = "answered" /\ fetchedOk' = fetchedOk
    BY <1>8, <1>s DEF Requests!Broadcast
  <2>2. fetchedOk => send'.answer = "submitted"
    BY <1>0, <1>8, <1>s DEF FetchedHolds, Requests!Broadcast
  <2> QED  BY <2>1, <2>2 DEF FetchedHolds
<1>9. CASE Requests!AccountChanges
  BY <1>9 DEF FetchedHolds, Requests!AccountChanges
<1>10. CASE Requests!CacheExpires
  BY <1>0, <1>10 DEF FetchedHolds, Requests!CacheExpires
<1>11. ASSUME NEW priced \in BOOLEAN, Requests!Synchronise(priced) PROVE FetchedHolds'
  <2>1. (fetchedOk' => fetchedOk /\ stored' = node) /\ UNCHANGED <<node, send>>
    BY <1>11 DEF Requests!Synchronise
  <2> QED  BY <1>0, <2>1 DEF FetchedHolds
<1> QED
  BY <1>1, <1>2, <1>3, <1>4, <1>5, <1>6, <1>7, <1>8, <1>9, <1>10, <1>11 DEF Requests!SendStep

LEMMA SendSteady == ASSUME Requests!TronRequestsAssumption, SendInv, Requests!SendStep PROVE SteadyHolds' /\ Requests!ConfirmAgrees'
<1>0. Requests!SendTypeOK /\ SteadyHolds /\ TypedFirst /\ Unanswered /\ Requests!ConfirmAgrees
  BY DEF SendInv
<1> DEFINE Good(a) == a \in {"failed"} \cup (IF typed = "valid" THEN {"submitted", "rejected"} ELSE {typed})
<1>s. \A v : Requests!Answer(v).pc = "answered" /\ Requests!Answer(v).answer = v
  BY <1>0 DEF Requests!SendTypeOK, Requests!Sends, Requests!Answer
\* A request that is answered.
<1>a. ASSUME NEW v, send' = Requests!Answer(v), typed' = typed, steady' => steady, steady /\ typed # "invalid" => Good(v)
      PROVE  SteadyHolds' /\ Requests!ConfirmAgrees'
  BY <1>a, <1>s DEF SteadyHolds, Requests!ConfirmAgrees
<1>1. ASSUME NEW kind \in SendKinds, NEW amount \in 1..MaxBalance, Requests!onAmountInput(kind, amount)
      PROVE  SteadyHolds' /\ Requests!ConfirmAgrees'
  <2>1. send'.pc = "none" /\ send'.kind = kind /\ send'.amount = amount
    BY <1>1 DEF Requests!onAmountInput, Requests!NoSend
  <2>2. steady' => stored' = node' /\ cached' \in {Requests!Nothing, node'}
    BY <1>1 DEF Requests!onAmountInput
  <2>3. steady' /\ typed' # "invalid" => typed' = Requests!Verdict(kind, amount, node)
    BY <1>0, <1>1, NodeFacts DEF Requests!onAmountInput
  <2> QED  BY <1>1, <2>1, <2>2, <2>3 DEF SteadyHolds, Requests!ConfirmAgrees, Requests!onAmountInput
<1>2. CASE Requests!ConfirmSend
  <2>1. send'.pc = "fetching" /\ send'.kind = send.kind /\ send'.amount = send.amount
    BY <1>0, <1>2 DEF Requests!ConfirmSend, Requests!SendTypeOK, Requests!Sends
  <2> QED  BY <1>0, <1>2, <2>1 DEF SteadyHolds, Requests!ConfirmAgrees, Requests!ConfirmSend
<1>3. CASE Requests!FetchAssets
  <2>1. CASE send' = Requests!Answer("failed") /\ UNCHANGED steady
    BY <1>3, <1>a, <2>1 DEF Requests!FetchAssets
  <2>2. ASSUME ~(send' = Requests!Answer("failed") /\ UNCHANGED steady) PROVE SteadyHolds' /\ Requests!ConfirmAgrees'
    <3> DEFINE got == IF cached = Requests!Nothing THEN node ELSE cached
    <3>1. PICK priced \in BOOLEAN :
            /\ cached' = got
            /\ send' = [send EXCEPT !.pc = "fetched", !.snapshot = IF priced THEN got ELSE [got EXCEPT !.token = Requests!None]]
            /\ steady' = (steady /\ priced)
      BY <1>3, <2>2 DEF Requests!FetchAssets
    <3>2. /\ send'.pc = "fetched" /\ send'.kind = send.kind /\ send'.amount = send.amount
          /\ steady' => send'.snapshot = got
      BY <1>0, <3>1 DEF Requests!SendTypeOK, Requests!Sends
    <3>3. steady' => steady /\ got = node
      BY <1>0, <1>3, <3>1 DEF SteadyHolds, Requests!FetchAssets
    <3> QED  BY <1>0, <1>3, <3>1, <3>2, <3>3 DEF SteadyHolds, Requests!ConfirmAgrees, Requests!FetchAssets
  <2> QED  BY <2>1, <2>2
<1>4. CASE Requests!SaveAndRead
  <2>1. steady => stored' = node
    BY <1>0, <1>4, NodeFacts DEF SteadyHolds, Requests!SaveAndRead
  <2>2. CASE stored'[send.kind] = Requests!None
    <3>1. send.kind \in SendKinds \cup {"trx"}
      BY <1>0 DEF Requests!SendTypeOK, Requests!Sends
    <3>2. ~steady
      BY <1>0, <2>1, <2>2, <3>1, NodeFacts
    <3> QED  BY <1>4, <1>a, <2>2, <3>2 DEF Requests!SaveAndRead
  <2>3. CASE stored'[send.kind] # Requests!None
    <3>1. send'.pc = "read" /\ send'.kind = send.kind /\ send'.amount = send.amount
      BY <1>0, <1>4, <2>3 DEF Requests!SendTypeOK, Requests!Sends, Requests!SaveAndRead
    <3> QED  BY <1>0, <1>4, <2>1, <3>1 DEF SteadyHolds, Requests!ConfirmAgrees, Requests!SaveAndRead
  <2> QED  BY <2>2, <2>3
<1>5. CASE Requests!ValidateSend
  <2>0. Requests!Verdict(send.kind, send.amount, stored) \in {"insufficientBalance", "insufficientBalanceToCoverFee", "valid"}
    BY VerdictIsOne
  <2>1. typed # "none"
    BY <1>0, <1>5 DEF TypedFirst, Requests!ValidateSend
  <2>2. steady /\ typed # "invalid" => typed = Requests!Verdict(send.kind, send.amount, stored)
    BY <1>0, <1>5, <2>1 DEF SteadyHolds, Requests!ValidateSend
  <2>3. CASE Requests!Verdict(send.kind, send.amount, stored) # "valid"
    BY <1>5, <1>a, <2>0, <2>2, <2>3 DEF Requests!ValidateSend
  <2>4. CASE Requests!Verdict(send.kind, send.amount, stored) = "valid"
    <3>1. send'.pc = "built" /\ send'.kind = send.kind /\ send'.amount = send.amount
      BY <1>0, <1>5, <2>4 DEF Requests!SendTypeOK, Requests!Sends, Requests!ValidateSend
    <3> QED  BY <1>0, <1>5, <2>2, <2>4, <3>1 DEF SteadyHolds, Requests!ConfirmAgrees, Requests!ValidateSend
  <2> QED  BY <2>3, <2>4
<1>6. CASE Requests!AskUser
  <2>1. CASE send' = Requests!Answer("failed")
    BY <1>6, <1>a, <2>1 DEF Requests!AskUser
  <2>2. CASE send' = [send EXCEPT !.pc = "asked", !.paid = Requests!trxFee(send.snapshot)]
    <3>1. send'.pc = "asked" /\ send'.kind = send.kind /\ send'.amount = send.amount
      BY <1>0, <2>2 DEF Requests!SendTypeOK, Requests!Sends
    <3> QED  BY <1>0, <1>6, <3>1 DEF SteadyHolds, Requests!ConfirmAgrees, Requests!AskUser
  <2> QED  BY <1>6, <2>1, <2>2 DEF Requests!AskUser
<1>7. CASE Requests!UserRejects
  BY <1>0, <1>7, <1>a DEF Requests!UserRejects, SteadyHolds
<1>8. CASE Requests!Broadcast
  <2>1. steady /\ typed # "invalid" => typed = "valid" /\ Requests!Verdict(send.kind, send.amount, node) = "valid"
    BY <1>0, <1>8 DEF SteadyHolds, Requests!Broadcast
  <2> QED  BY <1>8, <1>a, <2>1 DEF Requests!Broadcast
<1>9. CASE Requests!AccountChanges
  BY <1>9 DEF SteadyHolds, Requests!ConfirmAgrees, Requests!AccountChanges
<1>10. CASE Requests!CacheExpires
  BY <1>0, <1>10 DEF SteadyHolds, Requests!ConfirmAgrees, Requests!CacheExpires
<1>11. ASSUME NEW priced \in BOOLEAN, Requests!Synchronise(priced) PROVE SteadyHolds' /\ Requests!ConfirmAgrees'
  <2>1. (steady' => steady /\ stored' = node) /\ UNCHANGED <<node, send, typed>>
    BY <1>11 DEF Requests!Synchronise
  <2>2. cached' = IF cached = Requests!Nothing THEN node ELSE cached
    BY <1>11 DEF Requests!Synchronise
  <2> QED  BY <1>0, <2>1, <2>2 DEF SteadyHolds, Requests!ConfirmAgrees
<1> QED
  BY <1>1, <1>2, <1>3, <1>4, <1>5, <1>6, <1>7, <1>8, <1>9, <1>10, <1>11 DEF Requests!SendStep

LEMMA SendRest == ASSUME Requests!TronRequestsAssumption, SendInv, Requests!SendStep PROVE Snapped' /\ TypedFirst' /\ Unanswered'
<1>0. Requests!SendTypeOK /\ Snapped /\ TypedFirst /\ Unanswered
  BY DEF SendInv
<1>a. ASSUME NEW v, send' = Requests!Answer(v), typed' = typed, send.pc # "none" PROVE Snapped' /\ TypedFirst' /\ Unanswered'
  BY <1>0, <1>a DEF Requests!SendTypeOK, Requests!Sends, Requests!Answer, Snapped, TypedFirst, Unanswered
\* A request that goes on with the snapshot it has, or with another one.
<1>b. ASSUME typed' = typed, send.pc # "none", send.pc # "answered", send'.pc # "answered", send'.answer = send.answer,
             send'.snapshot \in Requests!Saved
      PROVE  Snapped' /\ TypedFirst' /\ Unanswered'
  BY <1>0, <1>b DEF Snapped, TypedFirst, Unanswered
<1>1. ASSUME NEW kind \in SendKinds, NEW amount \in 1..MaxBalance, Requests!onAmountInput(kind, amount)
      PROVE  Snapped' /\ TypedFirst' /\ Unanswered'
  BY <1>1 DEF Requests!onAmountInput, Requests!NoSend, Snapped, TypedFirst, Unanswered
<1>2. CASE Requests!ConfirmSend
  BY <1>0, <1>2 DEF Requests!ConfirmSend, Requests!SendTypeOK, Requests!Sends, Snapped, TypedFirst, Unanswered
<1>3. CASE Requests!FetchAssets
  <2>1. CASE send' = Requests!Answer("failed")
    BY <1>3, <1>a, <2>1 DEF Requests!FetchAssets
  <2>2. ASSUME NEW s \in Requests!Saved, send' = [send EXCEPT !.pc = "fetched", !.snapshot = s]
        PROVE  Snapped' /\ TypedFirst' /\ Unanswered'
    <3>1. send'.pc = "fetched" /\ send'.answer = send.answer /\ send'.snapshot = s
      BY <1>0, <2>2 DEF Requests!SendTypeOK, Requests!Sends
    <3> QED  BY <1>3, <1>b, <3>1 DEF Requests!FetchAssets
  <2> QED  BY <1>0, <1>3, <2>1, <2>2, SnapshotType DEF Requests!FetchAssets
<1>4. CASE Requests!SaveAndRead
  <2>1. CASE send' = Requests!Answer("insufficientBalance")
    BY <1>4, <1>a, <2>1 DEF Requests!SaveAndRead
  <2>2. CASE send' = [send EXCEPT !.pc = "read", !.snapshot = stored']
    <3>1. stored' \in Requests!Saved
      BY <1>0, <1>4, MergedType DEF Requests!SaveAndRead, Snapped
    <3>2. send'.pc = "read" /\ send'.answer = send.answer /\ send'.snapshot = stored'
      BY <1>0, <2>2 DEF Requests!SendTypeOK, Requests!Sends
    <3> QED  BY <1>4, <1>b, <3>1, <3>2 DEF Requests!SaveAndRead
  <2> QED  BY <1>4, <2>1, <2>2 DEF Requests!SaveAndRead
<1>5. CASE Requests!ValidateSend
  <2>1. CASE Requests!Verdict(send.kind, send.amount, stored) # "valid"
    BY <1>5, <1>a, <2>1 DEF Requests!ValidateSend
  <2>2. CASE Requests!Verdict(send.kind, send.amount, stored) = "valid"
    <3>1. send'.pc = "built" /\ send'.answer = send.answer /\ send'.snapshot = send.snapshot
      BY <1>0, <1>5, <2>2 DEF Requests!SendTypeOK, Requests!Sends, Requests!ValidateSend
    <3> QED  BY <1>0, <1>5, <1>b, <3>1 DEF Requests!ValidateSend, Snapped
  <2> QED  BY <2>1, <2>2
<1>6. CASE Requests!AskUser
  <2>1. CASE send' = Requests!Answer("failed")
    BY <1>6, <1>a, <2>1 DEF Requests!AskUser
  <2>2. CASE send' = [send EXCEPT !.pc = "asked", !.paid = Requests!trxFee(send.snapshot)]
    <3>1. send'.pc = "asked" /\ send'.answer = send.answer /\ send'.snapshot = send.snapshot
      BY <1>0, <2>2 DEF Requests!SendTypeOK, Requests!Sends
    <3> QED  BY <1>0, <1>6, <1>b, <3>1 DEF Requests!AskUser, Snapped
  <2> QED  BY <1>6, <2>1, <2>2 DEF Requests!AskUser
<1>7. CASE Requests!UserRejects
  BY <1>7, <1>a DEF Requests!UserRejects
<1>8. CASE Requests!Broadcast
  BY <1>8, <1>a DEF Requests!Broadcast
<1>9. CASE Requests!AccountChanges \/ Requests!CacheExpires \/ \E priced \in BOOLEAN : Requests!Synchronise(priced)
  BY <1>0, <1>9 DEF Requests!AccountChanges, Requests!CacheExpires, Requests!Synchronise, Snapped, TypedFirst, Unanswered
<1> QED
  BY <1>1, <1>2, <1>3, <1>4, <1>5, <1>6, <1>7, <1>8, <1>9 DEF Requests!SendStep

LEMMA SendCorrect == ASSUME Requests!TronRequestsAssumption PROVE Requests!SendSpec => []SendInv
<1>1. Requests!SendInit => SendInv
  BY SendInitInv
<1>2. SendInv /\ Requests!SendStep => SendInv'
  BY SendTypes, SendFetched, SendSteady, SendRest DEF SendInv
<1>3. SendInv /\ UNCHANGED Requests!sendVars => SendInv'
  BY DEF SendInv, Requests!sendVars, Requests!SendTypeOK, Snapped, FetchedHolds, SteadyHolds, TypedFirst, Unanswered,
         Requests!ConfirmAgrees
<1> QED  BY <1>1, <1>2, <1>3, PTL DEF Requests!SendSpec

\* For any balances and fees: as long as the saved balances were right and nothing changed, the judge of the typed and
\* the judge of the confirmed amount say the same (onAmountInput, validateSend).
THEOREM SendAgreed == ASSUME Requests!TronRequestsAssumption PROVE Requests!SendSpec => []Requests!ConfirmAgrees
<1>1. SendInv => Requests!ConfirmAgrees
  BY DEF SendInv
<1> QED  BY <1>1, SendCorrect, PTL

\* The network refuses a confirmed send for its balance only when the account has changed, or another snapshot was
\* saved, since the balances were fetched for it; and the dialog shows the fee the amount was judged with.
THEOREM SendAccepted ==
    ASSUME Requests!TronRequestsAssumption
    PROVE  Requests!SendSpec => [](Requests!RefusedOnlyIfMoved /\ Requests!FeeShownIsFeeJudged)
<1>1. SendInv => Requests!RefusedOnlyIfMoved /\ Requests!FeeShownIsFeeJudged
  BY DEF SendInv, FetchedHolds, Requests!RefusedOnlyIfMoved, Requests!FeeShownIsFeeJudged
<1> QED  BY <1>1, SendCorrect, PTL

------------------------------------------------------------------------------
\* Staking

\* A synchronisation is scheduled, or will be by the request under way, or could not be.
Owed == scheduled > 0 \/ behind \/ (call.pc \in {"sending", "ending"} /\ call.sent)

\* Saved and remembered stakes differ from the real ones only while that is so, and an answer from
\* after the last transaction is right.
StakesHeld ==
    \A p \in Requests!Purposes :
        /\ held[p] # chain[p] => Owed
        /\ remembered.age # "none" /\ remembered.assets[p] # chain[p] => Owed /\ remembered.age = "old"

\* While nothing has changed since the amount was typed, everything that is judged by is what the network has, and
\* every judgement is that of the typed amount.
JudgedAlike ==
    undisturbed /\ call.action \in Requests!Judged =>
        /\ call.pc \in {"none", "fetched", "confirmed"} =>
              /\ held = Requests!Snapshot(chain)
              /\ remembered.age = "none" \/ remembered.assets = Requests!Snapshot(chain)
              /\ call.typed = Requests!StakeVerdict(call.action, call.purpose, call.amount)
        /\ call.pc \in {"confirmed", "sending", "ending"} => call.typed = "valid"

\* Where a request is tells what became of its transactions.
CallOrder ==
    /\ call.sent => call.pc \in {"sending", "ending", "answered"}
    /\ call.pc = "fetched" => call.action \in Requests!Judged
    /\ call.pc = "confirmed" => call.action \in Requests!Actions
    /\ call.pc \notin {"ending", "answered"} => call.error = "none"
    /\ call.pc = "sending" => call.sent \/ call.todo # <<>>
    /\ call.pc = "ending" => call.todo = <<>> /\ (call.sent \/ call.error = "action")

StakingInv ==
    /\ Requests!StakingTypeOK /\ StakesHeld /\ JudgedAlike /\ CallOrder
    /\ Requests!StakeJudgedAlike /\ Requests!AllSentWhenValid

\* What a request can become is a request.
LEMMA StakeForms ==
    ASSUME Requests!TronRequestsAssumption, call \in Requests!StakeCalls
    PROVE  /\ Requests!NoCall \in Requests!StakeCalls
           /\ \A action \in Requests!Judged, purpose \in Requests!Purposes, amount \in Requests!Amounts, v \in {"valid", "insufficientBalance"} :
                [Requests!NoCall EXCEPT !.action = action, !.purpose = purpose, !.amount = amount, !.typed = v] \in Requests!StakeCalls
           /\ \A a \in Requests!Actions : [Requests!NoCall EXCEPT !.pc = "confirmed", !.action = a] \in Requests!StakeCalls
           /\ [Requests!NoCall EXCEPT !.pc = "answered", !.action = "claimUnstakedTrx", !.answer = "rejected"] \in Requests!StakeCalls
           /\ \A v \in {"fee", "insufficientBalance", "failed"} : [call EXCEPT !.preview = v] \in Requests!StakeCalls
           /\ \A v \in {"fetched", "confirmed", "ending"} : [call EXCEPT !.pc = v] \in Requests!StakeCalls
           /\ \A t \in Requests!Plans : /\ [call EXCEPT !.pc = "sending", !.todo = t] \in Requests!StakeCalls
                                       /\ [call EXCEPT !.todo = t, !.sent = TRUE] \in Requests!StakeCalls
           /\ [call EXCEPT !.pc = "ending", !.todo = <<>>, !.error = "action"] \in Requests!StakeCalls
           /\ \A v \in {"valid", "insufficientBalance", "rejected", "action", "schedule", "fetch"} :
                Requests!Answered(v) \in Requests!StakeCalls
<1>1. <<>> \in Requests!Plans /\ 0 \in Requests!Amounts /\ "bandwidth" \in Requests!Purposes
  BY SendConstants DEF Requests!Plans, Requests!Amounts, Requests!Purposes
<1>2. Requests!NoCall \in Requests!StakeCalls
  BY <1>1 DEF Requests!NoCall, Requests!StakeCalls
<1>3. \A action \in Requests!Judged, purpose \in Requests!Purposes, amount \in Requests!Amounts, v \in {"valid", "insufficientBalance"} :
        [Requests!NoCall EXCEPT !.action = action, !.purpose = purpose, !.amount = amount, !.typed = v] \in Requests!StakeCalls
  <2>1. Requests!Judged \subseteq Requests!Actions
    BY DEF Requests!Actions
  <2> QED  BY <1>1, <2>1 DEF Requests!NoCall, Requests!StakeCalls
<1>4. /\ \A a \in Requests!Actions : [Requests!NoCall EXCEPT !.pc = "confirmed", !.action = a] \in Requests!StakeCalls
      /\ [Requests!NoCall EXCEPT !.pc = "answered", !.action = "claimUnstakedTrx", !.answer = "rejected"] \in Requests!StakeCalls
  <2>1. "claimUnstakedTrx" \in Requests!Actions
    BY DEF Requests!Actions
  <2> QED  BY <1>1, <2>1 DEF Requests!NoCall, Requests!StakeCalls
<1>5. /\ \A v \in {"fee", "insufficientBalance", "failed"} : [call EXCEPT !.preview = v] \in Requests!StakeCalls
      /\ \A v \in {"fetched", "confirmed", "ending"} : [call EXCEPT !.pc = v] \in Requests!StakeCalls
  BY DEF Requests!StakeCalls
<1>6. \A t \in Requests!Plans : /\ [call EXCEPT !.pc = "sending", !.todo = t] \in Requests!StakeCalls
                                /\ [call EXCEPT !.todo = t, !.sent = TRUE] \in Requests!StakeCalls
  BY DEF Requests!StakeCalls
<1>7. [call EXCEPT !.pc = "ending", !.todo = <<>>, !.error = "action"] \in Requests!StakeCalls
  BY <1>1 DEF Requests!StakeCalls
<1>8. \A v \in {"valid", "insufficientBalance", "rejected", "action", "schedule", "fetch"} :
        Requests!Answered(v) \in Requests!StakeCalls
  BY DEF Requests!StakeCalls, Requests!Answered
<1> QED  BY <1>2, <1>3, <1>4, <1>5, <1>6, <1>7, <1>8

LEMMA Verdict2 ==
    ASSUME NEW action, NEW purpose, NEW amount
    PROVE  Requests!StakeVerdict(action, purpose, amount) \in {"insufficientBalance", "valid"}
BY DEF Requests!StakeVerdict

\* What is left of the transactions of a request.
LEMMA PlanFacts ==
    /\ \A t \in Requests!Plans : t # <<>> => Tail(t) \in Requests!Plans /\ Head(t) \in {"freeze", "vote", "unfreeze", "withdraw", "claim"}
    /\ \A a \in Requests!Actions : Requests!buildTransactions(a) \in Requests!Plans /\ Requests!buildTransactions(a) # <<>>
<1>1. ASSUME NEW t \in Requests!Plans, t # <<>>
      PROVE  Tail(t) \in Requests!Plans /\ Head(t) \in {"freeze", "vote", "unfreeze", "withdraw", "claim"}
  <2>1. CASE t = <<"freeze", "vote">>
    <3>1. Tail(t) = <<"vote">> /\ Head(t) = "freeze"
      BY <2>1
    <3> QED  BY <3>1 DEF Requests!Plans
  <2>2. ASSUME NEW a \in {"vote", "unfreeze", "withdraw", "claim"}, t = <<a>> 
        PROVE Tail(t) \in Requests!Plans /\ Head(t) \in {"freeze", "vote", "unfreeze", "withdraw", "claim"}
    <3>1. Tail(t) = <<>> /\ Head(t) = a
      BY <2>2
    <3> QED  BY <3>1 DEF Requests!Plans
  <2> QED  BY <1>1, <2>1, <2>2 DEF Requests!Plans
<1>2. \A a \in Requests!Actions : Requests!buildTransactions(a) \in Requests!Plans /\ Requests!buildTransactions(a) # <<>>
  BY DEF Requests!Actions, Requests!Judged, Requests!Plans, Requests!buildTransactions
<1> QED  BY <1>1, <1>2

\* The network keeps amounts that are natural numbers.
LEMMA AppliedType ==
    ASSUME Requests!TronRequestsAssumption, Requests!StakingTypeOK, NEW t \in {"freeze", "vote", "unfreeze", "withdraw", "claim"},
           Requests!Possible(t, call.purpose, call.amount)
    PROVE  Requests!Applied(t, call.purpose, call.amount) \in [Requests!Entries \cup {"unfreezing", "rewards", "votes"} -> Nat]
<1> DEFINE All == Requests!Entries \cup {"unfreezing", "rewards", "votes"}
<1>1. chain \in [All -> Nat] /\ {"free", "unfreezing", "rewards", "votes"} \subseteq All
  BY DEF Requests!StakingTypeOK, Requests!Entries
<1>2. call.purpose \in All /\ call.purpose \notin {"free", "unfreezing", "rewards", "votes"} /\ call.amount \in Nat
  BY SendConstants DEF Requests!StakingTypeOK, Requests!StakeCalls, Requests!Entries, Requests!Purposes, Requests!Amounts
<1>3. \A e \in All : chain[e] \in Nat
  BY <1>1
<1> HIDE DEF All
<1>4. CASE t = "freeze"
  <2>1. call.amount <= chain["free"]
    BY <1>4 DEF Requests!Possible
  <2>2. chain["free"] - call.amount \in Nat /\ chain[call.purpose] + call.amount \in Nat
    BY <1>1, <1>2, <1>3, <2>1
  <2> QED  BY <1>1, <1>2, <1>4, <2>2 DEF Requests!Applied, All
<1>5. CASE t = "unfreeze"
  <2>1. call.amount <= chain[call.purpose]
    BY <1>5 DEF Requests!Possible
  <2>2. chain[call.purpose] - call.amount \in Nat /\ chain["unfreezing"] + call.amount \in Nat
    BY <1>1, <1>2, <1>3, <2>1
  <2> QED  BY <1>1, <1>2, <1>5, <2>2 DEF Requests!Applied, All
<1>6. CASE t = "vote"
  BY <1>1, <1>2, <1>6 DEF Requests!Applied, All
<1>7. CASE t = "withdraw"
  <2>1. chain["free"] + chain["unfreezing"] \in Nat
    BY <1>1, <1>3
  <2> QED  BY <1>1, <1>7, <2>1 DEF Requests!Applied, All
<1>8. CASE t = "claim"
  <2>1. chain["free"] + chain["rewards"] \in Nat
    BY <1>1, <1>3
  <2> QED  BY <1>1, <1>8, <2>1 DEF Requests!Applied, All
<1> QED  BY <1>4, <1>5, <1>6, <1>7, <1>8

LEMMA FetchedType ==
    ASSUME Requests!StakingTypeOK
    PROVE  /\ Requests!Snapshot(chain) \in [Requests!Entries -> Nat] /\ Requests!Fetched \in [Requests!Entries -> Nat]
           /\ Requests!Remember \in [age : {"none", "fresh", "old"}, assets : [Requests!Entries -> Nat]]
           /\ Requests!Aged \in [age : {"none", "fresh", "old"}, assets : [Requests!Entries -> Nat]]
<1>1. Requests!Snapshot(chain) \in [Requests!Entries -> Nat]
  BY DEF Requests!StakingTypeOK, Requests!Snapshot
<1>2. Requests!Fetched \in [Requests!Entries -> Nat]
  BY <1>1 DEF Requests!StakingTypeOK, Requests!Fetched
<1>3. Requests!Remember \in [age : {"none", "fresh", "old"}, assets : [Requests!Entries -> Nat]]
  BY <1>1 DEF Requests!StakingTypeOK, Requests!Remember
<1> QED  BY <1>1, <1>2, <1>3 DEF Requests!StakingTypeOK, Requests!Aged

LEMMA StakingInitInv == ASSUME Requests!TronRequestsAssumption, Requests!StakingInit PROVE StakingInv
<1>1. chain \in [Requests!Entries \cup {"unfreezing", "rewards", "votes"} -> Nat]
  <2>1. PICK free, bandwidth, energy, rest \in Requests!Amounts :
          chain = [free |-> free, bandwidth |-> bandwidth, energy |-> energy,
                   unfreezing |-> rest, rewards |-> rest, votes |-> 0]
    BY DEF Requests!StakingInit
  <2>2. free \in Nat /\ bandwidth \in Nat /\ energy \in Nat /\ rest \in Nat
    BY SendConstants DEF Requests!Amounts
  <2> QED  BY <2>1, <2>2 DEF Requests!Entries, Requests!Purposes
<1>2. Requests!NoCall \in Requests!StakeCalls
  BY SendConstants DEF Requests!NoCall, Requests!StakeCalls, Requests!Plans, Requests!Amounts, Requests!Purposes
<1>3. held \in [Requests!Entries -> Nat] /\ Requests!NoAnswer \in [Requests!Entries -> Nat]
  BY <1>1 DEF Requests!StakingInit, Requests!Snapshot, Requests!NoAnswer
<1>4. Requests!StakingTypeOK
  <2>1. remembered \in [age : {"none", "fresh", "old"}, assets : [Requests!Entries -> Nat]]
    BY <1>3 DEF Requests!StakingInit
  <2>2. scheduled \in 0..MaxScheduled /\ changes \in 0..MaxChanges /\ troubles \in 0..MaxTroubles
    BY SendConstants DEF Requests!StakingInit
  <2>3. call = Requests!NoCall /\ behind \in BOOLEAN /\ undisturbed \in BOOLEAN
    BY DEF Requests!StakingInit
  <2> QED  BY <1>1, <1>2, <1>3, <2>1, <2>2, <2>3 DEF Requests!StakingTypeOK
<1>5. \A p \in Requests!Purposes : held[p] = chain[p]
  BY DEF Requests!StakingInit, Requests!Snapshot, Requests!Entries
<1> QED
  BY <1>4, <1>5 DEF StakingInv, StakesHeld, JudgedAlike, CallOrder, Requests!StakeJudgedAlike, Requests!AllSentWhenValid,
                    Requests!StakingInit, Requests!NoCall, Requests!Judged

LEMMA StakingTypes == ASSUME Requests!TronRequestsAssumption, StakingInv, Requests!StakingNext PROVE Requests!StakingTypeOK'
<1>0. Requests!StakingTypeOK /\ CallOrder
  BY DEF StakingInv
<1>c. call \in Requests!StakeCalls /\ troubles \in 0..MaxTroubles
  BY <1>0 DEF Requests!StakingTypeOK
<1>t. Requests!Trouble => troubles' \in 0..MaxTroubles
  BY <1>c, SendConstants DEF Requests!Trouble
<1>1. ASSUME NEW purpose \in Requests!Purposes, NEW amount \in Requests!Amounts \ {0},
             Requests!onStakeAmountInput(purpose, amount) \/ Requests!onUnstakeAmountInput(purpose, amount)
      PROVE  Requests!StakingTypeOK'
  <2>1. call' \in Requests!StakeCalls
    <3>1. PICK a \in Requests!Judged :
            call' = [Requests!NoCall EXCEPT !.action = a, !.purpose = purpose, !.amount = amount,
                                            !.typed = Requests!StakeVerdict(a, purpose, amount)]
      BY <1>1 DEF Requests!onStakeAmountInput, Requests!onUnstakeAmountInput, Requests!Judged
    <3>2. Requests!StakeVerdict(a, purpose, amount) \in {"valid", "insufficientBalance"}
      BY Verdict2
    <3> QED  BY <1>c, <1>1, <3>1, <3>2, StakeForms
  <2>2. undisturbed' \in BOOLEAN
    BY <1>1 DEF Requests!onStakeAmountInput, Requests!onUnstakeAmountInput
  <2> QED  BY <1>0, <1>1, <2>1, <2>2 DEF Requests!StakingTypeOK, Requests!onStakeAmountInput, Requests!onUnstakeAmountInput
<1>2. CASE Requests!computeStakeFee
  <2>1. call' \in Requests!StakeCalls
    BY <1>c, <1>2, StakeForms DEF Requests!computeStakeFee
  <2>2. troubles' \in 0..MaxTroubles
    BY <1>c, <1>t, <1>2 DEF Requests!computeStakeFee
  <2> QED  BY <1>0, <1>2, <2>1, <2>2 DEF Requests!StakingTypeOK, Requests!computeStakeFee
<1>3. CASE Requests!Confirm
  <2>1. call' \in Requests!StakeCalls
    BY <1>c, <1>3, StakeForms DEF Requests!Confirm
  <2>2. troubles' \in 0..MaxTroubles
    BY <1>c, <1>t, <1>3 DEF Requests!Confirm
  <2>3. held' \in [Requests!Entries -> Nat] /\ remembered' \in [age : {"none", "fresh", "old"}, assets : [Requests!Entries -> Nat]]
    BY <1>0, <1>3, FetchedType DEF Requests!Confirm, Requests!StakingTypeOK
  <2> QED  BY <1>0, <1>3, <2>1, <2>2, <2>3 DEF Requests!StakingTypeOK, Requests!Confirm
<1>4. CASE Requests!JudgeAmount
  <2>1. call' \in Requests!StakeCalls
    BY <1>c, <1>4, StakeForms DEF Requests!JudgeAmount
  <2> QED  BY <1>0, <1>4, <2>1 DEF Requests!StakingTypeOK, Requests!JudgeAmount
<1>5. ASSUME NEW agreed \in BOOLEAN, Requests!claimUnstakedTrx(agreed) PROVE Requests!StakingTypeOK'
  <2>1. call' \in Requests!StakeCalls
    BY <1>c, <1>5, StakeForms DEF Requests!claimUnstakedTrx, Requests!Actions
  <2>2. troubles' \in 0..MaxTroubles
    BY <1>c, <1>t, <1>5 DEF Requests!claimUnstakedTrx
  <2>3. held' \in [Requests!Entries -> Nat] /\ remembered' \in [age : {"none", "fresh", "old"}, assets : [Requests!Entries -> Nat]]
    BY <1>0, <1>5, FetchedType DEF Requests!claimUnstakedTrx, Requests!StakingTypeOK
  <2>4. undisturbed' \in BOOLEAN
    BY <1>0, <1>5 DEF Requests!claimUnstakedTrx, Requests!StakingTypeOK
  <2> QED  BY <1>0, <1>5, <2>1, <2>2, <2>3, <2>4 DEF Requests!StakingTypeOK, Requests!claimUnstakedTrx
<1>6. CASE Requests!claimTrxStakingRewards
  <2>1. call' \in Requests!StakeCalls
    BY <1>c, <1>6, StakeForms DEF Requests!claimTrxStakingRewards, Requests!Actions
  <2> QED  BY <1>0, <1>6, <2>1 DEF Requests!StakingTypeOK, Requests!claimTrxStakingRewards
<1>7. CASE Requests!Build
  <2>1. call' \in Requests!StakeCalls
    BY <1>0, <1>c, <1>7, StakeForms, PlanFacts DEF Requests!Build, CallOrder
  <2>2. troubles' \in 0..MaxTroubles
    BY <1>c, <1>t, <1>7 DEF Requests!Build
  <2> QED  BY <1>0, <1>7, <2>1, <2>2 DEF Requests!StakingTypeOK, Requests!Build
<1>8. CASE Requests!SendNext
  <2>1. call.todo \in Requests!Plans /\ call.todo # <<>>
    BY <1>c, <1>8 DEF Requests!StakeCalls, Requests!SendNext
  <2>2. call' \in Requests!StakeCalls
    BY <1>c, <1>8, <2>1, StakeForms, PlanFacts DEF Requests!SendNext
  <2>3. troubles' \in 0..MaxTroubles
    BY <1>c, <1>t, <1>8 DEF Requests!SendNext
  <2>4. chain' \in [Requests!Entries \cup {"unfreezing", "rewards", "votes"} -> Nat]
    <3>1. chain' = chain \/ (/\ Requests!Possible(Head(call.todo), call.purpose, call.amount)
                             /\ chain' = Requests!Applied(Head(call.todo), call.purpose, call.amount))
      BY <1>8 DEF Requests!SendNext
    <3> QED  BY <1>0, <2>1, <3>1, AppliedType, PlanFacts DEF Requests!StakingTypeOK
  <2>5. remembered' \in [age : {"none", "fresh", "old"}, assets : [Requests!Entries -> Nat]]
    BY <1>0, <1>8, FetchedType DEF Requests!SendNext, Requests!StakingTypeOK
  <2>6. behind' \in BOOLEAN
    BY <1>0, <1>8 DEF Requests!SendNext, Requests!StakingTypeOK
  <2> QED  BY <1>0, <1>8, <2>2, <2>3, <2>4, <2>5, <2>6 DEF Requests!StakingTypeOK, Requests!SendNext
<1>9. CASE Requests!AllSent
  <2>1. call' \in Requests!StakeCalls
    BY <1>c, <1>9, StakeForms DEF Requests!AllSent
  <2> QED  BY <1>0, <1>9, <2>1 DEF Requests!StakingTypeOK, Requests!AllSent
<1>10. CASE Requests!ScheduleAndAnswer
  <2>1. call' \in Requests!StakeCalls
    <3>1. Requests!Report(TRUE) \in {"action", "schedule", "valid"} /\ Requests!Report(FALSE) \in {"action", "schedule", "valid"}
      BY <1>c DEF Requests!StakeCalls, Requests!Report
    <3> QED  BY <1>c, <1>10, <3>1, StakeForms DEF Requests!ScheduleAndAnswer
  <2>2. troubles' \in 0..MaxTroubles
    BY <1>c, <1>t, <1>10 DEF Requests!ScheduleAndAnswer
  <2>3. scheduled' \in 0..MaxScheduled
    <3>1. scheduled' = scheduled \/ (scheduled < MaxScheduled /\ scheduled' = scheduled + 1)
      BY <1>10 DEF Requests!ScheduleAndAnswer
    <3> QED  BY <1>0, <3>1, SendConstants DEF Requests!StakingTypeOK
  <2>4. behind' \in BOOLEAN
    BY <1>0, <1>10 DEF Requests!ScheduleAndAnswer, Requests!StakingTypeOK
  <2> QED  BY <1>0, <1>10, <2>1, <2>2, <2>3, <2>4 DEF Requests!StakingTypeOK, Requests!ScheduleAndAnswer
<1>11. CASE Requests!SynchroniseStake
  <2>1. held' \in [Requests!Entries -> Nat] /\ remembered' \in [age : {"none", "fresh", "old"}, assets : [Requests!Entries -> Nat]]
    BY <1>0, <1>11, FetchedType DEF Requests!SynchroniseStake
  <2>2. scheduled' \in 0..MaxScheduled
    BY <1>0, <1>11, SendConstants DEF Requests!SynchroniseStake, Requests!StakingTypeOK
  <2>3. behind' \in BOOLEAN /\ undisturbed' \in BOOLEAN
    BY <1>0, <1>11 DEF Requests!SynchroniseStake, Requests!StakingTypeOK
  <2> QED  BY <1>0, <1>11, <2>1, <2>2, <2>3 DEF Requests!StakingTypeOK, Requests!SynchroniseStake
<1>12. CASE Requests!ForgetAnswer
  <2>1. remembered' \in [age : {"none", "fresh", "old"}, assets : [Requests!Entries -> Nat]]
    BY <1>12 DEF Requests!ForgetAnswer, Requests!NoAnswer
  <2> QED  BY <1>0, <1>12, <2>1 DEF Requests!StakingTypeOK, Requests!ForgetAnswer
<1>13. CASE Requests!StakeChanges
  <2>1. chain' \in [Requests!Entries \cup {"unfreezing", "rewards", "votes"} -> Nat]
    <3>1. PICK free \in Requests!Amounts : chain' = [chain EXCEPT !.free = free]
      BY <1>13 DEF Requests!StakeChanges
    <3>2. free \in Nat
      BY SendConstants DEF Requests!Amounts
    <3> QED  BY <1>0, <3>1, <3>2 DEF Requests!StakingTypeOK
  <2>2. changes' \in 0..MaxChanges
    BY <1>0, <1>13, SendConstants DEF Requests!StakeChanges, Requests!StakingTypeOK
  <2> QED  BY <1>0, <1>13, <2>1, <2>2 DEF Requests!StakingTypeOK, Requests!StakeChanges
<1>14. CASE Requests!AgainStaking
  <2>1. call' \in Requests!StakeCalls
    BY <1>c, <1>14, StakeForms DEF Requests!AgainStaking
  <2>2. changes' \in 0..MaxChanges
    BY <1>0, <1>14, SendConstants DEF Requests!AgainStaking, Requests!StakingTypeOK
  <2> QED  BY <1>0, <1>14, <2>1, <2>2 DEF Requests!StakingTypeOK, Requests!AgainStaking
<1> QED
  BY <1>1, <1>2, <1>3, <1>4, <1>5, <1>6, <1>7, <1>8, <1>9, <1>10, <1>11, <1>12, <1>13, <1>14 DEF Requests!StakingNext

\* An old answer, or one that is right, is all a fetch returns.
LEMMA FetchedStakes ==
    ASSUME StakesHeld, NEW p \in Requests!Purposes
    PROVE  /\ Requests!Fetched[p] # chain[p] => Owed /\ remembered.age = "old"
           /\ Requests!Remember.age # "none" /\ Requests!Remember.assets[p] # chain[p] => Owed /\ Requests!Remember.age = "old"
<1>1. Requests!Snapshot(chain)[p] = chain[p]
  BY DEF Requests!Snapshot, Requests!Entries
<1> QED  BY <1>1 DEF StakesHeld, Requests!Fetched, Requests!Remember

LEMMA StakingHeld == ASSUME Requests!TronRequestsAssumption, StakingInv, Requests!StakingNext PROVE StakesHeld'
<1>0. Requests!StakingTypeOK /\ CallOrder /\ StakesHeld
  BY DEF StakingInv
<1>c. call \in Requests!StakeCalls /\ scheduled \in Nat
  BY <1>0 DEF Requests!StakingTypeOK
\* Steps that leave what is saved and what was fetched.
<1>a. ASSUME UNCHANGED <<chain, held>>, Owed => Owed', UNCHANGED remembered \/ remembered'.age = "none" PROVE StakesHeld'
  BY <1>0, <1>a DEF StakesHeld
\* Steps that save what is fetched.
<1>b. ASSUME chain' = chain, held' = Requests!Fetched, remembered' = Requests!Remember,
             Owed /\ remembered.age = "old" => Owed'
      PROVE  StakesHeld'
  <2> SUFFICES ASSUME NEW p \in Requests!Purposes
               PROVE  /\ held'[p] # chain'[p] => Owed'
                      /\ remembered'.age # "none" /\ remembered'.assets[p] # chain'[p] => Owed' /\ remembered'.age = "old"
    BY DEF StakesHeld
  <2>1. Requests!Remember.age = "old" => remembered.age = "old"
    BY DEF Requests!Remember
  <2> QED  BY <1>0, <1>b, <2>1, FetchedStakes
<1>n. call.pc \in {"none", "fetched", "confirmed", "answered"} => (Owed <=> scheduled > 0 \/ behind)
  BY DEF Owed
<1>1. ASSUME NEW purpose \in Requests!Purposes, NEW amount \in Requests!Amounts \ {0},
             Requests!onStakeAmountInput(purpose, amount) \/ Requests!onUnstakeAmountInput(purpose, amount)
      PROVE  StakesHeld'
  <2>1. call.pc = "none" /\ UNCHANGED <<chain, held, remembered, scheduled, behind>>
    BY <1>1 DEF Requests!onStakeAmountInput, Requests!onUnstakeAmountInput
  <2> QED  BY <1>a, <1>n, <2>1 DEF Owed
<1>2. CASE Requests!computeStakeFee
  <2>1. call.pc = "none" /\ UNCHANGED <<chain, held, remembered, scheduled, behind>>
    BY <1>2 DEF Requests!computeStakeFee
  <2> QED  BY <1>a, <1>n, <2>1 DEF Owed
<1>3. CASE Requests!Confirm
  <2>1. call.pc = "none" /\ UNCHANGED <<chain, scheduled, behind>>
    BY <1>3 DEF Requests!Confirm
  <2>2. UNCHANGED <<held, remembered>> \/ (held' = Requests!Fetched /\ remembered' = Requests!Remember)
    BY <1>3 DEF Requests!Confirm
  <2> QED  BY <1>a, <1>b, <1>n, <2>1, <2>2 DEF Owed
<1>4. CASE Requests!JudgeAmount
  <2>1. call.pc = "fetched" /\ UNCHANGED <<chain, held, remembered, scheduled, behind>>
    BY <1>4 DEF Requests!JudgeAmount
  <2> QED  BY <1>a, <1>n, <2>1 DEF Owed
<1>5. ASSUME NEW agreed \in BOOLEAN, Requests!claimUnstakedTrx(agreed) PROVE StakesHeld'
  <2>1. call.pc = "none" /\ UNCHANGED <<chain, scheduled, behind>>
    BY <1>5 DEF Requests!claimUnstakedTrx
  <2>2. UNCHANGED <<held, remembered>> \/ (held' = Requests!Fetched /\ remembered' = Requests!Remember)
    BY <1>5 DEF Requests!claimUnstakedTrx
  <2> QED  BY <1>a, <1>b, <1>n, <2>1, <2>2 DEF Owed
<1>6. CASE Requests!claimTrxStakingRewards
  <2>1. call.pc = "none" /\ UNCHANGED <<chain, held, remembered, scheduled, behind>>
    BY <1>6 DEF Requests!claimTrxStakingRewards
  <2> QED  BY <1>a, <1>n, <2>1 DEF Owed
<1>7. CASE Requests!Build
  <2>1. call.pc = "confirmed" /\ UNCHANGED <<chain, held, remembered, scheduled, behind>>
    BY <1>7 DEF Requests!Build
  <2> QED  BY <1>a, <1>n, <2>1 DEF Owed
<1>8. CASE Requests!SendNext
  <2>1. call.pc = "sending" /\ UNCHANGED <<held, scheduled>>
    BY <1>8 DEF Requests!SendNext
  <2>2. CASE call' = [call EXCEPT !.todo = Tail(@), !.sent = TRUE] /\ remembered' = Requests!Aged
    <3>1. call'.pc = "sending" /\ call'.sent
      BY <1>c, <2>1, <2>2 DEF Requests!StakeCalls
    <3>2. remembered'.age \in {"none", "old"}
      BY <1>0, <2>2 DEF Requests!Aged, Requests!StakingTypeOK
    <3> QED  BY <3>1, <3>2 DEF StakesHeld, Owed
  <2>3. CASE /\ call' = [call EXCEPT !.pc = "ending", !.todo = <<>>, !.error = "action"]
             /\ remembered' = Requests!Aged
             /\ behind' = (behind \/ (chain' # chain /\ ~call.sent))
    <3>1. call'.pc = "ending" /\ call'.sent = call.sent
      BY <1>c, <2>3 DEF Requests!StakeCalls
    <3>2. remembered'.age \in {"none", "old"} /\ (remembered'.age = "none" <=> remembered.age = "none")
      BY <1>0, <2>3 DEF Requests!Aged, Requests!StakingTypeOK
    <3>3. remembered'.assets = remembered.assets
      BY <1>0, <2>3 DEF Requests!Aged, Requests!StakingTypeOK
    <3>4. CASE chain' = chain
      <4>1. Owed => Owed'
        BY <2>1, <2>3, <3>1 DEF Owed
      <4> QED  BY <1>0, <2>1, <3>2, <3>3, <3>4, <4>1 DEF StakesHeld
    <3>5. CASE chain' # chain
      <4>1. Owed'
        BY <2>1, <2>3, <3>1, <3>5 DEF Owed
      <4> QED  BY <3>2, <4>1 DEF StakesHeld
    <3> QED  BY <3>4, <3>5
  <2>4. CASE /\ call' = [call EXCEPT !.pc = "ending", !.todo = <<>>, !.error = "action"]
             /\ UNCHANGED <<chain, remembered, behind>>
    <3>1. call'.pc = "ending" /\ call'.sent = call.sent
      BY <1>c, <2>4 DEF Requests!StakeCalls
    <3> QED  BY <1>a, <2>1, <2>4, <3>1 DEF Owed
  <2> QED  BY <1>8, <2>2, <2>3, <2>4 DEF Requests!SendNext
<1>9. CASE Requests!AllSent
  <2>1. call.pc = "sending" /\ UNCHANGED <<chain, held, remembered, scheduled, behind>>
    BY <1>9 DEF Requests!AllSent
  <2>2. call'.pc = "ending" /\ call'.sent = call.sent
    BY <1>c, <1>9 DEF Requests!StakeCalls, Requests!AllSent
  <2> QED  BY <1>a, <2>1, <2>2 DEF Owed
<1>10. CASE Requests!ScheduleAndAnswer
  <2>1. call.pc = "ending" /\ UNCHANGED <<chain, held, remembered>>
    BY <1>10 DEF Requests!ScheduleAndAnswer
  <2>2. Owed => scheduled' > 0 \/ behind'
    <3>1. CASE call.sent
      <4>1. scheduled' = scheduled + 1 \/ behind' = TRUE
        BY <1>10, <3>1 DEF Requests!ScheduleAndAnswer
      <4> QED  BY <1>c, <4>1
    <3>2. CASE ~call.sent
      <4>1. UNCHANGED <<scheduled, behind>>
        BY <1>10, <3>2 DEF Requests!ScheduleAndAnswer
      <4> QED  BY <3>2, <4>1 DEF Owed
    <3> QED  BY <3>1, <3>2
  <2> QED  BY <1>a, <2>1, <2>2 DEF Owed
<1>11. CASE Requests!SynchroniseStake
  <2>1. /\ held' = Requests!Fetched /\ remembered' = Requests!Remember
        /\ UNCHANGED <<chain, call>> /\ scheduled' = scheduled - 1
    BY <1>11 DEF Requests!SynchroniseStake
  <2>2. remembered.age = "old" => Owed'
    <3>1. remembered.age = "old" => scheduled > 1 \/ (call.sent /\ call.pc # "answered")
      BY <1>11 DEF Requests!SynchroniseStake
    <3>2. scheduled > 1 => scheduled' > 0
      BY <1>c, <2>1
    <3> QED  BY <1>0, <2>1, <3>1, <3>2 DEF Owed, CallOrder
  <2> QED  BY <1>b, <2>1, <2>2
<1>12. CASE Requests!ForgetAnswer
  <2>1. UNCHANGED <<chain, held, call, scheduled, behind>> /\ remembered'.age = "none"
    BY <1>12 DEF Requests!ForgetAnswer
  <2> QED  BY <1>a, <2>1 DEF Owed
<1>13. CASE Requests!StakeChanges
  <2>1. UNCHANGED <<held, remembered, call, scheduled, behind>>
    BY <1>13 DEF Requests!StakeChanges
  <2>2. \A p \in Requests!Purposes : chain'[p] = chain[p]
    BY <1>0, <1>13 DEF Requests!StakeChanges, Requests!StakingTypeOK, Requests!Entries, Requests!Purposes
  <2> QED  BY <1>0, <2>1, <2>2 DEF StakesHeld, Owed
<1>14. CASE Requests!AgainStaking
  <2>1. call.pc = "answered" /\ UNCHANGED <<chain, held, remembered, scheduled, behind>>
    BY <1>14 DEF Requests!AgainStaking
  <2> QED  BY <1>a, <1>n, <2>1 DEF Owed
<1> QED
  BY <1>1, <1>2, <1>3, <1>4, <1>5, <1>6, <1>7, <1>8, <1>9, <1>10, <1>11, <1>12, <1>13, <1>14 DEF Requests!StakingNext

LEMMA StakingOrder ==
    ASSUME Requests!TronRequestsAssumption, StakingInv, Requests!StakingNext PROVE CallOrder' /\ Requests!AllSentWhenValid'
<1>0. Requests!StakingTypeOK /\ CallOrder /\ Requests!AllSentWhenValid
  BY DEF StakingInv
<1>c. call \in Requests!StakeCalls
  BY <1>0 DEF Requests!StakingTypeOK
<1>u. call' = call => CallOrder' /\ Requests!AllSentWhenValid'
  BY <1>0 DEF CallOrder, Requests!AllSentWhenValid
\* A request that is answered before anything was sent, and not as valid.
<1>a. ASSUME NEW v \in {"insufficientBalance", "fetch", "action"}, call' = Requests!Answered(v), ~call.sent
      PROVE  CallOrder' /\ Requests!AllSentWhenValid'
  <2>1. call'.pc = "answered" /\ call'.sent = call.sent /\ call'.answer = v
    BY <1>c, <1>a DEF Requests!Answered, Requests!StakeCalls
  <2> QED  BY <1>a, <2>1 DEF CallOrder, Requests!AllSentWhenValid
<1>1. ASSUME NEW purpose \in Requests!Purposes, NEW amount \in Requests!Amounts \ {0},
             Requests!onStakeAmountInput(purpose, amount) \/ Requests!onUnstakeAmountInput(purpose, amount)
      PROVE  CallOrder' /\ Requests!AllSentWhenValid'
  <2>1. call'.pc = "none" /\ call'.sent = FALSE /\ call'.error = "none"
    BY <1>1 DEF Requests!onStakeAmountInput, Requests!onUnstakeAmountInput, Requests!NoCall
  <2> QED  BY <2>1 DEF CallOrder, Requests!AllSentWhenValid
<1>2. CASE Requests!computeStakeFee
  <2>1. /\ call'.pc = "none" /\ call'.sent = call.sent /\ call'.error = call.error
        /\ call.pc = "none"
    BY <1>c, <1>2 DEF Requests!computeStakeFee, Requests!StakeCalls
  <2> QED  BY <1>0, <2>1 DEF CallOrder, Requests!AllSentWhenValid
<1>3. CASE Requests!Confirm
  <2>1. call.pc = "none" /\ call.action \in Requests!Judged /\ ~call.sent
    BY <1>0, <1>3 DEF Requests!Confirm, CallOrder
  <2>2. CASE call' = [call EXCEPT !.pc = "fetched"]
    <3>1. call'.pc = "fetched" /\ call'.sent = call.sent /\ call'.error = call.error /\ call'.action = call.action
      BY <1>c, <2>2 DEF Requests!StakeCalls
    <3> QED  BY <1>0, <2>1, <3>1 DEF CallOrder, Requests!AllSentWhenValid
  <2> QED  BY <1>3, <1>a, <2>1, <2>2 DEF Requests!Confirm
<1>4. CASE Requests!JudgeAmount
  <2>1. call.pc = "fetched" /\ call.action \in Requests!Judged /\ ~call.sent
    BY <1>0, <1>4 DEF Requests!JudgeAmount, CallOrder
  <2>2. CASE call' = [call EXCEPT !.pc = "confirmed"]
    <3>1. call'.pc = "confirmed" /\ call'.sent = call.sent /\ call'.error = call.error /\ call'.action = call.action
      BY <1>c, <2>2 DEF Requests!StakeCalls
    <3> QED  BY <1>0, <2>1, <3>1 DEF CallOrder, Requests!AllSentWhenValid, Requests!Actions
  <2> QED  BY <1>4, <1>a, <2>1, <2>2 DEF Requests!JudgeAmount
<1>5. ASSUME NEW agreed \in BOOLEAN, Requests!claimUnstakedTrx(agreed) PROVE CallOrder' /\ Requests!AllSentWhenValid'
  <2>1. /\ ~call'.sent /\ call'.error = "none" /\ call'.action = "claimUnstakedTrx"
        /\ call'.pc = "confirmed" \/ (call'.pc = "answered" /\ call'.answer = "rejected")
    BY <1>5 DEF Requests!claimUnstakedTrx, Requests!NoCall
  <2> QED  BY <2>1 DEF CallOrder, Requests!AllSentWhenValid, Requests!Actions
<1>6. CASE Requests!claimTrxStakingRewards
  <2>1. ~call'.sent /\ call'.error = "none" /\ call'.action = "claimTrxStakingRewards" /\ call'.pc = "confirmed"
    BY <1>6 DEF Requests!claimTrxStakingRewards, Requests!NoCall
  <2> QED  BY <2>1 DEF CallOrder, Requests!AllSentWhenValid, Requests!Actions
<1>7. CASE Requests!Build
  <2>1. call.pc = "confirmed" /\ ~call.sent /\ Requests!buildTransactions(call.action) # <<>>
    BY <1>0, <1>7, PlanFacts DEF Requests!Build, CallOrder
  <2>2. CASE call' = [call EXCEPT !.pc = "sending", !.todo = Requests!buildTransactions(call.action)]
    <3>1. call'.pc = "sending" /\ call'.error = call.error /\ call'.todo = Requests!buildTransactions(call.action)
      BY <1>c, <2>2 DEF Requests!StakeCalls
    <3> QED  BY <1>0, <2>1, <3>1 DEF CallOrder, Requests!AllSentWhenValid
  <2> QED  BY <1>7, <1>a, <2>1, <2>2 DEF Requests!Build
<1>8. CASE Requests!SendNext
  <2>1. call.pc = "sending" /\ call.error = "none"
    BY <1>0, <1>8 DEF Requests!SendNext, CallOrder
  <2>2. CASE call' = [call EXCEPT !.todo = Tail(@), !.sent = TRUE]
    <3>1. call'.pc = "sending" /\ call'.sent /\ call'.error = call.error
      BY <1>c, <2>1, <2>2 DEF Requests!StakeCalls
    <3> QED  BY <2>1, <3>1 DEF CallOrder, Requests!AllSentWhenValid
  <2>3. CASE call' = [call EXCEPT !.pc = "ending", !.todo = <<>>, !.error = "action"]
    <3>1. call'.pc = "ending" /\ call'.error = "action" /\ call'.todo = <<>>
      BY <1>c, <2>3 DEF Requests!StakeCalls
    <3> QED  BY <3>1 DEF CallOrder, Requests!AllSentWhenValid
  <2> QED  BY <1>8, <2>2, <2>3 DEF Requests!SendNext
<1>9. CASE Requests!AllSent
  <2>1. call.pc = "sending" /\ call.todo = <<>> /\ call.sent
    BY <1>0, <1>9 DEF Requests!AllSent, CallOrder
  <2>2. call'.pc = "ending" /\ call'.sent = call.sent /\ call'.todo = call.todo
    BY <1>c, <1>9 DEF Requests!AllSent, Requests!StakeCalls
  <2> QED  BY <2>1, <2>2 DEF CallOrder, Requests!AllSentWhenValid
<1>10. CASE Requests!ScheduleAndAnswer
  <2>1. call.todo = <<>> /\ (call.sent \/ call.error = "action")
    BY <1>0, <1>10 DEF Requests!ScheduleAndAnswer, CallOrder
  <2>2. PICK fails \in BOOLEAN : call' = Requests!Answered(Requests!Report(fails))
    BY <1>10 DEF Requests!ScheduleAndAnswer
  <2>3. /\ call'.pc = "answered" /\ call'.sent = call.sent /\ call'.todo = call.todo /\ call'.error = call.error
        /\ call'.answer = Requests!Report(fails)
    BY <1>c, <2>2 DEF Requests!Answered, Requests!StakeCalls
  <2>4. call.error # "none" => call.error = "action" /\ Requests!Report(fails) = "action"
    BY <1>c DEF Requests!Report, Requests!StakeCalls
  <2> QED  BY <2>1, <2>3, <2>4 DEF CallOrder, Requests!AllSentWhenValid
<1>11. CASE Requests!SynchroniseStake \/ Requests!ForgetAnswer \/ Requests!StakeChanges
  BY <1>11, <1>u DEF Requests!SynchroniseStake, Requests!ForgetAnswer, Requests!StakeChanges
<1>12. CASE Requests!AgainStaking
  <2>1. call'.pc = "none" /\ ~call'.sent /\ call'.error = "none"
    BY <1>12 DEF Requests!AgainStaking, Requests!NoCall
  <2> QED  BY <2>1 DEF CallOrder, Requests!AllSentWhenValid
<1> QED
  BY <1>1, <1>2, <1>3, <1>4, <1>5, <1>6, <1>7, <1>8, <1>9, <1>10, <1>11, <1>12 DEF Requests!StakingNext

\* Of a request that is judged: it goes on as what it was.
GoesOn == call'.action = call.action /\ call'.purpose = call.purpose /\ call'.amount = call.amount /\ call'.typed = call.typed
          /\ call'.preview = call.preview

LEMMA StakingJudged ==
    ASSUME Requests!TronRequestsAssumption, StakingInv, Requests!StakingNext
    PROVE  JudgedAlike' /\ Requests!StakeJudgedAlike'
<1>0. Requests!StakingTypeOK /\ CallOrder /\ JudgedAlike /\ Requests!StakeJudgedAlike
  BY DEF StakingInv
<1>c. call \in Requests!StakeCalls
  BY <1>0 DEF Requests!StakingTypeOK
\* A request that is answered without a judgement.
<1>a. ASSUME NEW v \in {"fetch", "action", "schedule", "valid"}, call' = Requests!Answered(v), undisturbed' = undisturbed,
             v # "fetch" /\ undisturbed /\ call.action \in Requests!Judged => call.typed = "valid"
      PROVE  JudgedAlike' /\ Requests!StakeJudgedAlike'
  <2>1. call'.pc = "answered" /\ call'.answer = v /\ GoesOn
    BY <1>c, <1>a DEF Requests!Answered, Requests!StakeCalls, GoesOn
  <2> QED  BY <1>0, <1>a, <2>1 DEF JudgedAlike, Requests!StakeJudgedAlike, GoesOn
\* One that goes on to send, once the amount was judged as valid.
<1>b. ASSUME call'.pc \in {"sending", "ending"}, GoesOn, undisturbed' = undisturbed,
             call.pc \in {"confirmed", "sending"}
      PROVE  JudgedAlike' /\ Requests!StakeJudgedAlike'
  BY <1>0, <1>b DEF JudgedAlike, Requests!StakeJudgedAlike, GoesOn
<1>1. ASSUME NEW purpose \in Requests!Purposes, NEW amount \in Requests!Amounts \ {0},
             Requests!onStakeAmountInput(purpose, amount) \/ Requests!onUnstakeAmountInput(purpose, amount)
      PROVE  JudgedAlike' /\ Requests!StakeJudgedAlike'
  <2>1. /\ call'.pc = "none" /\ call'.purpose = purpose /\ call'.amount = amount /\ call'.preview = "none"
        /\ call'.typed = Requests!StakeVerdict(call'.action, purpose, amount)
    BY <1>1 DEF Requests!onStakeAmountInput, Requests!onUnstakeAmountInput, Requests!NoCall
  <2>2. /\ UNCHANGED <<chain, held, remembered>>
        /\ undisturbed' => held = Requests!Snapshot(chain) /\ (remembered.age = "none" \/ remembered.assets = Requests!Snapshot(chain))
    BY <1>1 DEF Requests!onStakeAmountInput, Requests!onUnstakeAmountInput
  <2> QED  BY <2>1, <2>2 DEF JudgedAlike, Requests!StakeJudgedAlike, Requests!StakeVerdict, Requests!Snapshot
<1>2. CASE Requests!computeStakeFee
  <2>1. call.pc = "none" /\ call.action = "stake" /\ UNCHANGED <<chain, held, remembered, undisturbed>>
    BY <1>2 DEF Requests!computeStakeFee
  <2>2. /\ call'.pc = "none" /\ call'.action = "stake" /\ call'.purpose = call.purpose /\ call'.amount = call.amount
        /\ call'.typed = call.typed
        /\ call'.preview = "fee" => Requests!StakeVerdict("stake", call.purpose, call.amount) = "valid"
        /\ call'.preview = "insufficientBalance" => Requests!StakeVerdict("stake", call.purpose, call.amount) # "valid"
    BY <1>c, <1>2 DEF Requests!computeStakeFee, Requests!StakeCalls
  <2>3. undisturbed => call.typed = Requests!StakeVerdict("stake", call.purpose, call.amount)
    BY <1>0, <2>1 DEF JudgedAlike, Requests!Judged
  <2>4. JudgedAlike'
    BY <1>0, <2>1, <2>2 DEF JudgedAlike, Requests!StakeVerdict, Requests!Snapshot
  <2>5. Requests!StakeJudgedAlike'
    BY <2>1, <2>2, <2>3, Verdict2 DEF Requests!StakeJudgedAlike
  <2> QED  BY <2>4, <2>5
<1>3. CASE Requests!Confirm
  <2>1. call.pc = "none" /\ call.action \in Requests!Judged /\ UNCHANGED <<chain, undisturbed>>
    BY <1>3 DEF Requests!Confirm
  <2>2. CASE call' = [call EXCEPT !.pc = "fetched"] /\ held' = Requests!Fetched /\ remembered' = Requests!Remember
    <3>1. call'.pc = "fetched" /\ GoesOn
      BY <1>c, <2>2 DEF Requests!StakeCalls, GoesOn
    <3>2. undisturbed => /\ held' = held /\ held = Requests!Snapshot(chain)
                         /\ remembered'.age = "none" \/ remembered'.assets = Requests!Snapshot(chain)
                         /\ call.typed = Requests!StakeVerdict(call.action, call.purpose, call.amount)
      BY <1>0, <2>1, <2>2 DEF JudgedAlike, Requests!Fetched, Requests!Remember
    <3> QED  BY <1>0, <2>1, <3>1, <3>2 DEF JudgedAlike, Requests!StakeJudgedAlike, GoesOn, Requests!StakeVerdict, Requests!Snapshot
  <2> QED  BY <1>3, <1>a, <2>1, <2>2 DEF Requests!Confirm
<1>4. CASE Requests!JudgeAmount
  <2>1. call.pc = "fetched" /\ UNCHANGED <<chain, held, remembered, undisturbed>>
    BY <1>4 DEF Requests!JudgeAmount
  <2>2. undisturbed /\ call.action \in Requests!Judged =>
          call.typed = Requests!StakeVerdict(call.action, call.purpose, call.amount)
    BY <1>0, <2>1 DEF JudgedAlike
  <2>3. CASE Requests!StakeVerdict(call.action, call.purpose, call.amount) = "valid"
    <3>1. call'.pc = "confirmed" /\ GoesOn
      BY <1>c, <1>4, <2>3 DEF Requests!StakeCalls, GoesOn, Requests!JudgeAmount
    <3> QED
      BY <1>0, <2>1, <2>2, <2>3, <3>1 DEF JudgedAlike, Requests!StakeJudgedAlike, GoesOn, Requests!StakeVerdict,
         Requests!Snapshot
  <2>4. CASE Requests!StakeVerdict(call.action, call.purpose, call.amount) # "valid"
    <3>1. call'.pc = "answered" /\ call'.answer = "insufficientBalance" /\ GoesOn
      BY <1>c, <1>4, <2>4 DEF Requests!StakeCalls, GoesOn, Requests!JudgeAmount, Requests!Answered
    <3>2. Requests!StakeVerdict(call.action, call.purpose, call.amount) = "insufficientBalance"
      BY <2>4, Verdict2
    <3> QED  BY <1>0, <2>1, <2>2, <3>1, <3>2 DEF JudgedAlike, Requests!StakeJudgedAlike, GoesOn
  <2> QED  BY <2>3, <2>4
<1>5. ASSUME NEW agreed \in BOOLEAN, Requests!claimUnstakedTrx(agreed) PROVE JudgedAlike' /\ Requests!StakeJudgedAlike'
  <2>1. call'.action = "claimUnstakedTrx"
    BY <1>5 DEF Requests!claimUnstakedTrx, Requests!NoCall
  <2> QED  BY <2>1 DEF JudgedAlike, Requests!StakeJudgedAlike, Requests!Judged
<1>6. CASE Requests!claimTrxStakingRewards
  <2>1. call'.action = "claimTrxStakingRewards"
    BY <1>6 DEF Requests!claimTrxStakingRewards, Requests!NoCall
  <2> QED  BY <2>1 DEF JudgedAlike, Requests!StakeJudgedAlike, Requests!Judged
<1>7. CASE Requests!Build
  <2>1. call.pc = "confirmed" /\ UNCHANGED undisturbed
    BY <1>7 DEF Requests!Build
  <2>2. CASE call' = [call EXCEPT !.pc = "sending", !.todo = Requests!buildTransactions(call.action)]
    <3>1. call'.pc = "sending" /\ GoesOn
      BY <1>c, <2>2 DEF Requests!StakeCalls, GoesOn
    <3> QED  BY <1>b, <2>1, <3>1
  <2>3. undisturbed /\ call.action \in Requests!Judged => call.typed = "valid"
    BY <1>0, <2>1 DEF JudgedAlike
  <2> QED  BY <1>7, <1>a, <2>1, <2>2, <2>3 DEF Requests!Build
<1>8. CASE Requests!SendNext
  <2>1. call.pc = "sending" /\ UNCHANGED undisturbed
    BY <1>8 DEF Requests!SendNext
  <2>2. call' = [call EXCEPT !.todo = Tail(@), !.sent = TRUE] \/ call' = [call EXCEPT !.pc = "ending", !.todo = <<>>, !.error = "action"]
    BY <1>8 DEF Requests!SendNext
  <2>3. call'.pc \in {"sending", "ending"} /\ GoesOn
    BY <1>c, <2>1, <2>2 DEF Requests!StakeCalls, GoesOn
  <2> QED  BY <1>b, <2>1, <2>3
<1>9. CASE Requests!AllSent
  <2>1. call.pc = "sending" /\ call'.pc = "ending" /\ GoesOn /\ UNCHANGED undisturbed
    BY <1>c, <1>9 DEF Requests!AllSent, Requests!StakeCalls, GoesOn
  <2> QED  BY <1>b, <2>1
<1>10. CASE Requests!ScheduleAndAnswer
  <2>1. call.pc = "ending" /\ UNCHANGED undisturbed
    BY <1>10 DEF Requests!ScheduleAndAnswer
  <2>2. PICK fails \in BOOLEAN : call' = Requests!Answered(Requests!Report(fails))
    BY <1>10 DEF Requests!ScheduleAndAnswer
  <2>3. Requests!Report(fails) \in {"action", "schedule", "valid"}
    BY <1>c DEF Requests!Report, Requests!StakeCalls
  <2>4. undisturbed /\ call.action \in Requests!Judged => call.typed = "valid"
    BY <1>0, <2>1 DEF JudgedAlike
  <2> QED  BY <1>a, <2>1, <2>2, <2>3, <2>4
<1>11. CASE Requests!SynchroniseStake
  <2>1. /\ UNCHANGED <<chain, call>> /\ held' = Requests!Fetched /\ remembered' = Requests!Remember
        /\ undisturbed' => undisturbed /\ held' = Requests!Snapshot(chain)
    BY <1>11 DEF Requests!SynchroniseStake
  <2>2. undisturbed' => remembered'.assets = Requests!Snapshot(chain)
    BY <2>1 DEF Requests!Fetched, Requests!Remember
  <2>3. JudgedAlike'
    BY <1>0, <2>1, <2>2 DEF JudgedAlike, Requests!StakeVerdict, Requests!Snapshot
  <2> QED  BY <1>0, <2>1, <2>3 DEF Requests!StakeJudgedAlike
<1>12. CASE Requests!ForgetAnswer
  <2>1. UNCHANGED <<chain, held, call, undisturbed>> /\ remembered'.age = "none"
    BY <1>12 DEF Requests!ForgetAnswer
  <2> QED  BY <1>0, <2>1 DEF JudgedAlike, Requests!StakeJudgedAlike, Requests!StakeVerdict, Requests!Snapshot
<1>13. CASE Requests!StakeChanges
  BY <1>13 DEF Requests!StakeChanges, JudgedAlike, Requests!StakeJudgedAlike
<1>14. CASE Requests!AgainStaking
  BY <1>14 DEF Requests!AgainStaking, Requests!NoCall, JudgedAlike, Requests!StakeJudgedAlike, Requests!Judged
<1> QED
  BY <1>1, <1>2, <1>3, <1>4, <1>5, <1>6, <1>7, <1>8, <1>9, <1>10, <1>11, <1>12, <1>13, <1>14 DEF Requests!StakingNext

LEMMA StakingCorrect == ASSUME Requests!TronRequestsAssumption PROVE Requests!StakingSpec => []StakingInv
<1>1. Requests!StakingInit => StakingInv
  BY StakingInitInv
<1>2. StakingInv /\ Requests!StakingNext => StakingInv'
  BY StakingTypes, StakingHeld, StakingOrder, StakingJudged DEF StakingInv
<1>3. StakingInv /\ UNCHANGED Requests!stakingVars => StakingInv'
  <2> SUFFICES ASSUME StakingInv, UNCHANGED Requests!stakingVars PROVE StakingInv'
    OBVIOUS
  <2>1. UNCHANGED <<chain, held, remembered, call, scheduled, behind, undisturbed, changes, troubles>>
    BY DEF Requests!stakingVars
  <2>2. Requests!StakingTypeOK' /\ StakesHeld' /\ CallOrder'
    BY <2>1 DEF StakingInv, Requests!StakingTypeOK, StakesHeld, CallOrder, Owed
  <2>3. JudgedAlike' /\ Requests!StakeJudgedAlike' /\ Requests!AllSentWhenValid'
    BY <2>1 DEF StakingInv, JudgedAlike, Requests!StakeJudgedAlike, Requests!AllSentWhenValid, Requests!StakeVerdict,
       Requests!Snapshot
  <2> QED  BY <2>2, <2>3 DEF StakingInv
<1> QED  BY <1>1, <1>2, <1>3, PTL DEF Requests!StakingSpec

\* For any amounts, and any number of requests and synchronisations: the saved stakes differ from the real ones only
\* while a synchronisation is scheduled, a request is under way, or the snap could not know or not schedule.
THEOREM StakesSynchronised ==
    ASSUME Requests!TronRequestsAssumption PROVE Requests!StakingSpec => []Requests!SentIsSynchronised
<1>1. StakingInv => Requests!SentIsSynchronised
  BY DEF StakingInv, StakesHeld, Owed, Requests!SentIsSynchronised
<1> QED  BY <1>1, StakingCorrect, PTL

\* A stake or an unstake is not judged differently when it is typed, when its fee is shown and when it is confirmed; and
\* a request that is answered as valid sent everything it was to send.
THEOREM StakesJudged ==
    ASSUME Requests!TronRequestsAssumption
    PROVE  Requests!StakingSpec => [](Requests!StakeJudgedAlike /\ Requests!AllSentWhenValid)
<1>1. StakingInv => Requests!StakeJudgedAlike /\ Requests!AllSentWhenValid
  BY DEF StakingInv
<1> QED  BY <1>1, StakingCorrect, PTL

------------------------------------------------------------------------------
\* Accounts

Creating == INSTANCE TronAccounts

\* The accounts in the state and those a call has read or derived.
Known == accounts \cup UNION {calls[c].all : c \in Calls}

\* What there was is there unless it was deleted.
Kept(a) == a \in accounts \/ a.id \in deleted

OnePerIndex(S) == \A a, b \in S : a.entropySource = b.entropySource /\ a.index = b.index => a = b

\* Ids are drawn once, and none twice for different accounts.
IdsDrawn == (\A a \in Known : a.id \in 1..drawn) /\ deleted \subseteq 1..drawn
IdsApart == \A a, b \in Known : a.id = b.id => a = b

\* What a call holds at each of its steps.
CallHolds(c) ==
    /\ calls[c].all \subseteq Creating!InRange(calls[c]) /\ OnePerIndex(calls[c].all)
    /\ calls[c].pc \in {"none", "discovering", "reading"} => calls[c].all = {}
    /\ calls[c].pc = "deriving" => \A a \in calls[c].all : Kept(a)
    /\ calls[c].pc = "merging" => \A i \in calls[c].from..calls[c].to : \E a \in calls[c].all : a.index = i
    /\ calls[c].pc # "answered" => calls[c].result = {}
    /\ calls[c].result # {} =>
         /\ \A i \in calls[c].from..calls[c].to : \E a \in calls[c].result : {b \in calls[c].result : b.index = i} = {a}
         /\ \A a \in calls[c].result : Kept(a)

CreatingInv ==
    /\ Creating!TypeOK /\ IdsDrawn /\ IdsApart /\ OnePerIndex(accounts)
    /\ \A c \in Calls : CallHolds(c)

\* The account a request was resolved to is the one whose address was named, there or deleted since; what is signed
\* was agreed to.
Resolved ==
    request.pc \in {"resolved", "confirming", "signing"} =>
        /\ request.account \in Creating!Account /\ Kept(request.account)
        /\ Creating!AddressOf(request.account) = request.address

Unanswered2 ==
    /\ request.pc # "answered" => request.answer = "none"
    /\ request.pc = "signing" => request.agreed

ServingInv == Creating!ServingTypeOK /\ Resolved /\ Unanswered2 /\ Creating!SignedForTheNamed

\* The number of elements a module counts is the number this one counts.
LEMMA SameCardinality == \A S : Creating!Cardinality(S) = Cardinality(S)
BY Zenon DEF Creating!Cardinality, Cardinality

CallSet ==
    [pc : {"none", "discovering", "reading", "deriving", "merging", "answered"},
     entropySource : Sources, from : Creating!Indices, to : Creating!Indices,
     all : SUBSET Creating!Account, result : SUBSET Creating!Account]

\* Ids are given to the missing indices in their order: each has a rank of its own, below their number.
Rank(M, i) == Cardinality({k \in M : k < i})

LEMMA RankFacts ==
    ASSUME NEW M \in SUBSET Nat, IsFiniteSet(M)
    PROVE  /\ Cardinality(M) \in Nat
           /\ \A i \in M : Rank(M, i) \in 0..Cardinality(M) - 1
           /\ \A i, j \in M : Rank(M, i) = Rank(M, j) => i = j
<1> DEFINE Below(i) == {k \in M : k < i}
<1>1. Cardinality(M) \in Nat
  BY FS_CardinalityType
<1>2. ASSUME NEW i \in M
      PROVE  /\ IsFiniteSet(Below(i)) /\ Cardinality(Below(i)) \in Nat
             /\ Cardinality(Below(i)) < Cardinality(M)
  <2>1. Below(i) \in SUBSET M /\ i \notin Below(i)
    OBVIOUS
  <2>2. IsFiniteSet(Below(i)) /\ Cardinality(Below(i)) <= Cardinality(M) /\ (Cardinality(M) = Cardinality(Below(i)) => M = Below(i))
    BY <2>1, FS_Subset
  <2>3. Cardinality(Below(i)) \in Nat
    BY <2>2, FS_CardinalityType
  <2> HIDE DEF Below
  <2> QED  BY <1>1, <1>2, <2>1, <2>2, <2>3
<1>3. ASSUME NEW i \in M, NEW j \in M, i < j PROVE Cardinality(Below(i)) < Cardinality(Below(j))
  <2>0. \A k \in M : k \in Int /\ (k < i => k < j) /\ ~(i < i)
    BY <1>3
  <2>1. Below(i) \in SUBSET Below(j) /\ i \in Below(j) /\ i \notin Below(i)
    BY <1>3, <2>0
  <2>2. Cardinality(Below(i)) <= Cardinality(Below(j)) /\ (Cardinality(Below(j)) = Cardinality(Below(i)) => Below(j) = Below(i))
    BY <1>2, <2>1, FS_Subset
  <2>3. Cardinality(Below(i)) \in Nat /\ Cardinality(Below(j)) \in Nat
    BY <1>2
  <2> HIDE DEF Below
  <2> QED  BY <2>1, <2>2, <2>3
<1>4. \A i \in M : Rank(M, i) = Cardinality(Below(i))
  BY DEF Rank
<1> HIDE DEF Below
<1>5. \A i \in M : Rank(M, i) \in 0..Cardinality(M) - 1
  BY <1>1, <1>2, <1>4
<1>6. \A i, j \in M : Rank(M, i) = Rank(M, j) => i = j
  <2> SUFFICES ASSUME NEW i \in M, NEW j \in M, Rank(M, i) = Rank(M, j), i # j PROVE FALSE
    OBVIOUS
  <2>1. i < j \/ j < i
    OBVIOUS
  <2>2. Cardinality(Below(i)) < Cardinality(Below(j)) \/ Cardinality(Below(j)) < Cardinality(Below(i))
    BY <1>3, <2>1
  <2> QED  BY <1>2, <1>4, <2>2
<1> QED  BY <1>1, <1>5, <1>6

LEMMA AccountConstants ==
    ASSUME Creating!TronAccountsAssumption
    PROVE  /\ Sources # {} /\ MaxIndex \in Nat /\ MaxIds \in Nat /\ MaxDeletions \in Nat
           /\ Creating!NoCall \in CallSet /\ Creating!Nobody.entropySource \in Sources
<1>1. Sources # {} /\ MaxIndex \in Nat /\ MaxIds \in Nat /\ MaxDeletions \in Nat
  BY DEF Creating!TronAccountsAssumption
<1>2. (CHOOSE s \in Sources : TRUE) \in Sources
  BY <1>1
<1>3. 0 \in Creating!Indices
  BY <1>1 DEF Creating!Indices
<1> QED  BY <1>1, <1>2, <1>3 DEF CallSet, Creating!NoCall, Creating!Nobody

\* What a call changes is what its step says; the others stay.
LEMMA CallTypes ==
    ASSUME Creating!TypeOK
    PROVE  /\ calls \in [Calls -> CallSet]
           /\ \A c \in Calls : /\ calls[c].all \subseteq Creating!Account /\ calls[c].result \subseteq Creating!Account
                               /\ calls[c].from \in Creating!Indices /\ calls[c].to \in Creating!Indices
                               /\ calls[c].entropySource \in Sources
BY DEF Creating!TypeOK, CallSet

LEMMA CallForms ==
    ASSUME NEW next \in CallSet
    PROVE  /\ \A pc \in {"reading", "answered"} : [next EXCEPT !.pc = pc] \in CallSet
           /\ \A S \in SUBSET Creating!Account :
                /\ [next EXCEPT !.pc = "deriving", !.all = S] \in CallSet
                /\ [next EXCEPT !.pc = "merging", !.all = S] \in CallSet
                /\ [next EXCEPT !.pc = "answered", !.result = S] \in CallSet
BY DEF CallSet

\* A call that is not at its step holds what it held, as long as nothing is lost.
LEMMA OtherCalls ==
    ASSUME NEW c \in Calls, CallHolds(c), calls'[c] = calls[c], \A a : Kept(a) => Kept(a)'
    PROVE  CallHolds(c)'
BY DEF CallHolds

LEMMA CreatingInitInv == ASSUME Creating!TronAccountsAssumption, Creating!Init PROVE CreatingInv
<1>1. /\ accounts = {} /\ drawn = 0 /\ deleted = {} /\ calls = [c \in Calls |-> Creating!NoCall]
  BY DEF Creating!Init
<1>2. Creating!TypeOK
  BY <1>1, AccountConstants DEF Creating!TypeOK, CallSet
<1>3. \A c \in Calls : calls[c].all = {} /\ calls[c].result = {} /\ calls[c].pc = "none"
  BY <1>1 DEF Creating!NoCall
<1>4. Known = {}
  BY <1>1, <1>3 DEF Known
<1>5. IdsDrawn /\ IdsApart /\ OnePerIndex(accounts)
  BY <1>1, <1>4 DEF IdsDrawn, IdsApart, OnePerIndex
<1>6. \A c \in Calls : CallHolds(c)
  BY <1>3 DEF CallHolds, OnePerIndex
<1> QED  BY <1>2, <1>5, <1>6 DEF CreatingInv

\* Steps that only move one call on.
LEMMA CallMoves ==
    ASSUME Creating!TronAccountsAssumption, CreatingInv, NEW c \in Calls, NEW next \in CallSet, calls' = [calls EXCEPT ![c] = next],
           UNCHANGED <<accounts, deleted>>, drawn' = drawn, next.all \subseteq Known, CallHolds(c)'
    PROVE  CreatingInv'
<1>0. Creating!TypeOK /\ IdsDrawn /\ IdsApart /\ OnePerIndex(accounts) /\ \A d \in Calls : CallHolds(d)
  BY DEF CreatingInv
<1>1. calls \in [Calls -> CallSet] /\ calls' \in [Calls -> CallSet]
  BY <1>0, CallTypes
<1>2. calls'[c] = next /\ \A d \in Calls : d # c => calls'[d] = calls[d]
  BY <1>1
<1>3. Creating!TypeOK'
  BY <1>0, <1>1 DEF Creating!TypeOK, CallSet
<1>4. Known' \subseteq Known
  BY <1>2 DEF Known
<1>5. IdsDrawn' /\ IdsApart' /\ OnePerIndex(accounts)'
  BY <1>0, <1>4 DEF IdsDrawn, IdsApart, OnePerIndex
<1>6. \A a : Kept(a) => Kept(a)'
  BY DEF Kept
<1>7. \A d \in Calls : CallHolds(d)'
  BY <1>0, <1>2, <1>6, OtherCalls
<1> QED  BY <1>3, <1>5, <1>7 DEF CreatingInv

LEMMA StepCreate ==
    ASSUME Creating!TronAccountsAssumption, CreatingInv,
           NEW c \in Calls, NEW kind \in Creating!Kinds, NEW source \in Sources, NEW from \in Creating!Indices, NEW to \in Creating!Indices,
           Creating!CreateAccounts(c, kind, source, from, to)
    PROVE  CreatingInv'
<1> DEFINE next == [Creating!NoCall EXCEPT !.pc = IF kind = "discover" THEN "discovering" ELSE "reading",
                                           !.entropySource = source, !.from = from, !.to = to]
<1>1. next \in CallSet
  <2>1. Creating!NoCall \in CallSet
    BY AccountConstants
  <2> QED  BY <2>1 DEF CallSet
<1>2. next.pc \in {"discovering", "reading"} /\ next.all = {} /\ next.result = {}
  BY DEF Creating!NoCall
<1>3. calls' = [calls EXCEPT ![c] = next] /\ UNCHANGED <<accounts, drawn, deleted>>
  BY DEF Creating!CreateAccounts
<1> HIDE DEF next
<1>4. calls'[c] = next
  BY <1>3, CallTypes DEF CreatingInv
<1>5. CallHolds(c)'
  BY <1>2, <1>4 DEF CallHolds, OnePerIndex
<1> QED  BY <1>1, <1>2, <1>3, <1>5, CallMoves

LEMMA StepDiscover ==
    ASSUME Creating!TronAccountsAssumption, CreatingInv, NEW c \in Calls, NEW active \in BOOLEAN, Creating!Discover(c, active)
    PROVE  CreatingInv'
<1>0. Creating!TypeOK /\ CallHolds(c) /\ calls[c] \in CallSet
  BY CallTypes DEF CreatingInv
<1> DEFINE next == [calls[c] EXCEPT !.pc = IF active THEN "reading" ELSE "answered"]
<1>1. next \in CallSet
  BY <1>0, CallForms
<1>2. next.all = {} /\ next.result = {}
  BY <1>0 DEF CallSet, CallHolds, Creating!Discover
<1>3. calls' = [calls EXCEPT ![c] = next] /\ UNCHANGED <<accounts, drawn, deleted>>
  BY DEF Creating!Discover
<1>p. next.pc \in {"reading", "answered"}
  BY <1>0 DEF CallSet
<1> HIDE DEF next
<1>4. calls'[c] = next
  BY <1>0, <1>3, CallTypes
<1>5. CallHolds(c)'
  BY <1>2, <1>4, <1>p DEF CallHolds, OnePerIndex
<1> QED  BY <1>1, <1>2, <1>3, <1>5, CallMoves

LEMMA StepFind ==
    ASSUME Creating!TronAccountsAssumption, CreatingInv, NEW c \in Calls, Creating!findByEntropySourceAndRange(c)
    PROVE  CreatingInv'
<1>0. Creating!TypeOK /\ CallHolds(c) /\ calls[c] \in CallSet /\ OnePerIndex(accounts)
  BY CallTypes DEF CreatingInv
<1> DEFINE found == accounts \cap Creating!InRange(calls[c])
           next  == [calls[c] EXCEPT !.pc = "deriving", !.all = found]
<1>1. next \in CallSet
  BY <1>0, CallForms DEF Creating!TypeOK
<1>2. /\ next.pc = "deriving" /\ next.all = found /\ next.result = calls[c].result
      /\ next.from = calls[c].from /\ next.to = calls[c].to /\ next.entropySource = calls[c].entropySource
  BY <1>0 DEF CallSet
<1>3. calls' = [calls EXCEPT ![c] = next] /\ UNCHANGED <<accounts, drawn, deleted>> /\ calls[c].pc = "reading"
  BY DEF Creating!findByEntropySourceAndRange
<1> HIDE DEF next
<1>4. calls'[c] = next
  BY <1>0, <1>3, CallTypes
<1>5. next.all \subseteq Known /\ next.all \subseteq Creating!InRange(next) /\ OnePerIndex(next.all) /\ \A a \in next.all : Kept(a)'
  BY <1>0, <1>2, <1>3 DEF Known, Creating!InRange, OnePerIndex, Kept
<1>6. CallHolds(c)'
  BY <1>0, <1>2, <1>3, <1>4, <1>5 DEF CallHolds, OnePerIndex
<1> QED  BY <1>1, <1>3, <1>5, <1>6, CallMoves

LEMMA StepDerive ==
    ASSUME Creating!TronAccountsAssumption, CreatingInv, NEW c \in Calls, Creating!DeriveMissing(c)
    PROVE  CreatingInv'
<1>0. /\ Creating!TypeOK /\ CallHolds(c) /\ calls[c] \in CallSet /\ OnePerIndex(accounts) /\ IdsDrawn /\ IdsApart
      /\ \A d \in Calls : CallHolds(d)
  BY CallTypes DEF CreatingInv
<1>c. MaxIndex \in Nat /\ MaxIds \in Nat
  BY AccountConstants
<1>d. drawn \in 0..MaxIds
  BY <1>0 DEF Creating!TypeOK
<1> DEFINE missing == Creating!Missing(calls[c])
           new(i)  == [id |-> drawn + 1 + Creating!Cardinality({k \in missing : k < i}),
                       entropySource |-> calls[c].entropySource, index |-> i]
           news    == {new(i) : i \in missing}
<1>m. missing \in SUBSET Nat /\ missing \subseteq Creating!Indices /\ IsFiniteSet(missing) /\ missing \subseteq calls[c].from..calls[c].to
  <2>1. calls[c].from \in Creating!Indices /\ calls[c].to \in Creating!Indices
    BY <1>0, CallTypes
  <2>2. missing \subseteq calls[c].from..calls[c].to
    BY DEF Creating!Missing
  <2>3. calls[c].from..calls[c].to \subseteq 0..MaxIndex
    BY <1>c, <2>1 DEF Creating!Indices
  <2>4. IsFiniteSet(0..MaxIndex)
    BY <1>c, FS_Interval
  <2>5. IsFiniteSet(missing)
    BY <2>2, <2>3, <2>4, FS_Subset
  <2> QED  BY <1>c, <2>2, <2>3, <2>5 DEF Creating!Indices
<1>1. CASE missing = {}
  <2> DEFINE next == [calls[c] EXCEPT !.pc = "answered", !.result = calls[c].all]
  <2>1. calls' = [calls EXCEPT ![c] = next] /\ UNCHANGED <<accounts, drawn, deleted>> /\ calls[c].pc = "deriving"
    BY <1>1 DEF Creating!DeriveMissing
  <2>2. next \in CallSet
    BY <1>0, CallForms, CallTypes
  <2>3. /\ next.pc = "answered" /\ next.result = calls[c].all /\ next.all = calls[c].all
        /\ next.from = calls[c].from /\ next.to = calls[c].to /\ next.entropySource = calls[c].entropySource
    BY <1>0 DEF CallSet
  <2> HIDE DEF next
  <2>4. calls'[c] = next
    BY <1>0, <2>1, CallTypes
  <2>5. \A a \in next.all : Kept(a)'
    BY <1>0, <2>1, <2>3 DEF CallHolds, Kept
  <2>6. \A i \in next.from..next.to : \E a \in next.all : {b \in next.all : b.index = i} = {a}
    <3> SUFFICES ASSUME NEW i \in calls[c].from..calls[c].to PROVE \E a \in calls[c].all : {b \in calls[c].all : b.index = i} = {a}
      BY <2>3
    <3>1. PICK a \in calls[c].all : a.index = i
      BY <1>1 DEF Creating!Missing
    <3>2. \A b \in calls[c].all : b.index = i => b = a
      BY <1>0, <3>1 DEF CallHolds, OnePerIndex, Creating!InRange
    <3> QED  BY <3>1, <3>2
  <2>7. CallHolds(c)'
    BY <1>0, <2>3, <2>4, <2>5, <2>6 DEF CallHolds, Creating!InRange
  <2>8. next.all \subseteq Known
    BY <2>3 DEF Known
  <2> QED  BY <2>1, <2>2, <2>7, <2>8, CallMoves
<1>2. CASE missing # {}
  <2> DEFINE next == [calls[c] EXCEPT !.pc = "merging", !.all = calls[c].all \cup news]
             n    == Creating!Cardinality(missing)
  <2>1. /\ calls' = [calls EXCEPT ![c] = next] /\ UNCHANGED <<accounts, deleted>> /\ calls[c].pc = "deriving"
        /\ drawn' = drawn + n /\ drawn + n <= MaxIds
    <3>1. /\ calls' = [calls EXCEPT ![c].pc = "merging", ![c].all = calls[c].all \cup news]
          /\ UNCHANGED <<accounts, deleted>> /\ calls[c].pc = "deriving"
          /\ drawn' = drawn + n /\ drawn + n <= MaxIds
      BY <1>2, Zenon DEF Creating!DeriveMissing
    <3> HIDE DEF news, n, missing
    <3> QED  BY <3>1
  <2>r. /\ n \in Nat /\ \A i \in missing : Rank(missing, i) \in 0..n - 1
        /\ \A i, j \in missing : Rank(missing, i) = Rank(missing, j) => i = j
    BY <1>m, RankFacts, SameCardinality
  <2>i. \A i \in missing : new(i) = [id |-> drawn + 1 + Rank(missing, i), entropySource |-> calls[c].entropySource, index |-> i]
    BY SameCardinality DEF Rank
  <2> HIDE DEF missing, new, n
  \* The new ids are above those drawn before, and apart.
  <2>2. ASSUME NEW i \in missing
        PROVE  /\ new(i).id \in drawn + 1..drawn + n /\ new(i).index = i /\ new(i).entropySource = calls[c].entropySource
               /\ new(i) \in Creating!Account
    <3>1. drawn + 1 + Rank(missing, i) \in drawn + 1..drawn + n
      BY <1>d, <2>r
    <3>2. drawn + 1 + Rank(missing, i) \in 1..MaxIds
      BY <1>c, <1>d, <2>1, <2>r
    <3>3. i \in Creating!Indices /\ calls[c].entropySource \in Sources
      BY <1>0, <1>m, CallTypes
    <3> QED  BY <2>i, <3>1, <3>2, <3>3 DEF Creating!Account
  <2>3. ASSUME NEW i \in missing, NEW j \in missing, new(i).id = new(j).id PROVE new(i) = new(j)
    <3>1. drawn + 1 + Rank(missing, i) = drawn + 1 + Rank(missing, j)
      BY <2>3, <2>i
    <3>2. Rank(missing, i) = Rank(missing, j)
      BY <1>d, <2>r, <3>1
    <3> QED  BY <2>r, <3>2
  <2>4. news \subseteq Creating!Account
    BY <2>2
  <2>5. next \in CallSet
    <3>1. calls[c].all \cup news \in SUBSET Creating!Account
      BY <1>0, <2>4, CallTypes
    <3> HIDE DEF news
    <3> QED  BY <1>0, <3>1, CallForms
  <2>6. /\ next.pc = "merging" /\ next.result = calls[c].result /\ next.all = calls[c].all \cup news
        /\ next.from = calls[c].from /\ next.to = calls[c].to /\ next.entropySource = calls[c].entropySource
    BY <1>0 DEF CallSet
  <2> HIDE DEF next
  <2>7. calls \in [Calls -> CallSet] /\ calls'[c] = next /\ (\A d \in Calls : d # c => calls'[d] = calls[d])
    BY <1>0, <2>1, CallTypes
  <2>8. Creating!TypeOK'
    <3>1. calls' \in [Calls -> CallSet]
      BY <2>1, <2>5, <2>7
    <3>2. drawn' \in 0..MaxIds
      BY <1>c, <1>d, <2>1, <2>r
    <3> QED  BY <1>0, <2>1, <3>1, <3>2 DEF Creating!TypeOK, CallSet
  <2>9. Known' \subseteq Known \cup news
    BY <2>1, <2>6, <2>7 DEF Known
  <2>10. IdsDrawn'
    <3>1. \A a \in Known : a.id \in 1..drawn'
      BY <1>0, <1>d, <2>1, <2>r DEF IdsDrawn
    <3>2. \A a \in news : a.id \in 1..drawn'
      BY <1>d, <2>1, <2>2, <2>r
    <3>3. deleted \subseteq 1..drawn'
      BY <1>0, <1>d, <2>1, <2>r DEF IdsDrawn
    <3> QED  BY <2>1, <2>9, <3>1, <3>2, <3>3 DEF IdsDrawn
  <2>11. IdsApart'
    <3>1. ASSUME NEW a \in Known, NEW b \in news PROVE a.id # b.id
      BY <1>0, <1>d, <2>2, <2>r DEF IdsDrawn
    <3>2. \A a, b \in news : a.id = b.id => a = b
      BY <2>3
    <3> QED  BY <1>0, <2>9, <3>1, <3>2 DEF IdsApart
  <2>12. OnePerIndex(accounts)'
    BY <1>0, <2>1 DEF OnePerIndex
  <2>13. CallHolds(c)'
    <3>1. next.all \subseteq Creating!InRange(next)
      BY <1>0, <1>m, <2>2, <2>6 DEF CallHolds, Creating!InRange
    <3>2. OnePerIndex(next.all)
      <4>1. \A a \in calls[c].all, b \in news : a.index # b.index
        BY <2>2 DEF missing, Creating!Missing
      <4>2. \A a, b \in news : a.index = b.index => a = b
        BY <2>2
      <4> QED  BY <1>0, <2>6, <4>1, <4>2 DEF OnePerIndex, CallHolds
    <3>3. \A i \in next.from..next.to : \E a \in next.all : a.index = i
      <4> SUFFICES ASSUME NEW i \in calls[c].from..calls[c].to PROVE \E a \in calls[c].all \cup news : a.index = i
        BY <2>6
      <4>1. CASE i \in missing
        BY <2>2, <4>1
      <4>2. CASE i \notin missing
        BY <4>2 DEF missing, Creating!Missing
      <4> QED  BY <4>1, <4>2
    <3>4. next.result = {}
      BY <1>0, <2>1, <2>6 DEF CallHolds
    <3> QED  BY <2>6, <2>7, <3>1, <3>2, <3>3, <3>4 DEF CallHolds, OnePerIndex
  <2>14. \A d \in Calls : CallHolds(d)'
    <3>1. \A a : Kept(a) => Kept(a)'
      BY <2>1 DEF Kept
    <3> QED  BY <1>0, <2>7, <2>13, <3>1, OtherCalls
  <2> QED  BY <2>8, <2>10, <2>11, <2>12, <2>14 DEF CreatingInv
<1> QED  BY <1>1, <1>2

\* The first account saved for an index wins; the loser answers with it.
LEMMA StepMerge ==
    ASSUME Creating!TronAccountsAssumption, CreatingInv, NEW c \in Calls, Creating!mergeKeyringAccounts(c)
    PROVE  CreatingInv'
<1>0. /\ Creating!TypeOK /\ CallHolds(c) /\ calls[c] \in CallSet /\ OnePerIndex(accounts) /\ IdsDrawn /\ IdsApart
      /\ \A d \in Calls : CallHolds(d)
  BY CallTypes DEF CreatingInv
<1> DEFINE all    == calls[c].all
           merged == Creating!mergeAccountsWithoutIndexConflicts(accounts, Creating!New(c))
           inside == merged \cap Creating!InRange(calls[c])
           rest   == {a \in all : ~\E b \in inside : b.index = a.index}
           next   == [calls[c] EXCEPT !.pc = "answered", !.result = inside \cup rest]
<1>1. /\ calls' = [calls EXCEPT ![c] = next] /\ accounts' = merged /\ UNCHANGED <<drawn, deleted>>
      /\ calls[c].pc = "merging"
  BY DEF Creating!mergeKeyringAccounts
<1>2. merged \subseteq accounts \cup all /\ accounts \subseteq merged
  BY DEF Creating!mergeAccountsWithoutIndexConflicts, Creating!New
<1>3. all \subseteq Creating!InRange(calls[c]) /\ all \subseteq Creating!Account /\ accounts \subseteq Creating!Account /\ OnePerIndex(all)
  BY <1>0, CallTypes DEF CallHolds, Creating!TypeOK
<1>4. all \subseteq Known /\ accounts \subseteq Known
  BY DEF Known
\* What is merged has one account for an index.
<1>5. OnePerIndex(merged)
  <2>1. \A a \in merged \ accounts, e \in accounts : ~(e.entropySource = a.entropySource /\ e.index = a.index)
    BY DEF Creating!mergeAccountsWithoutIndexConflicts
  <2>2. \A a, b \in merged \ accounts : a.entropySource = b.entropySource /\ a.index = b.index => a = b
    BY <1>2, <1>3 DEF OnePerIndex
  <2> HIDE DEF merged
  <2> QED  BY <1>0, <2>1, <2>2 DEF OnePerIndex
\* An account that was derived and is not merged was deleted, or another one has its index.
<1>6. ASSUME NEW a \in rest PROVE a.id \in deleted
  <2>1. a \in all /\ a \notin merged
    BY <1>3
  <2>2. \A e \in accounts : ~(e.entropySource = a.entropySource /\ e.index = a.index)
    <3> SUFFICES ASSUME NEW e \in accounts, e.entropySource = a.entropySource, e.index = a.index PROVE FALSE
      OBVIOUS
    <3>1. e \in inside
      BY <1>2, <1>3, <2>1 DEF Creating!InRange
    <3> QED  BY <3>1
  <2>3. a \notin Creating!New(c)
    BY <2>1, <2>2 DEF Creating!mergeAccountsWithoutIndexConflicts
  <2>4. a.id \in {b.id : b \in accounts} \cup deleted
    BY <2>1, <2>3 DEF Creating!New
  <2>5. \A b \in accounts : b.id # a.id
    BY <1>0, <1>4, <2>1, <1>2 DEF IdsApart
  <2> QED  BY <2>4, <2>5
<1> HIDE DEF merged
<1>7. inside \subseteq Creating!Account /\ rest \subseteq Creating!Account
  BY <1>2, <1>3
<1>8. next \in CallSet
  <2>1. inside \cup rest \in SUBSET Creating!Account
    BY <1>7
  <2> HIDE DEF inside, rest
  <2> QED  BY <1>0, <2>1, CallForms
<1>9. /\ next.pc = "answered" /\ next.result = inside \cup rest /\ next.all = all
      /\ next.from = calls[c].from /\ next.to = calls[c].to /\ next.entropySource = calls[c].entropySource
  BY <1>0 DEF CallSet
<1> HIDE DEF next
<1>10. calls \in [Calls -> CallSet] /\ calls'[c] = next /\ (\A d \in Calls : d # c => calls'[d] = calls[d])
  BY <1>0, <1>1, CallTypes
<1>11. Creating!TypeOK'
  <2>1. calls' \in [Calls -> CallSet]
    BY <1>1, <1>8, <1>10
  <2>2. accounts' \subseteq Creating!Account
    BY <1>1, <1>2, <1>3
  <2> QED  BY <1>0, <1>1, <2>1, <2>2 DEF Creating!TypeOK, CallSet
<1>12. IdsDrawn' /\ IdsApart'
  <2>1. Known' \subseteq Known
    BY <1>1, <1>2, <1>4, <1>9, <1>10 DEF Known
  <2> QED  BY <1>0, <1>1, <2>1 DEF IdsDrawn, IdsApart
<1>13. \A a : Kept(a) => Kept(a)'
  BY <1>1, <1>2 DEF Kept
<1>14. CallHolds(c)'
  <2>1. \A a \in inside \cup rest : Kept(a)'
    BY <1>1, <1>6 DEF Kept
  <2>2. \A i \in next.from..next.to : \E a \in inside \cup rest : {b \in inside \cup rest : b.index = i} = {a}
    <3> SUFFICES ASSUME NEW i \in calls[c].from..calls[c].to
                 PROVE  \E a \in inside \cup rest : {b \in inside \cup rest : b.index = i} = {a}
      BY <1>9
    <3>1. \A a, b \in inside : a.index = b.index => a = b
      BY <1>5 DEF OnePerIndex, Creating!InRange
    <3>2. \A a, b \in rest : a.index = b.index => a = b
      BY <1>3 DEF OnePerIndex, Creating!InRange
    <3>3. \A a \in rest, b \in inside : a.index # b.index
      OBVIOUS
    <3>4. \E a \in inside \cup rest : a.index = i
      <4>1. PICK a \in all : a.index = i
        BY <1>0, <1>1 DEF CallHolds
      <4> QED  BY <4>1
    <3> HIDE DEF inside, rest
    <3> QED  BY <3>1, <3>2, <3>3, <3>4
  <2>3. next.all \subseteq Creating!InRange(next) /\ OnePerIndex(next.all)
    BY <1>3, <1>9 DEF Creating!InRange
  <2> HIDE DEF inside, rest
  <2> QED  BY <1>9, <1>10, <2>1, <2>2, <2>3 DEF CallHolds, OnePerIndex
<1>15. \A d \in Calls : CallHolds(d)'
  BY <1>0, <1>10, <1>13, <1>14, OtherCalls
<1>16. OnePerIndex(accounts)'
  BY <1>1, <1>5 DEF OnePerIndex
<1> QED  BY <1>11, <1>12, <1>15, <1>16 DEF CreatingInv

LEMMA StepDelete ==
    ASSUME Creating!TronAccountsAssumption, CreatingInv, NEW a \in accounts, Creating!deleteAccount(a)
    PROVE  CreatingInv'
<1>0. /\ Creating!TypeOK /\ OnePerIndex(accounts) /\ IdsDrawn /\ IdsApart /\ \A d \in Calls : CallHolds(d)
  BY DEF CreatingInv
<1>1. accounts' = accounts \ {a} /\ deleted' = deleted \cup {a.id} /\ UNCHANGED <<calls, drawn>>
  BY DEF Creating!deleteAccount
<1>2. Known' \subseteq Known /\ a \in Known
  BY <1>1 DEF Known
<1>3. Creating!TypeOK'
  BY <1>0, <1>1 DEF Creating!TypeOK, Creating!Account
<1>4. IdsDrawn' /\ IdsApart' /\ OnePerIndex(accounts)'
  BY <1>0, <1>1, <1>2 DEF IdsDrawn, IdsApart, OnePerIndex
<1>5. \A b : Kept(b) => Kept(b)'
  BY <1>1 DEF Kept
<1>6. \A d \in Calls : CallHolds(d)'
  BY <1>0, <1>1, <1>5, OtherCalls
<1> QED  BY <1>3, <1>4, <1>6 DEF CreatingInv

LEMMA StepChanging == ASSUME Creating!TronAccountsAssumption, CreatingInv, Creating!Changing PROVE CreatingInv'
BY StepCreate, StepDiscover, StepFind, StepDerive, StepMerge, StepDelete DEF Creating!Changing

LEMMA CreatingKept == ASSUME CreatingInv, UNCHANGED <<accounts, calls, drawn, deleted>> PROVE CreatingInv'
<1>1. Creating!TypeOK' /\ IdsDrawn' /\ IdsApart' /\ OnePerIndex(accounts)'
  BY DEF CreatingInv, Creating!TypeOK, IdsDrawn, IdsApart, OnePerIndex, Known
<1>2. \A d \in Calls : CallHolds(d)'
  BY OtherCalls DEF CreatingInv, Kept
<1> QED  BY <1>1, <1>2 DEF CreatingInv

\* No account is lost without its id being remembered as deleted.
LEMMA KeptGrows == ASSUME Creating!Changing PROVE \A a : Kept(a) => Kept(a)'
<1>1. ASSUME NEW c \in Calls, Creating!mergeKeyringAccounts(c) PROVE accounts \subseteq accounts' /\ deleted' = deleted
  BY <1>1 DEF Creating!mergeKeyringAccounts, Creating!mergeAccountsWithoutIndexConflicts
<1>2. ASSUME NEW a \in accounts, Creating!deleteAccount(a) PROVE accounts' = accounts \ {a} /\ deleted' = deleted \cup {a.id}
  BY <1>2 DEF Creating!deleteAccount
<1>3. ASSUME NEW c \in Calls,
             \/ \E kind \in Creating!Kinds, source \in Sources, from, to \in Creating!Indices :
                  Creating!CreateAccounts(c, kind, source, from, to)
             \/ \E active \in BOOLEAN : Creating!Discover(c, active)
             \/ Creating!findByEntropySourceAndRange(c)
             \/ Creating!DeriveMissing(c)
      PROVE  UNCHANGED <<accounts, deleted>>
  BY <1>3 DEF Creating!CreateAccounts, Creating!Discover, Creating!findByEntropySourceAndRange, Creating!DeriveMissing
<1> QED  BY <1>1, <1>2, <1>3 DEF Kept, Creating!Changing

RequestSet ==
    [pc : {"none", "resolved", "confirming", "signing", "answered"}, address : Creating!Address,
     account : Creating!Account \cup {Creating!Nobody}, method : {"none", "signMessage", "signTransaction", "export"},
     owner : Creating!Address, agreed : BOOLEAN,
     answer : {"none", "signed", "exported", "unknown", "method", "malformed", "rejected", "owner", "failed"}]

LEMMA RequestForms ==
    ASSUME Creating!ServingTypeOK
    PROVE  /\ request \in RequestSet
           /\ \A v \in {"signed", "unknown", "method", "malformed", "rejected", "owner", "failed"} :
                /\ Creating!Answered(v) \in RequestSet
                /\ Creating!Answered(v).pc = "answered" /\ Creating!Answered(v).answer = v
                /\ Creating!Answered(v).account = request.account /\ Creating!Answered(v).address = request.address
                /\ Creating!Answered(v).agreed = request.agreed /\ Creating!Answered(v).method = request.method
                /\ Creating!Answered(v).owner = request.owner
           /\ \A address \in Creating!Address : [Creating!Answered("unknown") EXCEPT !.address = address] \in RequestSet
           /\ \A address \in Creating!Address, a \in Creating!Account :
                [request EXCEPT !.pc = "resolved", !.address = address, !.account = a] \in RequestSet
           /\ \A method \in {"signMessage", "signTransaction"}, owner \in Creating!Address :
                [request EXCEPT !.pc = "confirming", !.method = method, !.owner = owner] \in RequestSet
           /\ [request EXCEPT !.pc = "signing", !.agreed = TRUE] \in RequestSet
           /\ \A v \in {"unknown", "failed", "exported"} : [Creating!Answered(v) EXCEPT !.method = "export"] \in RequestSet
<1>1. request \in RequestSet
  BY DEF Creating!ServingTypeOK, RequestSet
<1>2. \A v \in {"signed", "exported", "unknown", "method", "malformed", "rejected", "owner", "failed"} :
        /\ Creating!Answered(v) \in RequestSet
        /\ Creating!Answered(v).pc = "answered" /\ Creating!Answered(v).answer = v
        /\ Creating!Answered(v).account = request.account /\ Creating!Answered(v).address = request.address
        /\ Creating!Answered(v).agreed = request.agreed /\ Creating!Answered(v).method = request.method
        /\ Creating!Answered(v).owner = request.owner
  BY <1>1 DEF RequestSet, Creating!Answered
<1>3. \A r \in RequestSet, address \in Creating!Address : [r EXCEPT !.address = address] \in RequestSet
  BY DEF RequestSet
<1>4. \A r \in RequestSet : [r EXCEPT !.method = "export"] \in RequestSet
  BY DEF RequestSet
<1>5. \A address \in Creating!Address, a \in Creating!Account :
        [request EXCEPT !.pc = "resolved", !.address = address, !.account = a] \in RequestSet
  BY <1>1 DEF RequestSet
<1>6. /\ \A method \in {"signMessage", "signTransaction"}, owner \in Creating!Address :
           [request EXCEPT !.pc = "confirming", !.method = method, !.owner = owner] \in RequestSet
      /\ [request EXCEPT !.pc = "signing", !.agreed = TRUE] \in RequestSet
  BY <1>1 DEF RequestSet
<1>7. \A address \in Creating!Address : [Creating!Answered("unknown") EXCEPT !.address = address] \in RequestSet
  <2>1. Creating!Answered("unknown") \in RequestSet
    BY <1>2
  <2> QED  BY <1>3, <2>1
<1>8. \A v \in {"unknown", "failed", "exported"} : [Creating!Answered(v) EXCEPT !.method = "export"] \in RequestSet
  <2>1. \A v \in {"unknown", "failed", "exported"} : Creating!Answered(v) \in RequestSet
    BY <1>2
  <2> QED  BY <1>4, <2>1
<1>9. \A v \in {"signed", "unknown", "method", "malformed", "rejected", "owner", "failed"} :
        /\ Creating!Answered(v) \in RequestSet
        /\ Creating!Answered(v).pc = "answered" /\ Creating!Answered(v).answer = v
        /\ Creating!Answered(v).account = request.account /\ Creating!Answered(v).address = request.address
        /\ Creating!Answered(v).agreed = request.agreed /\ Creating!Answered(v).method = request.method
        /\ Creating!Answered(v).owner = request.owner
  BY <1>2
<1> QED  BY <1>1, <1>5, <1>6, <1>7, <1>8, <1>9

\* A request that is answered without a signature.
LEMMA Refused ==
    ASSUME request' \in RequestSet, request'.pc = "answered", request'.answer \notin {"signed", "exported"}
    PROVE  ServingInv'
BY DEF ServingInv, Creating!ServingTypeOK, RequestSet, Resolved, Unanswered2, Creating!SignedForTheNamed

LEMMA StepServing ==
    ASSUME Creating!TronAccountsAssumption, Creating!TypeOK, ServingInv, Creating!Serving, UNCHANGED <<accounts, calls, drawn, deleted>>
    PROVE  ServingInv'
<1>0. Creating!ServingTypeOK /\ Resolved /\ Unanswered2
  BY DEF ServingInv
<1>r. request \in RequestSet
  BY <1>0, RequestForms
<1>k. \A a : Kept(a)' <=> Kept(a)
  BY DEF Kept
<1>1. ASSUME NEW address \in Creating!Address, Creating!resolveAccountAddress(address) PROVE ServingInv'
  <2> DEFINE found == {a \in accounts : Creating!AddressOf(a) = address}
  <2>1. CASE found = {}
    <3>1. request' = [Creating!Answered("unknown") EXCEPT !.address = address]
      BY <1>1, <2>1 DEF Creating!resolveAccountAddress
    <3>2. request' \in RequestSet
      BY <1>0, <3>1, RequestForms
    <3>3. request'.pc = "answered" /\ request'.answer = "unknown"
      BY <1>r, <3>1 DEF Creating!Answered, RequestSet
    <3> QED  BY <3>2, <3>3, Refused
  <2>2. CASE found # {}
    <3>1. PICK a \in found : request' = [request EXCEPT !.pc = "resolved", !.address = address, !.account = a]
      BY <1>1, <2>2 DEF Creating!resolveAccountAddress
    <3>2. a \in Creating!Account /\ a \in accounts /\ Creating!AddressOf(a) = address
      BY <3>1 DEF Creating!TypeOK
    <3>3. request' \in RequestSet
      BY <1>0, <3>1, <3>2, RequestForms
    <3>4. request'.pc = "resolved" /\ request'.address = address /\ request'.account = a /\ request'.answer = "none"
      BY <1>0, <1>1, <1>r, <3>1 DEF RequestSet, Unanswered2, Creating!resolveAccountAddress
    <3> QED
      BY <3>2, <3>3, <3>4 DEF ServingInv, Creating!ServingTypeOK, RequestSet, Resolved, Unanswered2, Kept,
                              Creating!SignedForTheNamed
  <2> QED  BY <2>1, <2>2
<1>2. ASSUME NEW method \in {"signMessage", "signTransaction", "other"}, NEW owner \in Creating!Address, NEW wellFormed \in BOOLEAN,
             Creating!submitRequest(method, owner, wellFormed)
      PROVE  ServingInv'
  <2>1. ASSUME NEW v \in {"unknown", "method", "malformed"}, request' = Creating!Answered(v) PROVE ServingInv'
    BY <1>0, <2>1, RequestForms, Refused
  <2>2. ASSUME method \in {"signMessage", "signTransaction"},
               request' = [request EXCEPT !.pc = "confirming", !.method = method, !.owner = owner]
        PROVE  ServingInv'
    <3>1. request' \in RequestSet
      BY <1>0, <2>2, RequestForms
    <3>2. /\ request.pc = "resolved" /\ request'.pc = "confirming" /\ request'.answer = request.answer
          /\ request'.address = request.address /\ request'.account = request.account
      BY <1>2, <1>r, <2>2 DEF RequestSet, Creating!submitRequest
    <3> QED
      BY <1>0, <1>k, <3>1, <3>2 DEF ServingInv, Creating!ServingTypeOK, RequestSet, Resolved, Unanswered2,
                                    Creating!SignedForTheNamed
  <2> QED  BY <1>2, <2>1, <2>2 DEF Creating!submitRequest
<1>3. ASSUME NEW agreed \in BOOLEAN, Creating!handleConfirmation(agreed) PROVE ServingInv'
  <2>1. CASE request' = Creating!Answered("rejected")
    BY <1>0, <2>1, RequestForms, Refused
  <2>2. CASE request' = [request EXCEPT !.pc = "signing", !.agreed = TRUE]
    <3>1. request' \in RequestSet
      BY <1>0, <2>2, RequestForms
    <3>2. /\ request.pc = "confirming" /\ request'.pc = "signing" /\ request'.answer = request.answer /\ request'.agreed
          /\ request'.address = request.address /\ request'.account = request.account
      BY <1>3, <1>r, <2>2 DEF RequestSet, Creating!handleConfirmation
    <3> QED
      BY <1>0, <1>k, <3>1, <3>2 DEF ServingInv, Creating!ServingTypeOK, RequestSet, Resolved, Unanswered2,
                                    Creating!SignedForTheNamed
  <2> QED  BY <1>3, <2>1, <2>2 DEF Creating!handleConfirmation
<1>4. ASSUME NEW fails \in BOOLEAN, Creating!signMessage(fails) \/ Creating!signTransaction(fails) PROVE ServingInv'
  <2>1. PICK v \in {"signed", "owner", "failed"} :
          /\ request' = Creating!Answered(v)
          /\ v = "signed" /\ request.method = "signTransaction" => request.owner = Creating!AddressOf(request.account)
    BY <1>4 DEF Creating!signMessage, Creating!signTransaction
  <2>2. request.pc = "signing"
    BY <1>4 DEF Creating!signMessage, Creating!signTransaction
  <2>3. CASE v # "signed"
    BY <1>0, <2>1, <2>3, RequestForms, Refused
  <2>4. CASE v = "signed"
    <3>1. /\ request' \in RequestSet /\ request'.pc = "answered" /\ request'.answer = "signed"
          /\ request'.account = request.account /\ request'.address = request.address
          /\ request'.agreed = request.agreed /\ request'.method = request.method /\ request'.owner = request.owner
      BY <1>0, <2>1, <2>4, RequestForms
    <3>2. Creating!AddressOf(request.account) = request.address /\ Kept(request.account) /\ request.agreed
      BY <1>0, <2>2 DEF Resolved, Unanswered2
    <3>3. Creating!SignedForTheNamed'
      BY <1>k, <2>1, <2>4, <3>1, <3>2 DEF Creating!SignedForTheNamed, Kept, Creating!AddressOf
    <3> QED  BY <3>1, <3>3 DEF ServingInv, Creating!ServingTypeOK, RequestSet, Resolved, Unanswered2
  <2> QED  BY <2>3, <2>4
<1>5. ASSUME NEW fails \in BOOLEAN, Creating!exportAccount(fails) PROVE ServingInv'
  <2>1. PICK v \in {"unknown", "failed", "exported"} :
          /\ request' = [Creating!Answered(v) EXCEPT !.method = "export"]
          /\ v = "exported" => request.account \in accounts
    BY <1>5 DEF Creating!exportAccount
  <2>2. /\ request' \in RequestSet /\ request'.pc = "answered" /\ request'.answer = v /\ request'.method = "export"
        /\ request'.account = request.account /\ request'.address = request.address
    <3>1. request' \in RequestSet
      BY <1>0, <2>1, RequestForms
    <3> QED  BY <1>r, <2>1, <3>1 DEF Creating!Answered, RequestSet
  <2>3. v = "exported" => Creating!AddressOf(request.account) = request.address
    BY <1>0, <1>5 DEF Resolved, Creating!exportAccount
  <2>4. Creating!SignedForTheNamed'
    BY <2>1, <2>2, <2>3 DEF Creating!SignedForTheNamed, Creating!AddressOf
  <2> QED  BY <2>2, <2>4 DEF ServingInv, Creating!ServingTypeOK, RequestSet, Resolved, Unanswered2
<1> QED  BY <1>1, <1>2, <1>3, <1>4, <1>5 DEF Creating!Serving

LEMMA ServingKept == ASSUME ServingInv, UNCHANGED request, \A a : Kept(a) => Kept(a)' PROVE ServingInv'
<1>1. Creating!ServingTypeOK' /\ Unanswered2'
  BY DEF ServingInv, Creating!ServingTypeOK, Unanswered2
<1>2. Resolved'
  BY DEF ServingInv, Resolved, Creating!AddressOf
<1>3. Kept(request.account) => Kept(request.account)'
  OBVIOUS
<1>4. Creating!SignedForTheNamed'
  BY <1>3 DEF ServingInv, Creating!SignedForTheNamed, Kept, Creating!AddressOf
<1> QED  BY <1>1, <1>2, <1>4 DEF ServingInv

LEMMA ServingInitInv == ASSUME Creating!TronAccountsAssumption, Creating!Init PROVE ServingInv
<1>1. 0 \in Creating!Indices /\ Creating!Nobody.entropySource \in Sources
  BY AccountConstants DEF Creating!Indices
<1>2. Creating!AddressOf(Creating!Nobody) \in Creating!Address
  BY <1>1 DEF Creating!AddressOf, Creating!Address, Creating!Nobody
<1>3. request = [pc |-> "none", address |-> Creating!AddressOf(Creating!Nobody), account |-> Creating!Nobody, method |-> "none",
                 owner |-> Creating!AddressOf(Creating!Nobody), agreed |-> FALSE, answer |-> "none"]
  BY DEF Creating!Init
<1> QED  BY <1>2, <1>3 DEF ServingInv, Creating!ServingTypeOK, Resolved, Unanswered2, Creating!SignedForTheNamed

LEMMA AccountsCorrect == ASSUME Creating!TronAccountsAssumption PROVE Creating!Spec => [](CreatingInv /\ ServingInv)
<1>1. Creating!Init => CreatingInv /\ ServingInv
  BY CreatingInitInv, ServingInitInv
<1>2. CreatingInv /\ ServingInv /\ [Creating!Next]_<<Creating!accountsVars, request>> => (CreatingInv /\ ServingInv)'
  <2> SUFFICES ASSUME CreatingInv, ServingInv, [Creating!Next]_<<Creating!accountsVars, request>> PROVE CreatingInv' /\ ServingInv'
    OBVIOUS
  <2>1. CASE Creating!Changing /\ UNCHANGED request
    BY <2>1, StepChanging, KeptGrows, ServingKept
  <2>2. CASE Creating!Serving /\ UNCHANGED Creating!accountsVars
    <3>1. UNCHANGED <<accounts, calls, drawn, deleted>>
      BY <2>2 DEF Creating!accountsVars
    <3> QED  BY <2>2, <3>1, StepServing, CreatingKept DEF CreatingInv
  <2>3. CASE UNCHANGED <<Creating!accountsVars, request>>
    <3>1. UNCHANGED <<accounts, calls, drawn, deleted, request>>
      BY <2>3 DEF Creating!accountsVars
    <3>2. \A a : Kept(a) => Kept(a)'
      BY <3>1 DEF Kept
    <3> QED  BY <3>1, <3>2, CreatingKept, ServingKept
  <2> QED  BY <2>1, <2>2, <2>3 DEF Creating!Next
<1> QED  BY <1>1, <1>2, PTL DEF Creating!Spec

\* For any sources, ranges, overlapping calls and deletions: no index of a source has two accounts, no id is used twice,
\* and a call answers with one account for each index of its range, saved unless it was deleted (createAccounts).
THEOREM AccountsCreated ==
    ASSUME Creating!TronAccountsAssumption
    PROVE  Creating!Spec => [](Creating!OneAccountPerIndex /\ Creating!AnswerIsSaved)
<1>1. CreatingInv => Creating!OneAccountPerIndex
  BY DEF CreatingInv, OnePerIndex, IdsApart, Known, Creating!OneAccountPerIndex
<1>2. CreatingInv => Creating!AnswerIsSaved
  <2> SUFFICES ASSUME CreatingInv, NEW c \in Calls, calls[c].result # {}
               PROVE  /\ \A i \in calls[c].from..calls[c].to : Creating!Cardinality({a \in calls[c].result : a.index = i}) = 1
                      /\ \A a \in calls[c].result : a \in accounts \/ a.id \in deleted
    BY DEF Creating!AnswerIsSaved
  <2>1. CallHolds(c)
    BY DEF CreatingInv
  <2>2. ASSUME NEW i \in calls[c].from..calls[c].to PROVE Creating!Cardinality({a \in calls[c].result : a.index = i}) = 1
    <3>1. PICK a \in calls[c].result : {b \in calls[c].result : b.index = i} = {a}
      BY <2>1 DEF CallHolds
    <3>2. Cardinality({a}) = 1
      BY FS_Singleton
    <3> QED  BY <3>1, <3>2, SameCardinality
  <2> QED  BY <2>1, <2>2 DEF CallHolds, Kept
<1> QED  BY <1>1, <1>2, AccountsCorrect, PTL

\* A key signs, or is handed out, only for the account whose address was named, after the user agreed to sign, and for a
\* transaction of that account, however accounts are created and deleted meanwhile.
THEOREM SignedAsNamed == ASSUME Creating!TronAccountsAssumption PROVE Creating!Spec => []Creating!SignedForTheNamed
<1>1. ServingInv => Creating!SignedForTheNamed
  BY DEF ServingInv
<1> QED  BY <1>1, AccountsCorrect, PTL

------------------------------------------------------------------------------
\* Confirmation dialogs

Confirming == INSTANCE TronConfirmation

\* The outcome of a first scan, and the execution of a job.
FirstScan == [raw : Confirming!Versions, scan : Confirming!Versions \cup {NoScan, Expired}]
Execution == [at : {"idle", "mark", "work", "write"}, id : Dialogs \cup {NoDialog}, seen : Confirming!Context]

\* What render, the jobs and the dialogs hold, and that a job that runs has found a dialog.
HeldTypes ==
    /\ scanning \in BOOLEAN /\ head \in Confirming!Versions
    /\ context \in [Dialogs -> Confirming!Context] /\ result \in [Dialogs -> FirstScan]
    /\ idMap \in Dialogs \cup {NoDialog}
    /\ job \in [Confirming!Jobs -> Execution]
    /\ \A j \in Confirming!Jobs : job[j].at # "idle" => job[j].id \in Dialogs

\* A scan that somebody holds is the scan of the data held with it, and was asked for.
ScanHeld(s) == s.scan \in Confirming!Versions => s.scan = s.raw /\ scanning

ScansHeld ==
    /\ \A d \in Dialogs : ScanHeld(context[d]) /\ ScanHeld(result[d])
    /\ \A j \in Confirming!Jobs : ScanHeld(job[j].seen)

ConfirmInv == HeldTypes /\ ScansHeld

LEMMA ConfirmConstants ==
    ASSUME Confirming!TronConfirmationAssumption
    PROVE  /\ Signing \in BOOLEAN /\ NoDialog \notin Dialogs
           /\ NoScan \notin Confirming!Versions /\ Expired \notin Confirming!Versions
           /\ 0 \in Confirming!Versions /\ MaxHead \in Nat
BY DEF Confirming!TronConfirmationAssumption, Confirming!Versions

LEMMA ConfirmInitInv == ASSUME Confirming!TronConfirmationAssumption, Confirming!Init PROVE ConfirmInv
<1>1. Confirming!Nothing \in Confirming!Context /\ ScanHeld(Confirming!Nothing)
  BY ConfirmConstants DEF Confirming!Nothing, Confirming!Context, ScanHeld
<1>2. Confirming!Resting \in Execution /\ Confirming!Resting.seen = Confirming!Nothing
      /\ Confirming!Resting.at = "idle"
  BY <1>1 DEF Confirming!Resting, Execution
<1>3. [raw |-> 0, scan |-> NoScan] \in FirstScan /\ ScanHeld([raw |-> 0, scan |-> NoScan])
  BY ConfirmConstants DEF FirstScan, ScanHeld
<1>4. HeldTypes
  BY <1>1, <1>2, <1>3, ConfirmConstants DEF HeldTypes, Confirming!Init
<1>5. ScansHeld
  BY <1>1, <1>2, <1>3 DEF ScansHeld, Confirming!Init
<1> QED  BY <1>4, <1>5 DEF ConfirmInv

------------------------------------------------------------------------------
\* What a job or a request writes into a dialog.
LEMMA ContextWritten ==
    ASSUME ConfirmInv, NEW d, NEW s \in Confirming!Context, ScanHeld(s),
           scanning' = scanning, head' = head, result' = result, idMap' = idMap,
           context' = [context EXCEPT ![d] = s]
    PROVE  /\ context' \in [Dialogs -> Confirming!Context]
           /\ \A e \in Dialogs : ScanHeld(context[e])'
<1>1. context' \in [Dialogs -> Confirming!Context]
  BY DEF ConfirmInv, HeldTypes
<1>2. \A e \in Dialogs : context'[e] = context[e] \/ context'[e] = s
  BY DEF ConfirmInv, HeldTypes
<1>3. \A e \in Dialogs : ScanHeld(context[e])
  BY DEF ConfirmInv, ScansHeld
<1> QED  BY <1>1, <1>2, <1>3 DEF ScanHeld

\* What a job goes on with.
LEMMA JobWritten ==
    ASSUME ConfirmInv, NEW j, NEW e \in Execution, ScanHeld(e.seen), e.at # "idle" => e.id \in Dialogs,
           scanning' = scanning, job' = [job EXCEPT ![j] = e]
    PROVE  /\ job' \in [Confirming!Jobs -> Execution]
           /\ \A k \in Confirming!Jobs : job'[k].at # "idle" => job'[k].id \in Dialogs
           /\ \A k \in Confirming!Jobs : ScanHeld(job[k].seen)'
<1>0. job \in [Confirming!Jobs -> Execution]
  BY DEF ConfirmInv, HeldTypes
<1>1. job' \in [Confirming!Jobs -> Execution]
  BY <1>0
<1>2. \A k \in Confirming!Jobs : job'[k] = job[k] \/ job'[k] = e
  BY <1>0
<1>3. \A k \in Confirming!Jobs : ScanHeld(job[k].seen) /\ (job[k].at # "idle" => job[k].id \in Dialogs)
  BY DEF ConfirmInv, ScansHeld, HeldTypes
<1>4. \A k \in Confirming!Jobs : job'[k].at # "idle" => job'[k].id \in Dialogs
  BY <1>2, <1>3
<1>5. \A k \in Confirming!Jobs : ScanHeld(job[k].seen)'
  BY <1>2, <1>3 DEF ScanHeld
<1> QED  BY <1>1, <1>4, <1>5

LEMMA JobEnds ==
    ASSUME Confirming!TronConfirmationAssumption, ConfirmInv, NEW j, scanning' = scanning, Confirming!End(j)
    PROVE  /\ job' \in [Confirming!Jobs -> Execution]
           /\ \A k \in Confirming!Jobs : job'[k].at # "idle" => job'[k].id \in Dialogs
           /\ \A k \in Confirming!Jobs : ScanHeld(job[k].seen)'
<1>1. Confirming!Resting \in Execution /\ ScanHeld(Confirming!Resting.seen) /\ Confirming!Resting.at = "idle"
  BY ConfirmConstants DEF Confirming!Resting, Confirming!Nothing, Confirming!Context, Execution, ScanHeld
<1>2. job' = [job EXCEPT ![j] = Confirming!Resting]
  BY DEF Confirming!End
<1> HIDE DEF Confirming!End
<1> QED  BY <1>1, <1>2, JobWritten

\* The parts of a job that runs.
LEMMA RunningFacts ==
    ASSUME ConfirmInv, NEW j \in Confirming!Jobs, job[j].at # "idle"
    PROVE  /\ job[j] \in Execution /\ job[j].id \in Dialogs
           /\ job[j].seen \in Confirming!Context /\ ScanHeld(job[j].seen)
           /\ context[job[j].id] \in Confirming!Context /\ ScanHeld(context[job[j].id])
BY DEF ConfirmInv, HeldTypes, ScansHeld, Execution

\* Making the data of a send fresh, and the check of a signature.
LEMMA FreshFacts ==
    ASSUME Confirming!TronConfirmationAssumption, ConfirmInv, NEW raw \in Confirming!Versions
    PROVE  /\ Confirming!Fresh(raw) \in Confirming!Versions
           /\ Confirming!Found(raw) \in {raw, Expired}
           /\ Signing => Confirming!Fresh(raw) = raw
BY DEF ConfirmInv, HeldTypes, Confirming!Fresh, Confirming!Found

\* What a scan job finds, or does not, is of the data it holds.
LEMMA RefreshedHolds ==
    ASSUME Confirming!TronConfirmationAssumption, ConfirmInv,
           NEW s \in Confirming!Context, ScanHeld(s), NEW raw, raw = Confirming!Fresh(s.raw)
    PROVE  LET r == [s EXCEPT !.raw    = raw,
                     !.scan   = IF scanning \/ Confirming!Found(raw) = Expired THEN Confirming!Found(raw) ELSE @,
                     !.status = IF scanning THEN "fetched" ELSE @]
           IN  r \in Confirming!Context /\ ScanHeld(r)
<1> DEFINE r == [s EXCEPT !.raw    = raw,
                     !.scan   = IF scanning \/ Confirming!Found(raw) = Expired THEN Confirming!Found(raw) ELSE @,
                     !.status = IF scanning THEN "fetched" ELSE @]
<1>0. s.raw \in Confirming!Versions
  BY DEF Confirming!Context
<1>1. raw \in Confirming!Versions /\ Confirming!Found(raw) \in {raw, Expired}
  BY <1>0, FreshFacts
<1>2. r \in Confirming!Context
  <2> HIDE DEF Confirming!Fresh, Confirming!Found
  <2> QED  BY <1>1 DEF Confirming!Context
<1>3. ScanHeld(r)
  <2>1. r.raw = raw /\ r.scan = IF scanning \/ Confirming!Found(raw) = Expired THEN Confirming!Found(raw) ELSE s.scan
    BY DEF Confirming!Context
  <2>2. Expired \notin Confirming!Versions
    BY ConfirmConstants
  <2>3. CASE scanning \/ Confirming!Found(raw) = Expired
    BY <1>1, <2>1, <2>2, <2>3 DEF ScanHeld
  <2>4. CASE ~scanning /\ Confirming!Found(raw) # Expired
    BY <2>1, <2>4 DEF ScanHeld
  <2> QED  BY <2>3, <2>4
<1> QED  BY <1>2, <1>3

LEMMA FailuresHold ==
    ASSUME Confirming!TronConfirmationAssumption, ConfirmInv,
           NEW s \in Confirming!Context, ScanHeld(s), NEW r \in Confirming!Failures(s)
    PROVE  r \in Confirming!Context /\ ScanHeld(r)
<1>0. s.raw \in Confirming!Versions /\ Confirming!Fresh(s.raw) \in Confirming!Versions
  BY FreshFacts DEF Confirming!Context
<1>1. NoScan \notin Confirming!Versions
  BY ConfirmConstants
<1>2. CASE r = s
  BY <1>2
<1>3. CASE scanning /\ r = [s EXCEPT !.scan = s.raw, !.status = "fetched"]
  BY <1>0, <1>3 DEF Confirming!Context, ScanHeld
<1>4. CASE r = [s EXCEPT !.scan = NoScan, !.status = "error"]
  BY <1>1, <1>4 DEF Confirming!Context, ScanHeld
<1>5. ASSUME NEW raw \in Confirming!Versions, r = [s EXCEPT !.scan = NoScan, !.status = "error", !.raw = raw]
      PROVE  r \in Confirming!Context /\ ScanHeld(r)
  BY <1>1, <1>5 DEF Confirming!Context, ScanHeld
<1> QED  BY <1>0, <1>2, <1>3, <1>4, <1>5 DEF Confirming!Failures

\* A job reads the context again, and goes on with what it holds of its own or with what it read.
LEMMA AgainHolds ==
    ASSUME Confirming!TronConfirmationAssumption, ConfirmInv, scanning' = scanning, NEW j \in Confirming!Jobs,
           NEW mine, j # "price" => mine \in Confirming!Context /\ ScanHeld(mine), Confirming!Again(j, mine)
    PROVE  /\ job' \in [Confirming!Jobs -> Execution]
           /\ \A k \in Confirming!Jobs : job'[k].at # "idle" => job'[k].id \in Dialogs
           /\ \A k \in Confirming!Jobs : ScanHeld(job[k].seen)'
<1> DEFINE now  == context[job[j].id]
           seen == IF j = "price" THEN now ELSE [mine EXCEPT !.prices = now.prices]
           e    == [job[j] EXCEPT !.at = "write", !.seen = seen]
<1>0. /\ job[j] \in Execution /\ job[j].id \in Dialogs
      /\ now \in Confirming!Context /\ ScanHeld(now)
  BY RunningFacts DEF Confirming!Again
<1>1. CASE Confirming!End(j)
  BY <1>1, JobEnds
<1>2. CASE ~Confirming!End(j)
  <2>1. seen \in Confirming!Context /\ ScanHeld(seen)
    <3>1. CASE j = "price"
      BY <1>0, <3>1
    <3>2. CASE j # "price"
      <4>1. now.prices \in {"loading", "fetching", "fetched"}
        BY <1>0 DEF Confirming!Context
      <4> HIDE DEF now
      <4>2. seen = [mine EXCEPT !.prices = now.prices]
        BY <3>2
      <4>3. seen.scan = mine.scan /\ seen.raw = mine.raw /\ seen \in Confirming!Context
        BY <3>2, <4>1, <4>2 DEF Confirming!Context
      <4> QED  BY <3>2, <4>3 DEF ScanHeld
    <3> QED  BY <3>1, <3>2
  <2>2. job' = [job EXCEPT ![j].at = "write", ![j].seen = seen]
    BY <1>2 DEF Confirming!Again
  <2> HIDE DEF seen
  <2>3. job \in [Confirming!Jobs -> Execution]
    BY DEF ConfirmInv, HeldTypes
  <2>4. job' = [job EXCEPT ![j] = e]
    BY <2>2, <2>3
  <2>5. e \in Execution /\ e.seen = seen /\ e.id \in Dialogs
    BY <1>0, <2>1 DEF Execution
  <2> HIDE DEF e
  <2> QED  BY <2>1, <2>4, <2>5, JobWritten
<1> QED  BY <1>1, <1>2

LEMMA ConfirmStep ==
    ASSUME Confirming!TronConfirmationAssumption, ConfirmInv, [Confirming!Next]_(Confirming!confirmVars)
    PROVE  ConfirmInv'
<1> USE DEF Confirming!dialog, Confirming!render
<1>c. NoScan \notin Confirming!Versions /\ Expired \notin Confirming!Versions
  BY ConfirmConstants
<1>t. HeldTypes /\ ScansHeld
  BY DEF ConfirmInv
<1>1. ASSUME NEW d \in Dialogs, Confirming!Open(d) PROVE ConfirmInv'
  <2>1. PICK late \in {FALSE, Signing /\ ~scanning} :
          LET scan == IF late THEN Expired ELSE NoScan
          IN  /\ context' = [context EXCEPT ![d] = [Confirming!Nothing EXCEPT
                    !.raw = head, !.status = IF scanning THEN "loading" ELSE "fetched", !.scan = scan]]
              /\ result' = [result EXCEPT ![d] = [raw |-> head, scan |-> scan]]
    BY <1>1 DEF Confirming!Open
  <2> DEFINE scan  == IF late THEN Expired ELSE NoScan
             s     == [Confirming!Nothing EXCEPT
                         !.raw = head, !.status = IF scanning THEN "loading" ELSE "fetched", !.scan = scan]
             first == [raw |-> head, scan |-> scan]
  <2>2. head \in Confirming!Versions /\ scan \in {NoScan, Expired} /\ scan \notin Confirming!Versions
    BY <1>c, <1>t DEF HeldTypes
  <2>3. context' = [context EXCEPT ![d] = s] /\ result' = [result EXCEPT ![d] = first]
    BY <2>1
  <2> HIDE DEF scan
  <2>4. s \in Confirming!Context /\ ScanHeld(s) /\ first \in FirstScan /\ ScanHeld(first)
    BY <2>2 DEF Confirming!Nothing, Confirming!Context, FirstScan, ScanHeld
  <2> HIDE DEF s, first
  <2>5. UNCHANGED <<scanning, head, idMap, job>>
    BY <1>1 DEF Confirming!Open
  <2>6. HeldTypes'
    BY <1>t, <2>3, <2>4, <2>5 DEF HeldTypes
  <2>7. \A e \in Dialogs : (context'[e] = context[e] \/ context'[e] = s) /\ (result'[e] = result[e] \/ result'[e] = first)
    BY <1>t, <2>3 DEF HeldTypes
  <2>8. ScansHeld'
    BY <1>t, <2>4, <2>5, <2>7 DEF ScansHeld, ScanHeld
  <2> QED  BY <2>6, <2>8 DEF ConfirmInv
<1>2. ASSUME NEW d \in Dialogs, Confirming!Scan(d) PROVE ConfirmInv'
  <2>1. PICK r \in Confirming!Results(result[d].raw) : result' = [result EXCEPT ![d].scan = IF scanning THEN r ELSE @]
    BY <1>2 DEF Confirming!Scan
  <2> DEFINE first == [result[d] EXCEPT !.scan = IF scanning THEN r ELSE @]
  <2>2. result[d] \in FirstScan /\ ScanHeld(result[d])
    BY <1>t DEF HeldTypes, ScansHeld
  <2>3. r \in {result[d].raw, NoScan, Expired}
    BY DEF Confirming!Results
  <2>4. first \in FirstScan /\ ScanHeld(first)
    <3>1. CASE scanning
      BY <1>c, <2>2, <2>3, <3>1 DEF FirstScan, ScanHeld
    <3>2. CASE ~scanning
      BY <2>2, <3>2 DEF FirstScan, ScanHeld
    <3> QED  BY <3>1, <3>2
  <2>5. result' = [result EXCEPT ![d] = first]
    BY <1>t, <2>1 DEF HeldTypes
  <2> HIDE DEF first
  <2>6. UNCHANGED <<scanning, head, context, idMap, job>>
    BY <1>2 DEF Confirming!Scan
  <2>7. HeldTypes'
    BY <1>t, <2>4, <2>5, <2>6 DEF HeldTypes
  <2>8. \A e \in Dialogs : result'[e] = result[e] \/ result'[e] = first
    BY <1>t, <2>5 DEF HeldTypes
  <2>9. ScansHeld'
    BY <1>t, <2>4, <2>6, <2>8 DEF ScansHeld, ScanHeld
  <2> QED  BY <2>7, <2>9 DEF ConfirmInv
<1>3. ASSUME NEW d \in Dialogs, Confirming!Update(d) PROVE ConfirmInv'
  <2> DEFINE s == [scan   |-> result[d].scan, raw |-> result[d].raw, prices |-> "loading",
                   status |-> IF scanning /\ result[d].scan = NoScan THEN "error" ELSE "fetched"]
  <2>1. s \in Confirming!Context /\ ScanHeld(s)
    <3>1. result[d] \in FirstScan /\ ScanHeld(result[d])
      BY <1>t DEF HeldTypes, ScansHeld
    <3> QED  BY <3>1 DEF FirstScan, Confirming!Context, ScanHeld
  <2>2. context' = context \/ context' = [context EXCEPT ![d] = s]
    BY <1>3 DEF Confirming!Update
  <2> HIDE DEF s
  <2>3. UNCHANGED <<scanning, head, result, idMap, job>>
    BY <1>3 DEF Confirming!Update
  <2>4. CASE context' = context
    BY <1>t, <2>3, <2>4 DEF ConfirmInv, HeldTypes, ScansHeld, ScanHeld
  <2>5. CASE context' = [context EXCEPT ![d] = s]
    <3>1. context' \in [Dialogs -> Confirming!Context] /\ \A e \in Dialogs : ScanHeld(context[e])'
      BY <2>1, <2>3, <2>5, ContextWritten
    <3> QED  BY <1>t, <2>3, <3>1 DEF ConfirmInv, HeldTypes, ScansHeld, ScanHeld
  <2> QED  BY <2>2, <2>4, <2>5
<1>4. ASSUME NEW d \in Dialogs, Confirming!Keep(d) \/ Confirming!Decide(d) PROVE ConfirmInv'
  <2>1. UNCHANGED <<scanning, head, context, result, job>> /\ idMap' \in {d, NoDialog}
    BY <1>4 DEF Confirming!Keep, Confirming!Decide
  <2> QED  BY <1>t, <2>1 DEF ConfirmInv, HeldTypes, ScansHeld, ScanHeld
<1>5. ASSUME NEW j \in Confirming!Jobs, Confirming!Fire(j) PROVE ConfirmInv'
  <2>1. UNCHANGED <<scanning, head, context, result, idMap>>
    BY <1>5 DEF Confirming!Fire
  <2>2. CASE job' = job
    BY <1>t, <2>1, <2>2 DEF ConfirmInv, HeldTypes, ScansHeld, ScanHeld
  <2>3. CASE job' # job
    <3> DEFINE e == [at |-> "mark", id |-> idMap, seen |-> context[idMap]]
    <3>1. idMap \in Dialogs /\ job' = [job EXCEPT ![j] = e]
      BY <1>5, <1>t, <2>3 DEF Confirming!Fire, HeldTypes
    <3>2. context[idMap] \in Confirming!Context /\ ScanHeld(context[idMap])
      BY <1>t, <3>1 DEF HeldTypes, ScansHeld
    <3>3. e \in Execution /\ ScanHeld(e.seen) /\ e.id \in Dialogs
      BY <3>1, <3>2 DEF Execution
    <3> HIDE DEF e
    <3>4. /\ job' \in [Confirming!Jobs -> Execution]
          /\ \A k \in Confirming!Jobs : job'[k].at # "idle" => job'[k].id \in Dialogs
          /\ \A k \in Confirming!Jobs : ScanHeld(job[k].seen)'
      BY <2>1, <3>1, <3>3, JobWritten
    <3> QED  BY <1>t, <2>1, <3>4 DEF ConfirmInv, HeldTypes, ScansHeld, ScanHeld
  <2> QED  BY <2>2, <2>3
<1>6. ASSUME NEW j \in Confirming!Jobs, Confirming!Mark(j) PROVE ConfirmInv'
  <2>0. UNCHANGED <<scanning, head, result, idMap>>
    BY <1>6 DEF Confirming!Mark
  <2>1. /\ job[j] \in Execution /\ job[j].id \in Dialogs
        /\ job[j].seen \in Confirming!Context /\ ScanHeld(job[j].seen)
    BY <1>6, RunningFacts DEF Confirming!Mark
  <2>2. CASE ui[job[j].id] = "open"
    <3> DEFINE s == Confirming!Marked(j)
               e == [job[j] EXCEPT !.at = "work"]
    <3>1. s \in Confirming!Context /\ s.scan = job[j].seen.scan /\ s.raw = job[j].seen.raw
      BY <2>1 DEF Confirming!Marked, Confirming!Context
    <3>2. ScanHeld(s)
      BY <2>1, <3>1 DEF ScanHeld
    <3>3. context' = [context EXCEPT ![job[j].id] = s] /\ job' = [job EXCEPT ![j] = e]
      BY <1>6, <1>t, <2>2 DEF Confirming!Mark, HeldTypes
    <3>4. e \in Execution /\ e.seen = job[j].seen /\ e.id \in Dialogs
      BY <2>1 DEF Execution
    <3> HIDE DEF s, e
    <3>5. context' \in [Dialogs -> Confirming!Context] /\ \A d \in Dialogs : ScanHeld(context[d])'
      BY <2>0, <3>1, <3>2, <3>3, ContextWritten
    <3>6. /\ job' \in [Confirming!Jobs -> Execution]
          /\ \A k \in Confirming!Jobs : job'[k].at # "idle" => job'[k].id \in Dialogs
          /\ \A k \in Confirming!Jobs : ScanHeld(job[k].seen)'
      BY <2>0, <2>1, <3>3, <3>4, JobWritten
    <3> QED  BY <1>t, <2>0, <3>5, <3>6 DEF ConfirmInv, HeldTypes, ScansHeld, ScanHeld
  <2>3. CASE ui[job[j].id] # "open"
    <3>1. Confirming!End(j) /\ context' = context
      BY <1>6, <2>3 DEF Confirming!Mark
    <3>2. /\ job' \in [Confirming!Jobs -> Execution]
          /\ \A k \in Confirming!Jobs : job'[k].at # "idle" => job'[k].id \in Dialogs
          /\ \A k \in Confirming!Jobs : ScanHeld(job[k].seen)'
      BY <2>0, <3>1, JobEnds
    <3> QED  BY <1>t, <2>0, <3>1, <3>2 DEF ConfirmInv, HeldTypes, ScansHeld, ScanHeld
  <2> QED  BY <2>2, <2>3
<1>7. ASSUME NEW j \in Confirming!Jobs, Confirming!Work(j) \/ Confirming!WorkFails(j) PROVE ConfirmInv'
  <2>0. UNCHANGED <<scanning, head, context, result, idMap>>
    BY <1>7 DEF Confirming!Work, Confirming!WorkFails
  <2>1. job[j].at = "work" /\ j \in {"scan", "price"}
    BY <1>7 DEF Confirming!Work, Confirming!WorkFails, Confirming!Again, Confirming!Jobs
  <2>2. job[j].seen \in Confirming!Context /\ ScanHeld(job[j].seen)
    BY <2>1, RunningFacts
  <2>3. /\ job' \in [Confirming!Jobs -> Execution]
        /\ \A k \in Confirming!Jobs : job'[k].at # "idle" => job'[k].id \in Dialogs
        /\ \A k \in Confirming!Jobs : ScanHeld(job[k].seen)'
    <3>1. CASE Confirming!Work(j)
      <4>1. j # "price" => Confirming!Refreshed \in Confirming!Context /\ ScanHeld(Confirming!Refreshed)
        BY <2>1, <2>2, RefreshedHolds DEF Confirming!Refreshed
      <4>2. Confirming!Again(j, Confirming!Refreshed)
        BY <3>1 DEF Confirming!Work
      <4> QED  BY <2>0, <4>1, <4>2, AgainHolds
    <3>2. CASE Confirming!WorkFails(j) /\ Confirming!End(j)
      BY <2>0, <3>2, JobEnds
    <3>3. CASE Confirming!WorkFails(j) /\ ~Confirming!End(j)
      <4>1. PICK mine \in Confirming!Failures(job[j].seen) : Confirming!Again(j, mine)
        BY <3>3 DEF Confirming!WorkFails
      <4>2. mine \in Confirming!Context /\ ScanHeld(mine)
        BY <2>2, FailuresHold
      <4> QED  BY <2>0, <4>1, <4>2, AgainHolds
    <3> QED  BY <1>7, <3>1, <3>2, <3>3
  <2> QED  BY <1>t, <2>0, <2>3 DEF ConfirmInv, HeldTypes, ScansHeld, ScanHeld
<1>8. ASSUME NEW j \in Confirming!Jobs, Confirming!Write(j) PROVE ConfirmInv'
  <2>0. UNCHANGED <<scanning, head, result, idMap>> /\ Confirming!End(j)
    BY <1>8 DEF Confirming!Write
  <2>1. job[j].seen \in Confirming!Context /\ ScanHeld(job[j].seen)
    BY <1>8, RunningFacts DEF Confirming!Write
  <2> DEFINE s == IF j = "price" THEN [job[j].seen EXCEPT !.prices = "fetched"] ELSE job[j].seen
  <2>2. s \in Confirming!Context /\ s.scan = job[j].seen.scan /\ s.raw = job[j].seen.raw
    BY <2>1 DEF Confirming!Context
  <2>3. ScanHeld(s)
    BY <2>1, <2>2 DEF ScanHeld
  <2>4. context' = context \/ context' = [context EXCEPT ![job[j].id] = s]
    BY <1>8 DEF Confirming!Write
  <2> HIDE DEF s
  <2>5. context' \in [Dialogs -> Confirming!Context] /\ \A d \in Dialogs : ScanHeld(context[d])'
    <3>1. CASE context' = context
      BY <1>t, <2>0, <3>1 DEF HeldTypes, ScansHeld, ScanHeld
    <3>2. CASE context' = [context EXCEPT ![job[j].id] = s]
      BY <2>0, <2>2, <2>3, <3>2, ContextWritten
    <3> QED  BY <2>4, <3>1, <3>2
  <2>6. /\ job' \in [Confirming!Jobs -> Execution]
        /\ \A k \in Confirming!Jobs : job'[k].at # "idle" => job'[k].id \in Dialogs
        /\ \A k \in Confirming!Jobs : ScanHeld(job[k].seen)'
    BY <2>0, JobEnds
  <2> QED  BY <1>t, <2>0, <2>5, <2>6 DEF ConfirmInv, HeldTypes, ScansHeld, ScanHeld
<1>9. CASE Confirming!Age
  <2>1. UNCHANGED <<scanning, context, result, idMap, job>> /\ head' \in Confirming!Versions
    BY <1>9, <1>t, ConfirmConstants DEF Confirming!Age, HeldTypes, Confirming!Versions
  <2> QED  BY <1>t, <2>1 DEF ConfirmInv, HeldTypes, ScansHeld, ScanHeld
<1>10. CASE UNCHANGED <<scanning, head, context, result, idMap, job>>
  BY <1>10, <1>t DEF ConfirmInv, HeldTypes, ScansHeld, ScanHeld
<1> QED
  BY <1>1, <1>2, <1>3, <1>4, <1>5, <1>6, <1>7, <1>8, <1>9, <1>10
  DEF Confirming!Next, Confirming!Request, Confirming!Run, Confirming!ScheduleJobs, Confirming!ScheduleFails,
      Confirming!Answer, Confirming!Lock, Confirming!Unlock, Confirming!confirmVars

\* Whatever render, the scan job and the price job overwrite (refreshConfirmation*, render): a scan a dialog shows is
\* the scan of the transaction data that dialog holds, and was asked for.
THEOREM ScanShown == Confirming!TronConfirmationAssumption /\ Confirming!Spec => []Confirming!ScanOfShown
<1>1. ASSUME Confirming!TronConfirmationAssumption PROVE Confirming!Spec => []Confirming!ScanOfShown
  <2>1. Confirming!Init => ConfirmInv
    BY <1>1, ConfirmInitInv
  <2>2. ConfirmInv /\ [Confirming!Next]_(Confirming!confirmVars) => ConfirmInv'
    BY <1>1, ConfirmStep
  <2>3. ConfirmInv => Confirming!ScanOfShown
    BY DEF ConfirmInv, ScansHeld, ScanHeld, Confirming!ScanOfShown
  <2> QED  BY <2>1, <2>2, <2>3, PTL DEF Confirming!Spec
<1> QED  BY <1>1

==============================================================================
