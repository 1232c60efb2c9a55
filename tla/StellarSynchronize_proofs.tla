----------------------- MODULE StellarSynchronize_proofs -----------------------
(***************************************************************************)
(* Proofs about StellarSynchronize for any accounts, calls and attempt     *)
(* limit: one run at a time, an exact skip test, one tracking chain per    *)
(* transaction, and saved accounts that implement Replica.                 *)
(***************************************************************************)
EXTENDS StellarSynchronize, TLAPS

USE NamesAssumption, BoundsAssumption

------------------------------------------------------------------------------
(* Types *)

LEMMA ReturnType ==
    ASSUME TypeOK, NEW c \in Calls, Return(c)
    PROVE  /\ pc' \in [Calls -> {"free", "trying", "loading", "tasks"}]
           /\ accts' \in [Calls -> SUBSET Accounts]
           /\ waiting' \in [Calls -> SUBSET Accounts]
           /\ got' \in [Calls -> [Accounts -> Nat]]
           /\ saving' \in [Calls -> {"none", "running", "done"}]
           /\ history' \in [Calls -> {"none", "running", "done"}]
<1>1. Nothing \in [Accounts -> Nat]
    BY DEF Nothing
<1>q. QED  BY <1>1 DEF TypeOK, Return

LEMMA CallType ==
    ASSUME TypeOK, NEW c \in Calls, NEW S \in SUBSET Accounts,
           Call(c, S)
    PROVE  /\ pc' \in [Calls -> {"free", "trying", "loading", "tasks"}]
           /\ accts' \in [Calls -> SUBSET Accounts]
           /\ UNCHANGED <<waiting, got, saving, history>>
BY DEF TypeOK, Call

LEMMA SyncEventType == \A S \in SUBSET Accounts : S # {} => SyncEvent(S) \in Events
<1> SUFFICES ASSUME NEW S \in SUBSET Accounts, S # {} PROVE SyncEvent(S) \in Events
    OBVIOUS
<1>1. S \in (SUBSET Accounts) \ {{}}
    OBVIOUS
<1>2. SyncEvent(S) \in {SyncEvent(R) : R \in (SUBSET Accounts) \ {{}}}
    BY <1>1, Zenon
<1>q. QED  BY <1>2 DEF Events

LEMMA TouchedType == \A t \in Txs : Touched(t) \in SUBSET Accounts
BY DEF Touched

LEMMA InitType == Init => TypeOK
<1> SUFFICES ASSUME Init PROVE TypeOK
    OBVIOUS
<1>1. Nothing \in [Accounts -> Nat]
    BY DEF Nothing
<1>2. NotTracking \in [st : TrackSteps, attempt : 0 .. MaxReschedules]
    BY DEF NotTracking, TrackSteps
<1>q. QED  BY <1>1, <1>2 DEF Init, TypeOK

LEMMA StepType == TypeOK /\ [Next]_vars => TypeOK'
<1> SUFFICES ASSUME TypeOK, [Next]_vars PROVE TypeOK'
    OBVIOUS
<1>0. Nothing \in [Accounts -> Nat]
    BY DEF Nothing
<1>n. NotTracking \in [st : TrackSteps, attempt : 0 .. MaxReschedules]
    BY DEF NotTracking, TrackSteps
<1>1. ASSUME NEW a \in Accounts, Change(a) PROVE TypeOK'
    BY <1>1 DEF TypeOK, Change, mutex, call, tracker
<1>2. ASSUME NEW t \in Txs, Index(t) PROVE TypeOK'
    BY <1>2 DEF TypeOK, Index, mutex, call, tracker
<1>3. ASSUME NEW t \in Txs, Submit(t) PROVE TypeOK'
    <2>1. TrackEvent(t, 0) \in Events
        BY DEF Events
    <2>2. events' \subseteq Events
        BY <1>3, <2>1 DEF TypeOK, Submit
    <2>q. QED  BY <1>3, <2>2 DEF TypeOK, Submit, mutex, call, tracker
<1>4. ASSUME NEW t \in Txs, Track(t) PROVE TypeOK'
    <2>1. ASSUME NEW n \in 0 .. MaxReschedules, FireTrack(t, n) PROVE TypeOK'
        <3>1. track' \in [Txs -> [st : TrackSteps, attempt : 0 .. MaxReschedules]]
            BY <2>1 DEF TypeOK, FireTrack, TrackSteps
        <3>2. events' \subseteq Events /\ asked' \in [Txs -> Nat]
            BY <2>1 DEF TypeOK, FireTrack
        <3>q. QED  BY <2>1, <3>1, <3>2 DEF TypeOK, FireTrack, world, mutex, call
    <2>2. CASE TrackFinds(t)
        <3>1. track' \in [Txs -> [st : TrackSteps, attempt : 0 .. MaxReschedules]]
            <4>1. track[t].attempt \in 0 .. MaxReschedules
                BY DEF TypeOK
            <4>q. QED  BY <2>2, <4>1 DEF TypeOK, TrackFinds, TrackSteps
        <3>2. finalized' \in [Txs -> Nat]
            BY <2>2 DEF TypeOK, TrackFinds
        <3>q. QED  BY <2>2, <3>1, <3>2 DEF TypeOK, TrackFinds, world, mutex, call
    <2>3. ASSUME NEW c \in Calls, TrackSyncs(c, t) PROVE TypeOK'
        <3>1. Call(c, Touched(t))
            BY <2>3 DEF TrackSyncs
        <3>q. QED  BY <2>3, <3>1, <1>n, CallType, TouchedType DEF TypeOK, TrackSyncs, world, mutex
    <2>q. QED  BY <1>4, <2>1, <2>2, <2>3 DEF Track
<1>5. ASSUME NEW t \in Txs, TrackMisses(t) PROVE TypeOK'
    <2>1. track[t].attempt \in 0 .. MaxReschedules
        BY DEF TypeOK
    <2>2. track[t].attempt < MaxReschedules => TrackEvent(t, track[t].attempt + 1) \in Events
        BY <2>1 DEF Events
    <2>3. events' \subseteq Events
        BY <1>5, <2>2 DEF TypeOK, TrackMisses
    <2>q. QED  BY <1>5, <1>n, <2>3 DEF TypeOK, TrackMisses, world, mutex, call
<1>6. ASSUME NEW S \in Selections, SetSelectedAccounts(S) PROVE TypeOK'
    <2>1. S # {} => SyncEvent(S) \in Events
        BY SyncEventType
    <2>2. events' \subseteq Events
        BY <1>6, <2>1 DEF TypeOK, SetSelectedAccounts
    <2>3. S \subseteq Accounts
        OBVIOUS
    <2>q. QED  BY <1>6, <2>2, <2>3 DEF TypeOK, SetSelectedAccounts, mutex, call, tracker
<1>7. ASSUME NEW c \in Calls, FireEvent(c) PROVE TypeOK'
    <2>1. PICK S \in SUBSET Accounts : FireSync(c, S)
        BY <1>7 DEF FireEvent
    <2>2. Call(c, S)
        BY <2>1 DEF FireSync
    <2>q. QED  BY <2>1, <2>2, CallType DEF TypeOK, FireSync, world, mutex, tracker
<1>8. ASSUME NEW c \in Calls, Run(c) PROVE TypeOK'
    <2>1. CASE Acquire(c)
        <3>1. /\ pc' \in [Calls -> {"free", "trying", "loading", "tasks"}]
              /\ waiting' \in [Calls -> SUBSET Accounts]
              /\ inSync' \subseteq Accounts
            BY <2>1 DEF TypeOK, Acquire
        <3>q. QED  BY <2>1, <3>1 DEF TypeOK, Acquire, world, tracker
    <2>2. CASE Busy(c)
        <3>1. ~(accts[c] \subseteq inSync) => SyncEvent(accts[c] \ inSync) \in Events
            BY SyncEventType DEF TypeOK
        <3>2. events' \subseteq Events
            BY <2>2, <3>1 DEF TypeOK, Busy
        <3>q. QED  BY <2>2, <3>2, ReturnType DEF TypeOK, Busy, world, mutex, tracker
    <2>3. CASE StartTasks(c)
        BY <2>3 DEF TypeOK, StartTasks, world, mutex, tracker
    <2>4. CASE SaveAccounts(c)
        <3>1. snapshot' \in [Accounts -> Nat]
            BY <2>4 DEF TypeOK, SaveAccounts
        <3>q. QED  BY <2>4, <3>1 DEF TypeOK, SaveAccounts, world, mutex, tracker
    <2>5. CASE HistoryEnds(c)
        BY <2>5 DEF TypeOK, HistoryEnds, world, mutex, tracker
    <2>6. CASE Finish(c)
        BY <2>6, ReturnType DEF TypeOK, Finish, world, tracker
    <2>7. ASSUME NEW a \in Accounts, Load(c, a) PROVE TypeOK'
        <3>1. got' \in [Calls -> [Accounts -> Nat]]
            BY <2>7 DEF TypeOK, Load
        <3>q. QED  BY <2>7, <3>1 DEF TypeOK, Load, world, mutex, tracker
    <2>q. QED  BY <1>8, <2>1, <2>2, <2>3, <2>4, <2>5, <2>6, <2>7 DEF Run
<1>9. CASE Trouble
    <2>1. CASE ClientStatus
        BY <2>1 DEF TypeOK, ClientStatus, mutex, call, tracker
    <2>2. CASE Stop
        BY <2>2, <1>0, <1>n DEF TypeOK, Stop, world
    <2>3. ASSUME NEW e \in events, Discard(e) PROVE TypeOK'
        BY <2>3 DEF TypeOK, Discard, world, mutex, call, tracker
    <2>4. ASSUME NEW t \in Txs, TrackEnds(t) PROVE TypeOK'
        BY <2>4, <1>n DEF TypeOK, TrackEnds, world, mutex, call
    <2>5. ASSUME NEW c \in Calls, BusyFails(c) PROVE TypeOK'
        BY <2>5, ReturnType DEF TypeOK, BusyFails, world, mutex, tracker
    <2>6. ASSUME NEW c \in Calls, SaveFails(c) PROVE TypeOK'
        BY <2>6 DEF TypeOK, SaveFails, world, mutex, tracker
    <2>7. ASSUME NEW c \in Calls, NEW a \in Accounts, LoadFails(c, a) PROVE TypeOK'
        BY <2>7 DEF TypeOK, LoadFails, world, mutex, tracker
    <2>q. QED  BY <1>9, <2>1, <2>2, <2>3, <2>4, <2>5, <2>6, <2>7 DEF Trouble
<1>10. ASSUME NEW c \in Calls, Cron(c) PROVE TypeOK'
    <2>1. Call(c, selected) /\ selected \in SUBSET Accounts
        BY <1>10 DEF Cron, TypeOK
    <2>q. QED  BY <1>10, <2>1, CallType DEF TypeOK, Cron, world, mutex, tracker
<1>11. CASE UNCHANGED vars
    BY <1>11 DEF TypeOK, vars, world, mutex, call, tracker
<1>q. QED
    BY <1>1, <1>2, <1>3, <1>4, <1>5, <1>6, <1>7, <1>8, <1>9, <1>10, <1>11 DEF Next, Work

\* Every variable stays in its range; no event is scheduled with more
\* attempts than the limit allows.
THEOREM TypeCorrect == Spec => []TypeOK
BY InitType, StepType, PTL DEF Spec

------------------------------------------------------------------------------
(* The mutex *)

\* The call inside runExclusive holds the mutex, and only it has tasks.
MutexInv ==
    /\ InSyncExact
    /\ \A c \in Calls : pc[c] \in {"loading", "tasks"} <=> lock = c
    /\ \A c \in Calls : saving[c] # "none" \/ history[c] # "none" => pc[c] = "tasks"

\* What a run has loaded is no newer than the network and no older than
\* what is saved; nobody else has loaded anything.
FreshInv ==
    \A a \in Accounts :
        /\ snapshot[a] <= chain[a]
        /\ \A c \in Calls :
               /\ got[c][a] <= chain[a]
               /\ got[c][a] # 0 => lock = c /\ snapshot[a] <= got[c][a]

RunInv == TypeOK /\ MutexInv /\ FreshInv

LEMMA InitRun == Init => RunInv
<1> SUFFICES ASSUME Init PROVE RunInv
    OBVIOUS
<1>1. TypeOK
    BY InitType
<1>2. MutexInv
    BY DEF Init, MutexInv, InSyncExact
<1>3. FreshInv
    BY DEF Init, FreshInv, Nothing
<1>q. QED  BY <1>1, <1>2, <1>3 DEF RunInv

\* A new call changes nothing that the run in progress depends on.
LEMMA CallKeeps ==
    ASSUME RunInv, NEW c \in Calls, NEW S \in SUBSET Accounts,
           Call(c, S), UNCHANGED <<chain, snapshot, lock, inSync>>
    PROVE  MutexInv' /\ FreshInv'
<1> USE DEF RunInv
<1>1. lock # c
    BY DEF MutexInv, Call
<1>2. \A d \in Calls : /\ pc'[d] = IF d = c THEN "trying" ELSE pc[d]
                       /\ d # c => accts'[d] = accts[d]
    BY DEF Call, TypeOK
<1>3. UNCHANGED <<saving, history, got>> /\ pc[c] = "free"
    BY DEF Call
<1>4. lock \in Calls => accts'[lock] = accts[lock]
    BY <1>1, <1>2
<1>5. InSyncExact'
    BY <1>4 DEF MutexInv, InSyncExact, TypeOK
<1>6. MutexInv'
    BY <1>1, <1>2, <1>3, <1>5 DEF MutexInv
<1>q. QED  BY <1>3, <1>6 DEF FreshInv

\* A call that returns without the mutex leaves the run alone ...
LEMMA ReturnKeeps ==
    ASSUME RunInv, NEW c \in Calls, Return(c), pc[c] = "trying",
           UNCHANGED <<chain, snapshot, lock, inSync>>
    PROVE  MutexInv' /\ FreshInv'
<1> USE DEF RunInv
<1>1. lock # c
    BY DEF MutexInv
<1>2. \A d \in Calls :
          /\ pc'[d] = IF d = c THEN "free" ELSE pc[d]
          /\ saving'[d] = IF d = c THEN "none" ELSE saving[d]
          /\ history'[d] = IF d = c THEN "none" ELSE history[d]
          /\ d # c => accts'[d] = accts[d]
          /\ got'[d] = IF d = c THEN Nothing ELSE got[d]
    BY DEF Return, TypeOK
<1>3. InSyncExact'
    BY <1>1, <1>2 DEF MutexInv, InSyncExact, TypeOK
<1>4. MutexInv'
    BY <1>1, <1>2, <1>3 DEF MutexInv
<1>5. \A a \in Accounts : Nothing[a] = 0
    BY DEF Nothing
<1>6. \A a \in Accounts : chain[a] \in Nat
    BY DEF TypeOK
<1>q. QED  BY <1>2, <1>4, <1>5, <1>6 DEF FreshInv

\* ... and one that returns with it leaves nothing behind.
LEMMA FinishKeeps ==
    ASSUME RunInv, NEW c \in Calls, Finish(c)
    PROVE  MutexInv' /\ FreshInv'
<1> USE DEF RunInv
<1>1. lock = c /\ lock' = NoCall /\ inSync' = {} /\ UNCHANGED <<chain, snapshot>> /\ Return(c)
    BY DEF Finish, MutexInv, world
<1>2. \A d \in Calls :
          /\ pc'[d] = IF d = c THEN "free" ELSE pc[d]
          /\ saving'[d] = IF d = c THEN "none" ELSE saving[d]
          /\ history'[d] = IF d = c THEN "none" ELSE history[d]
          /\ got'[d] = IF d = c THEN Nothing ELSE got[d]
    BY <1>1 DEF Return, TypeOK
<1>3. InSyncExact'
    BY <1>1 DEF InSyncExact
<1>4. MutexInv'
    BY <1>1, <1>2, <1>3 DEF MutexInv
<1>5. \A a \in Accounts : Nothing[a] = 0 /\ chain[a] \in Nat
    BY DEF Nothing, TypeOK
<1>q. QED  BY <1>1, <1>2, <1>4, <1>5 DEF FreshInv

\* A step of the network moves versions up only.
LEMMA GrowKeeps ==
    ASSUME RunInv, TypeOK', UNCHANGED <<snapshot, lock, inSync, pc, accts, got, saving, history>>,
           \A a \in Accounts : chain[a] <= chain'[a]
    PROVE  MutexInv' /\ FreshInv'
<1> USE DEF RunInv
<1>1. MutexInv'
    BY DEF MutexInv, InSyncExact
<1>2. \A a \in Accounts : /\ chain[a] \in Nat /\ chain'[a] \in Nat /\ snapshot[a] \in Nat
                          /\ \A c \in Calls : got[c][a] \in Nat
    BY DEF TypeOK
<1>q. QED  BY <1>1, <1>2 DEF FreshInv

LEMMA RunKeeps ==
    ASSUME RunInv, TypeOK', NEW c \in Calls,
           Run(c) \/ SaveFails(c) \/ \E a \in Accounts : LoadFails(c, a)
    PROVE  MutexInv' /\ FreshInv'
<1> USE DEF RunInv
<1>t. \A a \in Accounts : /\ chain[a] \in Nat /\ snapshot[a] \in Nat
                          /\ \A d \in Calls : got[d][a] \in Nat
    BY DEF TypeOK
<1>1. CASE Acquire(c)
    <2>1. /\ lock = NoCall /\ lock' = c /\ inSync' = inSync \cup accts[c]
          /\ UNCHANGED <<chain, snapshot, accts, got, saving, history>>
          /\ pc' = [pc EXCEPT ![c] = "loading"] /\ pc[c] = "trying"
        BY <1>1 DEF Acquire, world
    <2>2. \A d \in Calls : pc'[d] = IF d = c THEN "loading" ELSE pc[d]
        BY <2>1 DEF TypeOK
    <2>3. InSyncExact'
        BY <2>1 DEF MutexInv, InSyncExact
    <2>4. MutexInv'
        BY <2>1, <2>2, <2>3 DEF MutexInv
    <2>q. QED  BY <2>1, <2>4 DEF FreshInv
<1>2. CASE Busy(c)
    BY <1>2, ReturnKeeps DEF Busy, world, mutex
<1>3. CASE StartTasks(c)
    <2>1. /\ UNCHANGED <<chain, snapshot, lock, inSync, accts, got>> /\ pc[c] = "loading"
          /\ \A d \in Calls : /\ pc'[d] = IF d = c THEN "tasks" ELSE pc[d]
                              /\ d # c => saving'[d] = saving[d] /\ history'[d] = history[d]
        BY <1>3 DEF StartTasks, TypeOK, world, mutex
    <2>q. QED  BY <2>1 DEF MutexInv, FreshInv, InSyncExact
<1>4. CASE SaveAccounts(c)
    <2>1. /\ UNCHANGED <<chain, lock, inSync, pc, accts, got, history>>
          /\ \A d \in Calls : d # c => saving'[d] = saving[d]
          /\ \A a \in Accounts : snapshot'[a] = IF got[c][a] # 0 THEN got[c][a] ELSE snapshot[a]
        BY <1>4 DEF SaveAccounts, TypeOK, world, mutex
    <2>2. pc[c] = "tasks"
        BY <1>4 DEF SaveAccounts, MutexInv
    <2>3. MutexInv'
        BY <2>1, <2>2 DEF MutexInv, InSyncExact
    <2>4. FreshInv'
        BY <1>t, <2>1 DEF FreshInv
    <2>q. QED  BY <2>3, <2>4
<1>5. CASE HistoryEnds(c)
    <2>1. /\ UNCHANGED <<chain, snapshot, lock, inSync, pc, accts, got, saving>>
          /\ history[c] # "none"
          /\ \A d \in Calls : d # c => history'[d] = history[d]
        BY <1>5 DEF HistoryEnds, TypeOK, world, mutex
    <2>q. QED  BY <2>1 DEF MutexInv, FreshInv, InSyncExact
<1>6. CASE Finish(c)
    BY <1>6, FinishKeeps
<1>7. ASSUME NEW a \in Accounts, Load(c, a) PROVE MutexInv' /\ FreshInv'
    <2>1. /\ UNCHANGED <<chain, snapshot, lock, inSync, pc, accts, saving, history>>
          /\ pc[c] = "loading"
        BY <1>7 DEF Load, world, mutex
    <2>2. got' = [got EXCEPT ![c] = [got[c] EXCEPT ![a] = chain[a]]]
        BY <1>7 DEF Load
    <2>3. \A d \in Calls, b \in Accounts :
              got'[d][b] = IF d = c /\ b = a THEN chain[a] ELSE got[d][b]
        BY <2>2 DEF TypeOK
    <2>4. lock = c
        BY <2>1 DEF MutexInv
    <2>q. QED  BY <1>t, <2>1, <2>3, <2>4 DEF MutexInv, FreshInv, InSyncExact
<1>8. CASE SaveFails(c)
    <2>1. /\ UNCHANGED <<chain, snapshot, lock, inSync, pc, accts, got, history>>
          /\ saving[c] # "none"
          /\ \A d \in Calls : d # c => saving'[d] = saving[d]
        BY <1>8 DEF SaveFails, TypeOK, world, mutex
    <2>q. QED  BY <2>1 DEF MutexInv, FreshInv, InSyncExact
<1>9. ASSUME NEW a \in Accounts, LoadFails(c, a) PROVE MutexInv' /\ FreshInv'
    BY <1>9 DEF LoadFails, MutexInv, FreshInv, InSyncExact, world, mutex
<1>q. QED  BY <1>1, <1>2, <1>3, <1>4, <1>5, <1>6, <1>7, <1>8, <1>9 DEF Run

LEMMA WorldGrows ==
    ASSUME TypeOK, (\E a \in Accounts : Change(a)) \/ (\E t \in Txs : Index(t))
    PROVE  \A a \in Accounts : chain[a] <= chain'[a]
<1>n. \A a \in Accounts : chain[a] \in Nat
    BY DEF TypeOK
<1>1. ASSUME NEW b \in Accounts, Change(b) PROVE \A a \in Accounts : chain[a] <= chain'[a]
    <2>1. \A a \in Accounts : chain'[a] = IF a = b THEN chain[a] + 1 ELSE chain[a]
        BY <1>1 DEF Change, TypeOK
    <2>q. QED  BY <1>n, <2>1
<1>2. ASSUME NEW t \in Txs, Index(t) PROVE \A a \in Accounts : chain[a] <= chain'[a]
    <2>1. \A a \in Accounts : chain'[a] = IF a \in Touched(t) THEN chain[a] + 1 ELSE chain[a]
        BY <1>2 DEF Index
    <2>q. QED  BY <1>n, <2>1
<1>q. QED  BY <1>1, <1>2

LEMMA StepRun == RunInv /\ [Next]_vars => RunInv'
<1> SUFFICES ASSUME RunInv, [Next]_vars PROVE RunInv'
    OBVIOUS
<1> USE DEF RunInv
<1>t. TypeOK'
    BY StepType
<1> SUFFICES MutexInv' /\ FreshInv'
    BY <1>t
<1>n. \A a \in Accounts : chain[a] \in Nat
    BY DEF TypeOK
<1>1. CASE (\E a \in Accounts : Change(a)) \/ (\E t \in Txs : Index(t))
    <2>1. \A a \in Accounts : chain[a] <= chain'[a]
        BY <1>1, WorldGrows
    <2>q. QED  BY <1>1, <1>t, <2>1, GrowKeeps DEF Change, Index, mutex, call
<1>2. CASE UNCHANGED <<chain, snapshot, lock, inSync, pc, accts, got, saving, history>>
    BY <1>2, <1>n, <1>t, GrowKeeps
<1>3. ASSUME NEW c \in Calls, Run(c) \/ SaveFails(c) \/ (\E a \in Accounts : LoadFails(c, a))
      PROVE  MutexInv' /\ FreshInv'
    BY <1>3, <1>t, RunKeeps
<1>4. ASSUME NEW c \in Calls, NEW S \in SUBSET Accounts, FireSync(c, S)
      PROVE  MutexInv' /\ FreshInv'
    BY <1>4, CallKeeps DEF FireSync, world, mutex
<1>5. ASSUME NEW c \in Calls, NEW t \in Txs, TrackSyncs(c, t)
      PROVE  MutexInv' /\ FreshInv'
    BY <1>5, CallKeeps, TouchedType DEF TrackSyncs, world, mutex
<1>6. ASSUME NEW c \in Calls, Cron(c) PROVE MutexInv' /\ FreshInv'
    BY <1>6, CallKeeps DEF Cron, world, mutex, TypeOK
<1>7. ASSUME NEW c \in Calls, BusyFails(c) PROVE MutexInv' /\ FreshInv'
    BY <1>7, ReturnKeeps DEF BusyFails, world, mutex
<1>8. CASE Stop
    <2>1. \A c \in Calls : /\ pc'[c] = "free" /\ saving'[c] = "none" /\ history'[c] = "none"
                           /\ got'[c] = Nothing
        BY <1>8 DEF Stop
    <2>2. lock' = NoCall /\ inSync' = {} /\ UNCHANGED <<chain, snapshot>>
        BY <1>8 DEF Stop, world
    <2>3. \A a \in Accounts : Nothing[a] = 0
        BY DEF Nothing
    <2>q. QED  BY <1>n, <2>1, <2>2, <2>3 DEF MutexInv, FreshInv, InSyncExact
<1>9. \/ UNCHANGED <<chain, snapshot, lock, inSync, pc, accts, got, saving, history>>
      \/ \E a \in Accounts : Change(a)
      \/ \E t \in Txs : Index(t) \/ \E c \in Calls : TrackSyncs(c, t)
      \/ \E c \in Calls : \/ Run(c) \/ SaveFails(c) \/ BusyFails(c) \/ Cron(c)
                          \/ \E a \in Accounts : LoadFails(c, a)
                          \/ \E S \in SUBSET Accounts : FireSync(c, S)
      \/ Stop
    <2>1. ASSUME NEW t \in Txs, Submit(t) \/ TrackMisses(t) \/ TrackEnds(t) \/ TrackFinds(t)
                                \/ \E n \in 0 .. MaxReschedules : FireTrack(t, n)
          PROVE  UNCHANGED <<chain, snapshot, lock, inSync, pc, accts, got, saving, history>>
        BY <2>1 DEF Submit, TrackMisses, TrackEnds, TrackFinds, FireTrack, world, mutex, call
    <2>2. ASSUME ClientStatus \/ (\E e \in events : Discard(e))
                              \/ (\E S \in Selections : SetSelectedAccounts(S))
          PROVE  UNCHANGED <<chain, snapshot, lock, inSync, pc, accts, got, saving, history>>
        BY <2>2 DEF ClientStatus, Discard, SetSelectedAccounts, world, mutex, call
    <2>3. CASE UNCHANGED vars
        BY <2>3 DEF vars, world, mutex, call
    <2>q. QED  BY <2>1, <2>2, <2>3 DEF Next, Work, Trouble, Track, FireEvent
<1>q. QED  BY <1>1, <1>2, <1>3, <1>4, <1>5, <1>6, <1>7, <1>8, <1>9

\* "Already in that run" is decided on exactly the accounts of that run.
THEOREM SkipCorrect == Spec => []InSyncExact
<1>1. RunInv => InSyncExact
    BY DEF RunInv, MutexInv
<1>q. QED  BY <1>1, InitRun, StepRun, PTL DEF Spec

\* At most one history scan is in progress, for any number of requests.
THEOREM RunCorrect == Spec => []OneHistoryRun
<1>1. RunInv => OneHistoryRun
    BY DEF RunInv, MutexInv, OneHistoryRun
<1>q. QED  BY <1>1, InitRun, StepRun, PTL DEF Spec

\* The saved accounts implement Replica: whatever overlaps or fails, an
\* account is never replaced by an older one nor by one the network never had.
THEOREM CopyCorrect == Spec => NeverBackwards
<1>1. Init => Follows!Init
    BY DEF Init, Follows!Init, Nothing
<1>2. ASSUME RunInv, [Next]_vars PROVE [Follows!Next]_<<chain, snapshot>>
    <2>1. TypeOK /\ TypeOK' /\ FreshInv
        BY <1>2, StepType DEF RunInv
    <2>t. \A a \in Accounts : chain[a] \in Nat /\ snapshot[a] \in Nat
        BY <2>1 DEF TypeOK
    <2>2. ASSUME NEW c \in Calls, SaveAccounts(c) PROVE Follows!Next
        <3>1. \A a \in Accounts :
                  snapshot'[a] = IF got[c][a] # 0 THEN got[c][a] ELSE snapshot[a]
            BY <2>2 DEF SaveAccounts
        <3>2. UNCHANGED chain /\ snapshot' \in [Accounts -> Nat]
            BY <2>1, <2>2 DEF SaveAccounts, world, TypeOK
        <3>3. \A a \in Accounts : /\ snapshot[a] <= snapshot'[a]
                                  /\ snapshot'[a] # snapshot[a] => snapshot'[a] <= chain[a]
            BY <2>1, <2>t, <3>1 DEF FreshInv
        <3>q. QED  BY <3>2, <3>3 DEF Follows!Next, Follows!Refresh
    <2>3. ASSUME (\E a \in Accounts : Change(a)) \/ (\E t \in Txs : Index(t)) PROVE Follows!Next
        <3>1. \A a \in Accounts : chain[a] <= chain'[a]
            BY <2>3, <2>1, WorldGrows
        <3>2. UNCHANGED snapshot /\ chain' \in [Accounts -> Nat]
            BY <2>1, <2>3 DEF Change, Index, TypeOK
        <3>q. QED  BY <3>1, <3>2 DEF Follows!Next, Follows!Grow
    <2>4. \/ UNCHANGED <<chain, snapshot>>
          \/ \E a \in Accounts : Change(a)
          \/ \E t \in Txs : Index(t)
          \/ \E c \in Calls : SaveAccounts(c)
        BY <1>2 DEF Next, Work, Trouble, Track, FireEvent, Run, Submit, TrackMisses, TrackEnds,
           TrackFinds, FireTrack, TrackSyncs, ClientStatus, Discard, SetSelectedAccounts, Stop,
           FireSync, Cron, Acquire, Busy, BusyFails, Load, LoadFails, StartTasks, SaveFails,
           HistoryEnds, Finish, vars, world
    <2>q. QED  BY <2>2, <2>3, <2>4
<1>q. QED
    BY <1>1, <1>2, InitRun, StepRun, PTL DEF Spec, NeverBackwards, Follows!Spec, Follows!vars

------------------------------------------------------------------------------
(* Tracking *)

\* A transaction is tracked by one chain of attempts: it is scheduled or in
\* the handler, never both, and the attempt counts the look-ups made.
ChainInv ==
    \A t \in Txs :
        /\ asked[t] <= MaxReschedules + 1 /\ finalized[t] <= 1
        /\ tx[t] = "new" =>
               /\ track[t].st = "none" /\ asked[t] = 0 /\ finalized[t] = 0
               /\ \A n \in 0 .. MaxReschedules : TrackEvent(t, n) \notin events
        /\ \A n \in 0 .. MaxReschedules : TrackEvent(t, n) \in events =>
               track[t].st = "none" /\ asked[t] = n /\ finalized[t] = 0
        /\ track[t].st = "asking" => asked[t] = track[t].attempt + 1 /\ finalized[t] = 0

LEMMA EventNames ==
    /\ \A t, u \in Txs : \A n, m \in Nat : TrackEvent(t, n) = TrackEvent(u, m) => t = u /\ n = m
    /\ \A t \in Txs : \A n \in Nat : \A S \in SUBSET Accounts : TrackEvent(t, n) # SyncEvent(S)
BY DEF TrackEvent, SyncEvent

LEMMA InitChain == Init => ChainInv
BY DEF Init, ChainInv, NotTracking

\* Steps that schedule no tracking leave the chains as they are.
LEMMA ChainStays ==
    ASSUME ChainInv, UNCHANGED <<track, asked, finalized>>,
           \A t \in Txs : tx'[t] = "new" => tx[t] = "new",
           \A t \in Txs : \A n \in 0 .. MaxReschedules :
               TrackEvent(t, n) \in events' => TrackEvent(t, n) \in events
    PROVE  ChainInv'
BY DEF ChainInv

LEMMA StepChain == TypeOK /\ ChainInv /\ [Next]_vars => ChainInv'
<1> SUFFICES ASSUME TypeOK, ChainInv, [Next]_vars PROVE ChainInv'
    OBVIOUS
<1>n. \A t \in Txs : /\ asked[t] \in Nat /\ finalized[t] \in Nat
                     /\ track[t].attempt \in 0 .. MaxReschedules
    BY DEF TypeOK
<1>1. ASSUME NEW t \in Txs, Submit(t) PROVE ChainInv'
    <2>1. /\ tx[t] = "new" /\ events' \subseteq events \cup {TrackEvent(t, 0)}
          /\ UNCHANGED <<track, asked, finalized>>
          /\ \A u \in Txs : tx'[u] = "new" => tx[u] = "new" /\ u # t
        BY <1>1 DEF Submit, TypeOK, tracker
    <2>2. \A u \in Txs : \A n \in 0 .. MaxReschedules :
              TrackEvent(u, n) \in events' => TrackEvent(u, n) \in events \/ (u = t /\ n = 0)
        BY <2>1, EventNames
    <2>q. QED  BY <2>1, <2>2 DEF ChainInv
<1>2. ASSUME NEW t \in Txs, NEW n \in 0 .. MaxReschedules, FireTrack(t, n) PROVE ChainInv'
    <2>1. /\ TrackEvent(t, n) \in events /\ events' = events \ {TrackEvent(t, n)}
          /\ \A u \in Txs : /\ track'[u] = IF u = t THEN [st |-> "asking", attempt |-> n] ELSE track[u]
                            /\ asked'[u] = IF u = t THEN asked[u] + 1 ELSE asked[u]
          /\ UNCHANGED <<tx, finalized>>
        BY <1>2 DEF FireTrack, TypeOK, world
    <2>2. asked[t] = n /\ finalized[t] = 0 /\ tx[t] # "new"
        BY <2>1 DEF ChainInv
    <2>3. \A m \in 0 .. MaxReschedules : TrackEvent(t, m) \notin events'
        BY <2>1, <2>2 DEF ChainInv
    <2>q. QED  BY <1>n, <2>1, <2>2, <2>3 DEF ChainInv
<1>3. ASSUME NEW t \in Txs, TrackFinds(t) PROVE ChainInv'
    <2>1. /\ track[t].st = "asking" /\ tx[t] = "indexed"
          /\ \A u \in Txs : /\ u # t => track'[u] = track[u] /\ finalized'[u] = finalized[u]
          /\ track'[t].st = "final" /\ finalized'[t] = finalized[t] + 1
          /\ UNCHANGED <<tx, events, asked>>
        BY <1>3 DEF TrackFinds, TypeOK, world
    <2>2. finalized[t] = 0 /\ \A m \in 0 .. MaxReschedules : TrackEvent(t, m) \notin events
        BY <2>1 DEF ChainInv
    <2>q. QED  BY <1>n, <2>1, <2>2 DEF ChainInv
<1>4. ASSUME NEW t \in Txs, TrackMisses(t) PROVE ChainInv'
    <2>1. /\ track[t].st = "asking" /\ track[t].attempt \in 0 .. MaxReschedules
          /\ track'[t] = NotTracking /\ \A u \in Txs \ {t} : track'[u] = track[u]
          /\ UNCHANGED <<tx, asked, finalized>>
        BY <1>4, <1>n DEF TrackMisses, TypeOK, world
    <2>2. asked[t] = track[t].attempt + 1 /\ finalized[t] = 0 /\ tx[t] # "new"
          /\ \A m \in 0 .. MaxReschedules : TrackEvent(t, m) \notin events
        BY <2>1 DEF ChainInv
    <2>3. \A u \in Txs : \A n \in 0 .. MaxReschedules :
              TrackEvent(u, n) \in events' =>
                  TrackEvent(u, n) \in events \/ (u = t /\ n = track[t].attempt + 1)
        BY <1>4, <2>1, EventNames DEF TrackMisses
    <2>q. QED  BY <1>n, <2>1, <2>2, <2>3 DEF ChainInv, NotTracking
<1>5. ASSUME NEW t \in Txs, TrackEnds(t) \/ (\E c \in Calls : TrackSyncs(c, t)) PROVE ChainInv'
    <2>1. /\ track'[t] = NotTracking /\ \A u \in Txs \ {t} : track'[u] = track[u]
          /\ track[t].st # "none"
          /\ UNCHANGED <<tx, events, asked, finalized>>
        BY <1>5 DEF TrackEnds, TrackSyncs, TypeOK, world
    <2>q. QED  BY <2>1 DEF ChainInv, NotTracking
<1>6. CASE Stop
    <2>1. /\ \A t \in Txs : track'[t] = NotTracking
          /\ UNCHANGED <<tx, events, asked, finalized>>
        BY <1>6 DEF Stop, world
    <2>q. QED  BY <2>1 DEF ChainInv, NotTracking
<1>7. ASSUME NEW S \in SUBSET Accounts, UNCHANGED <<tx, track, asked, finalized>>,
             events' \subseteq events \cup {SyncEvent(S)}
      PROVE  ChainInv'
    <2>1. \A t \in Txs : \A n \in 0 .. MaxReschedules :
              TrackEvent(t, n) \in events' => TrackEvent(t, n) \in events
        BY <1>7, EventNames
    <2>q. QED  BY <1>7, <2>1, ChainStays
<1>8. ASSUME NEW c \in Calls, Busy(c) PROVE ChainInv'
    <2>1. /\ events' \subseteq events \cup {SyncEvent(accts[c] \ inSync)}
          /\ UNCHANGED <<tx, track, asked, finalized>>
        BY <1>8 DEF Busy, world, tracker
    <2>2. accts[c] \ inSync \in SUBSET Accounts
        BY DEF TypeOK
    <2>q. QED  BY <2>1, <2>2, <1>7
<1>9. ASSUME NEW S \in Selections, SetSelectedAccounts(S) PROVE ChainInv'
    <2>1. /\ events' \subseteq events \cup {SyncEvent(S)} /\ S \in SUBSET Accounts
          /\ UNCHANGED <<tx, track, asked, finalized>>
        BY <1>9 DEF SetSelectedAccounts, tracker
    <2>q. QED  BY <2>1, <1>7
<1>10. ASSUME NEW t \in Txs, Index(t) PROVE ChainInv'
    <2>1. /\ UNCHANGED <<events, track, asked, finalized>> /\ tx[t] = "sent"
          /\ \A u \in Txs : tx'[u] = IF u = t THEN "indexed" ELSE tx[u]
        BY <1>10 DEF Index, TypeOK, tracker
    <2>q. QED  BY <2>1 DEF ChainInv
<1>11. ASSUME UNCHANGED <<tx, track, asked, finalized>>, events' \subseteq events
       PROVE  ChainInv'
    BY <1>11 DEF ChainInv
<1>12. CASE ClientStatus \/ (\E a \in Accounts : Change(a)) \/ (\E e \in events : Discard(e))
            \/ UNCHANGED vars
    BY <1>11, <1>12 DEF ClientStatus, Change, Discard, vars, world, tracker
<1>13. ASSUME NEW c \in Calls,
              \/ Acquire(c) \/ StartTasks(c) \/ SaveAccounts(c) \/ HistoryEnds(c) \/ Finish(c)
              \/ SaveFails(c) \/ BusyFails(c) \/ Cron(c)
              \/ \E a \in Accounts : Load(c, a) \/ LoadFails(c, a)
              \/ \E S \in SUBSET Accounts : FireSync(c, S)
       PROVE  ChainInv'
    <2>1. UNCHANGED <<tx, track, asked, finalized>> /\ events' \subseteq events
        BY <1>13 DEF Acquire, StartTasks, SaveAccounts, HistoryEnds, Finish, SaveFails, BusyFails,
           Cron, Load, LoadFails, FireSync, world, tracker
    <2>q. QED  BY <2>1, <1>11
<1>q. QED
    BY <1>1, <1>2, <1>3, <1>4, <1>5, <1>6, <1>8, <1>9, <1>10, <1>12, <1>13
       DEF Next, Work, Trouble, Track, FireEvent, Run

\* A transaction is looked up at most MaxReschedules + 1 times and reported
\* as finalised at most once.
THEOREM TrackingCorrect == Spec => []TrackedOnce
<1>1. ChainInv => TrackedOnce
    BY DEF ChainInv, TrackedOnce
<1>q. QED  BY <1>1, InitType, StepType, InitChain, StepChain, PTL DEF Spec

\* All three at once: whatever fails, one history is scanned at a time, the accounts said to be in a run are in it,
\* and a submitted transaction is looked up and finalized no more often than it may.
THEOREM ExclusiveCorrect == Spec => []RunsExclusive
<1>1. OneHistoryRun /\ InSyncExact /\ TrackedOnce => RunsExclusive
    BY DEF RunsExclusive
<1>q. QED  BY <1>1, RunCorrect, SkipCorrect, TrackingCorrect, PTL
==============================================================================
