-------------------------- MODULE BitcoinSync_proofs --------------------------
(***************************************************************************)
(* Proofs about BitcoinSync, for any accounts and transactions, any mix of *)
(* runs and any number of troubles. And about three components beside it:  *)
(* BitcoinSend (what is sent was reviewed), FetchPolicy (a caller that gave *)
(* up is done with) and Cache (how late a cached value is answered).       *)
(***************************************************************************)
EXTENDS BitcoinSync, Integers, Sequences, FiniteSetTheorems, TLAPS

\* The stored copies of the transactions follow the network.
Follows == INSTANCE Replica WITH Items <- Txs, source <- chain, copy <- stored

\* What a run knows was on the network, and so was what is stored.
Seen == \A t \in Txs : stored[t] <= chain[t] /\ \A r \in Runs : after[r][t] <= chain[t]

\* A run that is done with an account has stored what it knows of it.
DoneIsStored == \A r \in Runs, t \in Txs : phase[r][Owner[t]] = "done" => after[r][t] <= stored[t]

\* The repair works on the head of a valid list, and advances when that is scanned.
HeadRepaired ==
    /\ pc["cron"] \in {"repair", "advance"} => rescan # NoAccount /\ rescan # <<>>
    /\ pc["cron"] = "repair" =>
           /\ target = rescan[1]
           /\ \A a \in Accounts : phase["cron"][a] = "done" => a \in scanned
    /\ pc["cron"] = "advance" => rescan[1] \in scanned

IInv == TypeOK /\ Seen /\ DoneIsStored /\ ToldIsStored /\ HeadRepaired

------------------------------------------------------------------------------
\* Types

\* What a run has just loaded.
LEMMA LoadFacts ==
    ASSUME BitcoinSyncAssumption, TypeOK, NEW r \in Runs, NEW as, NEW kind \in Phases, NEW where \in Steps,
           Load(r, as, kind, where)
    PROVE  /\ pc' = [pc EXCEPT ![r] = where] /\ pc' \in [Runs -> Steps]
           /\ phase' \in [Runs -> [Accounts -> Phases]]
           /\ before' \in [Runs -> [Txs -> Status]] /\ after' \in [Runs -> [Txs -> Status]]
           /\ \A q \in Runs : q # r => phase'[q] = phase[q]
           /\ \A a \in Accounts : phase'[r][a] \in {kind, "off"}
           /\ \A q \in Runs, t \in Txs : IF q = r THEN after'[q][t] = stored[t] \/ after'[q][t] = 0
                                         ELSE after'[q][t] = after[q][t]
<1>1. 0 \in Status
  BY DEF Status
<1>2. stored \in [Txs -> Status] /\ pc \in [Runs -> Steps] /\ phase \in [Runs -> [Accounts -> Phases]]
      /\ before \in [Runs -> [Txs -> Status]] /\ after \in [Runs -> [Txs -> Status]]
  BY DEF TypeOK
<1> DEFINE known == [t \in Txs |-> IF Owner[t] \in as THEN stored[t] ELSE 0]
           loaded == [a \in Accounts |-> IF a \in as THEN kind ELSE "off"]
<1>3. known \in [Txs -> Status] /\ loaded \in [Accounts -> Phases]
  BY <1>1, <1>2 DEF Phases
<1> HIDE DEF known, loaded
<1>4. /\ pc' = [pc EXCEPT ![r] = where] /\ phase' = [phase EXCEPT ![r] = loaded]
      /\ before' = [before EXCEPT ![r] = known] /\ after' = [after EXCEPT ![r] = known]
  BY <1>2 DEF Load, known, loaded
<1>5. /\ pc' \in [Runs -> Steps] /\ phase' \in [Runs -> [Accounts -> Phases]]
      /\ before' \in [Runs -> [Txs -> Status]] /\ after' \in [Runs -> [Txs -> Status]]
  BY <1>2, <1>3, <1>4
<1>6. \A q \in Runs : IF q = r THEN phase'[q] = loaded /\ after'[q] = known
                      ELSE phase'[q] = phase[q] /\ after'[q] = after[q]
  BY <1>2, <1>4
<1>7. \A t \in Txs : known[t] = stored[t] \/ known[t] = 0
  BY DEF known
<1> QED  BY <1>4, <1>5, <1>6, <1>7 DEF loaded

\* A run that has ended has forgotten everything.
LEMMA RestFacts ==
    ASSUME BitcoinSyncAssumption, TypeOK, NEW r \in Runs, NEW where \in Steps, Rest(r, where)
    PROVE  /\ pc' = [pc EXCEPT ![r] = where] /\ pc' \in [Runs -> Steps]
           /\ phase' \in [Runs -> [Accounts -> Phases]]
           /\ \A q \in Runs : IF q = r THEN phase'[q] = Nowhere ELSE phase'[q] = phase[q]
           /\ before' \in [Runs -> [Txs -> Status]] /\ after' \in [Runs -> [Txs -> Status]]
           /\ \A q \in Runs : IF q = r THEN after'[q] = Unknown ELSE after'[q] = after[q]
<1>1. Unknown \in [Txs -> Status] /\ Nowhere \in [Accounts -> Phases]
  BY DEF Status, Unknown, Nowhere, Phases
<1> QED  BY <1>1 DEF TypeOK, Rest

\* The list that is left: of accounts that are there, with all of those it had.
LEMMA ListedFacts ==
    ASSUME BitcoinSyncAssumption, TypeOK, NEW pending \in Listed
    PROVE  /\ pending \in Seq(Accounts) /\ pending # NoAccount
           /\ rescan # NoAccount =>
                \A i \in DOMAIN rescan : rescan[i] \in live => \E j \in DOMAIN pending : pending[j] = rescan[i]
<1>0. live \subseteq Accounts /\ (rescan = NoAccount \/ rescan \in Seq(Accounts))
  BY DEF TypeOK
<1>1. CASE rescan = NoAccount
  <2>1. IsFiniteSet(live)
    BY <1>0, FS_Subset DEF BitcoinSyncAssumption
  <2>2. Cardinality(live) \in Nat
    BY <2>1, FS_CardinalityType
  <2>3. pending \in [1..Cardinality(live) -> Accounts]
    BY <1>0, <1>1 DEF Listed, Orderings
  <2> QED  BY <1>1, <2>2, <2>3 DEF BitcoinSyncAssumption
<1>2. CASE rescan # NoAccount
  <2> DEFINE places == {i \in DOMAIN rescan : rescan[i] \in live}
  <2>1. rescan \in Seq(Accounts) /\ Len(rescan) \in Nat /\ DOMAIN rescan = 1..Len(rescan)
    BY <1>0, <1>2
  <2>2. IsFiniteSet(places)
    <3>1. IsFiniteSet(1..Len(rescan))
      BY <2>1, FS_Interval
    <3> QED  BY <2>1, <3>1, FS_Subset
  <2>3. Cardinality(places) \in Nat
    BY <2>2, FS_CardinalityType
  <2> PICK f \in Remaining : pending = [k \in DOMAIN f |-> rescan[f[k]]]
    BY <1>2 DEF Listed
  <2>4. f \in [1..Cardinality(places) -> places] /\ \A i \in places : \E k \in DOMAIN f : f[k] = i
    BY DEF Remaining, Orderings
  <2>5. pending \in [1..Cardinality(places) -> Accounts]
    BY <1>0, <2>4
  <2>6. pending \in Seq(Accounts)
    <3> HIDE DEF places
    <3> QED  BY <2>3, <2>5
  <2>7. \A i \in DOMAIN rescan : rescan[i] \in live => \E j \in DOMAIN pending : pending[j] = rescan[i]
    BY <2>4
  <2> QED  BY <2>6, <2>7 DEF BitcoinSyncAssumption
<1> QED  BY <1>1, <1>2

LEMMA InitTypes == ASSUME BitcoinSyncAssumption, Init PROVE TypeOK
<1>1. Unknown \in [Txs -> Status] /\ Nowhere \in [Accounts -> Phases]
  BY DEF Status, Unknown, Nowhere, Phases
<1>2. 0 \in 0..MaxTroubles
  BY DEF BitcoinSyncAssumption
<1> QED  BY <1>1, <1>2 DEF TypeOK, Init, Steps, BitcoinSyncAssumption

LEMMA StepTypes == ASSUME BitcoinSyncAssumption, TypeOK, HeadRepaired, [Next]_syncVars PROVE TypeOK'
<1> USE DEF wallets, runs, history
<1>m. \A m, n \in Status : MaxOf(m, n) \in Status
  BY DEF Status, MaxOf
<1>t. Trouble => troubles' \in 0..MaxTroubles
  BY DEF Trouble, TypeOK, BitcoinSyncAssumption
<1>1. ASSUME NEW r \in Runs, NEW as, Synchronize(r, as) PROVE TypeOK'
  BY <1>1, LoadFacts DEF TypeOK, Synchronize, Steps, Phases
<1>2. ASSUME NEW a \in Accounts, FireScan(a) PROVE TypeOK'
  <2>1. CASE open /\ a \in live
    BY <1>2, <2>1, LoadFacts DEF TypeOK, FireScan, Steps, Phases, Runs
  <2>2. CASE ~(open /\ a \in live)
    BY <1>2, <2>2 DEF TypeOK, FireScan
  <2> QED  BY <2>1, <2>2
<1>3. ASSUME NEW t \in Txs, Send(t) PROVE TypeOK'
  BY <1>3, LoadFacts DEF TypeOK, Send, Steps, Phases, Runs
<1>4. ASSUME NEW t \in Txs, Broadcast(t) PROVE TypeOK'
  <2>1. 1 \in Status /\ "send" \in Runs
    BY DEF Status, Runs
  <2>2. Owner[t] \in Accounts
    BY DEF BitcoinSyncAssumption
  <2> QED  BY <1>4, <1>m, <2>1, <2>2 DEF TypeOK, Broadcast, Phases
<1>5. ASSUME NEW r \in Runs, NEW a \in Accounts, Fetch(r, a) PROVE TypeOK'
  <2>1. after' \in [Runs -> [Txs -> Status]]
    BY <1>5, <1>m DEF TypeOK, Fetch
  <2> QED  BY <1>5, <2>1 DEF TypeOK, Fetch, Phases
<1>6. ASSUME NEW r \in Runs, NEW a \in Accounts, Update(r, a) PROVE TypeOK'
  <2>1. stored' \in [Txs -> Status]
    BY <1>6, <1>m DEF TypeOK, Update
  <2> QED  BY <1>6, <2>1 DEF TypeOK, Update, Phases
<1>7. ASSUME NEW r \in Runs, NEW a \in Accounts, Fails(r, a) PROVE TypeOK'
  BY <1>7, <1>t DEF TypeOK, Fails, Phases
<1>8. ASSUME NEW r \in Runs, Emit(r) PROVE TypeOK'
  <2>1. After(r) \in Steps
    BY DEF After, Steps
  <2>2. told' \in [Txs -> Status] /\ lossy' \subseteq Txs
    BY <1>8 DEF TypeOK, Emit, Notified
  <2> QED  BY <1>8, <2>1, <2>2, RestFacts DEF TypeOK, Emit
<1>9. ASSUME NEW r \in Runs, EmitFails(r) PROVE TypeOK'
  <2>1. lossy' \subseteq Txs
    BY <1>9 DEF TypeOK, EmitFails, Notified
  <2> QED  BY <1>9, <1>t, <2>1, RestFacts DEF TypeOK, EmitFails, Steps
<1>10. CASE Check
  BY <1>10 DEF TypeOK, Check, Steps, Runs
<1>11. CASE RepairNext
  <2> PICK pending \in Listed :
         /\ rescan' = pending
         /\ IF pending = <<>>
            THEN Rest("cron", "idle") /\ target' = NoAccount
            ELSE Load("cron", {pending[1]}, "scan", "repair") /\ target' = pending[1]
    BY <1>11 DEF RepairNext
  <2>1. pending \in Seq(Accounts)
    BY ListedFacts
  <2>2. CASE pending = <<>>
    BY <1>11, <2>1, <2>2, RestFacts DEF TypeOK, RepairNext, Steps, Runs
  <2>3. CASE pending # <<>>
    <3>1. pending[1] \in Accounts
      BY <2>1, <2>3
    <3>2. Load("cron", {pending[1]}, "scan", "repair") /\ target' = pending[1]
      BY <2>3
    <3>3. "cron" \in Runs /\ "scan" \in Phases /\ "repair" \in Steps
      BY DEF Runs, Phases, Steps
    <3>4. /\ pc' \in [Runs -> Steps] /\ phase' \in [Runs -> [Accounts -> Phases]]
          /\ before' \in [Runs -> [Txs -> Status]] /\ after' \in [Runs -> [Txs -> Status]]
      BY <3>2, <3>3, LoadFacts
    <3> QED  BY <1>11, <2>1, <3>1, <3>2, <3>4 DEF TypeOK, RepairNext
  <2> QED  BY <2>2, <2>3
<1>12. CASE Advance
  <2>1. rescan \in Seq(Accounts) /\ rescan # <<>>
    BY <1>12 DEF TypeOK, Advance, HeadRepaired
  <2> QED  BY <1>12, <2>1 DEF TypeOK, Advance, Steps, Runs
<1>13. ASSUME NEW a \in Accounts, Create(a) \/ Delete(a) PROVE TypeOK'
  BY <1>13, <1>t DEF TypeOK, Create, Delete
<1>14. ASSUME NEW t \in Txs, Pay(t) PROVE TypeOK'
  BY <1>14 DEF TypeOK, Pay, Status
<1>15. CASE Lock \/ Unlock
  BY <1>15, <1>t DEF TypeOK, Lock, Unlock
<1>16. CASE Stop
  <2>1. Unknown \in [Txs -> Status] /\ Nowhere \in [Accounts -> Phases]
    BY DEF Status, Unknown, Nowhere, Phases
  <2>2. lossy' \subseteq Txs
    BY <1>16 DEF TypeOK, Stop, Notified
  <2> QED  BY <1>16, <1>t, <2>1, <2>2 DEF TypeOK, Stop, Steps
<1>17. CASE UNCHANGED syncVars
  BY <1>17 DEF TypeOK, syncVars
<1>18. ASSUME NEW r \in Runs, Work(r) PROVE TypeOK'
  BY <1>4, <1>5, <1>6, <1>7, <1>8, <1>10, <1>11, <1>12, <1>18 DEF Work
<1>19. "cron" \in Runs /\ "selected" \in Runs
  BY DEF Runs
<1> QED  BY <1>1, <1>2, <1>3, <1>7, <1>9, <1>13, <1>14, <1>15, <1>16, <1>17, <1>18, <1>19 DEF Next, Cron

------------------------------------------------------------------------------
\* What is known was on the network

\* A run that starts knows what is stored; one that ends knows nothing.
LEMMA SeenLoads ==
    ASSUME BitcoinSyncAssumption, IInv, NEW r \in Runs, NEW as, NEW kind \in Phases, NEW where \in Steps,
           Load(r, as, kind, where) \/ Rest(r, where), UNCHANGED <<chain, stored>>
    PROVE  Seen'
<1>0. TypeOK /\ Seen
  BY DEF IInv
<1>1. \A t \in Txs : 0 <= chain[t]
  <2>1. \A t \in Txs : chain[t] \in Status
    BY <1>0 DEF TypeOK
  <2> QED  BY <2>1 DEF Status
<1>2. CASE Load(r, as, kind, where)
  <2>1. \A q \in Runs, t \in Txs : IF q = r THEN after'[q][t] = stored[t] \/ after'[q][t] = 0
                                    ELSE after'[q][t] = after[q][t]
    BY <1>0, <1>2, LoadFacts
  <2> QED  BY <1>0, <1>1, <2>1 DEF Seen
<1>3. CASE Rest(r, where)
  <2>1. \A q \in Runs : IF q = r THEN after'[q] = Unknown ELSE after'[q] = after[q]
    BY <1>3, RestFacts DEF IInv
  <2> QED  BY <1>1, <2>1 DEF IInv, Seen, Unknown
<1> QED  BY <1>2, <1>3

LEMMA StepSeen == ASSUME BitcoinSyncAssumption, IInv, [Next]_syncVars PROVE Seen'
<1> USE DEF wallets, runs, history
<1>n. "cron" \in Runs /\ "selected" \in Runs /\ "scan" \in Runs /\ "send" \in Runs
      /\ {"sync", "scan", "send"} \subseteq Phases /\ {"work", "repair", "idle"} \subseteq Steps
  BY DEF Runs, Phases, Steps
<1>0. /\ chain \in [Txs -> Status] /\ stored \in [Txs -> Status] /\ after \in [Runs -> [Txs -> Status]]
      /\ \A m, n \in Status : m <= n \/ n <= m
  BY DEF IInv, TypeOK, Status
<1>1. ASSUME NEW r \in Runs, NEW as, Synchronize(r, as) PROVE Seen'
  BY <1>1, <1>n, SeenLoads DEF Synchronize
<1>2. ASSUME NEW a \in Accounts, FireScan(a) PROVE Seen'
  BY <1>2, <1>n, SeenLoads DEF FireScan, IInv, Seen
<1>3. ASSUME NEW t \in Txs, Send(t) PROVE Seen'
  BY <1>3, <1>n, SeenLoads DEF Send
<1>4. ASSUME NEW t \in Txs, Broadcast(t) PROVE Seen'
  <2>1. chain' = [chain EXCEPT ![t] = 1] /\ chain[t] = 0 /\ stored' = stored
        /\ after' = [after EXCEPT !["send"][t] = MaxOf(@, 1)]
    BY <1>4 DEF Broadcast
  <2>2. after["send"][t] = 0 /\ MaxOf(0, 1) = 1
    BY <1>0, <1>n, <2>1 DEF IInv, Seen, Status, MaxOf
  <2>3. \A q \in Runs, u \in Txs : after'[q][u] = after[q][u] \/ (u = t /\ after'[q][u] = 1)
    BY <1>0, <2>1, <2>2
  <2> QED  BY <1>0, <2>1, <2>3 DEF IInv, Seen, Status
<1>5. ASSUME NEW r \in Runs, NEW a \in Accounts, Fetch(r, a) PROVE Seen'
  <2>1. \A q \in Runs, u \in Txs : after'[q][u] = after[q][u] \/ after'[q][u] = MaxOf(after[q][u], chain[u])
    BY <1>0, <1>5 DEF Fetch
  <2>2. chain' = chain /\ stored' = stored
    BY <1>5 DEF Fetch
  <2> QED  BY <1>0, <2>1, <2>2 DEF IInv, Seen, Status, MaxOf
<1>6. ASSUME NEW r \in Runs, NEW a \in Accounts, Update(r, a) PROVE Seen'
  <2>1. \A u \in Txs : stored'[u] = stored[u] \/ stored'[u] = MaxOf(stored[u], after[r][u])
    BY <1>0, <1>6 DEF Update
  <2>2. chain' = chain /\ after' = after
    BY <1>6 DEF Update
  <2> QED  BY <1>0, <2>1, <2>2 DEF IInv, Seen, Status, MaxOf
<1>7. ASSUME NEW r \in Runs, NEW a \in Accounts, Fails(r, a) PROVE Seen'
  BY <1>7 DEF Fails, IInv, Seen
<1>8. ASSUME NEW r \in Runs, Emit(r) \/ EmitFails(r) PROVE Seen'
  <2>1. After(r) \in Steps
    BY DEF After, Steps
  <2> QED  BY <1>8, <1>n, <2>1, SeenLoads DEF Emit, EmitFails
<1>9. CASE Check \/ Advance \/ Lock \/ Unlock \/ \E a \in Accounts : Create(a) \/ Delete(a)
  BY <1>9 DEF Check, Advance, Lock, Unlock, Create, Delete, IInv, Seen
<1>10. CASE RepairNext
  BY <1>10, <1>n, SeenLoads DEF RepairNext
<1>11. ASSUME NEW t \in Txs, Pay(t) PROVE Seen'
  BY <1>0, <1>11 DEF Pay, IInv, Seen, Status
<1>12. CASE Stop
  <2>1. \A q \in Runs, u \in Txs : after'[q][u] = 0
    BY <1>12 DEF Stop, Unknown
  <2> QED  BY <1>0, <1>12, <2>1 DEF Stop, IInv, Seen, Status
<1>13. CASE UNCHANGED syncVars
  BY <1>13 DEF syncVars, IInv, Seen
<1>14. ASSUME NEW r \in Runs, Work(r) PROVE Seen'
  BY <1>4, <1>5, <1>6, <1>7, <1>8, <1>9, <1>10, <1>14 DEF Work
<1> QED  BY <1>n, <1>1, <1>2, <1>3, <1>7, <1>8, <1>9, <1>11, <1>12, <1>13, <1>14 DEF Next, Cron

------------------------------------------------------------------------------
\* Nothing stored is undone

\* Only a run that writes changes what is stored, and it keeps the newer of the two.
LEMMA StoredGrows ==
    ASSUME BitcoinSyncAssumption, TypeOK, [Next]_syncVars, NEW t \in Txs
    PROVE  /\ stored[t] <= stored'[t]
           /\ stored'[t] # stored[t] =>
                \E r \in Runs, a \in Accounts : Update(r, a) /\ stored'[t] = after[r][t] /\ chain' = chain
<1> USE DEF wallets, runs, history
<1>1. ASSUME NEW r \in Runs, NEW a \in Accounts, Update(r, a)
      PROVE  /\ stored[t] <= stored'[t] /\ chain' = chain
             /\ stored'[t] = stored[t] \/ stored'[t] = after[r][t]
  <2>1. stored'[t] = IF t \in Of(a) THEN MaxOf(stored[t], after[r][t]) ELSE stored[t]
    BY <1>1 DEF Update
  <2>2. stored[t] \in Status /\ after[r][t] \in Status
    BY DEF TypeOK
  <2> QED  BY <1>1, <2>1, <2>2 DEF Update, MaxOf, Status
<1>2. CASE stored' = stored
  BY <1>2 DEF TypeOK, Status
<1>3. CASE stored' # stored
  <2>1. PICK r \in Runs, a \in Accounts : Update(r, a)
    BY <1>3 DEF Next, Work, Cron, Synchronize, FireScan, Send, Broadcast, Fetch, Fails, Emit, EmitFails,
       Check, RepairNext, Advance, Create, Delete, Pay, Lock, Unlock, Stop, syncVars
  <2> QED  BY <1>1, <2>1
<1> QED  BY <1>2, <1>3

\* What a run that is done with an account knows of it does not change until it rests.
LEMMA StepDone == ASSUME BitcoinSyncAssumption, IInv, [Next]_syncVars PROVE DoneIsStored'
<1> USE DEF wallets, runs, history
<1>0. /\ TypeOK /\ DoneIsStored
      /\ "cron" \in Runs /\ "selected" \in Runs /\ "scan" \in Runs /\ "send" \in Runs
      /\ {"sync", "scan", "send"} \subseteq Phases \ {"done"} /\ {"work", "repair", "idle"} \subseteq Steps
  BY DEF IInv, Runs, Phases, Steps
<1>g. /\ \A t \in Txs : stored[t] <= stored'[t] /\ stored[t] \in Int /\ stored'[t] \in Int
      /\ \A t \in Txs, r \in Runs : after[r][t] \in Int
  <2>1. TypeOK'
    BY StepTypes DEF IInv
  <2>2. \A t \in Txs : stored[t] <= stored'[t]
    BY <1>0, StoredGrows
  <2>3. \A t \in Txs : stored[t] \in Status /\ stored'[t] \in Status /\ \A r \in Runs : after[r][t] \in Status
    BY <1>0, <2>1 DEF TypeOK
  <2>4. Status \subseteq Int
    BY DEF Status
  <2> QED  BY <2>2, <2>3, <2>4
<1>o. \A t \in Txs : Owner[t] \in Accounts
  BY DEF BitcoinSyncAssumption
<1>l. ASSUME NEW r \in Runs, NEW as, NEW kind \in Phases \ {"done"}, NEW where \in Steps,
             Load(r, as, kind, where) \/ Rest(r, where)
      PROVE  DoneIsStored'
  <2> SUFFICES ASSUME NEW q \in Runs, NEW t \in Txs, phase'[q][Owner[t]] = "done"
               PROVE  after'[q][t] <= stored'[t]
    BY DEF DoneIsStored
  <2>0. kind \in Phases /\ kind # "done"
    OBVIOUS
  <2>1. CASE Load(r, as, kind, where)
    <3>0. TypeOK
      BY <1>0
    <3>1. \A a \in Accounts : phase'[r][a] \in {kind, "off"}
      BY <2>0, <2>1, <3>0, LoadFacts
    <3>2. \A p \in Runs : p # r => phase'[p] = phase[p]
      BY <2>0, <2>1, <3>0, LoadFacts
    <3>3. \A p \in Runs, u \in Txs : IF p = r THEN after'[p][u] = stored[u] \/ after'[p][u] = 0
                                     ELSE after'[p][u] = after[p][u]
      BY <2>0, <2>1, <3>0, LoadFacts
    <3>4. q # r
      BY <1>o, <2>0, <3>1
    <3>5. phase[q][Owner[t]] = "done" /\ after'[q][t] = after[q][t]
      BY <3>2, <3>3, <3>4
    <3> QED  BY <1>0, <1>g, <3>5 DEF DoneIsStored
  <2>2. CASE Rest(r, where)
    <3>1. q # r
      BY <1>0, <1>o, <2>2, RestFacts DEF Nowhere
    <3>2. phase'[q] = phase[q] /\ after'[q] = after[q]
      BY <1>0, <2>2, <3>1, RestFacts
    <3> QED  BY <1>0, <1>g, <3>2 DEF DoneIsStored
  <2> QED  BY <1>l, <2>1, <2>2
<1>1. ASSUME NEW r \in Runs, NEW as, Synchronize(r, as) PROVE DoneIsStored'
  BY <1>0, <1>1, <1>l DEF Synchronize
<1>2. ASSUME NEW a \in Accounts, FireScan(a) PROVE DoneIsStored'
  BY <1>0, <1>2, <1>l, <1>g DEF FireScan, DoneIsStored
<1>3. ASSUME NEW t \in Txs, Send(t) PROVE DoneIsStored'
  BY <1>0, <1>3, <1>l DEF Send
<1>4. ASSUME NEW t \in Txs, Broadcast(t) PROVE DoneIsStored'
  <2> SUFFICES ASSUME NEW q \in Runs, NEW u \in Txs, phase'[q][Owner[u]] = "done"
               PROVE  after'[q][u] <= stored'[u]
    BY DEF DoneIsStored
  <2>1. phase' = [phase EXCEPT !["send"][Owner[t]] = "update"] /\ after' = [after EXCEPT !["send"][t] = MaxOf(@, 1)]
        /\ phase["send"][Owner[t]] = "send"
    BY <1>4 DEF Broadcast
  <2>2. ~(q = "send" /\ u = t)
    BY <1>0, <1>o, <2>1 DEF TypeOK
  <2>3. phase[q][Owner[u]] = "done" /\ after'[q][u] = after[q][u]
    BY <1>0, <1>o, <2>1, <2>2 DEF TypeOK
  <2> QED  BY <1>0, <1>g, <2>3 DEF DoneIsStored
<1>5. ASSUME NEW r \in Runs, NEW a \in Accounts, Fetch(r, a) PROVE DoneIsStored'
  <2> SUFFICES ASSUME NEW q \in Runs, NEW u \in Txs, phase'[q][Owner[u]] = "done"
               PROVE  after'[q][u] <= stored'[u]
    BY DEF DoneIsStored
  <2>1. ~(q = r /\ Owner[u] = a) /\ phase[q][Owner[u]] = "done"
    BY <1>0, <1>o, <1>5 DEF Fetch, TypeOK
  <2>2. after'[q][u] = after[q][u]
    BY <1>0, <1>5, <2>1 DEF Fetch, TypeOK, Of
  <2> QED  BY <1>0, <1>g, <2>1, <2>2 DEF DoneIsStored
<1>6. ASSUME NEW r \in Runs, NEW a \in Accounts, Update(r, a) PROVE DoneIsStored'
  <2> SUFFICES ASSUME NEW q \in Runs, NEW u \in Txs, phase'[q][Owner[u]] = "done"
               PROVE  after'[q][u] <= stored'[u]
    BY DEF DoneIsStored
  <2>1. after' = after
    BY <1>6 DEF Update
  <2>2. CASE q = r /\ Owner[u] = a
    <3>1. stored'[u] = MaxOf(stored[u], after[r][u])
      BY <1>6, <2>2 DEF Update, Of
    <3> QED  BY <1>g, <2>1, <2>2, <3>1 DEF MaxOf
  <2>3. CASE ~(q = r /\ Owner[u] = a)
    <3>1. phase[q][Owner[u]] = "done"
      BY <1>0, <1>o, <1>6, <2>3 DEF Update, TypeOK
    <3> QED  BY <1>0, <1>g, <2>1, <3>1 DEF DoneIsStored
  <2> QED  BY <2>2, <2>3
<1>7. ASSUME NEW r \in Runs, NEW a \in Accounts, Fails(r, a) PROVE DoneIsStored'
  <2>1. \A q \in Runs, u \in Txs : phase'[q][Owner[u]] = "done" => phase[q][Owner[u]] = "done"
    BY <1>0, <1>o, <1>7 DEF Fails, TypeOK
  <2> QED  BY <1>0, <1>7, <1>g, <2>1 DEF Fails, DoneIsStored
<1>8. ASSUME NEW r \in Runs, Emit(r) \/ EmitFails(r) PROVE DoneIsStored'
  <2>1. After(r) \in Steps
    BY DEF After, Steps
  <2> QED  BY <1>0, <1>8, <1>l, <2>1 DEF Emit, EmitFails
<1>9. CASE Check \/ Advance \/ Lock \/ Unlock \/ \E a \in Accounts : Create(a) \/ Delete(a)
  BY <1>0, <1>9, <1>g DEF Check, Advance, Lock, Unlock, Create, Delete, DoneIsStored
<1>10. CASE RepairNext
  BY <1>0, <1>10, <1>l DEF RepairNext
<1>11. ASSUME NEW t \in Txs, Pay(t) PROVE DoneIsStored'
  BY <1>0, <1>11, <1>g DEF Pay, DoneIsStored
<1>12. CASE Stop
  BY <1>12, <1>o DEF Stop, DoneIsStored, Nowhere
<1>13. CASE UNCHANGED syncVars
  BY <1>0, <1>13 DEF syncVars, DoneIsStored
<1>14. ASSUME NEW r \in Runs, Work(r) PROVE DoneIsStored'
  BY <1>4, <1>5, <1>6, <1>7, <1>8, <1>9, <1>10, <1>14 DEF Work
<1> QED  BY <1>0, <1>1, <1>2, <1>3, <1>7, <1>8, <1>9, <1>11, <1>12, <1>13, <1>14 DEF Next, Cron

\* What the client is told comes from runs that have stored it.
LEMMA StepTold == ASSUME BitcoinSyncAssumption, IInv, [Next]_syncVars PROVE ToldIsStored'
<1> USE DEF wallets, runs, history
<1>g. \A t \in Txs : stored[t] <= stored'[t] /\ stored[t] \in Int /\ stored'[t] \in Int /\ told[t] \in Int
  <2>1. TypeOK /\ TypeOK' /\ Status \subseteq Int
    BY StepTypes DEF IInv, Status
  <2>2. \A t \in Txs : stored[t] \in Status /\ stored'[t] \in Status /\ told[t] \in Status
    BY <2>1 DEF TypeOK
  <2>3. \A t \in Txs : stored[t] <= stored'[t]
    BY <2>1, StoredGrows
  <2> QED  BY <2>1, <2>2, <2>3
<1>1. ASSUME NEW r \in Runs, Emit(r) PROVE ToldIsStored'
  <2> SUFFICES ASSUME NEW t \in Txs PROVE told'[t] <= stored'[t]
    BY DEF ToldIsStored
  <2>1. told'[t] = IF t \in Notified(r) THEN after[r][t] ELSE told[t]
    BY <1>1 DEF Emit
  <2>2. CASE t \in Notified(r)
    <3>1. phase[r][Owner[t]] = "done"
      BY <2>2 DEF Notified
    <3>2. after[r][t] <= stored[t] /\ stored' = stored
      BY <1>1, <3>1 DEF IInv, DoneIsStored, Emit
    <3> QED  BY <2>1, <2>2, <3>2
  <2>3. CASE t \notin Notified(r)
    BY <1>g, <2>1, <2>3 DEF IInv, ToldIsStored
  <2> QED  BY <2>2, <2>3
<1>2. CASE told' = told
  BY <1>2, <1>g DEF IInv, ToldIsStored
<1>3. CASE told' # told
  <2>1. PICK r \in Runs : Emit(r)
    BY <1>3 DEF Next, Work, Cron, Synchronize, FireScan, Send, Broadcast, Fetch, Update, Fails, EmitFails,
       Check, RepairNext, Advance, Create, Delete, Pay, Lock, Unlock, Stop, syncVars
  <2> QED  BY <1>1, <2>1
<1> QED  BY <1>2, <1>3

------------------------------------------------------------------------------
\* The repair list

\* While the list and the step of the cron job stay, so does what is said of its head, unless an account
\* becomes done in the repair.
LEMMA HeadStays ==
    ASSUME HeadRepaired, UNCHANGED <<rescan, target>>, pc'["cron"] = pc["cron"], scanned \subseteq scanned',
           \A a \in Accounts : phase'["cron"][a] = "done" => phase["cron"][a] = "done" \/ pc["cron"] # "repair"
                                                             \/ a \in scanned'
    PROVE  HeadRepaired'
BY DEF HeadRepaired

LEMMA StepHead == ASSUME BitcoinSyncAssumption, IInv, [Next]_syncVars PROVE HeadRepaired'
<1> USE DEF wallets, runs, history
<1>0. /\ TypeOK /\ HeadRepaired
      /\ "cron" \in Runs /\ "selected" \in Runs /\ "scan" \in Runs /\ "send" \in Runs
  BY DEF IInv, Runs
<1>1. ASSUME NEW r \in Runs, NEW as, Synchronize(r, as) PROVE HeadRepaired'
  <2>1. Load(r, as \cap live, "sync", "work") /\ UNCHANGED <<rescan, target, scanned>>
    BY <1>1 DEF Synchronize
  <2>2. pc' = [pc EXCEPT ![r] = "work"]
    BY <2>1 DEF Load
  <2>3. r # "cron" => phase'["cron"] = phase["cron"]
    BY <1>0, <2>1 DEF Load, TypeOK
  <2>4. CASE r = "cron"
    <3>1. pc'["cron"] = "work"
      BY <1>0, <2>2, <2>4 DEF TypeOK
    <3> QED  BY <3>1 DEF HeadRepaired
  <2>5. CASE r # "cron"
    <3>1. pc'["cron"] = pc["cron"] /\ phase'["cron"] = phase["cron"]
      BY <1>0, <2>2, <2>3, <2>5 DEF TypeOK
    <3> QED  BY <1>0, <2>1, <3>1, HeadStays
  <2> QED  BY <2>4, <2>5
<1>l. ASSUME NEW r \in Runs \ {"cron"}, NEW as, NEW kind \in Phases, NEW where \in Steps,
             Load(r, as, kind, where) \/ Rest(r, where), UNCHANGED <<rescan, target, scanned>>
      PROVE  HeadRepaired'
  <2>1. r # "cron" /\ (Load(r, as, kind, where) \/ Rest(r, where))
    BY <1>l
  <2>2. pc' = [pc EXCEPT ![r] = where]
    BY <2>1 DEF Load, Rest
  <2>3. phase'["cron"] = phase["cron"]
    BY <1>0, <2>1 DEF Load, Rest, TypeOK
  <2>4. pc'["cron"] = pc["cron"]
    BY <1>0, <2>1, <2>2 DEF TypeOK
  <2> QED  BY <1>0, <1>l, <2>3, <2>4, HeadStays
<1>n. {"sync", "scan", "send"} \subseteq Phases /\ {"work", "repair", "idle"} \subseteq Steps
      /\ "scan" \in Runs \ {"cron"} /\ "send" \in Runs \ {"cron"}
  BY DEF Runs, Phases, Steps
<1>2. ASSUME NEW a \in Accounts, FireScan(a) PROVE HeadRepaired'
  BY <1>0, <1>2, <1>l, <1>n, HeadStays DEF FireScan
<1>3. ASSUME NEW t \in Txs, Send(t) PROVE HeadRepaired'
  BY <1>3, <1>l, <1>n DEF Send
<1>4. ASSUME NEW t \in Txs, Broadcast(t) PROVE HeadRepaired'
  <2>1. phase'["cron"] = phase["cron"]
    BY <1>0, <1>4 DEF Broadcast, TypeOK
  <2> QED  BY <1>0, <1>4, <2>1, HeadStays DEF Broadcast
<1>5. ASSUME NEW r \in Runs, NEW a \in Accounts, Fetch(r, a) \/ Fails(r, a) PROVE HeadRepaired'
  <2>1. \A b \in Accounts : phase'["cron"][b] = "done" => phase["cron"][b] = "done"
    <3>1. phase' = [phase EXCEPT ![r][a] = "update"] \/ phase' = [phase EXCEPT ![r][a] = "failed"]
      BY <1>5 DEF Fetch, Fails
    <3>2. phase \in [Runs -> [Accounts -> Phases]]
      BY <1>0 DEF TypeOK
    <3> QED  BY <1>0, <3>1, <3>2
  <2>2. UNCHANGED <<rescan, target, pc, scanned>>
    BY <1>5 DEF Fetch, Fails
  <2> QED  BY <1>0, <2>1, <2>2, HeadStays
<1>6. ASSUME NEW r \in Runs, NEW a \in Accounts, Update(r, a) PROVE HeadRepaired'
  <2>1. \A b \in Accounts : phase'["cron"][b] = "done" => phase["cron"][b] = "done" \/ (r = "cron" /\ b = a)
    BY <1>0, <1>6 DEF Update, TypeOK
  <2>2. r = "cron" /\ pc["cron"] = "repair" => a \in scanned'
    BY <1>6 DEF Update, IsScan
  <2>3. UNCHANGED <<rescan, target, pc>> /\ scanned \subseteq scanned'
    BY <1>6 DEF Update
  <2> QED  BY <1>0, <2>1, <2>2, <2>3, HeadStays
<1>7. ASSUME NEW r \in Runs, Emit(r) \/ EmitFails(r) PROVE HeadRepaired'
  <2>1. After(r) \in Steps /\ UNCHANGED <<rescan, target, scanned>>
    BY <1>7 DEF After, Steps, Emit, EmitFails
  <2>2. CASE r # "cron"
    <3>1. \E where \in Steps : Rest(r, where)
      BY <1>7, <1>n, <2>1 DEF Emit, EmitFails
    <3> QED  BY <1>l, <1>n, <2>1, <2>2, <3>1
  <2>3. CASE r = "cron" /\ EmitFails(r)
    BY <1>0, <2>3 DEF EmitFails, Rest, TypeOK, HeadRepaired
  <2>4. CASE r = "cron" /\ Emit(r)
    <3>1. pc'["cron"] = After("cron")
      BY <1>0, <2>4 DEF Emit, Rest, TypeOK
    <3>2. CASE After("cron") = "advance"
      <4>1. pc["cron"] = "repair" /\ phase["cron"][target] = "done"
        BY <2>4, <3>2 DEF After, Emit
      <4>2. target = rescan[1] /\ rescan # NoAccount /\ rescan # <<>>
        BY <1>0, <4>1 DEF HeadRepaired
      <4>3. target \in Accounts
        BY <1>0, <4>2 DEF TypeOK
      <4>4. target \in scanned
        BY <1>0, <4>1, <4>3 DEF HeadRepaired
      <4> QED  BY <2>1, <3>1, <3>2, <4>2, <4>4 DEF HeadRepaired
    <3>3. CASE After("cron") # "advance"
      BY <3>1, <3>3 DEF After, HeadRepaired
    <3> QED  BY <3>2, <3>3
  <2> QED  BY <1>7, <2>2, <2>3, <2>4
<1>8. CASE Check
  BY <1>0, <1>8 DEF Check, TypeOK, HeadRepaired
<1>9. CASE Advance
  BY <1>0, <1>9 DEF Advance, TypeOK, HeadRepaired
<1>10. CASE RepairNext
  <2> PICK pending \in Listed :
         /\ rescan' = pending
         /\ IF pending = <<>>
            THEN Rest("cron", "idle") /\ target' = NoAccount
            ELSE Load("cron", {pending[1]}, "scan", "repair") /\ target' = pending[1]
    BY <1>10 DEF RepairNext
  <2>1. pending \in Seq(Accounts) /\ pending # NoAccount
    BY <1>0, ListedFacts
  <2>2. CASE pending = <<>>
    <3>1. pc'["cron"] = "idle"
      BY <1>0, <2>2 DEF Rest, TypeOK
    <3> QED  BY <3>1 DEF HeadRepaired
  <2>3. CASE pending # <<>>
    <3>1. Load("cron", {pending[1]}, "scan", "repair") /\ target' = pending[1]
      BY <2>3
    <3>3. pc' = [pc EXCEPT !["cron"] = "repair"] /\ \A a \in Accounts : phase'["cron"][a] \in {"scan", "off"}
      BY <1>0, <3>1 DEF Load, TypeOK
    <3>4. pc'["cron"] = "repair"
      BY <1>0, <3>3 DEF TypeOK
    <3> QED  BY <2>1, <2>3, <3>1, <3>3, <3>4 DEF HeadRepaired
  <2> QED  BY <2>2, <2>3
<1>11. CASE Lock \/ Unlock \/ \E a \in Accounts : Create(a) \/ Delete(a)
  BY <1>0, <1>11, HeadStays DEF Lock, Unlock, Create, Delete
<1>12. ASSUME NEW t \in Txs, Pay(t) PROVE HeadRepaired'
  BY <1>0, <1>12, HeadStays DEF Pay
<1>13. CASE Stop
  BY <1>0, <1>13 DEF Stop, HeadRepaired
<1>14. CASE UNCHANGED syncVars
  BY <1>0, <1>14, HeadStays DEF syncVars
<1>15. ASSUME NEW r \in Runs, Work(r) PROVE HeadRepaired'
  BY <1>4, <1>5, <1>6, <1>7, <1>8, <1>9, <1>10, <1>15 DEF Work
<1> QED  BY <1>0, <1>1, <1>2, <1>3, <1>5, <1>7, <1>11, <1>12, <1>13, <1>14, <1>15 DEF Next, Cron

------------------------------------------------------------------------------
\* The theorems

LEMMA InitInv == ASSUME BitcoinSyncAssumption, Init PROVE IInv
<1>1. TypeOK
  BY InitTypes
<1>2. \A t \in Txs : /\ stored[t] = 0 /\ chain[t] = 0 /\ told[t] = 0
                     /\ \A r \in Runs : after[r][t] = 0 /\ phase[r][Owner[t]] = "off"
  BY DEF Init, Unknown, Nowhere, BitcoinSyncAssumption
<1>3. pc["cron"] = "idle"
  BY DEF Init, Runs
<1> QED  BY <1>1, <1>2, <1>3 DEF IInv, Seen, DoneIsStored, ToldIsStored, HeadRepaired

LEMMA StepInv == ASSUME BitcoinSyncAssumption, IInv, [Next]_syncVars PROVE IInv'
<1>1. TypeOK'
  BY StepTypes DEF IInv
<1> QED  BY <1>1, StepSeen, StepDone, StepTold, StepHead DEF IInv

LEMMA InvCorrect == ASSUME BitcoinSyncAssumption PROVE Spec => []IInv
<1>1. Init => IInv
  BY InitInv
<1>2. IInv /\ [Next]_syncVars => IInv'
  BY StepInv
<1> QED  BY <1>1, <1>2, PTL DEF Spec

\* Every variable stays in its range, the list of accounts to repair included.
THEOREM TypeCorrect == ASSUME BitcoinSyncAssumption PROVE Spec => []TypeOK
<1>1. IInv => TypeOK
  BY DEF IInv
<1> QED  BY <1>1, InvCorrect, PTL

\* The client is told nothing that is not stored, whatever runs overlap and fail.
THEOREM ToldCorrect == ASSUME BitcoinSyncAssumption PROVE Spec => []ToldIsStored
<1>1. IInv => ToldIsStored
  BY DEF IInv
<1> QED  BY <1>1, InvCorrect, PTL

\* What is stored of a transaction never goes back, although every run writes from
\* a wallet it loaded earlier.
THEOREM HistoryKeptCorrect == ASSUME BitcoinSyncAssumption PROVE Spec => HistoryKept
<1>1. IInv /\ [Next]_syncVars => NeverForgotten
  <2> SUFFICES ASSUME IInv, [Next]_syncVars, NEW t \in Txs PROVE stored'[t] >= stored[t]
    BY DEF NeverForgotten
  <2>1. TypeOK /\ TypeOK'
    BY StepTypes DEF IInv
  <2>2. stored[t] \in Status /\ stored'[t] \in Status
    BY <2>1 DEF TypeOK
  <2>3. stored[t] <= stored'[t]
    BY <2>1, StoredGrows
  <2> QED  BY <2>2, <2>3 DEF Status
<1> QED  BY <1>1, InvCorrect, PTL DEF Spec, HistoryKept

\* The stored history implements Replica: it only moves on, and only to what the
\* network has shown.
THEOREM CopyCorrect == ASSUME BitcoinSyncAssumption PROVE Spec => Follows!Spec
<1>s. Status \subseteq Nat
  BY DEF Status
<1>1. Init => Follows!Init
  <2> SUFFICES ASSUME Init PROVE Follows!Init
    OBVIOUS
  <2>1. TypeOK
    BY InitTypes
  <2>2. chain \in [Txs -> Nat]
    BY <1>s, <2>1 DEF TypeOK
  <2> QED  BY <2>2 DEF Init, Follows!Init, Unknown
<1>2. IInv /\ [Next]_syncVars => [Follows!Next]_<<chain, stored>>
  <2> SUFFICES ASSUME IInv, [Next]_syncVars, UNCHANGED <<chain, stored>> => FALSE PROVE Follows!Next
    OBVIOUS
  <2>1. TypeOK /\ TypeOK'
    BY StepTypes DEF IInv
  <2>2. chain \in [Txs -> Status] /\ chain' \in [Txs -> Status] /\ stored' \in [Txs -> Status]
    BY <2>1 DEF TypeOK
  <2>3. chain' \in [Txs -> Nat] /\ stored' \in [Txs -> Nat]
    BY <1>s, <2>2
  <2>4. CASE stored' = stored
    <3>1. \A t \in Txs : chain[t] <= chain'[t]
      <4>1. CASE chain' = chain
        BY <2>2, <4>1 DEF Status
      <4>2. CASE \E t \in Txs : chain' = [chain EXCEPT ![t] = @ + 1] \/ (chain[t] = 0 /\ chain' = [chain EXCEPT ![t] = 1])
        BY <2>2, <4>2 DEF Status
      <4>3. CASE chain' # chain
        <5>1. \E t \in Txs : Broadcast(t) \/ Pay(t)
          BY <4>3 DEF Next, Work, Cron, Synchronize, FireScan, Send, Fetch, Update, Fails, Emit, EmitFails,
             Check, RepairNext, Advance, Create, Delete, Lock, Unlock, Stop, syncVars
        <5> QED  BY <4>2, <5>1 DEF Broadcast, Pay
      <4> QED  BY <4>1, <4>3
    <3> QED  BY <2>3, <2>4, <3>1 DEF Follows!Next, Follows!Grow
  <2>5. CASE stored' # stored
    <3>1. chain' = chain
      <4>1. stored \in [Txs -> Status] /\ stored' \in [Txs -> Status]
        BY <2>1 DEF TypeOK
      <4>2. PICK t \in Txs : stored'[t] # stored[t]
        BY <2>5, <4>1
      <4> QED  BY <2>1, <4>2, StoredGrows
    <3>2. ASSUME NEW t \in Txs PROVE stored[t] <= stored'[t] /\ (stored'[t] # stored[t] => stored'[t] <= chain[t])
      BY <2>1, StoredGrows DEF IInv, Seen
    <3> QED  BY <2>3, <3>1, <3>2 DEF Follows!Next, Follows!Refresh
  <2> QED  BY <2>4, <2>5
<1> QED  BY <1>1, <1>2, InvCorrect, PTL DEF Spec, Follows!Spec, Follows!vars

\* An account leaves the list of accounts to repair when its full scan is stored or
\* when it is gone, whatever stops, locks and failures come between.
THEOREM RepairCorrect == ASSUME BitcoinSyncAssumption PROVE Spec => RepairedIsScanned
<1>1. IInv /\ [Next]_syncVars => [LeavesScanned]_syncVars
  <2> SUFFICES ASSUME IInv, Next, rescan # NoAccount
               PROVE  /\ rescan' # NoAccount
                      /\ \A i \in DOMAIN rescan : \/ rescan[i] \in scanned
                                                  \/ rescan[i] \notin live
                                                  \/ \E j \in DOMAIN rescan' : rescan'[j] = rescan[i]
    BY DEF LeavesScanned
  <2>0. TypeOK /\ HeadRepaired /\ rescan \in Seq(Accounts)
    BY DEF IInv, TypeOK
  <2>1. CASE RepairNext
    <3>1. rescan' \in Listed
      BY <2>1 DEF RepairNext
    <3> QED  BY <2>0, <3>1, ListedFacts
  <2>2. CASE Advance
    <3>1. rescan # <<>> /\ rescan[1] \in scanned /\ rescan' = Tail(rescan)
      BY <2>0, <2>2 DEF Advance, HeadRepaired
    <3>2. rescan' \in Seq(Accounts) /\ Len(rescan') = Len(rescan) - 1
          /\ \A j \in 1..(Len(rescan) - 1) : rescan'[j] = rescan[j + 1]
      BY <2>0, <3>1
    <3>3. rescan' # NoAccount
      BY <3>2 DEF BitcoinSyncAssumption
    <3>4. ASSUME NEW i \in DOMAIN rescan, i # 1 PROVE \E j \in DOMAIN rescan' : rescan'[j] = rescan[i]
      <4>1. i - 1 \in DOMAIN rescan' /\ rescan'[i - 1] = rescan[i]
        BY <2>0, <3>2, <3>4
      <4> QED  BY <4>1
    <3> QED  BY <3>1, <3>3, <3>4
  <2>3. CASE rescan' = rescan
    BY <2>3
  <2> QED  BY <2>1, <2>2, <2>3 DEF Next, Work, Cron, Synchronize, FireScan, Send, Broadcast, Fetch, Update, Fails, Emit,
           EmitFails, Check, Create, Delete, Pay, Lock, Unlock, Stop
<1> QED  BY <1>1, InvCorrect, PTL DEF Spec, RepairedIsScanned

------------------------------------------------------------------------------
\* The components beside it are instanced with constants and variables of their own; no theorem is about two of them.
CONSTANTS
    Payers, Recipients, Amounts, Rates, Fallback, Wallets, Editors, MaxClicks, MaxRounds, MaxChanges, Nothing, \* BitcoinSend
    Requests, MaxRetries, MaxFailures, Length, BatchSize,                                                     \* FetchPolicy
    Callers, MaxTime, Ttl                                                                                     \* Cache

VARIABLES
    wallet, opener, ui, jobs, refresh, edits, sent, clicks, rounds, changes,
    circuit, trial, failures, request, aborted, answer, settles, first, outcome, results, ended,
    clock, store, wrapper, entry, expiryMap, call

------------------------------------------------------------------------------
\* Sending

\* Its accounts are called payers here.
Sending == INSTANCE BitcoinSend WITH Accounts <- Payers

Purse == [free : Nat, frozen : Nat]
Amount == Int \cup {Nothing}
IsForm(c) ==
    /\ DOMAIN c = {"account", "balance", "rate", "recipient", "amount", "drain", "fee", "errors", "event"}
    /\ c.account \in Payers /\ c.balance \in Nat /\ c.rate \in Rates /\ c.recipient \in Recipients \cup {Nothing}
    /\ c.amount \in Amount /\ c.drain \in BOOLEAN /\ c.fee \in Nat /\ c.errors \subseteq {"recipient", "amount", "tx"}

\* A form with a fee has what it is the fee of. It is the one at its rate unless an error is shown with it, and what
\* drains shows the balance less that fee.
Priced(c) ==
    c.fee # 0 =>
        /\ c.recipient # Nothing /\ c.amount # Nothing
        /\ c.errors = {} => c.fee = c.rate
        /\ c.drain => c.amount = c.balance - c.fee

FormHolds(c) == IsForm(c) /\ Priced(c)

\* A transaction pays whom its review says.
Pays(r) ==
    /\ r.psbt.account = r.account /\ r.psbt.recipient = r.recipient
    /\ r.psbt.paid \in Int /\ r.psbt.fee \in Nat
    /\ r.psbt.paid # r.amount => r.drain

\* One that was built from the form spends nothing frozen, and pays another amount only if the form knew another
\* balance or showed an error.
ReviewHolds(r) ==
    /\ Pays(r) /\ ~r.psbt.frozen
    /\ r.psbt.paid # r.amount => r.balance # r.psbt.coins \/ r.errors # {}

\* A click carries the context it was made on, and a value its field takes.
ClickHolds(s) ==
    /\ s.kind \notin {"none", "send"} => FormHolds(s.c)
    /\ s.kind = "recipient" => s.value \in Recipients
    /\ s.kind = "amount" => s.value \in Amounts
    /\ s.kind = "account" => s.value \in Payers
    /\ s.kind = "confirm" => s.c.fee # 0
    /\ s.kind = "send" => ReviewHolds(s.c)

\* Clicks and the refresh on their way carry contexts that were shown.
FlowHolds ==
    /\ ui.screen \in {"form", "review"} /\ FormHolds(ui.form)
    /\ ui.screen = "review" => ReviewHolds(ui.review)
    /\ refresh.pc \in {"rates", "write"} => FormHolds(refresh.c)
    /\ refresh.pc = "schedule" => refresh.c = Nothing \/ FormHolds(refresh.c)
    /\ \A e \in Editors : ClickHolds(edits[e])

\* A request is answered in one dialog: nothing is refreshed or edited.
RequestHolds ==
    /\ ui.screen = "unified" /\ Pays(ui.review) /\ jobs = {} /\ refresh = Sending!NoRefresh
    /\ \A e \in Editors :
         /\ edits[e].kind \in {"none", "cancel", "send"}
         /\ edits[e].kind = "send" => Pays(edits[e].c)

SendingInv ==
    /\ wallet \in [Payers -> Purse] /\ opener \in Payers
    /\ DOMAIN ui = {"screen", "form", "review"} /\ DOMAIN refresh = {"pc", "c", "event"} /\ DOMAIN edits = Editors
    /\ ui.screen = "closed" \/ FlowHolds \/ RequestHolds
    /\ Sending!SentAsReviewed /\ Sending!FrozenKept

----------------------------------------------------------------------------
LEMMA NatInt == \A n \in Nat : n \in Int
OBVIOUS

\* What the builder builds is what it was asked for.
LEMMA BuildFacts ==
    ASSUME NEW a \in Payers, NEW coins \in Nat, NEW rate \in Nat, NEW drain \in BOOLEAN, NEW amount \in Int,
           NEW recipient, NEW psbt, psbt = Sending!Build(a, coins, rate, drain, amount, recipient), psbt # Nothing
    PROVE  /\ psbt.account = a /\ psbt.recipient = recipient /\ psbt.fee = rate /\ psbt.coins = coins
           /\ psbt.paid = (IF drain THEN coins - rate ELSE amount) /\ psbt.paid \in Int
           /\ psbt.frozen => coins > wallet[a].free
<1>1. PICK frozen : frozen = (coins > wallet[a].free)
  OBVIOUS
<1>2. PICK paid : paid = IF drain THEN coins - rate ELSE amount
  OBVIOUS
<1>3. paid \in Int
  BY <1>2
<1>4. psbt = [account |-> a, recipient |-> recipient, paid |-> paid, fee |-> rate, coins |-> coins, frozen |-> frozen]
  BY <1>1, <1>2, Zenon DEF Sending!Build
<1>5. /\ psbt.account = a /\ psbt.recipient = recipient /\ psbt.fee = rate /\ psbt.coins = coins
      /\ psbt.paid = paid /\ psbt.frozen = frozen
  BY <1>4
<1>6. frozen => coins > wallet[a].free
  BY <1>1
<1> QED  BY <1>2, <1>3, <1>5, <1>6, Zenon

LEMMA ComputeHolds ==
    ASSUME Sending!BitcoinSendAssumption, wallet \in [Payers -> Purse], NEW c, IsForm(c),
           c.fee # 0 => Nothing \notin {c.recipient, c.amount} /\ (c.drain => c.amount = c.balance - c.fee)
    PROVE  FormHolds(Sending!computeFee(c))
<1> DEFINE psbt == Sending!Build(c.account, wallet[c.account].free, c.rate, c.drain, c.amount, c.recipient)
<1>1. CASE Nothing \in {c.amount, c.recipient}
  BY <1>1 DEF Sending!computeFee, FormHolds, Priced
<1>2. CASE Nothing \notin {c.amount, c.recipient}
  <2>1. c.account \in Payers /\ wallet[c.account].free \in Nat /\ c.rate \in Nat /\ c.drain \in BOOLEAN /\ c.amount \in Int
        /\ c.balance \in Nat
    BY <1>2 DEF IsForm, Amount, Purse, Sending!BitcoinSendAssumption
  <2>2. CASE psbt = Nothing
    <3>1. Sending!computeFee(c) = [c EXCEPT !.errors = @ \cup {"tx"}]
      BY <1>2, <2>2 DEF Sending!computeFee
    <3>0. PICK errors : errors = c.errors \cup {"tx"}
      OBVIOUS
    <3>2. PICK d : d = [c EXCEPT !.errors = errors]
      OBVIOUS
    <3>3. IsForm(d)
      BY <3>0, <3>2 DEF IsForm
    <3>4. d.errors = errors /\ d.fee = c.fee /\ d.recipient = c.recipient /\ d.amount = c.amount /\ d.drain = c.drain
          /\ d.balance = c.balance
      BY <3>2 DEF IsForm
    <3> HIDE DEF psbt
    <3> QED  BY <1>2, <3>0, <3>1, <3>2, <3>3, <3>4 DEF FormHolds, Priced
  <2>3. CASE psbt # Nothing
    <3>1. psbt.fee = c.rate
      BY <2>1, <2>3, BuildFacts
    <3>2. Sending!computeFee(c) =
              [c EXCEPT !.fee = c.rate, !.amount = IF c.drain THEN c.balance - c.rate ELSE c.amount]
      BY <1>2, <2>3, <3>1 DEF Sending!computeFee
    <3>3. PICK amount : amount = IF c.drain THEN c.balance - c.rate ELSE c.amount
      OBVIOUS
    <3>4. amount \in Int /\ (c.drain => amount = c.balance - c.rate) /\ amount # Nothing
      BY <1>2, <2>1, <3>3 DEF Sending!BitcoinSendAssumption
    <3>5. PICK d : d = [c EXCEPT !.fee = c.rate, !.amount = amount]
      OBVIOUS
    <3>6. IsForm(d)
      BY <2>1, <3>4, <3>5 DEF IsForm, Amount
    <3>7. d.fee = c.rate /\ d.rate = c.rate /\ d.recipient = c.recipient /\ d.amount = amount /\ d.drain = c.drain
          /\ d.balance = c.balance
      BY <3>5 DEF IsForm
    <3> HIDE DEF psbt
    <3> QED  BY <1>2, <3>2, <3>3, <3>4, <3>5, <3>6, <3>7 DEF FormHolds, Priced
  <2> QED  BY <2>2, <2>3
<1> QED  BY <1>1, <1>2

Same(c, d) == /\ d.account = c.account /\ d.balance = c.balance /\ d.rate = c.rate /\ d.recipient = c.recipient
              /\ d.amount = c.amount /\ d.drain = c.drain

\* What the handlers of the form do to its errors and its fee.
LEMMA ClearedFacts ==
    ASSUME NEW c, IsForm(c), NEW field
    PROVE  LET d == Sending!Cleared(c, field) IN IsForm(d) /\ Same(c, d) /\ d.fee = c.fee
<1>1. PICK errors : errors = c.errors \ {field, "tx"}
  OBVIOUS
<1>2. PICK d : d = [c EXCEPT !.errors = errors]
  OBVIOUS
<1>3. IsForm(d)
  BY <1>1, <1>2 DEF IsForm
<1>4. Same(c, d) /\ d.fee = c.fee
  BY <1>2 DEF IsForm, Same
<1> QED  BY <1>1, <1>2, <1>3, <1>4 DEF Sending!Cleared

LEMMA UnpricedFacts ==
    ASSUME NEW c, IsForm(c), NEW field
    PROVE  LET d == Sending!Unpriced(c, field) IN IsForm(d) /\ Same(c, d) /\ d.fee = 0
<1>1. PICK b : b = Sending!Cleared(c, field)
  OBVIOUS
<1>2. IsForm(b) /\ Same(c, b)
  BY <1>1, ClearedFacts
<1>3. PICK d : d = [b EXCEPT !.fee = 0]
  OBVIOUS
<1>4. IsForm(d) /\ Same(b, d) /\ d.fee = 0
  BY <1>2, <1>3 DEF IsForm, Same
<1>5. Same(c, d)
  BY <1>2, <1>4 DEF Same
<1> QED  BY <1>1, <1>3, <1>4, <1>5 DEF Sending!Unpriced

LEMMA WrongFacts ==
    ASSUME NEW c, IsForm(c), NEW field \in {"recipient", "amount", "tx"}
    PROVE  LET d == [c EXCEPT !.errors = @ \cup {field}]
           IN  IsForm(d) /\ Same(c, d) /\ d.fee = c.fee /\ d.errors # {}
<1>1. PICK errors : errors = c.errors \cup {field}
  OBVIOUS
<1>2. PICK d : d = [c EXCEPT !.errors = errors]
  OBVIOUS
<1>3. IsForm(d)
  BY <1>1, <1>2 DEF IsForm
<1>4. Same(c, d) /\ d.fee = c.fee /\ d.errors = errors
  BY <1>2 DEF IsForm, Same
<1> QED  BY <1>1, <1>2, <1>3, <1>4

\* A form whose fee was taken off is priced, whatever else it says.
LEMMA FreeHolds == ASSUME NEW c, IsForm(c), c.fee = 0 PROVE FormHolds(c)
BY DEF FormHolds, Priced

LEMMA NewForm ==
    ASSUME Sending!BitcoinSendAssumption, wallet \in [Payers -> Purse], NEW a \in Payers, NEW rate \in Rates
    PROVE  FormHolds(Sending!Form(a, rate))
BY DEF Sending!Form, Sending!balance, Sending!NoEvent, FormHolds, IsForm, Priced, Purse, Amount

LEMMA EditHolds ==
    ASSUME Sending!BitcoinSendAssumption, wallet \in [Payers -> Purse], FlowHolds, NEW e \in Editors,
           edits[e].kind \in {"recipient", "amount", "max", "clear recipient", "clear amount", "switch currency", "account"},
           NEW d \in Sending!Edited(e)
    PROVE  FormHolds(d)
<1>1. PICK c : c = edits[e].c
  OBVIOUS
<1>2. PICK value : value = edits[e].value
  OBVIOUS
<1>3. IsForm(c) /\ FormHolds(c)
  BY <1>1 DEF FlowHolds, ClickHolds, FormHolds
<1>4. CASE edits[e].kind = "recipient"
  <2>1. value \in Recipients
    BY <1>2, <1>4 DEF FlowHolds, ClickHolds
  <2>2. PICK b : b = Sending!Cleared(c, "recipient")
    OBVIOUS
  <2>3. IsForm(b) /\ Same(c, b) /\ b.fee = c.fee
    BY <1>3, <2>2, ClearedFacts
  <2>4. CASE d = Sending!SetRecipient(c, value)
    <3>1. PICK r : r = [b EXCEPT !.recipient = value]
      OBVIOUS
    <3>2. IsForm(r)
      BY <2>1, <2>3, <3>1 DEF IsForm
    <3>3. r.recipient = value /\ r.amount = b.amount /\ r.drain = b.drain /\ r.balance = b.balance /\ r.fee = b.fee
      BY <2>3, <3>1 DEF IsForm
    <3>4. value # Nothing
      BY <2>1 DEF Sending!BitcoinSendAssumption
    <3>5. r.fee # 0 => Nothing \notin {r.recipient, r.amount} /\ (r.drain => r.amount = r.balance - r.fee)
      BY <1>3, <2>3, <3>3, <3>4 DEF FormHolds, Priced, Same
    <3>6. d = Sending!computeFee(r)
      BY <2>2, <2>4, <3>1 DEF Sending!SetRecipient
    <3> QED  BY <3>2, <3>5, <3>6, ComputeHolds
  <2>5. CASE d = Sending!Wrong(b, "recipient")
    <3>1. IsForm(d) /\ Same(b, d) /\ d.fee = b.fee /\ d.errors # {}
      BY <2>3, <2>5, WrongFacts DEF Sending!Wrong
    <3> QED  BY <1>3, <2>3, <3>1 DEF FormHolds, Priced, Same
  <2> QED  BY <1>1, <1>2, <1>4, <2>2, <2>4, <2>5 DEF Sending!Edited
<1>5. CASE edits[e].kind = "amount"
  <2>0. value \in Amounts
    BY <1>2, <1>5 DEF FlowHolds, ClickHolds
  <2>1. value \in Int
    BY <2>0, NatInt DEF Sending!BitcoinSendAssumption
  <2>2. PICK b : b = Sending!Unpriced(c, "amount")
    OBVIOUS
  <2>3. IsForm(b) /\ b.fee = 0
    BY <1>3, <2>2, UnpricedFacts
  <2>4. CASE d = Sending!SetAmount(c, value)
    <3>1. PICK r : r = [b EXCEPT !.amount = value, !.drain = FALSE]
      OBVIOUS
    <3>2. IsForm(r) /\ r.fee = 0
      BY <2>1, <2>3, <3>1 DEF IsForm, Amount
    <3>3. d = Sending!computeFee(r)
      BY <2>2, <2>4, <3>1 DEF Sending!SetAmount
    <3> QED  BY <3>2, <3>3, ComputeHolds
  <2>5. CASE d = Sending!Wrong([b EXCEPT !.drain = FALSE], "amount")
    <3>1. PICK r : r = [b EXCEPT !.drain = FALSE]
      OBVIOUS
    <3>2. IsForm(r) /\ r.fee = 0
      BY <2>3, <3>1 DEF IsForm
    <3> QED  BY <2>5, <3>1, <3>2, WrongFacts, FreeHolds DEF Sending!Wrong
  <2> QED  BY <1>1, <1>2, <1>5, <2>2, <2>4, <2>5 DEF Sending!Edited
<1>6. CASE edits[e].kind = "max"
  <2>1. PICK b : b = Sending!Unpriced(c, "amount")
    OBVIOUS
  <2>2. IsForm(b) /\ b.fee = 0
    BY <1>3, <2>1, UnpricedFacts
  <2>3. PICK r : r = [b EXCEPT !.amount = c.balance, !.drain = TRUE]
    OBVIOUS
  <2>0. c.balance \in Amount
    BY <1>3, NatInt DEF IsForm, Amount
  <2>4. IsForm(r) /\ r.fee = 0
    BY <2>0, <2>2, <2>3 DEF IsForm
  <2>5. d = Sending!computeFee(r)
    BY <1>1, <1>6, <2>1, <2>3 DEF Sending!Edited, Sending!SetMax
  <2> QED  BY <2>4, <2>5, ComputeHolds
<1>7. CASE edits[e].kind = "clear recipient"
  <2>1. PICK b : b = Sending!Unpriced(c, "recipient")
    OBVIOUS
  <2>2. IsForm(b) /\ b.fee = 0
    BY <1>3, <2>1, UnpricedFacts
  <2>3. d = [b EXCEPT !.recipient = Nothing]
    BY <1>1, <1>7, <2>1 DEF Sending!Edited
  <2>4. IsForm(d) /\ d.fee = 0
    BY <2>2, <2>3 DEF IsForm
  <2> QED  BY <2>4, FreeHolds
<1>8. CASE edits[e].kind = "clear amount"
  <2>1. PICK b : b = Sending!Unpriced(c, "amount")
    OBVIOUS
  <2>2. IsForm(b) /\ b.fee = 0
    BY <1>3, <2>1, UnpricedFacts
  <2>3. d = [b EXCEPT !.amount = Nothing, !.drain = FALSE]
    BY <1>1, <1>8, <2>1 DEF Sending!Edited
  <2>4. IsForm(d) /\ d.fee = 0
    BY <2>2, <2>3 DEF IsForm, Amount
  <2> QED  BY <2>4, FreeHolds
<1>9. CASE edits[e].kind = "switch currency"
  BY <1>1, <1>3, <1>9 DEF Sending!Edited
<1>10. CASE edits[e].kind = "account"
  <2>1. value \in Payers /\ c.rate \in Rates
    BY <1>2, <1>3, <1>10 DEF FlowHolds, ClickHolds, IsForm
  <2>2. d = Sending!Form(value, c.rate)
    BY <1>1, <1>2, <1>10 DEF Sending!Edited
  <2> QED  BY <2>1, <2>2, NewForm
<1> QED  BY <1>4, <1>5, <1>6, <1>7, <1>8, <1>9, <1>10

LEMMA SendingInitInv == ASSUME Sending!BitcoinSendAssumption, Sending!Init PROVE SendingInv
<1>1. wallet \in [Payers -> Purse] /\ opener \in Payers /\ DOMAIN edits = Editors
  BY DEF Sending!Init, Sending!BitcoinSendAssumption, Purse
<1>2. Sending!SentAsReviewed /\ Sending!FrozenKept
  BY DEF Sending!Init, Sending!SentAsReviewed, Sending!FrozenKept
<1>3. \A e \in Editors : edits[e].kind = "none"
  BY DEF Sending!Init, Sending!NoClick
<1>4. CASE Sending!Opened
  <2>1. PICK c : c = Sending!Form(opener, Fallback)
    OBVIOUS
  <2>2. FormHolds(c)
    BY <1>1, <2>1, NewForm DEF Sending!BitcoinSendAssumption
  <2>3. /\ DOMAIN ui = {"screen", "form", "review"} /\ DOMAIN refresh = {"pc", "c", "event"}
        /\ ui.screen = "form" /\ ui.form = c /\ refresh.pc = "rates" /\ refresh.c = c
    BY <1>4, <2>1 DEF Sending!Opened
  <2>4. FlowHolds
    BY <1>3, <2>2, <2>3 DEF FlowHolds, ClickHolds
  <2> QED  BY <1>1, <1>2, <2>3, <2>4 DEF SendingInv
<1>5. CASE Sending!Requested
  <2>1. PICK recipient \in Recipients, rate \in Rates, amount \in Amounts \cup {Sending!balance(wallet[opener])} :
           LET all   == Sending!balance(wallet[opener])
               drain == amount = all
               psbt  == Sending!Build(opener, all, rate, drain, amount, recipient)
               c     == [Sending!Form(opener, rate) EXCEPT !.recipient = recipient, !.amount = amount, !.drain = drain]
           IN  /\ amount <= all /\ psbt # Nothing
               /\ ui = [screen |-> "unified", form |-> c, review |-> Sending!Review(c, psbt)]
               /\ refresh = Sending!NoRefresh
    BY <1>5 DEF Sending!Requested
  <2>2. PICK all : all = Sending!balance(wallet[opener])
    OBVIOUS
  <2>3. PICK drain : drain = (amount = all)
    OBVIOUS
  <2>4. PICK psbt : psbt = Sending!Build(opener, all, rate, drain, amount, recipient)
    OBVIOUS
  <2>5. PICK c : c = [Sending!Form(opener, rate) EXCEPT !.recipient = recipient, !.amount = amount, !.drain = drain]
    OBVIOUS
  <2>6. all \in Nat /\ rate \in Nat /\ amount \in Int /\ drain \in BOOLEAN
    BY <1>1, <2>2, <2>3, NatInt DEF Purse, Sending!balance, Sending!BitcoinSendAssumption
  <2>7. psbt # Nothing /\ refresh = Sending!NoRefresh
        /\ ui = [screen |-> "unified", form |-> c, review |-> Sending!Review(c, psbt)]
    BY <2>1, <2>2, <2>3, <2>4, <2>5
  <2>8. c.account = opener /\ c.recipient = recipient /\ c.amount = amount /\ c.drain = drain
    BY <2>5 DEF Sending!Form
  <2>9. /\ psbt.account = opener /\ psbt.recipient = recipient /\ psbt.fee = rate
        /\ psbt.paid = (IF drain THEN all - rate ELSE amount) /\ psbt.paid \in Int
    BY <1>1, <2>4, <2>6, <2>7, BuildFacts
  <2>10. Pays(ui.review)
    BY <2>6, <2>7, <2>8, <2>9 DEF Pays, Sending!Review
  <2>11. jobs = {}
    BY DEF Sending!Init
  <2>12. RequestHolds
    BY <1>3, <2>7, <2>10, <2>11 DEF RequestHolds
  <2> QED  BY <1>1, <1>2, <2>7, <2>12 DEF SendingInv, Sending!NoRefresh
<1> QED  BY <1>4, <1>5 DEF Sending!Init

\* Nothing happens in a dialog that is gone.
LEMMA ClosedStays ==
    ASSUME ui.screen = "closed", DOMAIN ui = {"screen", "form", "review"}, Sending!Next
    PROVE  ui'.screen = "closed" /\ sent' = sent
<1>0. [ui EXCEPT !.screen = "closed"].screen = "closed"
  OBVIOUS
<1>1. ASSUME NEW e \in Editors, Sending!Click(e) \/ Sending!Cancel(e) \/ Sending!Back(e) \/ Sending!Edit(e)
      PROVE  ui'.screen = "closed" /\ sent' = sent
  BY <1>0, <1>1 DEF Sending!Click, Sending!Cancel, Sending!Edit, Sending!Back, Sending!ShowForm, Sending!Close
<1>2. ASSUME NEW e \in Editors, Sending!Confirm(e) PROVE ui'.screen = "closed" /\ sent' = sent
  BY <1>2, Zenon DEF Sending!Confirm, Sending!ShowForm, Sending!ShowReview
<1>3. ASSUME NEW e \in Editors, Sending!Send(e) PROVE ui'.screen = "closed" /\ sent' = sent
  BY <1>0, <1>3 DEF Sending!Send, Sending!Close
<1>4. CASE Sending!Fire \/ Sending!FetchRates \/ Sending!ScheduleRefresh \/ Sending!WriteRates \/ Sending!Change
  BY <1>4 DEF Sending!Fire, Sending!FetchRates, Sending!ScheduleRefresh, Sending!WriteRates, Sending!Change,
              Sending!ShowForm
<1> QED  BY <1>1, <1>2, <1>3, <1>4 DEF Sending!Next, Sending!Handle

\* The shapes of what the dialog is made of.
Shapes ==
    /\ wallet \in [Payers -> Purse] /\ opener \in Payers
    /\ DOMAIN ui = {"screen", "form", "review"} /\ DOMAIN refresh = {"pc", "c", "event"} /\ DOMAIN edits = Editors

LEMMA ShapesStay == ASSUME SendingInv, Sending!Next PROVE Shapes'
<1>0. Shapes
  BY DEF SendingInv, Shapes
<1>1. opener' \in Payers
  <2>1. UNCHANGED opener
    BY DEF Sending!Next, Sending!Fire, Sending!FetchRates, Sending!ScheduleRefresh, Sending!WriteRates, Sending!Change,
           Sending!Handle, Sending!Click, Sending!Cancel, Sending!Edit, Sending!Confirm, Sending!Back, Sending!Send,
           Sending!Rest
  <2> QED  BY <1>0, <2>1 DEF Shapes
<1>2. wallet' \in [Payers -> Purse]
  <2>1. CASE UNCHANGED wallet
    BY <1>0, <2>1 DEF Shapes
  <2>2. CASE Sending!Change
    <3>1. PICK a \in Payers :
            \/ wallet' = [wallet EXCEPT ![a].free = @ + 1]
            \/ wallet[a].free > 0 /\ wallet' = [wallet EXCEPT ![a].free = @ - 1]
            \/ wallet[a].free > 0 /\ wallet' = [wallet EXCEPT ![a].free = @ - 1, ![a].frozen = @ + 1]
      BY <2>2 DEF Sending!Change
    <3>2. CASE wallet' = [wallet EXCEPT ![a].free = @ + 1]
      BY <1>0, <3>2 DEF Shapes, Purse
    <3>3. CASE wallet[a].free > 0 /\ wallet' = [wallet EXCEPT ![a].free = @ - 1]
      BY <1>0, <3>3 DEF Shapes, Purse
    <3>4. CASE wallet[a].free > 0 /\ wallet' = [wallet EXCEPT ![a].free = @ - 1, ![a].frozen = @ + 1]
      BY <1>0, <3>4 DEF Shapes, Purse
    <3> QED  BY <3>1, <3>2, <3>3, <3>4
  <2>3. CASE \E e \in Editors : Sending!Send(e)
    <3>1. PICK e \in Editors : Sending!Send(e)
      BY <2>3
    <3>2. PICK r : r = edits[e].c
      OBVIOUS
    <3>3. wallet' = wallet \/ /\ ui.screen # "closed" /\ edits[e].kind = "send"
                              /\ r.psbt.paid + r.psbt.fee <= wallet[opener].free
                              /\ wallet' = [wallet EXCEPT ![opener].free = @ - r.psbt.paid - r.psbt.fee]
      BY <3>1, <3>2 DEF Sending!Send, Sending!Done
    <3>4. CASE wallet' # wallet
      <4>1. Pays(r)
        BY <3>2, <3>3, <3>4 DEF SendingInv, FlowHolds, ClickHolds, RequestHolds, ReviewHolds
      <4>2. PICK left : left = wallet[opener].free - r.psbt.paid - r.psbt.fee
        OBVIOUS
      <4>3. left \in Nat
        BY <1>0, <3>3, <3>4, <4>1, <4>2 DEF Pays, Shapes, Purse
      <4> QED  BY <1>0, <3>3, <3>4, <4>2, <4>3 DEF Shapes, Purse
    <3> QED  BY <1>0, <3>4 DEF Shapes
  <2>4. UNCHANGED wallet \/ Sending!Change \/ \E e \in Editors : Sending!Send(e)
    BY DEF Sending!Next, Sending!Fire, Sending!FetchRates, Sending!ScheduleRefresh, Sending!WriteRates, Sending!Handle,
           Sending!Click, Sending!Cancel, Sending!Edit, Sending!Confirm, Sending!Back, Sending!Rest
  <2> QED  BY <2>1, <2>2, <2>3, <2>4
<1>3. DOMAIN ui' = {"screen", "form", "review"}
  <2>1. ASSUME NEW c, Sending!ShowForm(c) PROVE DOMAIN ui' = {"screen", "form", "review"}
    BY <1>0, <2>1 DEF Sending!ShowForm, Shapes
  <2>2. ASSUME NEW c, NEW r, Sending!ShowReview(c, r) PROVE DOMAIN ui' = {"screen", "form", "review"}
    BY <1>0, <2>2 DEF Sending!ShowReview, Shapes
  <2>3. Sending!Close \/ UNCHANGED ui => DOMAIN ui' = {"screen", "form", "review"}
    BY <1>0 DEF Sending!Close, Shapes
  <2>4. \/ \E c : Sending!ShowForm(c)
        \/ \E c, r : Sending!ShowReview(c, r)
        \/ Sending!Close \/ UNCHANGED ui
    <3>1. ASSUME NEW e \in Editors, Sending!Confirm(e)
          PROVE  (\E c : Sending!ShowForm(c)) \/ (\E c, r : Sending!ShowReview(c, r))
      BY <3>1, Zenon DEF Sending!Confirm
    <3> QED  BY <3>1 DEF Sending!Next, Sending!Fire, Sending!FetchRates, Sending!ScheduleRefresh, Sending!WriteRates,
                   Sending!Change, Sending!Handle, Sending!Click, Sending!Cancel, Sending!Edit, Sending!Back, Sending!Send
  <2> QED  BY <2>1, <2>2, <2>3, <2>4
<1>4. DOMAIN refresh' = {"pc", "c", "event"}
  <2>1. UNCHANGED refresh => DOMAIN refresh' = {"pc", "c", "event"}
    BY <1>0 DEF Shapes
  <2>2. CASE Sending!Fire \/ Sending!FetchRates \/ Sending!ScheduleRefresh \/ Sending!WriteRates
    BY <1>0, <2>2 DEF Shapes, Sending!Fire, Sending!FetchRates, Sending!ScheduleRefresh, Sending!WriteRates,
                      Sending!NoRefresh
  <2>3. CASE \E e \in Editors : Sending!Back(e)
    BY <2>3 DEF Sending!Back
  <2> QED  BY <2>1, <2>2, <2>3 DEF Sending!Next, Sending!Change, Sending!Handle, Sending!Click, Sending!Cancel,
                                   Sending!Edit, Sending!Confirm, Sending!Send
<1>5. DOMAIN edits' = Editors
  BY <1>0 DEF Shapes, Sending!Next, Sending!Fire, Sending!FetchRates, Sending!ScheduleRefresh, Sending!WriteRates,
              Sending!Change, Sending!Handle, Sending!Click, Sending!Cancel, Sending!Edit, Sending!Confirm, Sending!Back,
              Sending!Send, Sending!Done
<1> QED  BY <1>1, <1>2, <1>3, <1>4, <1>5 DEF Shapes

\* What the step of a dialog leaves open is that of a flow or of a request, and what it sent is what was reviewed.
LEMMA DialogHolds ==
    ASSUME SendingInv, Shapes', ui'.screen = "closed" \/ FlowHolds' \/ RequestHolds', UNCHANGED <<sent, opener>>
    PROVE  SendingInv'
BY DEF SendingInv, Shapes, Sending!SentAsReviewed, Sending!FrozenKept

\* What is sent from a review that holds is what it says.
LEMMA SendHolds ==
    ASSUME SendingInv, NEW e \in Editors, Sending!Send(e), Pays(edits[e].c),
           ui.screen = "unified" \/ ui.screen = "closed" \/ ReviewHolds(edits[e].c)
    PROVE  Sending!SentAsReviewed' /\ Sending!FrozenKept' /\ ui'.screen = "closed"
<1>1. PICK r : r = edits[e].c
  OBVIOUS
<1>2. ui'.screen = "closed" /\ UNCHANGED opener
  BY DEF Sending!Send, Sending!Close, SendingInv
<1>3. \/ sent' = sent
      \/ /\ sent' = [psbt |-> r.psbt, review |-> r, screen |-> ui.screen] /\ ui.screen # "closed"
         /\ r.psbt.account = opener
  BY <1>1 DEF Sending!Send
<1>4. CASE sent' = sent
  BY <1>2, <1>4 DEF SendingInv, Sending!SentAsReviewed, Sending!FrozenKept
<1>5. CASE /\ sent' = [psbt |-> r.psbt, review |-> r, screen |-> ui.screen] /\ ui.screen # "closed"
           /\ r.psbt.account = opener
  <2>1. sent'.psbt = r.psbt /\ sent'.review = r /\ sent'.screen = ui.screen
    BY <1>5
  <2>2. Sending!FrozenKept'
    BY <1>1, <1>5, <2>1 DEF ReviewHolds, Sending!FrozenKept
  <2>3. Sending!SentAsReviewed'
    BY <1>1, <1>2, <1>5, <2>1 DEF Pays, ReviewHolds, Sending!SentAsReviewed
  <2> QED  BY <1>2, <2>2, <2>3
<1> QED  BY <1>3, <1>4, <1>5

LEMMA RequestStep == ASSUME SendingInv, RequestHolds, Shapes', Sending!Next PROVE SendingInv'
<1>1. jobs = {} /\ refresh.pc = "idle" /\ ui.screen = "unified"
  BY DEF RequestHolds, Sending!NoRefresh
<1>2. ~Sending!Fire /\ ~Sending!FetchRates /\ ~Sending!ScheduleRefresh /\ ~Sending!WriteRates
  BY <1>1 DEF Sending!Fire, Sending!FetchRates, Sending!ScheduleRefresh, Sending!WriteRates
<1>3. CASE Sending!Change
  BY <1>3, DialogHolds DEF Sending!Change, RequestHolds
<1>4. ASSUME NEW e \in Editors PROVE ~Sending!Edit(e) /\ ~Sending!Confirm(e) /\ ~Sending!Back(e)
  BY DEF Sending!Edit, Sending!Confirm, Sending!Back, Sending!Done, RequestHolds
<1>5. ASSUME NEW e \in Editors, Sending!Click(e) PROVE SendingInv'
  <2>1. Sending!Kinds = {"cancel", "send"}
    BY <1>1 DEF Sending!Kinds
  <2>2. PICK kind \in Sending!Kinds : \E v \in Sending!Values(kind) :
           edits' = [edits EXCEPT ![e] = [kind |-> kind, value |-> v, c |-> IF kind = "send" THEN ui.review ELSE ui.form]]
    BY <1>5 DEF Sending!Click
  <2>8. PICK value :
           edits' = [edits EXCEPT ![e] = [kind |-> kind, value |-> value, c |-> IF kind = "send" THEN ui.review ELSE ui.form]]
    BY <2>2
  <2>3. PICK s : s = [kind |-> kind, value |-> value, c |-> IF kind = "send" THEN ui.review ELSE ui.form]
    OBVIOUS
  <2>4. s.kind \in {"cancel", "send"} /\ (s.kind = "send" => Pays(s.c))
    BY <2>1, <2>2, <2>3 DEF RequestHolds
  <2>5. \A d \in Editors : edits'[d] = edits[d] \/ edits'[d] = s
    BY <2>3, <2>8 DEF SendingInv
  <2>6. UNCHANGED <<ui, jobs, refresh, sent, opener>>
    BY <1>5 DEF Sending!Click
  <2>7. RequestHolds'
    BY <2>4, <2>5, <2>6 DEF RequestHolds, Pays
  <2> QED  BY <2>6, <2>7, DialogHolds
<1>6. ASSUME NEW e \in Editors, Sending!Cancel(e) PROVE SendingInv'
  BY <1>6, DialogHolds DEF Sending!Cancel, Sending!Close, Sending!Rest, SendingInv
<1>7. ASSUME NEW e \in Editors, Sending!Send(e) PROVE SendingInv'
  <2>1. Pays(edits[e].c)
    BY <1>7 DEF Sending!Send, Sending!Done, RequestHolds
  <2> QED  BY <1>1, <1>7, <2>1, SendHolds DEF SendingInv, Shapes
<1> QED  BY <1>2, <1>3, <1>4, <1>5, <1>6, <1>7 DEF Sending!Next, Sending!Handle

\* A form that is only named by another event, or given another rate, is the same form.
LEMMA EventHolds ==
    ASSUME NEW c, FormHolds(c), NEW event PROVE FormHolds([c EXCEPT !.event = event])
<1>1. PICK d : d = [c EXCEPT !.event = event]
  OBVIOUS
<1>2. IsForm(d) /\ Same(c, d) /\ d.fee = c.fee /\ d.errors = c.errors
  BY <1>1 DEF FormHolds, IsForm, Same
<1> QED  BY <1>1, <1>2 DEF FormHolds, Priced, Same

LEMMA RateHolds ==
    ASSUME Sending!BitcoinSendAssumption, wallet \in [Payers -> Purse], NEW c, FormHolds(c), NEW rate \in Rates
    PROVE  FormHolds(Sending!computeFee([c EXCEPT !.rate = rate]))
<1>1. PICK d : d = [c EXCEPT !.rate = rate]
  OBVIOUS
<1>2. IsForm(d) /\ d.fee = c.fee /\ d.recipient = c.recipient /\ d.amount = c.amount /\ d.drain = c.drain
      /\ d.balance = c.balance
  BY <1>1 DEF FormHolds, IsForm
<1>3. d.fee # 0 => Nothing \notin {d.recipient, d.amount} /\ (d.drain => d.amount = d.balance - d.fee)
  BY <1>2 DEF FormHolds, Priced
<1> QED  BY <1>1, <1>2, <1>3, ComputeHolds

\* What is built from a form that may be continued is reviewed with it.
LEMMA ConfirmHolds ==
    ASSUME Sending!BitcoinSendAssumption, wallet \in [Payers -> Purse], NEW c, FormHolds(c), NEW psbt, psbt # Nothing,
           c.fee # 0,
           psbt = Sending!Build(c.account, wallet[c.account].free, c.rate, c.drain, c.amount, c.recipient)
    PROVE  ReviewHolds(Sending!Review(c, psbt))
<1>1. /\ c.account \in Payers /\ wallet[c.account].free \in Nat /\ c.rate \in Nat /\ c.drain \in BOOLEAN
      /\ c.amount \in Int /\ c.balance \in Nat /\ c.fee \in Nat
  BY DEF FormHolds, Priced, IsForm, Amount, Purse, Sending!BitcoinSendAssumption
<1>2. /\ psbt.account = c.account /\ psbt.recipient = c.recipient /\ psbt.fee = c.rate
      /\ psbt.coins = wallet[c.account].free /\ psbt.paid \in Int
      /\ psbt.paid = (IF c.drain THEN wallet[c.account].free - c.rate ELSE c.amount)
      /\ psbt.frozen => wallet[c.account].free > wallet[c.account].free
  BY <1>1, BuildFacts
<1>3. ~psbt.frozen
  BY <1>1, <1>2
<1>4. psbt.paid # c.amount => c.drain
  BY <1>1, <1>2
<1>5. psbt.paid # c.amount => c.balance # psbt.coins \/ c.errors # {}
  BY <1>1, <1>2 DEF FormHolds, Priced
<1>6. PICK r : r = Sending!Review(c, psbt)
  OBVIOUS
<1>7. /\ r.account = c.account /\ r.recipient = c.recipient /\ r.amount = c.amount /\ r.drain = c.drain
      /\ r.balance = c.balance /\ r.errors = c.errors /\ r.psbt = psbt
  BY <1>6, Zenon DEF Sending!Review
<1> QED  BY <1>1, <1>2, <1>3, <1>4, <1>5, <1>6, <1>7 DEF ReviewHolds, Pays

\* A click is done with: the others are still good.
LEMMA DoneHolds ==
    ASSUME SendingInv, FlowHolds, NEW e \in Editors, NEW kinds, Sending!Done(e, kinds)
    PROVE  \A d \in Editors : ClickHolds(edits'[d])
<1>1. PICK s : s = Sending!NoClick
  OBVIOUS
<1>2. ClickHolds(s)
  BY <1>1 DEF ClickHolds, Sending!NoClick
<1>3. \A d \in Editors : edits'[d] = edits[d] \/ edits'[d] = s
  BY <1>1 DEF Sending!Done, SendingInv
<1> QED  BY <1>2, <1>3 DEF FlowHolds

LEMMA RefreshStep ==
    ASSUME Sending!BitcoinSendAssumption, SendingInv, FlowHolds, Shapes',
           Sending!Fire \/ Sending!FetchRates \/ Sending!ScheduleRefresh \/ Sending!WriteRates
    PROVE  SendingInv'
<1>0. ui.screen \in {"form", "review"} /\ FormHolds(ui.form) /\ DOMAIN refresh = {"pc", "c", "event"}
      /\ wallet \in [Payers -> Purse]
  BY DEF FlowHolds, SendingInv
<1>1. CASE Sending!Fire
  <2>1. UNCHANGED <<ui, edits, sent, opener>>
    BY <1>1 DEF Sending!Fire
  <2>2. PICK c : c = ui.form
    OBVIOUS
  <2>3. \/ refresh'.pc = "schedule" /\ refresh'.c = Nothing
        \/ refresh'.pc = "rates" /\ refresh'.c = c
    BY <1>0, <1>1, <2>2 DEF Sending!Fire
  <2>4. FlowHolds'
    BY <1>0, <2>1, <2>2, <2>3 DEF FlowHolds, ClickHolds, ReviewHolds, Pays, FormHolds, IsForm, Priced
  <2> QED  BY <2>1, <2>4, DialogHolds
<1>2. CASE Sending!FetchRates
  <2>1. UNCHANGED <<ui, edits, sent, opener>>
    BY <1>2 DEF Sending!FetchRates
  <2>2. PICK c : c = refresh.c
    OBVIOUS
  <2>3. FormHolds(c)
    BY <1>2, <2>2 DEF Sending!FetchRates, FlowHolds
  <2>4. refresh'.pc = "schedule" /\ \E d : refresh'.c = d /\ FormHolds(d)
    <3>1. CASE refresh' = [refresh EXCEPT !.pc = "schedule"]
      BY <1>0, <2>2, <2>3, <3>1
    <3>2. CASE \E rate \in Rates :
                  refresh' = [refresh EXCEPT !.pc = "schedule", !.c = Sending!computeFee([@ EXCEPT !.rate = rate])]
      <4>1. PICK rate \in Rates :
              refresh' = [refresh EXCEPT !.pc = "schedule", !.c = Sending!computeFee([c EXCEPT !.rate = rate])]
        BY <2>2, <3>2, Zenon
      <4>2. PICK d : d = Sending!computeFee([c EXCEPT !.rate = rate])
        OBVIOUS
      <4>3. FormHolds(d)
        BY <1>0, <2>3, <4>2, RateHolds
      <4>4. refresh' = [refresh EXCEPT !.pc = "schedule", !.c = d]
        BY <4>1, <4>2
      <4> QED  BY <1>0, <4>3, <4>4
    <3> QED  BY <1>2, <3>1, <3>2 DEF Sending!FetchRates
  <2>5. PICK d : refresh'.c = d /\ FormHolds(d)
    BY <2>4
  <2>6. FlowHolds'
    BY <2>1, <2>4, <2>5 DEF FlowHolds, ClickHolds, ReviewHolds, Pays, FormHolds, IsForm, Priced
  <2> QED  BY <2>1, <2>6, DialogHolds
<1>3. CASE Sending!ScheduleRefresh
  <2>1. UNCHANGED <<ui, edits, sent, opener>>
    BY <1>3 DEF Sending!ScheduleRefresh
  <2>2. PICK c : c = refresh.c
    OBVIOUS
  <2>3. c = Nothing \/ FormHolds(c)
    BY <1>3, <2>2 DEF Sending!ScheduleRefresh, FlowHolds
  <2>4. refresh'.pc = "idle" \/ (refresh'.pc = "write" /\ refresh'.c = c /\ c # Nothing)
    BY <1>0, <1>3, <2>2 DEF Sending!ScheduleRefresh, Sending!NoRefresh
  <2>5. FlowHolds'
    BY <2>1, <2>3, <2>4 DEF FlowHolds, ClickHolds, ReviewHolds, Pays, FormHolds, IsForm, Priced
  <2> QED  BY <2>1, <2>5, DialogHolds
<1>4. CASE Sending!WriteRates
  <2>1. UNCHANGED <<edits, sent, opener>> /\ refresh'.pc = "idle"
    BY <1>4 DEF Sending!WriteRates, Sending!NoRefresh
  <2>2. FormHolds(refresh.c)
    BY <1>4 DEF Sending!WriteRates, FlowHolds
  <2>3. PICK d : d = [refresh.c EXCEPT !.event = refresh.event]
    OBVIOUS
  <2>4. FormHolds(d)
    BY <2>2, <2>3, EventHolds
  <2>5. ui'.screen = "form" /\ ui'.form = d
    BY <1>0, <1>4, <2>3 DEF Sending!WriteRates, Sending!ShowForm
  <2>6. FlowHolds'
    BY <2>1, <2>4, <2>5 DEF FlowHolds, ClickHolds, ReviewHolds, Pays, FormHolds, IsForm, Priced
  <2> QED  BY <2>1, <2>6, DialogHolds
<1> QED  BY <1>1, <1>2, <1>3, <1>4

LEMMA ClickStep ==
    ASSUME SendingInv, FlowHolds, Shapes', NEW e \in Editors, Sending!Click(e)
    PROVE  SendingInv'
<1>0. ui.screen \in {"form", "review"} /\ FormHolds(ui.form) /\ DOMAIN edits = Editors
  BY DEF FlowHolds, SendingInv
<1>1. PICK kind, value :
      /\ kind \in Sending!Kinds /\ value \in Sending!Values(kind)
      /\ edits' = [edits EXCEPT ![e] = [kind |-> kind, value |-> value,
                                         c |-> IF kind = "send" THEN ui.review ELSE ui.form]]
  BY DEF Sending!Click
<1>2. PICK s : s = [kind |-> kind, value |-> value, c |-> IF kind = "send" THEN ui.review ELSE ui.form]
  OBVIOUS
<1>3. \A d \in Editors : edits'[d] = edits[d] \/ edits'[d] = s
  BY <1>0, <1>1, <1>2
<1>4. (kind = "send" => ui.screen = "review") /\ (kind = "confirm" => ui.form.fee # 0)
  BY <1>0, <1>1 DEF Sending!Kinds
<1>5. /\ kind = "recipient" => value \in Recipients
      /\ kind = "amount" => value \in Amounts
      /\ kind = "account" => value \in Payers
  BY <1>1 DEF Sending!Values
<1>6. s.kind = kind /\ s.value = value /\ (kind # "send" => s.c = ui.form) /\ (kind = "send" => s.c = ui.review)
  BY <1>2
<1>7. ClickHolds(s)
  BY <1>0, <1>4, <1>5, <1>6 DEF ClickHolds, FlowHolds
<1>8. UNCHANGED <<ui, jobs, refresh, sent, opener>>
  BY DEF Sending!Click
<1>9. FlowHolds'
  BY <1>3, <1>7, <1>8 DEF FlowHolds, ClickHolds, ReviewHolds, Pays, FormHolds, IsForm, Priced
<1> QED  BY <1>8, <1>9, DialogHolds

LEMMA FlowStep ==
    ASSUME Sending!BitcoinSendAssumption, SendingInv, FlowHolds, Shapes', NEW e \in Editors,
           Sending!Cancel(e) \/ Sending!Edit(e) \/ Sending!Confirm(e) \/ Sending!Back(e) \/ Sending!Send(e)
    PROVE  SendingInv'
<1>0. ui.screen \in {"form", "review"} /\ FormHolds(ui.form) /\ DOMAIN edits = Editors /\ wallet \in [Payers -> Purse]
      /\ DOMAIN ui = {"screen", "form", "review"} /\ ClickHolds(edits[e])
  BY DEF FlowHolds, SendingInv
<1>1. CASE Sending!Cancel(e)
  BY <1>0, <1>1, DialogHolds DEF Sending!Cancel, Sending!Close, Sending!Rest
<1>2. CASE Sending!Send(e)
  <2>1. ReviewHolds(edits[e].c)
    BY <1>0, <1>2 DEF Sending!Send, Sending!Done, ClickHolds
  <2> QED  BY <1>2, <2>1, SendHolds DEF ReviewHolds, SendingInv, Shapes
<1>3. CASE Sending!Edit(e)
  <2>1. PICK d \in Sending!Edited(e) : Sending!ShowForm(d)
    BY <1>3 DEF Sending!Edit
  <2>2. FormHolds(d)
    BY <1>0, <1>3, <2>1, EditHolds DEF Sending!Edit, Sending!Done
  <2>3. UNCHANGED <<refresh, sent, opener>>
    BY <1>3 DEF Sending!Edit, Sending!Rest
  <2>4. \A f \in Editors : ClickHolds(edits'[f])
    BY <1>3, DoneHolds DEF Sending!Edit
  <2>5. ui'.screen = "form" /\ ui'.form = d
    BY <1>0, <2>1 DEF Sending!ShowForm
  <2>6. FlowHolds'
    BY <2>2, <2>3, <2>4, <2>5 DEF FlowHolds, ClickHolds, ReviewHolds, Pays, FormHolds, IsForm, Priced
  <2> QED  BY <2>3, <2>6, DialogHolds
<1>4. CASE Sending!Confirm(e)
  <2>1. PICK c : c = edits[e].c
    OBVIOUS
  <2>2. FormHolds(c) /\ c.fee # 0
    BY <1>0, <1>4, <2>1 DEF Sending!Confirm, Sending!Done, ClickHolds
  <2>3. UNCHANGED <<refresh, sent, opener>>
    BY <1>4 DEF Sending!Confirm, Sending!Rest
  <2>4. \A f \in Editors : ClickHolds(edits'[f])
    BY <1>4, DoneHolds DEF Sending!Confirm
  <2>5. PICK psbt : psbt = Sending!Build(c.account, wallet[c.account].free, c.rate, c.drain, c.amount, c.recipient)
    OBVIOUS
  <2>6. CASE psbt = Nothing
    <3>1. PICK d : d = [c EXCEPT !.errors = @ \cup {"tx"}]
      OBVIOUS
    <3>2. Sending!ShowForm(d)
      BY <1>4, <2>1, <2>5, <2>6, <3>1, Zenon DEF Sending!Confirm
    <3>3. FormHolds(d)
      BY <2>2, <3>1, WrongFacts DEF FormHolds, Priced, Same
    <3>4. ui'.screen = "form" /\ ui'.form = d
      BY <1>0, <3>2 DEF Sending!ShowForm
    <3>5. FlowHolds'
      BY <2>3, <2>4, <3>3, <3>4 DEF FlowHolds, ClickHolds, ReviewHolds, Pays, FormHolds, IsForm, Priced
    <3> QED  BY <2>3, <3>5, DialogHolds
  <2>7. CASE psbt # Nothing
    <3>1. PICK r : r = Sending!Review(c, psbt)
      OBVIOUS
    <3>2. Sending!ShowReview(c, r)
      BY <1>4, <2>1, <2>5, <2>7, <3>1, Zenon DEF Sending!Confirm
    <3>3. ReviewHolds(r)
      BY <1>0, <2>2, <2>5, <2>7, <3>1, ConfirmHolds
    <3>4. ui'.screen = "review" /\ ui'.form = c /\ ui'.review = r
      BY <1>0, <3>2 DEF Sending!ShowReview
    <3>5. FlowHolds'
      BY <2>2, <2>3, <2>4, <3>3, <3>4 DEF FlowHolds, ClickHolds, ReviewHolds, Pays, FormHolds, IsForm, Priced
    <3> QED  BY <2>3, <3>5, DialogHolds
  <2> QED  BY <2>6, <2>7
<1>5. CASE Sending!Back(e)
  <2>1. PICK c : c = edits[e].c
    OBVIOUS
  <2>2. FormHolds(c)
    BY <1>0, <1>5, <2>1 DEF Sending!Back, Sending!Done, ClickHolds
  <2>3. UNCHANGED <<jobs, sent, opener>>
    BY <1>5 DEF Sending!Back, Sending!Rest
  <2>4. \A f \in Editors : ClickHolds(edits'[f])
    BY <1>5, DoneHolds DEF Sending!Back
  <2>5. ui'.screen = "form" /\ ui'.form = c /\ refresh'.pc = "rates" /\ refresh'.c = c
    BY <1>0, <1>5, <2>1 DEF Sending!Back, Sending!ShowForm
  <2>6. FlowHolds'
    BY <2>2, <2>4, <2>5 DEF FlowHolds, ClickHolds, ReviewHolds, Pays, FormHolds, IsForm, Priced
  <2> QED  BY <2>3, <2>6, DialogHolds
<1> QED  BY <1>1, <1>2, <1>3, <1>4, <1>5

LEMMA SendingStep ==
    ASSUME Sending!BitcoinSendAssumption PROVE SendingInv /\ [Sending!Next]_(Sending!sendVars) => SendingInv'
<1> SUFFICES ASSUME SendingInv, [Sending!Next]_(Sending!sendVars) PROVE SendingInv'
  OBVIOUS
<1>1. CASE Sending!Next
  <2>1. Shapes'
    BY <1>1, ShapesStay
  <2>2. CASE ui.screen = "closed"
    <3>1. ui'.screen = "closed" /\ sent' = sent
      BY <1>1, <2>2, ClosedStays DEF SendingInv
    <3>2. UNCHANGED opener
      BY <1>1 DEF Sending!Next, Sending!Fire, Sending!FetchRates, Sending!ScheduleRefresh, Sending!WriteRates,
             Sending!Change, Sending!Handle, Sending!Click, Sending!Cancel, Sending!Edit, Sending!Confirm, Sending!Back,
             Sending!Send, Sending!Rest
    <3> QED  BY <2>1, <3>1, <3>2, DialogHolds
  <2>3. CASE RequestHolds
    BY <1>1, <2>1, <2>3, RequestStep
  <2>4. CASE FlowHolds
    <3>1. CASE Sending!Change
      <4>1. UNCHANGED <<opener, ui, jobs, refresh, edits, sent>>
        BY <3>1 DEF Sending!Change
      <4>2. FlowHolds'
        BY <2>4, <4>1 DEF FlowHolds, ClickHolds, ReviewHolds, Pays, FormHolds, IsForm, Priced
      <4> QED  BY <2>1, <4>1, <4>2, DialogHolds
    <3> QED  BY <1>1, <2>1, <2>4, <3>1, RefreshStep, ClickStep, FlowStep DEF Sending!Next, Sending!Handle
  <2> QED  BY <2>2, <2>3, <2>4 DEF SendingInv
<1>2. CASE UNCHANGED Sending!sendVars
  <2>1. UNCHANGED <<wallet, opener, ui, jobs, refresh, edits, sent>>
    BY <1>2 DEF Sending!sendVars
  <2>2. Shapes'
    BY <2>1 DEF SendingInv, Shapes
  <2>3. FlowHolds => FlowHolds'
    BY <2>1 DEF FlowHolds, ClickHolds, ReviewHolds, Pays, FormHolds, IsForm, Priced
  <2>4. RequestHolds => RequestHolds'
    BY <2>1 DEF RequestHolds, Pays
  <2> QED  BY <2>1, <2>2, <2>3, <2>4, DialogHolds DEF SendingInv
<1> QED  BY <1>1, <1>2

\* The fee the form shows is the one of all it shows beside, what is sent pays whom and what the screen said, and no
\* coin that was known to be inscribed is spent but by a request, whatever clicks, refreshes and synchronisations come
\* between (SendFlowUseCases).
THEOREM SentCorrect ==
    ASSUME Sending!BitcoinSendAssumption
    PROVE  Sending!Spec => [](Sending!ShownTogether /\ Sending!SentAsReviewed /\ Sending!FrozenKept)
<1>1. Sending!Init => SendingInv
  BY SendingInitInv
<1>2. SendingInv /\ [Sending!Next]_(Sending!sendVars) => SendingInv'
  BY SendingStep
<1>3. SendingInv => Sending!ShownTogether /\ Sending!SentAsReviewed /\ Sending!FrozenKept
  BY DEF SendingInv, FlowHolds, FormHolds, Priced, RequestHolds, Sending!ShownTogether
<1> QED  BY <1>1, <1>2, <1>3, PTL DEF Sending!Spec

------------------------------------------------------------------------------
\* The fetch policy

Policy == INSTANCE FetchPolicy

RequestStates == [pc : {"idle", "ready", "running", "waiting", "done"}, attempts : 0..(MaxRetries + 1)]
Answers == {"none", "value", "error", "abort"}

\* A call that may be tried again has retries left, and one more failure may be counted.
PolicyInv ==
    /\ circuit \in {"closed", "open", "half"} /\ trial \in BOOLEAN /\ failures \in 0..(MaxFailures - 1)
    /\ request \in [Requests -> RequestStates] /\ aborted \subseteq Requests /\ answer \in [Requests -> Answers]
    /\ \A r \in Requests : request[r].pc \in {"idle", "ready", "waiting"} => request[r].attempts <= MaxRetries

\* A call goes on, and its caller may be answered.
PolicyMoves ==
    \E r \in Requests, s \in RequestStates, a \in Answers :
        /\ request' = [request EXCEPT ![r] = s] /\ answer' = [answer EXCEPT ![r] = a]
        /\ s.pc \in {"idle", "ready", "waiting"} => s.attempts <= MaxRetries

LEMMA PolicyKept ==
    ASSUME PolicyInv, PolicyMoves, circuit' \in {"closed", "open", "half"}, trial' \in BOOLEAN,
           failures' \in 0..(MaxFailures - 1), aborted' \subseteq Requests
    PROVE  PolicyInv'
BY DEF PolicyInv, PolicyMoves

LEMMA CountFacts ==
    ASSUME Policy!PolicyAssumption, PolicyInv, NEW end, Policy!Count(end)
    PROVE  /\ circuit' \in {"closed", "open", "half"} /\ trial' \in BOOLEAN /\ failures' \in 0..(MaxFailures - 1)
           /\ circuit # "open" /\ circuit' = "open" => Policy!isServiceFailure(end)
<1>1. PICK opens \in BOOLEAN : opens = (Policy!isServiceFailure(end) /\ (circuit = "half" \/ failures + 1 = MaxFailures))
  OBVIOUS
<1>2. /\ circuit' = IF opens THEN "open" ELSE IF circuit = "half" THEN "closed" ELSE circuit
      /\ failures' = IF opens \/ end = "value" \/ circuit = "half" THEN 0
                     ELSE IF Policy!isServiceFailure(end) THEN failures + 1 ELSE failures
      /\ trial' = IF circuit = "half" THEN FALSE ELSE trial
  BY <1>1, Zenon DEF Policy!Count
<1>3. circuit' \in {"closed", "open", "half"}
  BY <1>2 DEF PolicyInv
<1>4. trial' \in BOOLEAN
  BY <1>2 DEF PolicyInv
<1>5. opens => Policy!isServiceFailure(end)
  BY <1>1
<1>6. failures' \in 0..(MaxFailures - 1)
  <2>1. failures \in 0..(MaxFailures - 1) /\ MaxFailures \in Nat \ {0}
    BY DEF PolicyInv, Policy!PolicyAssumption
  <2>2. ~opens /\ Policy!isServiceFailure(end) => failures + 1 # MaxFailures
    BY <1>1, Zenon
  <2>3. \/ failures' = 0
        \/ failures' = failures + 1 /\ failures + 1 # MaxFailures
        \/ failures' = failures
    BY <1>2, <2>2
  <2> QED  BY <2>1, <2>3
<1> QED  BY <1>2, <1>3, <1>4, <1>5, <1>6 DEF PolicyInv

LEMMA FinishMoves ==
    ASSUME PolicyInv, NEW r \in Requests, NEW end, Policy!Finish(r, end)
    PROVE  PolicyMoves /\ request'[r].pc = "done" /\ \A q \in Requests : request'[q].attempts = request[q].attempts
<1>1. PICK s : s = [request[r] EXCEPT !.pc = "done"]
  OBVIOUS
<1>2. s \in RequestStates /\ s.pc = "done" /\ s.attempts = request[r].attempts
  BY <1>1 DEF PolicyInv, RequestStates
<1>3. PICK a : a = IF answer[r] # "none" THEN answer[r] ELSE IF end = "value" THEN "value" ELSE "error"
  OBVIOUS
<1>4. a \in Answers
  BY <1>3 DEF PolicyInv, Answers
<1>5. request' = [request EXCEPT ![r] = s] /\ answer' = [answer EXCEPT ![r] = a]
  BY <1>1, <1>3 DEF Policy!Finish
<1> QED  BY <1>2, <1>4, <1>5 DEF PolicyMoves, PolicyInv

\* Only the state of the call changes.
LEMMA StateMoves ==
    ASSUME PolicyInv, NEW r \in Requests, NEW s \in RequestStates, request' = [request EXCEPT ![r] = s], UNCHANGED answer,
           s.pc \in {"idle", "ready", "waiting"} => s.attempts <= MaxRetries
    PROVE  PolicyMoves
<1>1. PICK a : a = answer[r]
  OBVIOUS
<1>2. a \in Answers /\ answer' = [answer EXCEPT ![r] = a]
  BY <1>1 DEF PolicyInv
<1> QED  BY <1>2 DEF PolicyMoves

LEMMA PolicyStep ==
    ASSUME Policy!PolicyAssumption, PolicyInv, Policy!Next PROVE PolicyInv' /\ Policy!DoneWith
<1> USE DEF Policy!DoneWith
<1>0. /\ \A r \in Requests : request[r] \in RequestStates /\ answer[r] \in Answers
      /\ \A r \in Requests : request[r].attempts \in Nat
  BY DEF PolicyInv, RequestStates
<1>1. ASSUME NEW r \in Requests, Policy!Execute(r) \/ Policy!Wake(r) PROVE PolicyInv' /\ Policy!DoneWith
  <2>1. PICK at \in {"ready", "done"} : request' = [request EXCEPT ![r].pc = at]
    BY <1>1 DEF Policy!Execute, Policy!Wake
  <2>2. PICK s : s = [request[r] EXCEPT !.pc = at]
    OBVIOUS
  <2>3. s \in RequestStates /\ s.attempts = request[r].attempts /\ s.pc = at
    BY <1>0, <2>2 DEF RequestStates
  <2>4. request' = [request EXCEPT ![r] = s]
    BY <2>1, <2>2
  <2>5. request[r].attempts <= MaxRetries
    BY <1>1 DEF Policy!Execute, Policy!Wake, PolicyInv
  <2>6. PICK a \in Answers : answer' = [answer EXCEPT ![r] = a]
    BY <1>0, <1>1 DEF Policy!Execute, Policy!Wake, Answers, PolicyInv
  <2>7. UNCHANGED <<circuit, trial, failures, aborted>>
    BY <1>1 DEF Policy!Execute, Policy!Wake
  <2>8. PolicyMoves
    BY <2>3, <2>4, <2>5, <2>6 DEF PolicyMoves
  <2>9. PolicyInv'
    BY <2>7, <2>8, PolicyKept DEF PolicyInv
  <2> QED  BY <1>0, <2>3, <2>4, <2>7, <2>9 DEF PolicyInv
<1>2. ASSUME NEW r \in Requests, Policy!Abort(r) PROVE PolicyInv' /\ Policy!DoneWith
  <2>1. UNCHANGED <<circuit, trial, failures, request>> /\ aborted' \subseteq Requests
    BY <1>2 DEF Policy!Abort, PolicyInv
  <2>2. PICK a : a = IF answer[r] = "none" /\ request[r].pc # "idle" THEN "abort" ELSE answer[r]
    OBVIOUS
  <2>3. a \in Answers /\ answer' = [answer EXCEPT ![r] = a]
    BY <1>0, <1>2, <2>2 DEF Policy!Abort, Answers
  <2>4. PolicyInv'
    BY <2>1, <2>3 DEF PolicyInv
  <2> QED  BY <1>0, <2>1, <2>4 DEF PolicyInv
<1>3. ASSUME NEW r \in Requests, Policy!Again(r) PROVE PolicyInv' /\ Policy!DoneWith
  <2>1. PICK s : s = [pc |-> "idle", attempts |-> 0]
    OBVIOUS
  <2>2. s \in RequestStates /\ s.attempts = 0 /\ s.attempts <= MaxRetries
    BY <2>1 DEF RequestStates, Policy!PolicyAssumption
  <2>3. request' = [request EXCEPT ![r] = s] /\ answer' = [answer EXCEPT ![r] = "none"] /\ aborted' \subseteq Requests
        /\ UNCHANGED <<circuit, trial, failures>>
    BY <1>3, <2>1 DEF Policy!Again, PolicyInv
  <2>4. PolicyMoves
    BY <2>2, <2>3 DEF PolicyMoves, Answers
  <2>5. PolicyInv'
    BY <2>3, <2>4, PolicyKept DEF PolicyInv
  <2> QED  BY <1>0, <2>2, <2>3, <2>5 DEF PolicyInv
<1>4. ASSUME NEW r \in Requests, Policy!Refused(r) PROVE PolicyInv' /\ Policy!DoneWith
  <2>1. Policy!Finish(r, "other") /\ UNCHANGED <<circuit, trial, failures, aborted>>
    BY <1>4 DEF Policy!Refused
  <2>2. PolicyMoves /\ \A q \in Requests : request'[q].attempts = request[q].attempts
    BY <2>1, FinishMoves
  <2>3. PolicyInv'
    BY <2>1, <2>2, PolicyKept DEF PolicyInv
  <2> QED  BY <1>0, <2>1, <2>2, <2>3 DEF PolicyInv
<1>5. ASSUME NEW r \in Requests, Policy!GivenUp(r) PROVE PolicyInv' /\ Policy!DoneWith
  <2>1. Policy!Finish(r, "abort") /\ Policy!Count("abort") /\ UNCHANGED aborted
    BY <1>5 DEF Policy!GivenUp
  <2>2. PolicyMoves /\ \A q \in Requests : request'[q].attempts = request[q].attempts
    BY <2>1, FinishMoves
  <2>3. PolicyInv'
    BY <2>1, <2>2, PolicyKept, CountFacts DEF PolicyInv
  <2>4. ~(circuit # "open" /\ circuit' = "open")
    BY <2>1, CountFacts DEF Policy!isServiceFailure, Policy!isTransientError
  <2> QED  BY <1>0, <2>1, <2>2, <2>3, <2>4 DEF PolicyInv
<1>6. ASSUME NEW r \in Requests, Policy!Operate(r) PROVE PolicyInv' /\ Policy!DoneWith
  <2>1. PICK s : s = [pc |-> "running", attempts |-> request[r].attempts + 1]
    OBVIOUS
  <2>2. request[r].attempts <= MaxRetries /\ r \notin aborted
    BY <1>6 DEF Policy!Operate, PolicyInv
  <2>3. s \in RequestStates /\ s.pc = "running"
    BY <1>0, <2>1, <2>2 DEF RequestStates, Policy!PolicyAssumption
  <2>4. request' = [request EXCEPT ![r] = s] /\ UNCHANGED <<circuit, failures, aborted, answer>>
    BY <1>6, <2>1 DEF Policy!Operate
  <2>5. trial' \in BOOLEAN
    BY <1>6 DEF Policy!Operate
  <2>6. PolicyMoves
    BY <2>3, <2>4, StateMoves
  <2>7. PolicyInv'
    BY <2>4, <2>5, <2>6, PolicyKept DEF PolicyInv
  <2> QED  BY <1>0, <2>2, <2>4, <2>7 DEF PolicyInv
<1>7. ASSUME NEW r \in Requests, NEW ending, Policy!Settle(r, ending) PROVE PolicyInv' /\ Policy!DoneWith
  <2>1. PICK end : end = IF r \in aborted /\ ending # "value" THEN "abort" ELSE ending
    OBVIOUS
  <2>2. request[r].pc = "running" /\ UNCHANGED aborted /\ (UNCHANGED <<circuit, trial, failures>> \/ Policy!Count(end))
    BY <1>7, <2>1 DEF Policy!Settle
  <2>3. PolicyMoves /\ request'[r].pc # "running" /\ \A q \in Requests : request'[q].attempts = request[q].attempts
    <3>1. CASE Policy!Finish(r, end)
      BY <3>1, FinishMoves
    <3>2. CASE request[r].attempts <= MaxRetries /\ request' = [request EXCEPT ![r].pc = "waiting"] /\ UNCHANGED answer
      <4>1. PICK s : s = [request[r] EXCEPT !.pc = "waiting"]
        OBVIOUS
      <4>2. s \in RequestStates /\ s.pc = "waiting" /\ s.attempts = request[r].attempts
        BY <1>0, <4>1 DEF RequestStates
      <4>3. request' = [request EXCEPT ![r] = s]
        BY <3>2, <4>1
      <4>4. PolicyMoves
        BY <3>2, <4>2, <4>3, StateMoves
      <4> QED  BY <4>2, <4>3, <4>4 DEF PolicyInv
    <3> QED  BY <1>7, <2>1, <3>1, <3>2 DEF Policy!Settle
  <2>4. PolicyInv'
    <3>1. circuit' \in {"closed", "open", "half"} /\ trial' \in BOOLEAN /\ failures' \in 0..(MaxFailures - 1)
      BY <2>2, CountFacts DEF PolicyInv
    <3> QED  BY <2>2, <2>3, <3>1, PolicyKept DEF PolicyInv
  <2>5. circuit # "open" /\ circuit' = "open" => r \notin aborted
    BY <2>1, <2>2, CountFacts DEF Policy!isServiceFailure, Policy!isTransientError
  <2> QED  BY <1>0, <2>2, <2>3, <2>4, <2>5 DEF PolicyInv
<1>8. ASSUME Policy!HalfOpen PROVE PolicyInv' /\ Policy!DoneWith
  BY <1>0, <1>8 DEF Policy!HalfOpen, PolicyInv
<1> QED  BY <1>1, <1>2, <1>3, <1>4, <1>5, <1>6, <1>7, <1>8 DEF Policy!Next, Policy!Run

\* A caller that gave up is done with: the service is not called for it again, and only an attempt of a caller that
\* waits opens the circuit; no call is tried more often than its retries allow (executeWithFetchPolicy).
THEOREM PolicyCorrect ==
    ASSUME Policy!PolicyAssumption PROVE Policy!Spec => []Policy!TypeOK /\ Policy!AbortIsFinal
<1>1. Policy!Init => PolicyInv
  <2> SUFFICES ASSUME Policy!Init PROVE PolicyInv
    OBVIOUS
  <2>1. MaxRetries \in Nat /\ MaxFailures \in Nat \ {0}
    BY DEF Policy!PolicyAssumption
  <2>2. PICK s : s = [pc |-> "idle", attempts |-> 0]
    OBVIOUS
  <2>3. s \in RequestStates /\ s.attempts <= MaxRetries
    BY <2>1, <2>2 DEF RequestStates
  <2>4. request = [r \in Requests |-> s]
    BY <2>2 DEF Policy!Init
  <2>5. request \in [Requests -> RequestStates] /\ \A r \in Requests : request[r].attempts <= MaxRetries
    BY <2>3, <2>4
  <2>6. failures \in 0..(MaxFailures - 1)
    BY <2>1 DEF Policy!Init
  <2> QED  BY <2>5, <2>6 DEF Policy!Init, PolicyInv, Answers
<1>2. PolicyInv /\ [Policy!Next]_(Policy!policyVars) => PolicyInv' /\ [Policy!DoneWith]_(Policy!policyVars)
  BY PolicyStep DEF PolicyInv, Policy!policyVars
<1>3. PolicyInv => Policy!TypeOK
  BY DEF PolicyInv, RequestStates, Answers, Policy!TypeOK, Policy!PolicyAssumption
<1> QED  BY <1>1, <1>2, <1>3, PTL DEF Policy!Spec, Policy!AbortIsFinal

------------------------------------------------------------------------------
\* Caching

Caching == INSTANCE Cache

\* An entry expires when its value is no longer good, or later by the time it was under way.
Timely(e) == e.exp <= e.good + e.took

\* What a call knows: only the state's are read and written in more than one step, and what it answers was not expired
\* when it looked.
CallHolds(s) ==
    /\ s.pc \in {"set", "read", "clean", "keep", "test"} => store = "state"
    /\ s.pc = "memory" => store = "memory" /\ (entry # Nothing => s.looked <= entry.exp)
    /\ s.pc = "fetch" => s.looked <= clock
    /\ s.pc = "set" => s.new # Nothing /\ Timely(s.new)
    /\ s.pc = "publish" => s.until \in 0..(MaxTime + Ttl)
    /\ s.pc \in {"clean", "keep", "test"} => s.seen = Nothing \/ Timely(s.seen)
    /\ s.pc = "hit" => s.seen # Nothing /\ Timely(s.seen) /\ s.looked <= s.seen.exp

CachingInv ==
    /\ Caching!TypeOK
    /\ entry # Nothing => Timely(entry)
    /\ \A c \in Callers : call[c].looked <= clock /\ CallHolds(call[c])

\* The entry goes, or a new one comes that is not expired where a call has looked already.
EntryMoves ==
    \/ UNCHANGED entry
    \/ entry' = Nothing
    \/ /\ entry' \in Caching!Entry /\ Timely(entry)'
       /\ store = "memory" => clock <= entry'.exp

LEMMA CallHoldsStays ==
    ASSUME CachingInv, EntryMoves, UNCHANGED <<clock, store>>, NEW s, CallHolds(s), s.looked <= clock, s.looked \in Int
    PROVE  CallHolds(s)'
<1>1. clock \in Int /\ (entry # Nothing => entry.exp \in Int)
  BY DEF CachingInv, Caching!TypeOK, Caching!Time, Caching!Entry
<1>2. entry' \in Caching!Entry => entry'.exp \in Int
  BY DEF Caching!Entry
<1>3. s.pc = "memory" /\ entry' # Nothing => s.looked <= entry'.exp
  BY <1>1, <1>2 DEF EntryMoves, CallHolds
<1> QED  BY <1>3 DEF CallHolds, Timely

LEMMA CachingMoves ==
    ASSUME CachingInv, EntryMoves, expiryMap' \in 0..(MaxTime + Ttl) \cup {Nothing}, UNCHANGED <<clock, store, wrapper>>,
           NEW c \in Callers, NEW s \in Caching!Call, call' = [call EXCEPT ![c] = s], s.looked <= clock, CallHolds(s)'
    PROVE  CachingInv'
<1>1. \A d \in Callers : call[d].looked <= clock /\ CallHolds(call[d]) /\ call[d].looked \in Int
  BY DEF CachingInv, Caching!TypeOK, Caching!Call, Caching!Time
<1>2. ASSUME NEW d \in Callers PROVE call'[d].looked <= clock /\ CallHolds(call[d])'
  <2>1. CASE d = c
    <3>1. call'[d] = s
      BY <2>1 DEF CachingInv, Caching!TypeOK
    <3> QED  BY <3>1 DEF CallHolds, Timely
  <2>2. CASE d # c
    <3>1. PICK q : q = call[d]
      OBVIOUS
    <3>2. call'[d] = q
      BY <2>2, <3>1 DEF CachingInv, Caching!TypeOK
    <3>3. CallHolds(q)'
      BY <1>1, <3>1, CallHoldsStays
    <3> QED  BY <1>1, <3>1, <3>2, <3>3 DEF CallHolds, Timely
  <2> QED  BY <2>1, <2>2
<1>3. Caching!TypeOK'
  BY DEF CachingInv, EntryMoves, Caching!TypeOK, Caching!Time
<1>4. entry' # Nothing => Timely(entry)'
  BY DEF CachingInv, EntryMoves, Timely
<1> QED  BY <1>2, <1>3, <1>4 DEF CachingInv

LEMMA IdleCall ==
    ASSUME Caching!CacheAssumption
    PROVE  /\ Caching!NoCall \in Caching!Call /\ CallHolds(Caching!NoCall) /\ CallHolds(Caching!NoCall)'
           /\ Caching!NoCall.looked = 0
BY DEF Caching!CacheAssumption, Caching!NoCall, Caching!Call, Caching!Time, CallHolds

\* A call that ends leaves nothing.
LEMMA CallEnds ==
    ASSUME Caching!CacheAssumption, CachingInv, EntryMoves, expiryMap' \in 0..(MaxTime + Ttl) \cup {Nothing},
           UNCHANGED <<clock, store, wrapper>>, NEW c \in Callers, call' = [call EXCEPT ![c] = Caching!NoCall]
    PROVE  CachingInv'
<1>1. PICK s : s = Caching!NoCall
  OBVIOUS
<1>2. s \in Caching!Call /\ CallHolds(s)' /\ s.looked = 0
  BY <1>1, IdleCall
<1>3. s.looked <= clock /\ call' = [call EXCEPT ![c] = s]
  BY <1>1, <1>2 DEF CachingInv, Caching!TypeOK, Caching!Time
<1> QED  BY <1>2, <1>3, CachingMoves

LEMMA AskStep ==
    ASSUME Caching!CacheAssumption, CachingInv, NEW c \in Callers, NEW anew, Caching!Ask(c, anew)
    PROVE  CachingInv'
<1>1. PICK asks : asks = (~anew /\ (wrapper = "useCache" \/ expiryMap = Nothing \/ clock < expiryMap))
  OBVIOUS
<1>2. PICK at : at = IF ~asks THEN "fetch" ELSE IF store = "state" THEN "read" ELSE "memory"
  OBVIOUS
<1>3. PICK s : s = [Caching!NoCall EXCEPT !.pc = at, !.looked = clock]
  OBVIOUS
<1>4. /\ call' = [call EXCEPT ![c] = s] /\ UNCHANGED <<clock, store, wrapper, expiryMap>>
      /\ entry' = IF asks /\ store = "memory" /\ Caching!Expired(entry) THEN Nothing ELSE entry
  BY <1>1, <1>2, <1>3, Zenon DEF Caching!Ask
<1>5. at \in {"fetch", "read", "memory"} /\ (at = "read" => store = "state") /\ (at = "memory" => asks /\ store = "memory")
  BY <1>2 DEF CachingInv, Caching!TypeOK
<1>6. clock \in 0..MaxTime
  BY DEF CachingInv, Caching!TypeOK, Caching!Time
<1>7. s \in Caching!Call /\ s.pc = at /\ s.looked = clock
  BY <1>3, <1>5, <1>6, IdleCall DEF Caching!NoCall, Caching!Call, Caching!Time
<1>8. EntryMoves
  BY <1>4 DEF EntryMoves
<1>9. s.pc = "memory" /\ entry' # Nothing => s.looked <= entry'.exp
  BY <1>4, <1>5, <1>6, <1>7 DEF Caching!Expired, CachingInv, Caching!TypeOK, Caching!Entry
<1>10. CallHolds(s)'
  BY <1>4, <1>5, <1>6, <1>7, <1>9 DEF CallHolds
<1>11. expiryMap' \in 0..(MaxTime + Ttl) \cup {Nothing} /\ s.looked <= clock
  BY <1>4, <1>6, <1>7 DEF CachingInv, Caching!TypeOK
<1> QED  BY <1>4, <1>7, <1>8, <1>10, <1>11, CachingMoves

LEMMA ReadStep ==
    ASSUME Caching!CacheAssumption, CachingInv, NEW c \in Callers,
           \/ Caching!ReadMemory(c) \/ Caching!ReadState(c) \/ Caching!CleanState(c) \/ Caching!Test(c)
           \/ Caching!GetFails(c)
    PROVE  CachingInv'
<1>0. PICK q : q = call[c]
  OBVIOUS
<1>1. q \in Caching!Call /\ CallHolds(q) /\ q.looked <= clock /\ q.looked \in 0..MaxTime /\ clock \in 0..MaxTime
      /\ entry \in Caching!Entry \cup {Nothing} /\ (entry # Nothing => Timely(entry))
      /\ expiryMap \in 0..(MaxTime + Ttl) \cup {Nothing}
  BY <1>0 DEF CachingInv, Caching!TypeOK, Caching!Time, Caching!Call
<1>2. UNCHANGED <<clock, store, wrapper, expiryMap>> /\ (entry' = entry \/ entry' = Nothing)
  BY DEF Caching!ReadMemory, Caching!ReadState, Caching!CleanState, Caching!Test, Caching!GetFails
<1>3. EntryMoves
  BY <1>2 DEF EntryMoves
<1> SUFFICES ASSUME TRUE
             PROVE  \E s : s \in Caching!Call /\ call' = [call EXCEPT ![c] = s] /\ s.looked <= clock /\ CallHolds(s)'
  BY <1>1, <1>2, <1>3, CachingMoves
<1>4. CASE Caching!ReadMemory(c)
  <2>1. PICK at, seen : at = (IF entry = Nothing THEN "fetch" ELSE "hit") /\ seen = entry
    OBVIOUS
  <2>2. PICK s : s = [q EXCEPT !.pc = at, !.seen = seen]
    OBVIOUS
  <2>3. call' = [call EXCEPT ![c] = s] /\ q.pc = "memory"
    BY <1>0, <1>4, <2>1, <2>2 DEF Caching!ReadMemory, CachingInv, Caching!TypeOK
  <2>4. s \in Caching!Call /\ s.pc = at /\ s.looked = q.looked /\ s.seen = seen
    BY <1>1, <2>1, <2>2 DEF Caching!Call
  <2>5. CallHolds(s)'
    BY <1>1, <1>2, <2>1, <2>3, <2>4 DEF CallHolds, Timely
  <2> QED  BY <1>1, <2>3, <2>4, <2>5
<1>5. CASE Caching!ReadState(c)
  <2>1. PICK at, seen : at = (IF Caching!Expired(entry) THEN "clean" ELSE "keep") /\ seen = entry
    OBVIOUS
  <2>2. PICK s : s = [q EXCEPT !.pc = at, !.seen = seen]
    OBVIOUS
  <2>3. call' = [call EXCEPT ![c] = s] /\ q.pc = "read"
    BY <1>0, <1>5, <2>1, <2>2 DEF Caching!ReadState, CachingInv, Caching!TypeOK
  <2>4. s \in Caching!Call /\ s.pc = at /\ s.looked = q.looked /\ s.seen = seen
    BY <1>1, <2>1, <2>2 DEF Caching!Call
  <2>5. CallHolds(s)'
    BY <1>1, <1>2, <2>1, <2>3, <2>4 DEF CallHolds, Timely
  <2> QED  BY <1>1, <2>3, <2>4, <2>5
<1>6. CASE Caching!CleanState(c)
  <2>1. PICK s : s = [q EXCEPT !.pc = "test"]
    OBVIOUS
  <2>2. call' = [call EXCEPT ![c] = s] /\ q.pc = "clean"
    BY <1>0, <1>6, <2>1 DEF Caching!CleanState, CachingInv, Caching!TypeOK
  <2>3. s \in Caching!Call /\ s.pc = "test" /\ s.looked = q.looked /\ s.seen = q.seen
    BY <1>1, <2>1 DEF Caching!Call
  <2>4. CallHolds(s)'
    BY <1>1, <1>2, <2>2, <2>3 DEF CallHolds, Timely
  <2> QED  BY <1>1, <2>2, <2>3, <2>4
<1>7. CASE Caching!Test(c)
  <2>1. CASE call' = [call EXCEPT ![c].pc = "fetch", ![c].seen = Nothing]
    <3>1. PICK s : s = [q EXCEPT !.pc = "fetch", !.seen = Nothing]
      OBVIOUS
    <3>2. call' = [call EXCEPT ![c] = s]
      BY <1>0, <2>1, <3>1 DEF CachingInv, Caching!TypeOK
    <3>3. s \in Caching!Call /\ s.pc = "fetch" /\ s.looked = q.looked
      BY <1>1, <3>1 DEF Caching!Call
    <3>4. CallHolds(s)'
      BY <1>1, <1>2, <3>3 DEF CallHolds
    <3> QED  BY <1>1, <3>2, <3>3, <3>4
  <2>2. CASE /\ ~(q.seen = Nothing \/ Caching!Expired(q.seen))
             /\ call' = [call EXCEPT ![c].pc = "hit", ![c].looked = clock]
    <3>1. PICK looked : looked = clock
      OBVIOUS
    <3>2. PICK s : s = [q EXCEPT !.pc = "hit", !.looked = looked]
      OBVIOUS
    <3>3. call' = [call EXCEPT ![c] = s] /\ q.pc \in {"keep", "test"}
      BY <1>0, <1>7, <2>2, <3>1, <3>2 DEF Caching!Test, CachingInv, Caching!TypeOK
    <3>4. s \in Caching!Call /\ s.pc = "hit" /\ s.looked = looked /\ s.seen = q.seen
      BY <1>1, <3>1, <3>2 DEF Caching!Call, Caching!Time
    <3>5. q.seen \in Caching!Entry /\ looked <= q.seen.exp
      BY <1>1, <2>2, <3>1 DEF Caching!Expired, Caching!Call, Caching!Entry
    <3>6. CallHolds(s)'
      BY <1>1, <2>2, <3>3, <3>4, <3>5 DEF CallHolds, Timely
    <3>7. s.looked <= clock
      BY <1>1, <3>1, <3>4
    <3> QED  BY <3>3, <3>4, <3>6, <3>7
  <2> QED  BY <1>0, <1>7, <2>1, <2>2 DEF Caching!Test
<1>8. CASE Caching!GetFails(c)
  <2>1. PICK s : s = [q EXCEPT !.pc = "fetch", !.seen = Nothing]
    OBVIOUS
  <2>2. call' = [call EXCEPT ![c] = s]
    BY <1>0, <1>8, <2>1 DEF Caching!GetFails, CachingInv, Caching!TypeOK
  <2>3. s \in Caching!Call /\ s.pc = "fetch" /\ s.looked = q.looked
    BY <1>1, <2>1 DEF Caching!Call
  <2>4. CallHolds(s)'
    BY <1>1, <1>2, <2>3 DEF CallHolds
  <2> QED  BY <1>1, <2>2, <2>3, <2>4
<1> QED  BY <1>4, <1>5, <1>6, <1>7, <1>8

\* A result is late by no more than it was under way, whichever wrapper caches it.
LEMMA NewEntry ==
    ASSUME Caching!CacheAssumption, NEW now \in 0..MaxTime, NEW looked \in 0..MaxTime, looked <= now,
           NEW good \in 0..MaxTime, NEW until, NEW new, NEW cached \in {"useCache", "useCacheUntil"},
           until = (IF cached = "useCache" THEN now + Ttl ELSE good),
           new = [exp  |-> now + (IF cached = "useCache" THEN Ttl ELSE Caching!MaxOf(0, until - looked)),
                  good |-> Caching!MaxOf(until, looked),
                  took |-> IF cached = "useCache" THEN 0 ELSE now - looked]
    PROVE  until \in 0..(MaxTime + Ttl) /\ new \in Caching!Entry /\ Timely(new) /\ now <= new.exp
<1>0. MaxTime \in Nat /\ Ttl \in Nat
  BY DEF Caching!CacheAssumption
<1>1. CASE cached = "useCache"
  <2>1. until = now + Ttl /\ until \in 0..(MaxTime + Ttl) /\ now + Ttl \in 0..(2 * MaxTime + Ttl)
    BY <1>0, <1>1
  <2>2. new = [exp |-> now + Ttl, good |-> now + Ttl, took |-> 0]
    BY <1>0, <1>1, <2>1 DEF Caching!MaxOf
  <2> QED  BY <1>0, <2>1, <2>2 DEF Caching!Entry, Caching!Time, Timely
<1>2. CASE cached = "useCacheUntil"
  <2>1. PICK left, best, took : left = now + Caching!MaxOf(0, good - looked) /\ best = Caching!MaxOf(good, looked)
                                /\ took = now - looked
    OBVIOUS
  <2>2. /\ left \in 0..(2 * MaxTime + Ttl) /\ best \in 0..(MaxTime + Ttl) /\ took \in 0..MaxTime
        /\ left <= best + took /\ now <= left
    BY <1>0, <2>1 DEF Caching!MaxOf
  <2>3. new = [exp |-> left, good |-> best, took |-> took] /\ until = good
    BY <1>2, <2>1
  <2> QED  BY <1>0, <2>2, <2>3 DEF Caching!Entry, Caching!Time, Timely
<1> QED  BY <1>1, <1>2

LEMMA FetchedStep ==
    ASSUME Caching!CacheAssumption, CachingInv, NEW c \in Callers, NEW good \in 0..MaxTime, Caching!Fetched(c, good)
    PROVE  CachingInv'
<1>0. PICK q : q = call[c]
  OBVIOUS
<1>1. q \in Caching!Call /\ CallHolds(q) /\ q.looked <= clock /\ q.looked \in 0..MaxTime /\ clock \in 0..MaxTime
      /\ wrapper \in {"useCache", "useCacheUntil"} /\ entry \in Caching!Entry \cup {Nothing}
      /\ expiryMap \in 0..(MaxTime + Ttl) \cup {Nothing} /\ store \in {"state", "memory"}
  BY <1>0 DEF CachingInv, Caching!TypeOK, Caching!Time, Caching!Call
<1>2. PICK until : until = IF wrapper = "useCache" THEN clock + Ttl ELSE good
  OBVIOUS
<1>3. PICK new : new = [exp  |-> clock + (IF wrapper = "useCache" THEN Ttl ELSE Caching!MaxOf(0, until - q.looked)),
                        good |-> Caching!MaxOf(until, q.looked),
                        took |-> IF wrapper = "useCache" THEN 0 ELSE clock - q.looked]
  OBVIOUS
<1>4. until \in 0..(MaxTime + Ttl) /\ new \in Caching!Entry /\ Timely(new) /\ clock <= new.exp
  <2>1. PICK now, cached : now = clock /\ cached = wrapper
    OBVIOUS
  <2> QED  BY <1>1, <1>2, <1>3, <2>1, NewEntry
<1>5. /\ entry' = IF store = "memory" THEN new ELSE entry
      /\ call' = [call EXCEPT ![c] =
             IF wrapper = "useCache" THEN Caching!NoCall
             ELSE [Caching!NoCall EXCEPT !.pc = IF store = "memory" THEN "publish" ELSE "set",
                                         !.new = IF store = "memory" THEN Nothing ELSE new,
                                         !.until = until]]
      /\ UNCHANGED <<clock, store, wrapper, expiryMap>>
  BY <1>0, <1>2, <1>3, Zenon DEF Caching!Fetched
<1>6. new # Nothing
  BY <1>4 DEF Caching!Entry, Caching!Time, Caching!CacheAssumption
<1>7. EntryMoves
  BY <1>4, <1>5 DEF EntryMoves, Timely
<1>8. CASE wrapper = "useCache"
  <2>1. call' = [call EXCEPT ![c] = Caching!NoCall] /\ expiryMap' \in 0..(MaxTime + Ttl) \cup {Nothing}
    BY <1>1, <1>5, <1>8
  <2> QED  BY <1>5, <1>7, <2>1, CallEnds
<1>9. CASE wrapper # "useCache"
  <2>1. PICK at, kept : at = (IF store = "memory" THEN "publish" ELSE "set")
                        /\ kept = (IF store = "memory" THEN Nothing ELSE new)
    OBVIOUS
  <2>2. PICK s : s = [Caching!NoCall EXCEPT !.pc = at, !.new = kept, !.until = until]
    OBVIOUS
  <2>3. call' = [call EXCEPT ![c] = s]
    BY <1>5, <1>9, <2>1, <2>2
  <2>4. s \in Caching!Call /\ s.pc = at /\ s.new = kept /\ s.until = until /\ s.looked = 0
    BY <1>4, <2>1, <2>2, IdleCall DEF Caching!Call, Caching!NoCall
  <2>5. CallHolds(s)'
    BY <1>1, <1>4, <1>5, <1>6, <2>1, <2>4 DEF CallHolds, Timely
  <2>6. s.looked <= clock /\ expiryMap' \in 0..(MaxTime + Ttl) \cup {Nothing}
    BY <1>1, <1>5, <2>4
  <2> QED  BY <1>5, <1>7, <2>3, <2>4, <2>5, <2>6, CachingMoves
<1> QED  BY <1>8, <1>9

LEMMA WriteStep ==
    ASSUME Caching!CacheAssumption, CachingInv, NEW c \in Callers,
           \/ Caching!FetchFails(c) \/ Caching!SetState(c) \/ Caching!SetFails(c) \/ Caching!Publish(c)
    PROVE  CachingInv'
<1>0. PICK q : q = call[c]
  OBVIOUS
<1>1. q \in Caching!Call /\ CallHolds(q) /\ q.looked <= clock /\ clock \in 0..MaxTime
      /\ expiryMap \in 0..(MaxTime + Ttl) \cup {Nothing}
  BY <1>0 DEF CachingInv, Caching!TypeOK, Caching!Time, Caching!Call
<1>2. UNCHANGED <<clock, store, wrapper>>
  BY DEF Caching!FetchFails, Caching!SetState, Caching!SetFails, Caching!Publish
<1>3. CASE Caching!FetchFails(c)
  BY <1>1, <1>2, <1>3, CallEnds DEF Caching!FetchFails, EntryMoves
<1>4. CASE Caching!Publish(c)
  <2>1. q.pc = "publish" /\ expiryMap' = q.until /\ call' = [call EXCEPT ![c] = Caching!NoCall] /\ UNCHANGED entry
    BY <1>0, <1>4 DEF Caching!Publish
  <2>2. expiryMap' \in 0..(MaxTime + Ttl)
    BY <1>1, <2>1 DEF CallHolds
  <2> QED  BY <1>2, <2>1, <2>2, CallEnds DEF EntryMoves
<1>5. CASE Caching!SetState(c) \/ Caching!SetFails(c)
  <2>1. PICK s : s = [q EXCEPT !.pc = "publish", !.new = Nothing]
    OBVIOUS
  <2>2. q.pc = "set" /\ call' = [call EXCEPT ![c] = s] /\ UNCHANGED expiryMap /\ (entry' = q.new \/ UNCHANGED entry)
    BY <1>0, <1>5, <2>1 DEF Caching!SetState, Caching!SetFails, CachingInv, Caching!TypeOK
  <2>3. s \in Caching!Call /\ s.pc = "publish" /\ s.until = q.until /\ s.looked = q.looked
    BY <1>1, <2>1 DEF Caching!Call
  <2>4. CallHolds(s)'
    BY <1>1, <2>3 DEF CallHolds, Caching!Call
  <2>5. store = "state" /\ q.new # Nothing /\ Timely(q.new) /\ q.new \in Caching!Entry \cup {Nothing}
    BY <1>1, <2>2 DEF CallHolds, Caching!Call
  <2>6. EntryMoves
    BY <2>2, <2>5 DEF EntryMoves, Timely
  <2> QED  BY <1>1, <1>2, <2>2, <2>3, <2>4, <2>6, CachingMoves
<1> QED  BY <1>3, <1>4, <1>5

LEMMA OthersStep ==
    ASSUME Caching!CacheAssumption, CachingInv, Caching!Delete \/ Caching!Tick \/ Caching!Restart PROVE CachingInv'
<1>1. clock \in 0..MaxTime /\ \A c \in Callers : call[c].looked \in 0..MaxTime
  BY DEF CachingInv, Caching!TypeOK, Caching!Time, Caching!Call
<1>2. CASE Caching!Delete
  BY <1>2 DEF Caching!Delete, CachingInv, Caching!TypeOK, CallHolds, Timely
<1>3. CASE Caching!Tick
  <2>1. clock' \in 0..MaxTime /\ clock <= clock' /\ UNCHANGED <<store, wrapper, entry, expiryMap, call>>
    BY <1>1, <1>3 DEF Caching!Tick, Caching!CacheAssumption
  <2>2. \A c \in Callers : call[c].looked <= clock'
    BY <1>1, <2>1 DEF CachingInv
  <2> QED  BY <2>1, <2>2 DEF CachingInv, Caching!TypeOK, Caching!Time, CallHolds, Timely
<1>4. CASE Caching!Restart
  <2>1. PICK s : s = Caching!NoCall
    OBVIOUS
  <2>2. call' = [c \in Callers |-> s] /\ expiryMap' = Nothing /\ (entry' = entry \/ entry' = Nothing)
        /\ UNCHANGED <<clock, store, wrapper>>
    BY <1>4, <2>1 DEF Caching!Restart
  <2>3. s \in Caching!Call /\ CallHolds(s)' /\ s.looked <= clock
    BY <1>1, <2>1, IdleCall
  <2>4. \A c \in Callers : call'[c] = s
    BY <2>2
  <2>5. Caching!TypeOK' /\ (entry' # Nothing => Timely(entry)')
    BY <2>2, <2>3 DEF CachingInv, Caching!TypeOK, Caching!Time, Timely
  <2> QED  BY <2>2, <2>3, <2>4, <2>5 DEF CachingInv, CallHolds, Timely
<1> QED  BY <1>2, <1>3, <1>4

\* A cached value is answered no later past the time it is good for than its own fetch took, through either wrapper,
\* over the state or in memory, whatever deletes, restarts and failures come between (StateCache, useCacheUntil).
THEOREM StaleCorrect ==
    ASSUME Caching!CacheAssumption PROVE Caching!Spec => [](Caching!TypeOK /\ Caching!StaleBounded)
<1>1. Caching!Init => CachingInv
  <2> SUFFICES ASSUME Caching!Init PROVE CachingInv
    OBVIOUS
  <2>1. PICK s : s = Caching!NoCall
    OBVIOUS
  <2>2. s \in Caching!Call /\ CallHolds(s) /\ s.looked = 0
    BY <2>1, IdleCall
  <2>3. call = [c \in Callers |-> s]
    BY <2>1 DEF Caching!Init
  <2> QED  BY <2>2, <2>3 DEF Caching!Init, CachingInv, Caching!TypeOK, Caching!Time, Caching!CacheAssumption
<1>2. CachingInv /\ [Caching!Next]_(Caching!cacheVars) => CachingInv'
  <2> SUFFICES ASSUME CachingInv, [Caching!Next]_(Caching!cacheVars) PROVE CachingInv'
    OBVIOUS
  <2>1. ASSUME NEW c \in Callers, Caching!Work(c) \/ Caching!Trouble(c) PROVE CachingInv'
    <3>1. clock \in 0..MaxTime
      BY DEF CachingInv, Caching!TypeOK, Caching!Time
    <3>2. \A good : good \in clock..MaxTime \/ good \in 0..(clock - 1) => good \in 0..MaxTime
      BY <3>1 DEF Caching!CacheAssumption
    <3> QED  BY <2>1, <3>2, AskStep, ReadStep, FetchedStep, WriteStep DEF Caching!Work, Caching!Trouble
  <2>2. CASE UNCHANGED Caching!cacheVars
    BY <2>2 DEF CachingInv, Caching!cacheVars, Caching!TypeOK, CallHolds, Timely
  <2> QED  BY <2>1, <2>2, OthersStep DEF Caching!Next
<1>3. CachingInv => Caching!TypeOK /\ Caching!StaleBounded
  <2> SUFFICES ASSUME CachingInv, NEW c \in Callers, call[c].pc = "hit"
               PROVE  call[c].looked <= call[c].seen.good + call[c].seen.took
    BY DEF CachingInv, Caching!StaleBounded
  <2>1. call[c].looked \in Int /\ call[c].seen \in Caching!Entry
    BY DEF CachingInv, CallHolds, Caching!TypeOK, Caching!Call, Caching!Time
  <2> QED  BY <2>1 DEF CachingInv, CallHolds, Timely, Caching!Entry, Caching!Time
<1> QED  BY <1>1, <1>2, <1>3, PTL DEF Caching!Spec

==============================================================================
