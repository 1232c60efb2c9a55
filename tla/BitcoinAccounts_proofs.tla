------------------------ MODULE BitcoinAccounts_proofs ------------------------
\* Proofs about BitcoinAccounts, for any number of paths, ids and calls.
EXTENDS BitcoinAccounts, SequenceTheorems, TLAPS

\* The answers of a pair of writes come in together or the worker is stopped,
\* and no wallet is deleted while its synchronization is writing.
Orderly == SplitFailures = FALSE /\ SyncOverlaps = FALSE

-----------------------------------------------------------------------------
\* Types

\* A call past its wait has the turn, until it leaves a write behind.
TurnInv == \A c \in Calls : pc[c] \notin {"idle", "queued", "left"} => Turn(c)

TInv == TypeOK /\ TurnInv

LEMMA InitTypes == Init => TInv
<1> SUFFICES ASSUME Init PROVE TInv
  OBVIOUS
<1>1. NoIndex \in [Paths -> IdOrNone] /\ NoAccounts \in [Ids -> Entries]
  BY DEF NoIndex, NoAccounts, IdOrNone, Entries
<1>2. queue \in Seq(Calls)
  BY DEF Init
<1>3. TypeOK
  BY <1>1, <1>2 DEF Init, TypeOK, IdOrNone
<1>4. TurnInv
  BY DEF Init, TurnInv
<1> QED  BY <1>3, <1>4 DEF TInv

\* A call that leaves hands the turn on and keeps nothing.
LEMMA LeaveTypes ==
    ASSUME TInv, NEW c \in Calls, Leave(c),
           pc[c] \notin {"idle", "left"}, Turn(c)
    PROVE  /\ queue' \in Seq(Calls)
           /\ pc' \in [Calls -> {"idle", "queued", "lookup", "mend", "derive", "write", "left"}]
           /\ target' \in [Calls -> IdOrNone] /\ want' \in [Calls -> SUBSET Paths]
           /\ seenIndex' \in [Calls -> [Paths -> IdOrNone]]
           /\ seenAccounts' \in [Calls -> [Ids -> Entries]]
           /\ onway' \in [Calls -> SUBSET Stores]
           /\ found' \in [Calls -> [Paths -> IdOrNone]]
           /\ mend' \in [Calls -> SUBSET Paths] /\ fresh' \in [Calls -> SUBSET Paths]
           /\ TurnInv'
<1>1. NoIndex \in [Paths -> IdOrNone] /\ NoAccounts \in [Ids -> Entries]
  BY DEF NoIndex, NoAccounts, IdOrNone, Entries
<1>2. queue' \in Seq(Calls)
  BY DEF Leave, TInv, TypeOK, Turn
<1>3. TurnInv'
  BY DEF Leave, TInv, TypeOK, Turn, TurnInv
<1> QED
  BY <1>1, <1>2, <1>3 DEF Leave, Forget, TInv, TypeOK, IdOrNone

LEMMA ThrowTypes ==
    ASSUME TInv, NEW c \in Calls, Throw(c),
           pc[c] \notin {"idle", "left"}, Turn(c)
    PROVE  TInv'
BY LeaveTypes DEF Throw, TInv, TypeOK, stores, seen

LEMMA StepTypes == TInv /\ [Next]_vars => TInv'
<1> SUFFICES ASSUME TInv, [Next]_vars PROVE TInv'
  OBVIOUS
<1>a. NoIndex \in [Paths -> IdOrNone] /\ NoAccounts \in [Ids -> Entries]
  BY DEF NoIndex, NoAccounts, IdOrNone, Entries
<1> USE DEF TInv, TypeOK, TurnInv, Turn
<1>1. ASSUME NEW c \in Calls, Ask(c) PROVE TInv'
  <2>1. ASSUME NEW S \in SUBSET Paths, Create(c, S) PROVE TInv'
    BY <2>1 DEF Create, stores, seen
  <2>2. ASSUME NEW i \in Ids, Delete(c, i) PROVE TInv'
    <3>1. target' \in [Calls -> IdOrNone]
      BY <2>2 DEF Delete, IdOrNone
    <3> QED  BY <2>2, <3>1 DEF Delete, stores, seen
  <2> QED  BY <1>1, <2>1, <2>2 DEF Ask
<1>2. ASSUME NEW c \in Calls, Step(c) PROVE TInv'
  <2>1. CASE BeginCreate(c)
    BY <2>1 DEF BeginCreate, stores, seen, Stores
  <2>2. CASE ReadIndex(c)
    BY <2>2 DEF ReadIndex, stores, seen
  <2>3. CASE ReadAccounts(c)
    BY <2>3 DEF ReadAccounts, stores, seen
  <2>4. CASE Resolve(c)
    BY <2>4, <1>a DEF Resolve, EntriesToCreate, stores, seen
  <2>5. CASE ResolveThrows(c) \/ CreateThrows(c)
    BY <2>5, ThrowTypes DEF ResolveThrows, CreateThrows
  <2>6. CASE Mend(c)
    BY <2>6 DEF Mend, locals, seen
  <2>7. CASE Derive(c)
    BY <2>7 DEF Derive, stores, Stores
  <2>8. CASE Return(c)
    <3>1. promised' \in [Paths -> IdOrNone]
      <4>1. found[c] \in [Paths -> IdOrNone]
        OBVIOUS
      <4> QED  BY <2>8, <4>1 DEF Return
    <3>2. pc[c] \notin {"idle", "left"} /\ Turn(c) /\ Leave(c)
      BY <2>8 DEF Return
    <3>3. accounts' = accounts /\ index' = index /\ syncing' = syncing /\ used' = used
      BY <2>8 DEF Return, stores
    <3> HIDE DEF TInv, TypeOK, TurnInv
    <3>4. TInv
      OBVIOUS
    <3> QED  BY <3>1, <3>2, <3>3, <3>4, LeaveTypes DEF TInv, TypeOK
  <2>9. CASE BeginDelete(c)
    BY <2>9 DEF BeginDelete, stores, seen, Stores, IdOrNone
  <2>10. CASE DeleteThrows(c)
    BY <2>10, ThrowTypes DEF DeleteThrows
  <2>11. ASSUME NEW s \in Stores, Land(c, s) PROVE TInv'
    <3>1. accounts' \in [Ids -> Entries] /\ index' \in [Paths -> IdOrNone]
      <4> DEFINE q(i) == CHOOSE p \in fresh[c] : found[c][p] = i
      <4>1. fresh[c] \subseteq Paths /\ found[c] \in [Paths -> IdOrNone]
        OBVIOUS
      <4>2. ASSUME NEW i \in Ids, \E p \in fresh[c] : found[c][p] = i PROVE q(i) \in Paths
        <5>1. q(i) \in fresh[c]
          BY <4>2
        <5> QED  BY <4>1, <5>1
      <4>3. CASE s = "index"
        BY <2>11, <4>1, <4>3 DEF Land
      <4>4. CASE s # "index"
        <5>1. index' = index
              /\ accounts' = [i \in Ids |->
                   IF i = target[c] THEN Absent
                   ELSE IF \E p \in fresh[c] : found[c][p] = i THEN q(i) ELSE accounts[i]]
          BY <2>11, <4>4 DEF Land
        <5> HIDE DEF q
        <5> QED  BY <4>2, <5>1 DEF Entries
      <4> QED  BY <4>3, <4>4
    <3>0. syncing' = syncing /\ queue' = queue /\ used' = used /\ promised' = promised
      BY <2>11 DEF Land, seen
    <3>2. CASE pc[c] = "left"
      <4>1. pc' = [pc EXCEPT ![c] = "idle"] /\ Forget(c)
        BY <2>11, <3>2 DEF Land
      <4> QED  BY <3>0, <3>1, <4>1, <1>a DEF Forget, IdOrNone
    <3>3. CASE pc[c] # "left"
      <4>1. /\ onway' = [onway EXCEPT ![c] = @ \ {s}]
            /\ UNCHANGED <<pc, target, want, seenIndex, seenAccounts, found, mend, fresh>>
        BY <2>11, <3>3 DEF Land
      <4> QED  BY <3>0, <3>1, <4>1
    <3> QED  BY <3>2, <3>3
  <2>12. ASSUME NEW s \in Stores, WriteFails(c, s) PROVE TInv'
    <3>1. CASE Throw(c)
      BY <2>12, <3>1, ThrowTypes DEF WriteFails
    <3>2. CASE ~Throw(c)
      <4>1. queue' \in Seq(Calls) /\ pc' = [pc EXCEPT ![c] = "left"]
        <5>1. pc[c] = "write" /\ queue' = Tail(queue) /\ pc' = [pc EXCEPT ![c] = "left"]
          BY <2>12, <3>2 DEF WriteFails
        <5>2. queue \in Seq(Calls) /\ queue # <<>>
          BY <5>1
        <5> QED  BY <5>1, <5>2
      <4> QED  BY <2>12, <3>2, <4>1 DEF WriteFails, stores, seen
    <3> QED  BY <3>1, <3>2
  <2>13. CASE LandFails(c)
    BY <2>13, <1>a DEF LandFails, Forget, stores, seen, IdOrNone
  <2> QED  BY <1>2, <2>1, <2>2, <2>3, <2>4, <2>5, <2>6, <2>7, <2>8, <2>9,
              <2>10, <2>11, <2>12, <2>13 DEF Step
<1>3. ASSUME NEW i \in Ids, Sync(i) PROVE TInv'
  BY <1>3 DEF Sync, SyncWallet, SyncInscriptions, SyncThrows, stores, locals, seen, Entries
<1>4. CASE Stop
  <2>1. queue' \in Seq(Calls)
    BY <1>4 DEF Stop
  <2> QED  BY <1>4, <1>a, <2>1 DEF Stop, stores, seen, IdOrNone
<1>5. CASE UNCHANGED vars
  BY <1>5 DEF vars, stores, locals, seen
<1> QED  BY <1>1, <1>2, <1>3, <1>4, <1>5 DEF Next

\* Types hold whatever overlaps or fails.
THEOREM TypeCorrect == Spec => []TypeOK
<1>1. TInv => TypeOK
  BY DEF TInv
<1> QED  BY <1>1, InitTypes, StepTypes, PTL DEF Spec

-----------------------------------------------------------------------------
\* One wallet per path

\* One call at a time is past its wait, and leaves nothing behind.
Alone == \A c \in Calls : pc[c] \notin {"idle", "queued"} => Turn(c) /\ pc[c] # "left"

\* Ids of wallets, of index entries and of the client were given out; an index
\* entry that leads to a wallet leads to the one of its path.
StoresInv ==
    /\ \A i \in Ids : accounts[i] # Absent => i \in used
    /\ \A p \in Paths : index[p] # NoId => index[p] \in used
    /\ \A p \in Paths : index[p] # NoId /\ accounts[index[p]] # Absent
                            => accounts[index[p]] = p
    /\ \A i \in syncing : accounts[i] \in Paths

\* What a creation has found is stored, what it makes is not there yet.
Finding(c) ==
    /\ mend[c] \subseteq want[c] \ fresh[c]
    /\ \A p \in fresh[c] : found[c][p] = NoId
    /\ \A p \in fresh[c] : \A i \in Ids : accounts[i] # p
Making(c) ==
    /\ \A p \in fresh[c] : found[c][p] \in used
    /\ \A p, q \in fresh[c] : found[c][p] = found[c][q] => p = q
    /\ \A p \in fresh[c], q \in Paths : q # p => index[q] # found[c][p]
    /\ "accounts" \in onway[c] =>
           \A p \in fresh[c] : /\ accounts[found[c][p]] = Absent
                               /\ \A i \in Ids : accounts[i] # p
    /\ "accounts" \notin onway[c] =>
           \A p \in fresh[c] : accounts[found[c][p]] = p
Found(c) == \A p \in want[c] \ fresh[c] :
                found[c][p] \in Ids /\ accounts[found[c][p]] = p
Removing(c) ==
    /\ found[c] = NoIndex
    /\ \A q \in Paths : promised[q] # target[c]

CallInv(c) ==
    /\ pc[c] \in {"idle", "queued", "lookup"} =>
           found[c] = NoIndex /\ fresh[c] = {} /\ mend[c] = {}
    /\ pc[c] = "idle" => target[c] = NoId
    /\ pc[c] \in {"lookup", "mend", "derive"} => target[c] = NoId
    /\ pc[c] = "lookup" =>
           /\ "index" \notin onway[c] => seenIndex[c] = index
           /\ "accounts" \notin onway[c] => seenAccounts[c] = accounts
    /\ pc[c] \in {"mend", "derive"} => Finding(c)
    /\ pc[c] \in {"mend", "derive", "write"} /\ target[c] = NoId =>
           fresh[c] \subseteq want[c] /\ Found(c)
    /\ pc[c] = "write" /\ target[c] = NoId => Making(c)
    /\ pc[c] = "write" /\ target[c] # NoId => Removing(c)

PathInv ==
    /\ TypeOK /\ Alone /\ EveryEntryWhole /\ OneAccountPerPath /\ PromiseKept
    /\ StoresInv /\ \A c \in Calls : CallInv(c)

LEMMA InitPath == Init => PathInv
<1> SUFFICES ASSUME Init PROVE PathInv
  OBVIOUS
<1>1. TypeOK
  BY InitTypes DEF TInv
<1>2. Alone /\ EveryEntryWhole /\ OneAccountPerPath /\ PromiseKept /\ StoresInv
  BY NamesAssumption DEF Init, Alone, EveryEntryWhole, OneAccountPerPath, PromiseKept,
     StoresInv, NoAccounts, NoIndex
<1>3. \A c \in Calls : CallInv(c)
  BY DEF Init, CallInv
<1> QED  BY <1>1, <1>2, <1>3 DEF PathInv

\* Only the call with the turn is active, so what it does disturbs no other.
Frame(c) ==
    \A d \in Calls \ {c} :
        /\ pc'[d] = pc[d] /\ target'[d] = target[d]
        /\ found'[d] = found[d] /\ mend'[d] = mend[d] /\ fresh'[d] = fresh[d]

LEMMA OthersKept ==
    ASSUME PathInv, NEW c \in Calls, Turn(c), Frame(c)
    PROVE  \A d \in Calls \ {c} : CallInv(d)' /\ pc'[d] \in {"idle", "queued"}
<1> SUFFICES ASSUME NEW d \in Calls \ {c} PROVE CallInv(d)' /\ pc'[d] \in {"idle", "queued"}
  OBVIOUS
<1>1. pc[d] \in {"idle", "queued"}
  BY DEF PathInv, Alone, Turn
<1>2. CallInv(d)
  BY DEF PathInv
<1>3. /\ pc'[d] = pc[d] /\ target'[d] = target[d]
      /\ found'[d] = found[d] /\ mend'[d] = mend[d] /\ fresh'[d] = fresh[d]
  BY DEF Frame
<1> QED  BY <1>1, <1>2, <1>3 DEF CallInv

LEMMA LeaveFrame ==
    ASSUME PathInv, NEW c \in Calls, Turn(c), Leave(c)
    PROVE  Alone' /\ \A d \in Calls : CallInv(d)'
<1> USE DEF PathInv, TypeOK
<1>1. Frame(c)
  BY DEF Leave, Forget, Frame
<1>2. \A d \in Calls \ {c} : CallInv(d)' /\ pc'[d] \in {"idle", "queued"}
  BY <1>1, OthersKept
<1>3. /\ pc'[c] = "idle" /\ target'[c] = NoId
      /\ found'[c] = NoIndex /\ fresh'[c] = {} /\ mend'[c] = {}
  BY DEF Leave, Forget
<1>4. CallInv(c)'
  BY <1>3 DEF CallInv
<1>5. Alone'
  BY <1>2, <1>3 DEF Alone
<1> QED  BY <1>2, <1>4, <1>5

\* The invariants of the stores are about persisted state only.
StoresKept ==
    EveryEntryWhole /\ OneAccountPerPath /\ PromiseKept /\ StoresInv

LEMMA ThrowPath ==
    ASSUME PathInv, NEW c \in Calls, Turn(c), Throw(c)
    PROVE  StoresKept' /\ Alone' /\ \A d \in Calls : CallInv(d)'
BY LeaveFrame DEF Throw, PathInv, StoresKept, stores, seen, EveryEntryWhole,
   OneAccountPerPath, PromiseKept, StoresInv

LEMMA AskPath ==
    ASSUME PathInv, NEW c \in Calls, Ask(c)
    PROVE  StoresKept' /\ Alone' /\ \A d \in Calls : CallInv(d)'
<1> USE DEF PathInv, TypeOK
<1>1. /\ pc[c] = "idle" /\ pc' = [pc EXCEPT ![c] = "queued"] /\ queue' = Append(queue, c)
      /\ UNCHANGED <<stores, seenIndex, seenAccounts, onway, found, mend, fresh, syncing, seen>>
      /\ \A d \in Calls \ {c} : target'[d] = target[d] /\ want'[d] = want[d]
  BY DEF Ask, Create, Delete
<1>2. StoresKept'
  BY <1>1 DEF StoresKept, stores, seen, EveryEntryWhole, OneAccountPerPath, PromiseKept, StoresInv
<1>3. Alone'
  <2> SUFFICES ASSUME NEW d \in Calls, pc'[d] \notin {"idle", "queued"}
               PROVE  Turn(d)' /\ pc'[d] # "left"
    BY DEF Alone
  <2>1. d # c /\ pc'[d] = pc[d]
    BY <1>1
  <2>2. Turn(d) /\ pc[d] # "left"
    BY <2>1 DEF Alone
  <2>3. queue \in Seq(Calls) /\ queue # <<>> /\ Head(queue) = d
    BY <2>2 DEF Turn
  <2>4. Append(queue, c) # <<>> /\ Head(Append(queue, c)) = d
    <3> HIDE DEF PathInv, TypeOK
    <3>1. Append(queue, c) # <<>>
      BY <2>3, AppendProperties
    <3>2. Head(Append(queue, c)) = IF queue = <<>> THEN c ELSE Head(queue)
      BY <2>3, HeadTailAppend
    <3> QED  BY <2>3, <3>1, <3>2
  <2> QED  BY <1>1, <2>1, <2>2, <2>4 DEF Turn
<1>4. ASSUME NEW d \in Calls PROVE CallInv(d)'
  <2>1. CallInv(d)
    OBVIOUS
  <2>2. CASE d = c
    BY <1>1, <2>1, <2>2 DEF CallInv
  <2>3. CASE d # c
    <3>1. /\ pc'[d] = pc[d] /\ target'[d] = target[d] /\ want'[d] = want[d]
          /\ accounts' = accounts /\ index' = index /\ promised' = promised /\ used' = used
          /\ found' = found /\ mend' = mend /\ fresh' = fresh /\ onway' = onway
          /\ seenIndex' = seenIndex /\ seenAccounts' = seenAccounts
      BY <1>1, <2>3 DEF stores, seen
    <3> QED  BY <2>1, <3>1 DEF CallInv, Finding, Making, Found, Removing
  <2> QED  BY <2>2, <2>3
<1> QED  BY <1>2, <1>3, <1>4

\* A step of the call with the turn that leaves the stores alone.
LEMMA QuietPath ==
    ASSUME PathInv, NEW c \in Calls, Turn(c), Frame(c), queue' = queue,
           UNCHANGED <<stores, syncing, promised>>, used \subseteq used',
           pc'[c] # "left", CallInv(c)'
    PROVE  StoresKept' /\ Alone' /\ \A d \in Calls : CallInv(d)'
<1>1. \A d \in Calls \ {c} : CallInv(d)' /\ pc'[d] \in {"idle", "queued"}
  BY OthersKept
<1>2. Alone'
  BY <1>1 DEF Alone, Turn
<1>3. StoresKept'
  BY DEF PathInv, StoresKept, stores, EveryEntryWhole, OneAccountPerPath, PromiseKept, StoresInv
<1> QED  BY <1>1, <1>2, <1>3

LEMMA LookupPath ==
    ASSUME PathInv, NEW c \in Calls,
           BeginCreate(c) \/ ReadIndex(c) \/ ReadAccounts(c)
    PROVE  StoresKept' /\ Alone' /\ \A d \in Calls : CallInv(d)'
<1> USE DEF TypeOK
<1>0. TypeOK /\ Alone /\ CallInv(c)
  BY DEF PathInv
<1>1. Turn(c)
  BY <1>0 DEF BeginCreate, ReadIndex, ReadAccounts, Alone
<1>2. /\ pc'[c] = "lookup" /\ Frame(c) /\ queue' = queue
      /\ UNCHANGED <<stores, target, want, found, mend, fresh, syncing, seen>>
  BY <1>0 DEF BeginCreate, ReadIndex, ReadAccounts, Frame
<1>3. CallInv(c)'
  <2>1. target[c] = NoId /\ found[c] = NoIndex /\ fresh[c] = {} /\ mend[c] = {}
    BY <1>0 DEF BeginCreate, ReadIndex, ReadAccounts, CallInv
  <2>2. /\ "index" \notin onway'[c] => seenIndex'[c] = index
        /\ "accounts" \notin onway'[c] => seenAccounts'[c] = accounts
    <3>1. CASE BeginCreate(c)
      BY <1>0, <3>1 DEF BeginCreate, Stores
    <3>2. CASE ReadIndex(c)
      BY <1>0, <3>2 DEF ReadIndex, CallInv
    <3>3. CASE ReadAccounts(c)
      BY <1>0, <3>3 DEF ReadAccounts, CallInv
    <3> QED  BY <3>1, <3>2, <3>3
  <2> QED  BY <1>2, <2>1, <2>2 DEF CallInv, stores
<1> QED  BY <1>1, <1>2, <1>3, QuietPath DEF seen

\* With both stores read, what is found is stored and what is not is not.
LEMMA ResolvePath ==
    ASSUME PathInv, NEW c \in Calls, Resolve(c)
    PROVE  StoresKept' /\ Alone' /\ \A d \in Calls : CallInv(d)'
<1> USE DEF TypeOK
<1>0. TypeOK /\ Alone /\ CallInv(c) /\ StoresInv /\ EveryEntryWhole
  BY DEF PathInv
<1>1. Turn(c) /\ seenIndex[c] = index /\ seenAccounts[c] = accounts /\ target[c] = NoId
  BY <1>0 DEF Resolve, Alone, CallInv
<1>2. PICK f \in [Paths -> IdOrNone] :
          /\ \A p \in Paths :
                \/ p \notin want[c] /\ f[p] = NoId
                \/ p \in want[c] /\ Indexed(c, p) /\ f[p] = seenIndex[c][p]
                \/ p \in want[c] /\ ~Indexed(c, p) /\ f[p] \in WithPath(c, p)
                \/ p \in want[c] /\ ~Indexed(c, p) /\ WithPath(c, p) = {} /\ f[p] = NoId
          /\ found' = [found EXCEPT ![c] = f]
          /\ fresh' = [fresh EXCEPT ![c] = {p \in want[c] : f[p] = NoId}]
          /\ mend' = [mend EXCEPT ![c] = {p \in want[c] : ~Indexed(c, p) /\ f[p] # NoId}]
          /\ pc' = [pc EXCEPT ![c] = IF {p \in want[c] : ~Indexed(c, p) /\ f[p] # NoId} = {}
                                     THEN "derive" ELSE "mend"]
  BY DEF Resolve, EntriesToCreate
<1>3. /\ found'[c] = f /\ fresh'[c] = {p \in want[c] : f[p] = NoId}
      /\ mend'[c] = {p \in want[c] : ~Indexed(c, p) /\ f[p] # NoId}
      /\ pc'[c] \in {"derive", "mend"}
  BY <1>0, <1>2
<1>4. UNCHANGED <<stores, queue, target, want, onway, syncing, seen>>
  BY DEF Resolve, EntriesToCreate
<1>5. \A p \in want[c] : f[p] # NoId => f[p] \in Ids /\ accounts[f[p]] = p
  BY <1>0, <1>1, <1>2, NamesAssumption DEF Indexed, WithPath, StoresInv, IdOrNone
<1>6. \A p \in want[c] : f[p] = NoId => \A i \in Ids : accounts[i] # p
  BY <1>0, <1>1, <1>2, NamesAssumption DEF Indexed, WithPath, IdOrNone
<1>7. CallInv(c)'
  <2>1. Finding(c)'
    BY <1>3, <1>4, <1>6 DEF Finding, stores
  <2>2. fresh'[c] \subseteq want'[c] /\ Found(c)'
    BY <1>3, <1>4, <1>5 DEF Found, stores
  <2> QED  BY <1>1, <1>3, <1>4, <2>1, <2>2 DEF CallInv
<1>8. Frame(c)
  BY <1>0, <1>2, <1>4 DEF Frame
<1> QED  BY <1>1, <1>3, <1>4, <1>7, <1>8, QuietPath DEF seen

\* A repaired index entry leads to the wallet of its path.
LEMMA MendPath ==
    ASSUME PathInv, NEW c \in Calls, Mend(c)
    PROVE  StoresKept' /\ Alone' /\ \A d \in Calls : CallInv(d)'
<1> USE DEF TypeOK
<1>0. TypeOK /\ Alone /\ CallInv(c) /\ StoresInv
  BY DEF PathInv
<1>1. Turn(c) /\ target[c] = NoId /\ Finding(c) /\ Found(c) /\ fresh[c] \subseteq want[c]
  BY <1>0 DEF Mend, Alone, CallInv
<1>2. /\ pc'[c] = "derive" /\ Frame(c)
      /\ UNCHANGED <<accounts, queue, locals, syncing, seen>>
  BY <1>0 DEF Mend, Frame, locals
<1>3. \A p \in Paths : \/ index'[p] = index[p]
                       \/ index'[p] = found[c][p] /\ index'[p] \in Ids /\ accounts[index'[p]] = p
  BY <1>0, <1>1 DEF Mend, Finding, Found
<1>4. StoresKept'
  <2>1. StoresInv'
    <3>1. accounts' = accounts /\ used' = used /\ syncing' = syncing
      BY <1>2 DEF seen
    <3>2. \A p \in Paths : index'[p] # NoId => index'[p] \in used
      <4>1. \A i \in Ids, p \in Paths : accounts[i] = p => i \in used
        BY <1>0, NamesAssumption DEF StoresInv
      <4> QED  BY <1>0, <1>3, <4>1 DEF StoresInv
    <3>3. \A p \in Paths : index'[p] # NoId /\ accounts[index'[p]] # Absent
                               => accounts[index'[p]] = p
      BY <1>0, <1>3 DEF StoresInv
    <3> QED  BY <1>0, <3>1, <3>2, <3>3 DEF StoresInv
  <2> QED  BY <1>2, <2>1 DEF PathInv, StoresKept, EveryEntryWhole, OneAccountPerPath, PromiseKept, seen
<1>5. CallInv(c)'
  <2>1. /\ want' = want /\ found' = found /\ mend' = mend /\ fresh' = fresh
        /\ accounts' = accounts /\ target' = target
    BY <1>2 DEF locals
  <2> QED  BY <1>1, <1>2, <2>1 DEF CallInv, Finding, Found
<1>6. \A d \in Calls \ {c} : CallInv(d)' /\ pc'[d] \in {"idle", "queued"}
  BY <1>1, <1>2, OthersKept
<1> QED  BY <1>1, <1>2, <1>4, <1>5, <1>6 DEF Alone, Turn

\* Derived ids are new: no wallet and no index entry has them.
LEMMA DerivePath ==
    ASSUME PathInv, NEW c \in Calls, Derive(c)
    PROVE  StoresKept' /\ Alone' /\ \A d \in Calls : CallInv(d)'
<1> USE DEF TypeOK
<1>0. TypeOK /\ Alone /\ CallInv(c) /\ StoresInv
  BY DEF PathInv
<1>1. Turn(c) /\ target[c] = NoId /\ Finding(c) /\ Found(c) /\ fresh[c] \subseteq want[c]
  BY <1>0 DEF Derive, Alone, CallInv
<1>2. PICK f \in [Paths -> IdOrNone] :
          /\ \A p \in Paths \ fresh[c] : f[p] = found[c][p]
          /\ \A p \in fresh[c] : f[p] \in Ids \ used
          /\ \A p, q \in fresh[c] : f[p] = f[q] => p = q
          /\ found' = [found EXCEPT ![c] = f]
          /\ used' = used \cup {f[p] : p \in fresh[c]}
  BY DEF Derive
<1>3. /\ pc'[c] = "write" /\ onway'[c] = Stores /\ found'[c] = f
      /\ UNCHANGED <<stores, queue, target, want, mend, fresh, syncing, promised>>
      /\ Frame(c)
  BY <1>0, <1>2 DEF Derive, Frame
<1>4. Making(c)'
  <2>1. \A p \in fresh[c] : accounts[f[p]] = Absent
    BY <1>0, <1>2 DEF StoresInv
  <2>2. \A p \in fresh[c], q \in Paths : index[q] # f[p]
    BY <1>0, <1>2, NamesAssumption DEF StoresInv
  <2>3. \A p \in fresh[c] : f[p] \in used'
    BY <1>2
  <2>4. \A p \in fresh[c] : \A i \in Ids : accounts[i] # p
    BY <1>1 DEF Finding
  <2> QED  BY <1>2, <1>3, <2>1, <2>2, <2>3, <2>4 DEF Making, stores, Stores
<1>5. Found(c)'
  BY <1>0, <1>1, <1>2, <1>3 DEF Found, stores
<1>6. CallInv(c)'
  BY <1>1, <1>3, <1>4, <1>5 DEF CallInv
<1>7. used \subseteq used'
  BY <1>2
<1> QED  BY <1>1, <1>3, <1>6, <1>7, QuietPath

\* What a creation returns is stored.
LEMMA ReturnPath ==
    ASSUME PathInv, NEW c \in Calls, Return(c)
    PROVE  StoresKept' /\ Alone' /\ \A d \in Calls : CallInv(d)'
<1> USE DEF TypeOK
<1>0. TypeOK /\ Alone /\ CallInv(c) /\ PromiseKept
  BY DEF PathInv
<1>1. Turn(c) /\ Leave(c) /\ UNCHANGED <<stores, syncing, used>>
  BY <1>0 DEF Return, Alone
<1>2. ASSUME target[c] = NoId, NEW p \in want[c] PROVE accounts[found[c][p]] = p
  <2>1. Found(c)
    BY <1>0, <1>2 DEF Return, CallInv
  <2>2. CASE p \in fresh[c]
    <3>1. pc[c] = "write" /\ onway[c] = {}
      BY <2>2 DEF Return
    <3>2. Making(c)
      BY <1>0, <1>2, <3>1 DEF CallInv
    <3> QED  BY <2>2, <3>1, <3>2 DEF Making
  <2> QED  BY <1>2, <2>1, <2>2 DEF Found
<1>3. PromiseKept'
  <2>1. \A p \in Paths : \/ promised'[p] = promised[p]
                         \/ target[c] = NoId /\ p \in want[c] /\ promised'[p] = found[c][p]
    BY <1>0 DEF Return
  <2> QED  BY <1>0, <1>1, <1>2, <2>1 DEF PromiseKept, stores
<1>4. EveryEntryWhole' /\ OneAccountPerPath' /\ StoresInv'
  BY <1>1 DEF PathInv, EveryEntryWhole, OneAccountPerPath, StoresInv, stores
<1> QED  BY <1>1, <1>3, <1>4, LeaveFrame DEF StoresKept

\* An account being deleted is promised no more.
LEMMA BeginDeletePath ==
    ASSUME PathInv, NEW c \in Calls, BeginDelete(c)
    PROVE  StoresKept' /\ Alone' /\ \A d \in Calls : CallInv(d)'
<1> USE DEF TypeOK
<1>0. TypeOK /\ Alone /\ CallInv(c) /\ PromiseKept
  BY DEF PathInv
<1>1. /\ pc[c] = "queued" /\ Turn(c) /\ target[c] # NoId /\ pc'[c] = "write" /\ Frame(c)
      /\ UNCHANGED <<stores, queue, target, found, syncing, used>>
      /\ \A p \in Paths : promised'[p] = IF promised[p] = target[c] THEN NoId ELSE promised[p]
  BY <1>0 DEF BeginDelete, Frame
<1>2. CallInv(c)'
  <2>1. found[c] = NoIndex
    BY <1>0, <1>1 DEF CallInv
  <2> QED  BY <1>1, <2>1 DEF CallInv, Removing
<1>3. \A d \in Calls \ {c} : CallInv(d)' /\ pc'[d] \in {"idle", "queued"}
  BY <1>1, OthersKept
<1>4. StoresKept'
  BY <1>0, <1>1 DEF PathInv, StoresKept, stores, EveryEntryWhole, OneAccountPerPath,
     PromiseKept, StoresInv
<1> QED  BY <1>1, <1>2, <1>3, <1>4 DEF Alone, Turn

\* A write of a creation: new wallets and index entries of paths that had none.
LEMMA LandCreation ==
    ASSUME Orderly, PathInv, NEW c \in Calls, NEW s \in Stores, Land(c, s), target[c] = NoId
    PROVE  StoresKept' /\ CallInv(c)'
<1> USE DEF TypeOK
<1>0. /\ TypeOK /\ Alone /\ CallInv(c) /\ StoresInv /\ EveryEntryWhole
      /\ OneAccountPerPath /\ PromiseKept
  BY DEF PathInv
<1>1. pc[c] = "write" /\ Making(c) /\ Found(c) /\ fresh[c] \subseteq want[c]
  BY <1>0 DEF Land, Alone, CallInv
<1>2. /\ UNCHANGED <<queue, pc, target, want, found, mend, fresh, syncing, used, promised>>
      /\ onway' = [onway EXCEPT ![c] = @ \ {s}] /\ s \in onway[c]
  BY <1>1 DEF Land, seen
<1>3. ASSUME NEW p \in fresh[c]
      PROVE  found[c][p] \in Ids /\ found[c][p] \in used /\ found[c][p] # NoId
  BY <1>0, <1>1, NamesAssumption DEF Making
<1>4. ASSUME NEW p \in fresh[c], NEW q \in fresh[c], found[c][p] = found[c][q] PROVE p = q
  BY <1>1, <1>4 DEF Making
<1>5. CASE s = "index"
  <2>1. /\ accounts' = accounts
        /\ \A p \in Paths : index'[p] = IF p \in fresh[c] THEN found[c][p] ELSE index[p]
    BY <1>5 DEF Land
  <2>2. \A p \in fresh[c] : accounts[found[c][p]] \in {Absent, p}
    BY <1>1 DEF Making
  <2>3. StoresInv'
    <3>1. \A p \in Paths : index'[p] # NoId => index'[p] \in used
      BY <1>0, <1>3, <2>1 DEF StoresInv
    <3>2. \A p \in Paths : index'[p] # NoId /\ accounts[index'[p]] # Absent
                               => accounts[index'[p]] = p
      BY <1>0, <2>1, <2>2 DEF StoresInv
    <3> QED  BY <1>0, <1>2, <2>1, <3>1, <3>2 DEF StoresInv
  <2>4. Making(c)'
    <3>1. "accounts" \in onway'[c] <=> "accounts" \in onway[c]
      BY <1>0, <1>2, <1>5
    <3>2. \A p \in fresh[c], r \in Paths : r # p => index'[r] # found[c][p]
      <4> SUFFICES ASSUME NEW p \in fresh[c], NEW r \in Paths, r # p
                   PROVE  index'[r] # found[c][p]
        OBVIOUS
      <4>1. CASE r \in fresh[c]
        BY <1>4, <2>1, <4>1
      <4>2. CASE r \notin fresh[c]
        BY <1>1, <2>1, <4>2 DEF Making
      <4> QED  BY <4>1, <4>2
    <3>3. accounts' = accounts /\ found' = found /\ fresh' = fresh /\ used' = used
      BY <1>2, <2>1
    <3>4. "accounts" \in onway'[c] =>
              \A p \in fresh[c] : accounts[found[c][p]] = Absent /\ \A i \in Ids : accounts[i] # p
      BY <1>1, <3>1 DEF Making
    <3>5. "accounts" \notin onway'[c] => \A p \in fresh[c] : accounts[found[c][p]] = p
      BY <1>1, <3>1 DEF Making
    <3> QED  BY <1>3, <1>4, <3>2, <3>3, <3>4, <3>5 DEF Making
  <2>5. Found(c)'
    BY <1>1, <1>2, <2>1 DEF Found
  <2>6. EveryEntryWhole' /\ OneAccountPerPath' /\ PromiseKept'
    BY <1>0, <1>2, <2>1 DEF EveryEntryWhole, OneAccountPerPath, PromiseKept
  <2> QED  BY <1>1, <1>2, <2>3, <2>4, <2>5, <2>6 DEF CallInv, StoresKept
<1>6. CASE s = "accounts"
  <2> DEFINE q(i) == CHOOSE p \in fresh[c] : found[c][p] = i
  <2>1. /\ index' = index
        /\ accounts' = [i \in Ids |->
              IF i = target[c] THEN Absent
              ELSE IF \E p \in fresh[c] : found[c][p] = i THEN q(i) ELSE accounts[i]]
    BY <1>6 DEF Land
  <2>2. ASSUME NEW p \in fresh[c] PROVE accounts'[found[c][p]] = p
    <3>1. q(found[c][p]) \in fresh[c] /\ found[c][q(found[c][p])] = found[c][p]
      OBVIOUS
    <3>2. q(found[c][p]) = p
      BY <1>4, <3>1
    <3> HIDE DEF q
    <3>3. found[c][p] \in Ids /\ found[c][p] # NoId
      BY <1>3
    <3> QED  BY <2>1, <3>2, <3>3
  <2>3. ASSUME NEW i \in Ids, \A p \in fresh[c] : found[c][p] # i
        PROVE  accounts'[i] = accounts[i]
    <3> HIDE DEF q
    <3> QED  BY <2>1, <2>3, NamesAssumption
  <2> HIDE DEF q
  <2>4. \A p \in fresh[c] : accounts[found[c][p]] = Absent /\ \A i \in Ids : accounts[i] # p
    BY <1>1, <1>2, <1>6 DEF Making
  <2>5. \A i \in Ids :
            \/ accounts'[i] = accounts[i] /\ \A p \in fresh[c] : found[c][p] # i
            \/ accounts[i] = Absent /\ \E p \in fresh[c] : found[c][p] = i /\ accounts'[i] = p
    BY <2>2, <2>3, <2>4
  <2>6. EveryEntryWhole'
    BY <1>0, <2>5, NamesAssumption DEF EveryEntryWhole
  <2>7. OneAccountPerPath'
    <3> SUFFICES ASSUME NEW i \in Ids, NEW j \in Ids, accounts'[i] \in Paths,
                        accounts'[i] = accounts'[j]
                 PROVE  i = j
      BY DEF OneAccountPerPath
    <3>1. CASE accounts'[i] \in fresh[c]
      <4>1. found[c][accounts'[i]] = i
        BY <2>4, <2>5, <3>1
      <4>2. found[c][accounts'[j]] = j
        BY <2>4, <2>5, <3>1
      <4> QED  BY <4>1, <4>2
    <3>2. CASE accounts'[i] \notin fresh[c]
      <4>1. accounts'[i] = accounts[i] /\ accounts'[j] = accounts[j]
        BY <2>5, <3>2
      <4> QED  BY <1>0, <4>1 DEF OneAccountPerPath
    <3> QED  BY <3>1, <3>2
  <2>8. \A i \in Ids : accounts[i] # Absent => accounts'[i] = accounts[i]
    BY <2>5
  <2>9. PromiseKept'
    <3> SUFFICES ASSUME NEW p \in Paths, promised[p] # NoId PROVE accounts'[promised[p]] = p
      BY <1>2 DEF PromiseKept
    <3>1. promised[p] \in Ids /\ accounts[promised[p]] = p
      BY <1>0 DEF PromiseKept, IdOrNone
    <3> QED  BY <2>8, <3>1, NamesAssumption
  <2>10. StoresInv'
    <3>1. \A i \in Ids : accounts'[i] # Absent => i \in used
      BY <1>0, <1>3, <2>5 DEF StoresInv
    <3>2. \A p \in Paths : index[p] # NoId /\ accounts'[index[p]] # Absent
                               => accounts'[index[p]] = p
      <4> SUFFICES ASSUME NEW p \in Paths, index[p] # NoId, accounts'[index[p]] # Absent
                   PROVE  accounts'[index[p]] = p
        OBVIOUS
      <4>1. index[p] \in Ids
        BY <1>0 DEF IdOrNone
      <4>2. CASE accounts'[index[p]] = accounts[index[p]]
        BY <1>0, <4>2 DEF StoresInv
      <4>3. CASE accounts'[index[p]] # accounts[index[p]]
        <5>1. PICK r \in fresh[c] : found[c][r] = index[p] /\ accounts'[index[p]] = r
          BY <2>5, <4>1, <4>3
        <5>2. r = p
          BY <1>1, <5>1 DEF Making
        <5> QED  BY <5>1, <5>2
      <4> QED  BY <4>2, <4>3
    <3>3. \A i \in syncing : accounts'[i] \in Paths
      BY <1>0, <2>8, NamesAssumption DEF StoresInv
    <3> QED  BY <1>0, <1>2, <2>1, <3>1, <3>2, <3>3 DEF StoresInv
  <2>11. Making(c)'
    <3>1. "accounts" \notin onway'[c]
      BY <1>0, <1>2, <1>6
    <3>2. found' = found /\ fresh' = fresh /\ used' = used
      BY <1>2
    <3> QED  BY <1>1, <2>1, <2>2, <3>1, <3>2 DEF Making
  <2>12. Found(c)'
    <3> SUFFICES ASSUME NEW p \in want[c] \ fresh[c]
                 PROVE  found[c][p] \in Ids /\ accounts'[found[c][p]] = p
      BY <1>2 DEF Found
    <3>1. found[c][p] \in Ids /\ accounts[found[c][p]] = p /\ p \in Paths
      BY <1>0, <1>1 DEF Found
    <3> QED  BY <2>8, <3>1, NamesAssumption
  <2> QED  BY <1>1, <1>2, <2>6, <2>7, <2>9, <2>10, <2>11, <2>12 DEF CallInv, StoresKept
<1> QED  BY <1>5, <1>6 DEF Stores

\* A write of a deletion: an account that is promised to nobody goes.
LEMMA LandDeletion ==
    ASSUME Orderly, PathInv, NEW c \in Calls, NEW s \in Stores, Land(c, s), target[c] # NoId
    PROVE  StoresKept' /\ CallInv(c)'
<1> USE DEF TypeOK
<1>0. /\ TypeOK /\ Alone /\ CallInv(c) /\ StoresInv /\ EveryEntryWhole
      /\ OneAccountPerPath /\ PromiseKept
  BY DEF PathInv
<1>1. pc[c] = "write" /\ Removing(c)
  BY <1>0 DEF Land, Alone, CallInv
<1>2. UNCHANGED <<queue, pc, target, want, found, mend, fresh, syncing, used, promised>>
  BY <1>1 DEF Land, seen
<1>3. CallInv(c)'
  BY <1>1, <1>2 DEF CallInv, Removing
<1>4. CASE s = "index"
  <2>1. /\ accounts' = accounts
        /\ \A p \in Paths : index'[p] = index[p] \/ index'[p] = NoId
    BY <1>0, <1>1, <1>4 DEF Land, Removing, NoIndex
  <2> QED  BY <1>0, <1>2, <1>3, <2>1 DEF StoresKept, StoresInv, EveryEntryWhole,
              OneAccountPerPath, PromiseKept
<1>5. CASE s = "accounts"
  <2>1. target[c] \notin syncing
    BY <1>5 DEF Land, Orderly
  <2>2. index' = index /\ \A i \in Ids : accounts'[i] = IF i = target[c] THEN Absent ELSE accounts[i]
    <3>1. \A i \in Ids, p \in fresh[c] : found[c][p] # i
      BY <1>0, <1>1, NamesAssumption DEF Removing, NoIndex
    <3> QED  BY <1>5, <3>1 DEF Land
  <2>3. EveryEntryWhole' /\ OneAccountPerPath'
    <3>1. EveryEntryWhole'
      BY <1>0, <2>2, NamesAssumption DEF EveryEntryWhole
    <3>2. \A i \in Ids : accounts'[i] \in Paths => i # target[c]
      BY <2>2, NamesAssumption
    <3>3. \A i, j \in Ids : accounts'[i] \in Paths /\ accounts'[i] = accounts'[j] => i = j
      BY <1>0, <2>2, <3>2 DEF OneAccountPerPath
    <3> QED  BY <3>1, <3>3 DEF OneAccountPerPath
  <2>4. PromiseKept'
    <3> SUFFICES ASSUME NEW p \in Paths, promised[p] # NoId PROVE accounts'[promised[p]] = p
      BY <1>2 DEF PromiseKept
    <3>1. promised[p] \in Ids /\ promised[p] # target[c] /\ accounts[promised[p]] = p
      BY <1>0, <1>1 DEF PromiseKept, IdOrNone, Removing
    <3> QED  BY <2>2, <3>1
  <2>5. StoresInv'
    <3>1. \A p \in Paths : index[p] # NoId => index[p] \in Ids
      BY <1>0 DEF IdOrNone
    <3>2. \A i \in syncing : accounts'[i] = accounts[i]
      BY <1>0, <2>1, <2>2
    <3> QED  BY <1>0, <1>2, <2>2, <3>1, <3>2 DEF StoresInv
  <2> QED  BY <1>3, <2>3, <2>4, <2>5 DEF StoresKept
<1> QED  BY <1>4, <1>5 DEF Stores

LEMMA LandPath ==
    ASSUME Orderly, PathInv, NEW c \in Calls, NEW s \in Stores, Land(c, s)
    PROVE  StoresKept' /\ Alone' /\ \A d \in Calls : CallInv(d)'
<1>1. Turn(c) /\ Frame(c) /\ queue' = queue /\ pc' = pc
  BY DEF PathInv, TypeOK, Land, Alone, Frame
<1>2. StoresKept' /\ CallInv(c)'
  BY LandCreation, LandDeletion
<1>3. \A d \in Calls \ {c} : CallInv(d)'
  BY <1>1, OthersKept
<1>4. Alone'
  BY <1>1 DEF PathInv, Alone, Turn
<1> QED  BY <1>2, <1>3, <1>4

\* A synchronization writes what was there.
LEMMA SyncPath ==
    ASSUME PathInv, NEW i \in Ids, Sync(i)
    PROVE  StoresKept' /\ Alone' /\ \A d \in Calls : CallInv(d)'
<1>1. /\ accounts' = accounts
      /\ \A j \in syncing' : j \in syncing \/ (j = i /\ accounts[i] \in Paths)
      /\ UNCHANGED <<index, queue, pc, locals, seen>>
  <2>1. CASE SyncWallet(i)
    BY <2>1 DEF SyncWallet, stores
  <2>2. CASE SyncInscriptions(i)
    <3>1. accounts[i] # Absent
      BY <2>2, NamesAssumption DEF SyncInscriptions, PathInv, StoresInv
    <3>2. accounts' = [accounts EXCEPT ![i] = accounts[i]] /\ accounts \in [Ids -> Entries]
      BY <2>2, <3>1 DEF SyncInscriptions, PathInv, TypeOK
    <3>3. accounts' = accounts
      BY <3>2
    <3>4. \A j \in syncing' : j \in syncing
      BY <2>2 DEF SyncInscriptions
    <3> QED  BY <2>2, <3>3, <3>4 DEF SyncInscriptions
  <2>3. CASE SyncThrows(i)
    <3>1. \A j \in syncing' : j \in syncing
      BY <2>3 DEF SyncThrows
    <3> QED  BY <2>3, <3>1 DEF SyncThrows, stores
  <2> QED  BY <2>1, <2>2, <2>3 DEF Sync
<1>2. StoresKept'
  BY <1>1 DEF PathInv, StoresKept, seen, EveryEntryWhole, OneAccountPerPath, PromiseKept, StoresInv
<1>3. Alone'
  BY <1>1 DEF PathInv, Alone, Turn
<1>4. ASSUME NEW d \in Calls PROVE CallInv(d)'
  <2>1. CallInv(d)
    BY DEF PathInv
  <2>2. /\ pc' = pc /\ target' = target /\ want' = want /\ found' = found /\ mend' = mend
        /\ fresh' = fresh /\ onway' = onway /\ seenIndex' = seenIndex
        /\ seenAccounts' = seenAccounts /\ used' = used /\ promised' = promised
    BY <1>1 DEF locals, seen
  <2> QED  BY <1>1, <2>1, <2>2 DEF CallInv, Finding, Making, Found, Removing
<1> QED  BY <1>2, <1>3, <1>4

LEMMA StepPath == Orderly /\ PathInv /\ [Next]_vars => PathInv'
<1> SUFFICES ASSUME Orderly, PathInv, [Next]_vars,
                    TInv
             PROVE  StoresKept' /\ Alone' /\ \A d \in Calls : CallInv(d)'
  <2>1. PathInv => TInv
    BY DEF PathInv, TInv, TurnInv, Alone
  <2> QED  BY <2>1, StepTypes DEF PathInv, StoresKept, TInv
<1>1. ASSUME NEW c \in Calls, Step(c)
      PROVE  StoresKept' /\ Alone' /\ \A d \in Calls : CallInv(d)'
  <2>0. \/ pc[c] \notin {"idle", "queued"} => Turn(c) /\ pc[c] # "left"
    BY DEF PathInv, Alone
  <2>1. CASE BeginCreate(c) \/ ReadIndex(c) \/ ReadAccounts(c)
    BY <2>1, LookupPath
  <2>2. CASE Resolve(c)
    BY <2>2, ResolvePath
  <2>3. CASE ResolveThrows(c) \/ CreateThrows(c) \/ DeleteThrows(c)
    BY <2>0, <2>3, ThrowPath DEF ResolveThrows, CreateThrows, DeleteThrows
  <2>4. CASE Mend(c)
    BY <2>4, MendPath
  <2>5. CASE Derive(c)
    BY <2>5, DerivePath
  <2>6. CASE Return(c)
    BY <2>6, ReturnPath
  <2>7. CASE BeginDelete(c)
    BY <2>7, BeginDeletePath
  <2>8. ASSUME NEW s \in Stores, Land(c, s)
        PROVE  StoresKept' /\ Alone' /\ \A d \in Calls : CallInv(d)'
    BY <2>8, LandPath
  <2>9. ASSUME NEW s \in Stores, WriteFails(c, s)
        PROVE  StoresKept' /\ Alone' /\ \A d \in Calls : CallInv(d)'
    <3>1. Throw(c) /\ Turn(c)
      BY <2>0, <2>9 DEF WriteFails, Orderly
    <3> QED  BY <3>1, ThrowPath
  <2>10. CASE LandFails(c)
    BY <2>0, <2>10 DEF LandFails
  <2> QED  BY <1>1, <2>1, <2>2, <2>3, <2>4, <2>5, <2>6, <2>7, <2>8, <2>9, <2>10 DEF Step
<1>2. CASE Stop
  <2>1. \A d \in Calls : /\ pc'[d] = "idle" /\ target'[d] = NoId /\ found'[d] = NoIndex
                        /\ fresh'[d] = {} /\ mend'[d] = {}
    BY <1>2 DEF Stop
  <2>2. Alone' /\ \A d \in Calls : CallInv(d)'
    BY <2>1 DEF Alone, CallInv
  <2>3. StoresKept'
    BY <1>2 DEF Stop, stores, seen, PathInv, StoresKept, EveryEntryWhole, OneAccountPerPath,
       PromiseKept, StoresInv
  <2> QED  BY <2>2, <2>3
<1>3. CASE UNCHANGED vars
  <2>1. StoresKept'
    BY <1>3 DEF vars, stores, seen, PathInv, StoresKept, EveryEntryWhole, OneAccountPerPath,
       PromiseKept, StoresInv
  <2>2. Alone'
    BY <1>3 DEF vars, PathInv, Alone, Turn
  <2>3. ASSUME NEW d \in Calls PROVE CallInv(d)'
    <3>1. CallInv(d)
      BY DEF PathInv
    <3> QED  BY <1>3, <3>1 DEF vars, stores, locals, seen, CallInv, Finding, Making, Found, Removing
  <2> QED  BY <2>1, <2>2, <2>3
<1> QED  BY <1>1, <1>2, <1>3, AskPath, SyncPath DEF Next

\* For any number of paths, ids and calls, with the worker terminated anywhere
\* and any write failing on its own: the queue, the lookup over both stores and
\* the repair of the index keep one wallet per path.
THEOREM PathCorrect == Orderly => (Spec => []OneAccountPerPath)
<1> SUFFICES ASSUME Orderly PROVE Spec => []OneAccountPerPath
  OBVIOUS
<1>1. PathInv => OneAccountPerPath
  BY DEF PathInv
<1>2. PathInv /\ [Next]_vars => PathInv'
  BY StepPath
<1> QED  BY <1>1, <1>2, InitPath, PTL DEF Spec

\* An account that was returned is stored until its deletion begins.
THEOREM PromiseCorrect == Orderly => (Spec => []PromiseKept)
<1> SUFFICES ASSUME Orderly PROVE Spec => []PromiseKept
  OBVIOUS
<1>1. PathInv => PromiseKept
  BY DEF PathInv
<1>2. PathInv /\ [Next]_vars => PathInv'
  BY StepPath
<1> QED  BY <1>1, <1>2, InitPath, PTL DEF Spec

\* No entry is left without its wallet.
THEOREM WholeCorrect == Orderly => (Spec => []EveryEntryWhole)
<1> SUFFICES ASSUME Orderly PROVE Spec => []EveryEntryWhole
  OBVIOUS
<1>1. PathInv => EveryEntryWhole
  BY DEF PathInv
<1>2. PathInv /\ [Next]_vars => PathInv'
  BY StepPath
<1> QED  BY <1>1, <1>2, InitPath, PTL DEF Spec

\* Asking again for a path whose account was returned gives the same id: a
\* promise changes only when a creation returns or a deletion begins, and the
\* stores, which the step leaves alone, have one wallet per path.
THEOREM IdempotentCorrect == Orderly => (Spec => Idempotent)
<1> SUFFICES ASSUME Orderly PROVE Spec => Idempotent
  OBVIOUS
<1>1. PathInv /\ [Next]_vars => PathInv'
  BY StepPath
<1>2. ASSUME PathInv, PathInv', [Next]_vars
      PROVE  [\A p \in Paths : promised[p] # NoId /\ promised'[p] # NoId
                                   => promised'[p] = promised[p]]_vars
  <2> SUFFICES ASSUME NEW p \in Paths, promised[p] # NoId, promised'[p] # NoId
               PROVE  promised'[p] = promised[p]
    OBVIOUS
  <2>1. CASE accounts' = accounts
    <3>1. accounts[promised[p]] = p /\ accounts[promised'[p]] = p
      BY <1>2, <2>1 DEF PathInv, PromiseKept
    <3>2. promised[p] \in Ids /\ promised'[p] \in Ids
      BY <1>2 DEF PathInv, TypeOK, IdOrNone
    <3> QED  BY <1>2, <3>1, <3>2 DEF PathInv, OneAccountPerPath
  <2>2. CASE accounts' # accounts
    <3>1. promised' = promised
      <4>1. ASSUME NEW c \in Calls, Ask(c) \/ Step(c) PROVE promised' = promised
        BY <2>2, <4>1 DEF Ask, Create, Delete, Step, BeginCreate, ReadIndex, ReadAccounts,
           Resolve, ResolveThrows, Mend, Derive, CreateThrows, Return, BeginDelete,
           DeleteThrows, Land, WriteFails, LandFails, Throw, stores, seen
      <4>2. ASSUME NEW i \in Ids, Sync(i) PROVE promised' = promised
        BY <4>2 DEF Sync, SyncWallet, SyncInscriptions, SyncThrows, seen
      <4>3. CASE Stop \/ UNCHANGED vars
        BY <4>3 DEF Stop, vars, seen
      <4> QED  BY <1>2, <4>1, <4>2, <4>3 DEF Next
    <3> QED  BY <3>1
  <2> QED  BY <2>1, <2>2
<1> QED  BY <1>1, <1>2, InitPath, PTL DEF Spec, Idempotent

=============================================================================
