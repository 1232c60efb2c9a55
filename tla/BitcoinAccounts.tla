--------------------------- MODULE BitcoinAccounts ---------------------------
\* Creating and deleting the accounts of the Bitcoin snap: AccountUseCases over
\* BdkAccountRepository.
\*
\* An account is kept in two places that no transaction joins: the encrypted
\* store has the wallets by id, the plain store an index from derivation path to
\* id. Creations and deletions take turns in one queue; each reads both stores,
\* mends the index from the wallets where it can, then writes both in parallel.
\* The snap may be terminated at any await, a write may fail, and a
\* synchronization, which takes no turn, writes to a wallet in two steps. The
\* handlers ask for one network per coin type, so a path has one network.
EXTENDS Naturals, Sequences, FiniteSets

CONSTANTS
    Paths,          \* derivation paths
    Ids,            \* uuids
    NoId,
    Absent,         \* no wallet under an id
    Broken,         \* an entry with inscriptions and nothing else
    Calls,          \* creations and deletions that may be in progress
    SplitFailures,  \* whether one of two parallel writes can fail
    SyncOverlaps    \* whether an account can be deleted between the two
                    \* writes of its synchronization

ASSUME NamesAssumption ==
    /\ NoId \notin Ids
    /\ Absent \notin Paths /\ Broken \notin Paths /\ Absent # Broken
ASSUME ScopeAssumption == SplitFailures \in BOOLEAN /\ SyncOverlaps \in BOOLEAN

VARIABLES
    \* persisted
    accounts,   \* accounts[i]: the path of wallet i, Absent or Broken
    index,      \* index[p]: derivationPaths, NoId for none
    \* the process
    queue,      \* #accountMutationQueue: the calls that have or await a turn
    pc,         \* where each call is
    target,     \* the id a deletion is about, NoId for a creation
    want,       \* the paths a creation is about
    seenIndex, seenAccounts,    \* what a lookup has read
    onway,      \* the requests to the two stores not answered yet
    found,      \* the id of each path of the call
    mend,       \* paths whose index entry the lookup repairs
    fresh,      \* paths whose entries the call writes
    syncing,    \* wallets whose synchronization is between its two writes
    \* what was observed
    used,       \* ids given out
    promised    \* promised[p]: the id returned for p whose deletion has not begun

stores == <<accounts, index>>
locals == <<target, want, seenIndex, seenAccounts, onway, found, mend, fresh>>
seen   == <<used, promised>>
vars   == <<stores, queue, pc, locals, syncing, seen>>

Stores == {"index", "accounts"}
NoIndex == [p \in Paths |-> NoId]
NoAccounts == [i \in Ids |-> Absent]
IdOrNone == Ids \cup {NoId}
Entries  == Paths \cup {Absent, Broken}

Init ==
    /\ accounts = NoAccounts /\ index = NoIndex
    /\ queue = <<>> /\ syncing = {}
    /\ pc = [c \in Calls |-> "idle"]
    /\ target = [c \in Calls |-> NoId]
    /\ want  = [c \in Calls |-> {}]
    /\ seenIndex = [c \in Calls |-> NoIndex]
    /\ seenAccounts = [c \in Calls |-> NoAccounts]
    /\ onway = [c \in Calls |-> {}]
    /\ found = [c \in Calls |-> NoIndex]
    /\ mend  = [c \in Calls |-> {}]
    /\ fresh = [c \in Calls |-> {}]
    /\ used = {} /\ promised = NoIndex

\* No duplicate paths reach a call: createMany keeps one request per path.
Create(c, S) ==
    /\ pc[c] = "idle" /\ S # {}
    /\ pc' = [pc EXCEPT ![c] = "queued"]
    /\ queue' = Append(queue, c)
    /\ want' = [want EXCEPT ![c] = S]
    /\ UNCHANGED <<stores, target, seenIndex, seenAccounts, onway, found, mend, fresh, syncing, seen>>

Delete(c, i) ==
    /\ pc[c] = "idle" /\ i \in used
    /\ pc' = [pc EXCEPT ![c] = "queued"]
    /\ queue' = Append(queue, c)
    /\ target' = [target EXCEPT ![c] = i]
    /\ UNCHANGED <<stores, want, seenIndex, seenAccounts, onway, found, mend, fresh, syncing, seen>>

Turn(c) == queue # <<>> /\ Head(queue) = c

Forget(c) ==
    /\ target' = [target EXCEPT ![c] = NoId]
    /\ want'  = [want EXCEPT ![c] = {}]
    /\ seenIndex' = [seenIndex EXCEPT ![c] = NoIndex]
    /\ seenAccounts' = [seenAccounts EXCEPT ![c] = NoAccounts]
    /\ onway' = [onway EXCEPT ![c] = {}]
    /\ found' = [found EXCEPT ![c] = NoIndex]
    /\ mend'  = [mend EXCEPT ![c] = {}]
    /\ fresh' = [fresh EXCEPT ![c] = {}]

\* Faulty variant: a call that throws keeps its turn.
LeaveHolding(c) ==
    /\ queue' = queue
    /\ pc' = [pc EXCEPT ![c] = "idle"]
    /\ Forget(c)

\* The finally of #runAccountMutation: the next call gets its turn.
Leave(c) ==
    /\ queue' = Tail(queue)
    /\ pc' = [pc EXCEPT ![c] = "idle"]
    /\ Forget(c)

Throw(c) == Leave(c) /\ UNCHANGED <<stores, syncing, seen>>

-----------------------------------------------------------------------------
\* A creation

BeginCreate(c) ==
    /\ pc[c] = "queued" /\ Turn(c) /\ target[c] = NoId
    /\ pc' = [pc EXCEPT ![c] = "lookup"]
    /\ onway' = [onway EXCEPT ![c] = Stores]
    /\ UNCHANGED <<stores, queue, target, want, seenIndex, seenAccounts, found, mend, fresh, syncing, seen>>

ReadIndex(c) ==
    /\ pc[c] = "lookup" /\ "index" \in onway[c]
    /\ seenIndex' = [seenIndex EXCEPT ![c] = index]
    /\ onway' = [onway EXCEPT ![c] = @ \ {"index"}]
    /\ UNCHANGED <<stores, queue, pc, target, want, seenAccounts, found, mend, fresh, syncing, seen>>

ReadAccounts(c) ==
    /\ pc[c] = "lookup" /\ "accounts" \in onway[c]
    /\ seenAccounts' = [seenAccounts EXCEPT ![c] = accounts]
    /\ onway' = [onway EXCEPT ![c] = @ \ {"accounts"}]
    /\ UNCHANGED <<stores, queue, pc, target, want, seenIndex, found, mend, fresh, syncing, seen>>

\* Faulty variant: the index is believed although the wallet is not there.
IndexTrusted(c, p) == seenIndex[c][p] # NoId

\* Faulty variant: no wallet is looked for when the index has no entry.
WithoutFallback(c, p) == {i \in {} : seenAccounts[c][i] = p}

\* The index entry of p leads to a wallet; else any wallet with that path will do.
Indexed(c, p) == seenIndex[c][p] # NoId /\ seenAccounts[c][seenIndex[c][p]] # Absent
WithPath(c, p) == {i \in Ids : seenAccounts[c][i] = p}

\* Faulty variant: one missing account makes the whole batch new.
CreateBatch(c, f) == IF \E p \in want[c] : f[p] = NoId THEN want[c] ELSE {}

\* entriesToCreate: the paths the lookup found nothing for.
EntriesToCreate(c, f) == {p \in want[c] : f[p] = NoId}

\* Loading an entry without a wallet throws, and so does reading its path.
Resolve(c) ==
    /\ pc[c] = "lookup" /\ onway[c] = {}
    /\ \A i \in Ids : seenAccounts[c][i] # Broken
    /\ \E f \in [Paths -> IdOrNone] :
          /\ \A p \in Paths :
                \/ p \notin want[c] /\ f[p] = NoId
                \/ p \in want[c] /\ Indexed(c, p) /\ f[p] = seenIndex[c][p]
                \/ p \in want[c] /\ ~Indexed(c, p) /\ f[p] \in WithPath(c, p)
                \/ p \in want[c] /\ ~Indexed(c, p) /\ WithPath(c, p) = {} /\ f[p] = NoId
          /\ found' = [found EXCEPT ![c] = f]
          /\ fresh' = [fresh EXCEPT ![c] = EntriesToCreate(c, f)]
          /\ LET lost == {p \in want[c] : ~Indexed(c, p) /\ f[p] # NoId}
             IN /\ mend' = [mend EXCEPT ![c] = lost]
                /\ pc' = [pc EXCEPT ![c] = IF lost = {} THEN "derive" ELSE "mend"]
    /\ seenIndex' = [seenIndex EXCEPT ![c] = NoIndex]
    /\ seenAccounts' = [seenAccounts EXCEPT ![c] = NoAccounts]
    /\ UNCHANGED <<stores, queue, target, want, onway, syncing, seen>>

ResolveThrows(c) ==
    /\ pc[c] = "lookup" /\ onway[c] = {}
    /\ \E i \in Ids : seenAccounts[c][i] = Broken
    /\ Throw(c)

\* Faulty variant: the repaired entries replace the index.
MendOnly(c) ==
    /\ pc[c] = "mend"
    /\ index' = [p \in mend[c] |-> found[c][p]]
    /\ pc' = [pc EXCEPT ![c] = "derive"]
    /\ UNCHANGED <<accounts, queue, locals, syncing, seen>>

Mend(c) ==
    /\ pc[c] = "mend"
    /\ index' = [p \in Paths |-> IF p \in mend[c] THEN found[c][p] ELSE index[p]]
    /\ pc' = [pc EXCEPT ![c] = "derive"]
    /\ UNCHANGED <<accounts, queue, locals, syncing, seen>>

\* The key store derives the missing accounts, each with a uuid of its own.
Derive(c) ==
    /\ pc[c] = "derive" /\ fresh[c] # {}
    /\ \E f \in [Paths -> IdOrNone] :
          /\ \A p \in Paths \ fresh[c] : f[p] = found[c][p]
          /\ \A p \in fresh[c] : f[p] \in Ids \ used
          /\ \A p, q \in fresh[c] : f[p] = f[q] => p = q
          /\ found' = [found EXCEPT ![c] = f]
          /\ used' = used \cup {f[p] : p \in fresh[c]}
    /\ pc' = [pc EXCEPT ![c] = "write"]
    /\ onway' = [onway EXCEPT ![c] = Stores]
    /\ UNCHANGED <<stores, queue, target, want, seenIndex, seenAccounts, mend, fresh, syncing, promised>>

\* A read, the repair of the index or the derivation fails.
CreateThrows(c) ==
    /\ pc[c] \in {"lookup", "mend", "derive"}
    /\ Throw(c)

\* The next two end a call that wrote, or had nothing to write.
Return(c) ==
    /\ \/ pc[c] = "derive" /\ fresh[c] = {}
       \/ pc[c] = "write" /\ onway[c] = {}
    /\ promised' = IF target[c] = NoId
                   THEN [p \in Paths |-> IF p \in want[c] THEN found[c][p] ELSE promised[p]]
                   ELSE promised
    /\ Leave(c)
    /\ UNCHANGED <<stores, syncing, used>>

-----------------------------------------------------------------------------
\* A deletion

BeginDelete(c) ==
    /\ pc[c] = "queued" /\ Turn(c) /\ target[c] # NoId
    /\ accounts[target[c]] \in Paths
    /\ pc' = [pc EXCEPT ![c] = "write"]
    /\ onway' = [onway EXCEPT ![c] = Stores]
    /\ fresh' = [fresh EXCEPT ![c] = {accounts[target[c]]}]
    /\ promised' = [p \in Paths |-> IF promised[p] = target[c] THEN NoId ELSE promised[p]]
    /\ UNCHANGED <<stores, queue, target, want, seenIndex, seenAccounts, found, mend, syncing, used>>

\* The account is not found, its entry cannot be loaded, or the read fails.
DeleteThrows(c) ==
    /\ pc[c] = "queued" /\ Turn(c) /\ target[c] # NoId
    /\ Throw(c)

-----------------------------------------------------------------------------
\* The two parallel writes of either

\* What is left of a call that has thrown ends with its last write.
Land(c, s) ==
    /\ pc[c] \in {"write", "left"} /\ s \in onway[c]
    /\ s = "accounts" /\ target[c] \in syncing => SyncOverlaps
    /\ IF s = "index"
       THEN /\ index' = [p \in Paths |-> IF p \in fresh[c] THEN found[c][p] ELSE index[p]]
            /\ UNCHANGED accounts
       ELSE /\ accounts' = [i \in Ids |->
                   IF i = target[c] THEN Absent
                   ELSE IF \E p \in fresh[c] : found[c][p] = i
                        THEN CHOOSE p \in fresh[c] : found[c][p] = i
                        ELSE accounts[i]]
            /\ UNCHANGED index
    /\ IF pc[c] = "left"
       THEN pc' = [pc EXCEPT ![c] = "idle"] /\ Forget(c)
       ELSE /\ onway' = [onway EXCEPT ![c] = @ \ {s}]
            /\ UNCHANGED <<pc, target, want, seenIndex, seenAccounts, found, mend, fresh>>
    /\ UNCHANGED <<queue, syncing, seen>>

\* Promise.all gives up at the first write that fails; the other goes on.
WriteFails(c, s) ==
    /\ pc[c] = "write" /\ s \in onway[c]
    /\ \/ onway[c] = {s} /\ Throw(c)
       \/ /\ SplitFailures /\ onway[c] = Stores
          /\ pc' = [pc EXCEPT ![c] = "left"]
          /\ queue' = Tail(queue)
          /\ onway' = [onway EXCEPT ![c] = @ \ {s}]
          /\ UNCHANGED <<stores, target, want, seenIndex, seenAccounts, found, mend, fresh, syncing, seen>>
LandFails(c) ==
    /\ pc[c] = "left"
    /\ pc' = [pc EXCEPT ![c] = "idle"] /\ Forget(c)
    /\ UNCHANGED <<stores, queue, syncing, seen>>

-----------------------------------------------------------------------------
\* A synchronization that found something new, and the worker

\* Faulty variant: an entry is written without looking for the wallet.
SyncBlind(i) ==
    /\ i \in used \ syncing
    /\ syncing' = syncing \cup {i}
    /\ UNCHANGED <<stores, queue, pc, locals, seen>>

\* update merges the wallet into a stored one, or throws.
SyncWallet(i) ==
    /\ accounts[i] \in Paths /\ i \notin syncing
    /\ syncing' = syncing \cup {i}
    /\ UNCHANGED <<stores, queue, pc, locals, seen>>

\* The inscriptions are set by path, which makes an entry if there is none.
SyncInscriptions(i) ==
    /\ i \in syncing
    /\ syncing' = syncing \ {i}
    /\ accounts' = [accounts EXCEPT ![i] = IF @ = Absent THEN Broken ELSE @]
    /\ UNCHANGED <<index, queue, pc, locals, seen>>

SyncThrows(i) ==
    /\ i \in syncing
    /\ syncing' = syncing \ {i}
    /\ UNCHANGED <<stores, queue, pc, locals, seen>>

\* The client terminates the worker; what it has written stays.
Stop ==
    /\ pc # [c \in Calls |-> "idle"] \/ syncing # {}
    /\ queue' = <<>> /\ syncing' = {}
    /\ pc' = [c \in Calls |-> "idle"]
    /\ target' = [c \in Calls |-> NoId]
    /\ want'  = [c \in Calls |-> {}]
    /\ seenIndex' = [c \in Calls |-> NoIndex]
    /\ seenAccounts' = [c \in Calls |-> NoAccounts]
    /\ onway' = [c \in Calls |-> {}]
    /\ found' = [c \in Calls |-> NoIndex]
    /\ mend'  = [c \in Calls |-> {}]
    /\ fresh' = [c \in Calls |-> {}]
    /\ UNCHANGED <<stores, seen>>

-----------------------------------------------------------------------------

Ask(c) == (\E S \in SUBSET Paths : Create(c, S)) \/ (\E i \in Ids : Delete(c, i))

Step(c) ==
    \/ BeginCreate(c) \/ ReadIndex(c) \/ ReadAccounts(c) \/ Resolve(c) \/ ResolveThrows(c)
    \/ Mend(c) \/ Derive(c) \/ CreateThrows(c) \/ Return(c)
    \/ BeginDelete(c) \/ DeleteThrows(c)
    \/ \E s \in Stores : Land(c, s) \/ WriteFails(c, s)
    \/ LandFails(c)

Sync(i) == SyncWallet(i) \/ SyncInscriptions(i) \/ SyncThrows(i)

Next == (\E c \in Calls : Ask(c) \/ Step(c)) \/ (\E i \in Ids : Sync(i)) \/ Stop

Spec == Init /\ [][Next]_vars

\* Every request to a store or to the key store is answered or fails.
FairSpec ==
    /\ Spec
    /\ \A c \in Calls : WF_vars(Step(c))
    /\ \A i \in Ids : WF_vars(SyncInscriptions(i) \/ SyncThrows(i))

\* Types: what the stores, the queue and the calls can hold.
TypeOK ==
    /\ accounts \in [Ids -> Entries] /\ index \in [Paths -> IdOrNone]
    /\ queue \in Seq(Calls) /\ syncing \subseteq Ids
    /\ pc \in [Calls -> {"idle", "queued", "lookup", "mend", "derive", "write", "left"}]
    /\ target \in [Calls -> IdOrNone] /\ want \in [Calls -> SUBSET Paths]
    /\ seenIndex \in [Calls -> [Paths -> IdOrNone]]
    /\ seenAccounts \in [Calls -> [Ids -> Entries]]
    /\ onway \in [Calls -> SUBSET Stores]
    /\ found \in [Calls -> [Paths -> IdOrNone]]
    /\ mend \in [Calls -> SUBSET Paths] /\ fresh \in [Calls -> SUBSET Paths]
    /\ used \subseteq Ids /\ promised \in [Paths -> IdOrNone]

\* No path ever has two wallets, whatever overlaps and wherever the worker is
\* terminated (createMany and getByDerivationPaths).
OneAccountPerPath ==
    \A i, j \in Ids : accounts[i] \in Paths /\ accounts[i] = accounts[j] => i = j

\* A returned account is stored, until its deletion begins (createMany).
PromiseKept == \A p \in Paths : promised[p] # NoId => accounts[promised[p]] = p

\* An account that exists is returned as it is: asking again for a path never
\* gives another id (KeyringHandler on createMany).
Idempotent ==
    [][\A p \in Paths : promised[p] # NoId /\ promised'[p] # NoId
                            => promised'[p] = promised[p]]_vars

\* Every entry has its wallet: AccountState requires one, and an entry without
\* one makes every later lookup and listing throw (update and delete).
EveryEntryWhole == \A i \in Ids : accounts[i] # Broken

\* No call waits for ever for its turn, whichever calls before it throw
\* (#runAccountMutation).
EveryCallEnds == \A c \in Calls : []<>(pc[c] = "idle")
=============================================================================
