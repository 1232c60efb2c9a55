----------------------- MODULE StellarTransactions_proofs -----------------------
(***************************************************************************)
(* Proofs about StellarTransactions for every set of accounts and          *)
(* transactions, page limit and attempt limit: the types, that no failure  *)
(* makes a scan skip a transaction, that the recipient of a send is told   *)
(* of it, and that a pending transaction is dropped for a reason only.     *)
(***************************************************************************)
EXTENDS StellarTransactions, TLAPS

USE TxsAssumption, LimitsAssumption

------------------------------------------------------------------------------
(* Types *)

\* A page never reaches past the history, and continues from the cursor.
LEMMA WindowBounds ==
    ASSUME TypeOK, NEW a \in Accounts, cCursor[a] <= Len(ledger[a])
    PROVE  /\ Window(a).st = "fetched"
           /\ Window(a).lo \in Nat \ {0}
           /\ Window(a).hi \in Nat
           /\ Window(a).hi <= Len(ledger[a])
           /\ cCursor[a] # 0 => Window(a).lo = cCursor[a] + 1 /\ cCursor[a] <= Window(a).hi
<1>1. /\ cCursor[a] \in Nat
      /\ Len(ledger[a]) \in Nat
    BY DEF TypeOK
<1>2. DEFINE n == Len(ledger[a])
<1> HIDE DEF n
<1>3. n \in Nat /\ n = Len(ledger[a])
    BY <1>1 DEF n
<1>4. CASE cCursor[a] = 0
    BY <1>1, <1>3, <1>4 DEF Window
<1>5. CASE cCursor[a] # 0
    BY <1>1, <1>3, <1>5 DEF Window
<1>q. QED  BY <1>4, <1>5

LEMMA WindowType ==
    ASSUME TypeOK, NEW a \in Accounts, cCursor[a] <= Len(ledger[a])
    PROVE  Window(a) \in [st : {"unfetched", "fetched", "failed"}, lo : Nat, hi : Nat]
BY WindowBounds DEF Window

LEMMA MappedType ==
    ASSUME NEW t \in Txs, NEW a \in Accounts
    PROVE  Mapped(t, a) \subseteq Txs \X Accounts
BY DEF Mapped

\* Cursors and fetched pages stay inside the history they point into.
Bounded ==
    \A a \in Accounts :
        /\ cursor[a] <= Len(ledger[a])
        /\ cCursor[a] <= Len(ledger[a])
        /\ page[a].st = "fetched" => page[a].lo # 0 /\ page[a].hi <= Len(ledger[a])

\* Horizon's history of an account grows, and an outcome is final.
Grows ==
    /\ \A a \in Accounts :
           /\ Len(ledger[a]) <= Len(ledger'[a])
           /\ \A p \in 1 .. Len(ledger[a]) : ledger'[a][p] = ledger[a][p]
    /\ \A t \in Txs : outcome[t] # "none" => outcome'[t] = outcome[t]

LEMMA InitType == Init => TypeOK /\ Bounded
BY DEF Init, TypeOK, Bounded, Unfetched, Status

LEMMA IncludeGrows ==
    ASSUME TypeOK, NEW t \in Txs, Include(t)
    PROVE  /\ Grows
           /\ ledger' \in [Accounts -> Seq(Txs)]
           /\ outcome' \in [Txs -> {"none", "confirmed", "failed"}]
<1>1. /\ Owner[t] \in Accounts
      /\ ledger[Owner[t]] \in Seq(Txs)
    BY DEF TypeOK
<1>2. \A a \in Accounts : ledger[a] \in Seq(Txs)
    BY DEF TypeOK
<1>3. ledger' = [ledger EXCEPT ![Owner[t]] = Append(ledger[Owner[t]], t)]
    BY DEF Include
<1>4. ledger' \in [Accounts -> Seq(Txs)]
    BY <1>1, <1>3 DEF TypeOK
<1>5. PICK o \in {"confirmed", "failed"} : outcome' = [outcome EXCEPT ![t] = o]
    BY DEF Include
<1>6. outcome' \in [Txs -> {"none", "confirmed", "failed"}]
    BY <1>5 DEF TypeOK
<1>7. \A u \in Txs : outcome[u] # "none" => outcome'[u] = outcome[u]
    BY <1>5 DEF TypeOK, Include
<1>8. ASSUME NEW a \in Accounts
      PROVE  /\ Len(ledger[a]) <= Len(ledger'[a])
             /\ \A p \in 1 .. Len(ledger[a]) : ledger'[a][p] = ledger[a][p]
    <2>1. CASE a = Owner[t]
        <3>1. ledger'[a] = Append(ledger[a], t)
            BY <1>3, <2>1 DEF TypeOK
        <3>q. QED  BY <1>2, <3>1
    <2>2. CASE a # Owner[t]
        <3>1. ledger'[a] = ledger[a]
            BY <1>3, <2>2 DEF TypeOK
        <3>q. QED  BY <1>2, <3>1
    <2>q. QED  BY <2>1, <2>2
<1>q. QED  BY <1>4, <1>6, <1>7, <1>8 DEF Grows

LEMMA StillGrows ==
    ASSUME TypeOK, UNCHANGED horizon
    PROVE  Grows
<1>1. \A a \in Accounts : Len(ledger[a]) \in Nat
    BY DEF TypeOK
<1>q. QED  BY <1>1 DEF Grows, horizon

LEMMA StepGrows ==
    ASSUME TypeOK, [Next]_vars
    PROVE  Grows
<1>1. CASE UNCHANGED horizon
    BY <1>1, StillGrows
<1>2. CASE ~UNCHANGED horizon
    <2>1. \E t \in Txs : Include(t)
        BY <1>2 DEF Next, Work, Trouble, Submit, Send, EmitPending, SavePending,
           LosePending, Age, Lookup, LookupFinds, LookupMisses, LookupFails, Fetch,
           FetchFails, StartSync, MapScan, Emit, Save, FailSync, Stop, vars
    <2>q. QED  BY <2>1, IncludeGrows
<1>q. QED  BY <1>1, <1>2

\* What is bounded by the history stays so while the pointers do not move.
LEMMA BoundedStays ==
    ASSUME TypeOK, Bounded, Grows, TypeOK',
           UNCHANGED <<cursor, cCursor, page>>
    PROVE  Bounded'
<1> SUFFICES ASSUME NEW a \in Accounts
             PROVE  /\ cursor[a] <= Len(ledger'[a])
                    /\ cCursor[a] <= Len(ledger'[a])
                    /\ page[a].st = "fetched" =>
                           page[a].lo # 0 /\ page[a].hi <= Len(ledger'[a])
    BY DEF Bounded
<1>1. /\ Len(ledger[a]) \in Nat /\ Len(ledger'[a]) \in Nat
      /\ cursor[a] \in Nat /\ cCursor[a] \in Nat /\ page[a].hi \in Nat
    BY DEF TypeOK
<1>2. Len(ledger[a]) <= Len(ledger'[a])
    BY DEF Grows
<1>q. QED  BY <1>1, <1>2 DEF Bounded

LEMMA StepType == TypeOK /\ Bounded /\ [Next]_vars => TypeOK' /\ Bounded'
<1> SUFFICES ASSUME TypeOK, Bounded, [Next]_vars PROVE TypeOK' /\ Bounded'
    OBVIOUS
<1>g. Grows
    BY StepGrows
<1>1. ASSUME NEW t \in Txs, Include(t) PROVE TypeOK' /\ Bounded'
    <2>1. TypeOK'
        BY <1>1, IncludeGrows DEF TypeOK, Include, saved, context
    <2>q. QED  BY <1>1, <1>g, <2>1, BoundedStays DEF Include, saved, context
<1>2. ASSUME NEW t \in Txs, Submit(t) PROVE TypeOK' /\ Bounded'
    <2>1. CASE Send(t)
        BY <2>1 DEF Send, TypeOK, Bounded, horizon, saved, context
    <2>2. CASE EmitPending(t)
        BY <2>2 DEF EmitPending, TypeOK, Bounded, horizon, saved, context, Status
    <2>3. CASE SavePending(t)
        <3>1. tries' \in [Txs -> 0 .. MaxAttempts]
            BY <2>3 DEF SavePending, TypeOK
        <3>q. QED  BY <2>3, <3>1 DEF SavePending, TypeOK, Bounded, horizon, context
    <2>4. CASE LosePending(t)
        BY <2>4 DEF LosePending, TypeOK, Bounded, horizon, saved, context
    <2>q. QED  BY <1>2, <2>1, <2>2, <2>3, <2>4 DEF Submit
<1>3. ASSUME NEW t \in Txs, Age(t) PROVE TypeOK' /\ Bounded'
    BY <1>3 DEF Age, TypeOK, Bounded, horizon, saved, context
<1>4. ASSUME NEW t \in Txs, Lookup(t) PROVE TypeOK' /\ Bounded'
    <2>1. CASE LookupFinds(t)
        <3>1. Owner[t] \in Accounts
            OBVIOUS
        <3>2. toSave' \subseteq Txs \X Accounts
            BY <2>1, <3>1, MappedType DEF LookupFinds, TypeOK
        <3>q. QED  BY <2>1, <3>2 DEF LookupFinds, TypeOK, Bounded, horizon, saved
    <2>2. CASE LookupMisses(t)
        <3>1. cTries' \in [Txs -> 0 .. MaxAttempts]
            BY <2>2 DEF LookupMisses, TypeOK
        <3>q. QED  BY <2>2, <3>1 DEF LookupMisses, TypeOK, Bounded, horizon, saved
    <2>3. CASE LookupFails(t)
        BY <2>3 DEF LookupFails, TypeOK, Bounded, horizon, saved
    <2>q. QED  BY <1>4, <2>1, <2>2, <2>3 DEF Lookup
<1>5. ASSUME NEW a \in Accounts, Fetch(a) PROVE TypeOK' /\ Bounded'
    <2>1. page' = [page EXCEPT ![a] = Window(a)]
        BY <1>5 DEF Fetch
    <2>2. cCursor[a] <= Len(ledger[a])
        BY DEF Bounded
    <2>3. TypeOK'
        BY <1>5, <2>2, WindowType DEF Fetch, TypeOK, horizon, saved
    <2>4. \A b \in Accounts : page'[b] = IF b = a THEN Window(a) ELSE page[b]
        BY <2>1 DEF TypeOK
    <2>5. Bounded'
        BY <1>5, <2>2, <2>4, WindowBounds DEF Fetch, Bounded, horizon, saved
    <2>q. QED  BY <2>3, <2>5
<1>6. ASSUME NEW a \in Accounts, FetchFails(a) PROVE TypeOK' /\ Bounded'
    BY <1>6 DEF FetchFails, TypeOK, Bounded, horizon, saved
<1>7. CASE StartSync
    BY <1>7 DEF StartSync, TypeOK, Bounded, horizon, saved, Unfetched
<1>8. CASE MapScan
    <2>1. toSave' \subseteq Txs \X Accounts
        <3> SUFFICES ASSUME NEW x \in toSave' PROVE x \in Txs \X Accounts
            OBVIOUS
        <3>1. PICK a \in Scanned : x \in UNION {Mapped(t, a) : t \in Found(a)}
            BY <1>8 DEF MapScan
        <3>2. PICK t \in Found(a) : x \in Mapped(t, a)
            BY <3>1
        <3>3. a \in Accounts /\ page[a].st = "fetched" /\ ledger[a] \in Seq(Txs)
            BY DEF Scanned, TypeOK
        <3>4. PICK p \in page[a].lo .. page[a].hi : t = ledger[a][p]
            BY DEF Found
        <3>5. /\ page[a].lo \in Nat /\ page[a].hi \in Nat /\ page[a].lo # 0
              /\ page[a].hi <= Len(ledger[a])
            BY <3>3 DEF TypeOK, Bounded
        <3>6. t \in Txs
            BY <3>3, <3>4, <3>5
        <3>q. QED  BY <3>2, <3>3, <3>6, MappedType
    <2>2. \A a \in Accounts : /\ page[a].hi \in Nat /\ page[a].lo \in Nat
                              /\ page[a].st = "fetched" => page[a].lo \in Nat \ {0}
        BY DEF TypeOK, Bounded
    <2>3. cCursor' \in [Accounts -> Nat]
        BY <1>8, <2>2 DEF MapScan, TypeOK
    <2>4. cFirst' \in [Accounts -> Nat \ {0}]
        BY <1>8, <2>2 DEF MapScan, Scanned, TypeOK
    <2>5. TypeOK'
        BY <1>8, <2>1, <2>3, <2>4 DEF MapScan, TypeOK, horizon, saved
    <2>6. \A a \in Accounts : cCursor'[a] = IF a \in Scanned THEN page[a].hi ELSE cCursor[a]
        BY <1>8 DEF MapScan
    <2>q. QED  BY <1>8, <2>5, <2>6 DEF MapScan, Bounded, Scanned, horizon, saved
<1>9. CASE Emit
    <2>1. told' \in [Txs -> [Accounts -> Status]]
        BY <1>9 DEF Emit, TypeOK, Status
    <2>q. QED  BY <1>9, <2>1 DEF Emit, TypeOK, Bounded, horizon, saved, context
<1>10. CASE Save
    <2>1. tries' \in [Txs -> 0 .. MaxAttempts]
        BY <1>10 DEF Save, TypeOK
    <2>2. held' \subseteq Txs
        BY <1>10 DEF Save, TypeOK
    <2>q. QED  BY <1>10, <2>1, <2>2 DEF Save, TypeOK, Bounded, horizon, context
<1>11. CASE FailSync
    BY <1>11 DEF FailSync, TypeOK, Bounded, horizon, saved, context
<1>12. CASE Stop
    BY <1>12 DEF Stop, TypeOK, Bounded, horizon, saved, context
<1>13. CASE UNCHANGED vars
    BY <1>13 DEF vars, TypeOK, Bounded, horizon, saved, context
<1>q. QED
    BY <1>1, <1>2, <1>3, <1>4, <1>5, <1>6, <1>7, <1>8, <1>9, <1>10, <1>11, <1>12,
       <1>13 DEF Next, Work, Trouble

\* The variables stay in their ranges: a cursor or an attempt count never
\* leaves the values the code can store.
THEOREM TypeCorrect == Spec => []TypeOK
BY InitType, StepType, PTL DEF Spec

------------------------------------------------------------------------------
(* The cursor *)

\* What is in the history of an account is its own and has an outcome.
Indexed ==
    \A a \in Accounts : \A p \in 1 .. Len(ledger[a]) :
        Owner[ledger[a][p]] = a /\ outcome[ledger[a][p]] # "none"

\* The transactions from position lo to hi of a need no further emit than S.
Covered(a, lo, hi, S) ==
    \A p \in lo .. hi : ledger[a][p] \in Dust \/ <<ledger[a][p], a>> \in S

\* What the context of a run stands for at each of its awaits.
ContextInv ==
    /\ run = "scan" =>
           /\ cCursor = cursor
           /\ cFirst = first
           /\ \A a \in Accounts :
                  page[a].st = "fetched" /\ cCursor[a] # 0 => page[a].lo = cCursor[a] + 1
    /\ run = "reconcile" =>
           \A a \in Accounts : Covered(a, cFirst[a], cCursor[a], delivered \cup toSave)
    /\ run = "save" =>
           /\ toSave \subseteq delivered
           /\ \A a \in Accounts : Covered(a, cFirst[a], cCursor[a], delivered)

ScanInv == TypeOK /\ Bounded /\ Indexed /\ ContextInv /\ NothingSkipped

LEMMA InitScan == Init => ScanInv
<1> SUFFICES ASSUME Init PROVE ScanInv
    OBVIOUS
<1>1. TypeOK /\ Bounded
    BY InitType
<1>2. Indexed /\ ContextInv /\ NothingSkipped
    BY DEF Init, Indexed, ContextInv, NothingSkipped
<1>q. QED  BY <1>1, <1>2 DEF ScanInv

\* Covered positions stay covered while histories and emissions grow.
LEMMA CoveredStays ==
    ASSUME TypeOK, Grows, NEW a \in Accounts, NEW lo \in Nat \ {0}, NEW hi \in Nat,
           hi <= Len(ledger[a]), NEW S, NEW T, S \subseteq T,
           Covered(a, lo, hi, S)
    PROVE  \A p \in lo .. hi : ledger'[a][p] \in Dust \/ <<ledger'[a][p], a>> \in T
<1> SUFFICES ASSUME NEW p \in lo .. hi
             PROVE  ledger'[a][p] \in Dust \/ <<ledger'[a][p], a>> \in T
    OBVIOUS
<1>1. Len(ledger[a]) \in Nat
    BY DEF TypeOK
<1>2. p \in 1 .. Len(ledger[a])
    BY <1>1
<1>3. ledger'[a][p] = ledger[a][p]
    BY <1>2 DEF Grows
<1>q. QED  BY <1>3 DEF Covered

LEMMA IndexedStays == TypeOK /\ Indexed /\ [Next]_vars => Indexed'
<1> SUFFICES ASSUME TypeOK, Indexed, [Next]_vars PROVE Indexed'
    OBVIOUS
<1>1. CASE UNCHANGED horizon
    BY <1>1 DEF Indexed, horizon
<1>2. ASSUME NEW t \in Txs, Include(t) PROVE Indexed'
    <2> SUFFICES ASSUME NEW a \in Accounts, NEW p \in 1 .. Len(ledger'[a])
                 PROVE  Owner[ledger'[a][p]] = a /\ outcome'[ledger'[a][p]] # "none"
        BY DEF Indexed
    <2>1. ledger[a] \in Seq(Txs) /\ Owner[t] \in Accounts
        BY DEF TypeOK
    <2>2. ledger'[a] = IF a = Owner[t] THEN Append(ledger[a], t) ELSE ledger[a]
        BY <1>2 DEF Include, TypeOK
    <2>3. PICK o \in {"confirmed", "failed"} : outcome' = [outcome EXCEPT ![t] = o]
        BY <1>2 DEF Include
    <2>4. outcome'[t] # "none"
        BY <2>3 DEF TypeOK
    <2>5. \A u \in Txs : outcome[u] # "none" => outcome'[u] # "none"
        BY <2>3 DEF TypeOK
    <2>6. CASE p \in 1 .. Len(ledger[a])
        <3>1. ledger'[a][p] = ledger[a][p] /\ ledger[a][p] \in Txs
            BY <2>1, <2>2, <2>6
        <3>q. QED  BY <3>1, <2>5, <2>6 DEF Indexed
    <2>7. CASE p \notin 1 .. Len(ledger[a])
        <3>1. a = Owner[t] /\ ledger'[a][p] = t
            BY <2>1, <2>2, <2>7
        <3>q. QED  BY <3>1, <2>4
    <2>q. QED  BY <2>6, <2>7
<1>3. CASE ~UNCHANGED horizon
    <2>1. \E t \in Txs : Include(t)
        BY <1>3 DEF Next, Work, Trouble, Submit, Send, EmitPending, SavePending,
           LosePending, Age, Lookup, LookupFinds, LookupMisses, LookupFails, Fetch,
           FetchFails, StartSync, MapScan, Emit, Save, FailSync, Stop, vars
    <2>q. QED  BY <2>1, <1>2
<1>q. QED  BY <1>1, <1>3

\* A step that leaves the run's context alone keeps what it stands for.
LEMMA ContextStays ==
    ASSUME ScanInv, TypeOK', Grows,
           UNCHANGED <<cursor, first, run, cCursor, cFirst, page, toSave, delivered>>
    PROVE  ContextInv' /\ NothingSkipped'
<1> USE DEF ScanInv
<1>1. ASSUME NEW a \in Accounts
      PROVE  /\ cCursor[a] \in Nat /\ cFirst[a] \in Nat \ {0}
             /\ cursor[a] \in Nat /\ first[a] \in Nat \ {0}
             /\ cursor[a] <= Len(ledger[a]) /\ cCursor[a] <= Len(ledger[a])
    BY DEF TypeOK, Bounded
<1>2. NothingSkipped'
    <2> SUFFICES ASSUME NEW a \in Accounts
                 PROVE  \A p \in first[a] .. cursor[a] :
                            ledger'[a][p] \in Dust \/ <<ledger'[a][p], a>> \in delivered
        BY DEF NothingSkipped
    <2>1. Covered(a, first[a], cursor[a], delivered)
        BY DEF NothingSkipped, Covered
    <2>q. QED  BY <2>1, <1>1, CoveredStays
<1>3. ASSUME run = "reconcile", NEW a \in Accounts
      PROVE  Covered(a, cFirst[a], cCursor[a], delivered \cup toSave)'
    <2>1. Covered(a, cFirst[a], cCursor[a], delivered \cup toSave)
        BY <1>3 DEF ContextInv
    <2>2. \A p \in cFirst[a] .. cCursor[a] :
              ledger'[a][p] \in Dust \/ <<ledger'[a][p], a>> \in delivered \cup toSave
        BY <2>1, <1>1, CoveredStays
    <2>q. QED  BY <2>2 DEF Covered
<1>4. ASSUME run = "save", NEW a \in Accounts
      PROVE  Covered(a, cFirst[a], cCursor[a], delivered)'
    <2>1. Covered(a, cFirst[a], cCursor[a], delivered)
        BY <1>4 DEF ContextInv
    <2>2. \A p \in cFirst[a] .. cCursor[a] :
              ledger'[a][p] \in Dust \/ <<ledger'[a][p], a>> \in delivered
        BY <2>1, <1>1, CoveredStays
    <2>q. QED  BY <2>2 DEF Covered
<1>5. ContextInv'
    BY <1>3, <1>4 DEF ContextInv
<1>q. QED  BY <1>2, <1>5

LEMMA MapScanCovers ==
    ASSUME ScanInv, MapScan, NEW a \in Accounts
    PROVE  Covered(a, cFirst[a], cCursor[a], delivered \cup toSave)'
<1> USE DEF ScanInv
<1>1. /\ cCursor' = [b \in Accounts |-> IF b \in Scanned THEN page[b].hi ELSE cCursor[b]]
      /\ cFirst' = [b \in Accounts |-> IF b \in Scanned /\ cCursor[b] = 0
                                       THEN page[b].lo ELSE cFirst[b]]
      /\ toSave' = UNION {UNION {Mapped(t, b) : t \in Found(b)} : b \in Scanned}
      /\ run = "scan"
      /\ UNCHANGED <<ledger, delivered>>
    BY DEF MapScan, horizon
<1>2. /\ cCursor = cursor /\ cFirst = first
      /\ page[a].st = "fetched" /\ cCursor[a] # 0 => page[a].lo = cCursor[a] + 1
    BY <1>1 DEF ContextInv
<1>3. /\ cCursor[a] \in Nat /\ cFirst[a] \in Nat \ {0}
      /\ page[a].lo \in Nat /\ page[a].hi \in Nat
    BY DEF TypeOK
<1> SUFFICES ASSUME NEW p \in cFirst'[a] .. cCursor'[a]
             PROVE  ledger[a][p] \in Dust \/ <<ledger[a][p], a>> \in delivered \cup toSave'
    BY <1>1 DEF Covered
<1>4. CASE p \in first[a] .. cursor[a]
    BY <1>4 DEF NothingSkipped
<1>5. CASE p \notin first[a] .. cursor[a]
    <2>1. a \in Scanned /\ p \in page[a].lo .. page[a].hi
        <3>1. CASE a \notin Scanned
            BY <1>1, <1>2, <1>5, <3>1
        <3>2. CASE a \in Scanned /\ cCursor[a] = 0
            BY <1>1, <3>2
        <3>3. CASE a \in Scanned /\ cCursor[a] # 0
            <4>1. page[a].lo = cCursor[a] + 1
                BY <1>2, <3>3 DEF Scanned
            <4>2. p \in first[a] .. page[a].hi
                BY <1>1, <1>2, <3>3
            <4>q. QED  BY <4>1, <4>2, <1>2, <1>3, <1>5, <3>3
        <3>q. QED  BY <3>1, <3>2, <3>3
    <2>2. ledger[a][p] \in Found(a)
        BY <2>1 DEF Found
    <2>3. Mapped(ledger[a][p], a) \subseteq toSave'
        BY <1>1, <2>1, <2>2
    <2>q. QED  BY <2>3 DEF Mapped
<1>q. QED  BY <1>4, <1>5

LEMMA StepScan == ScanInv /\ [Next]_vars => ScanInv'
<1> SUFFICES ASSUME ScanInv, [Next]_vars PROVE ScanInv'
    OBVIOUS
<1> USE DEF ScanInv
<1>t. TypeOK' /\ Bounded' /\ Indexed' /\ Grows
    BY StepType, IndexedStays, StepGrows
<1> SUFFICES ContextInv' /\ NothingSkipped'
    BY <1>t
<1>1. ASSUME NEW t \in Txs, Include(t) \/ Submit(t) \/ Age(t)
      PROVE  ContextInv' /\ NothingSkipped'
    BY <1>1, <1>t, ContextStays DEF Include, Submit, Send, EmitPending, SavePending,
       LosePending, Age, saved, context
<1>2. ASSUME NEW t \in Txs, Lookup(t) PROVE ContextInv' /\ NothingSkipped'
    <2>1. /\ toSave \subseteq toSave' /\ run = "reconcile"
          /\ UNCHANGED <<ledger, cursor, first, run, cCursor, cFirst, page, delivered>>
        BY <1>2 DEF Lookup, LookupFinds, LookupMisses, LookupFails, saved, horizon
    <2>q. QED  BY <2>1 DEF ContextInv, NothingSkipped, Covered
<1>3. ASSUME NEW a \in Accounts, Fetch(a) PROVE ContextInv' /\ NothingSkipped'
    <2>1. \A b \in Accounts : page'[b] = IF b = a THEN Window(a) ELSE page[b]
        BY <1>3 DEF Fetch, TypeOK
    <2>2. cCursor[a] # 0 => Window(a).lo = cCursor[a] + 1
        BY WindowBounds DEF Bounded
    <2>3. UNCHANGED <<ledger, cursor, first, run, cCursor, cFirst, delivered>> /\ run = "scan"
        BY <1>3 DEF Fetch, saved, horizon
    <2>q. QED  BY <2>1, <2>2, <2>3 DEF ContextInv, NothingSkipped
<1>4. ASSUME NEW a \in Accounts, FetchFails(a) PROVE ContextInv' /\ NothingSkipped'
    <2>1. \A b \in Accounts : /\ page'[b].st = "fetched" => page[b].st = "fetched"
                              /\ page'[b].lo = page[b].lo
        BY <1>4 DEF FetchFails, TypeOK
    <2>2. UNCHANGED <<ledger, cursor, first, run, cCursor, cFirst, delivered>> /\ run = "scan"
        BY <1>4 DEF FetchFails, saved, horizon
    <2>q. QED  BY <2>1, <2>2 DEF ContextInv, NothingSkipped
<1>5. CASE StartSync
    <2>1. /\ run' = "scan" /\ cCursor' = cursor /\ cFirst' = first
          /\ page' = [a \in Accounts |-> Unfetched]
          /\ UNCHANGED <<ledger, cursor, first, delivered>>
        BY <1>5 DEF StartSync, saved, horizon
    <2>q. QED  BY <2>1 DEF ContextInv, NothingSkipped, Unfetched
<1>6. CASE MapScan
    <2>1. run' = "reconcile" /\ UNCHANGED <<ledger, cursor, first, delivered>>
        BY <1>6 DEF MapScan, saved, horizon
    <2>2. NothingSkipped'
        BY <2>1 DEF NothingSkipped
    <2>3. \A a \in Accounts : Covered(a, cFirst[a], cCursor[a], delivered \cup toSave)'
        BY <1>6, MapScanCovers
    <2>q. QED  BY <2>1, <2>2, <2>3 DEF ContextInv
<1>7. CASE Emit
    <2>1. /\ delivered' = delivered \cup toSave /\ run = "reconcile" /\ run' = "save"
          /\ UNCHANGED <<ledger, cursor, first, cCursor, cFirst, toSave>>
        BY <1>7 DEF Emit, saved, horizon, context
    <2>q. QED  BY <2>1 DEF ContextInv, NothingSkipped, Covered
<1>8. CASE Save
    <2>1. /\ run = "save" /\ run' = "idle" /\ cursor' = cCursor /\ first' = cFirst
          /\ UNCHANGED <<ledger, delivered>>
        BY <1>8 DEF Save, horizon
    <2>q. QED  BY <2>1 DEF ContextInv, NothingSkipped, Covered
<1>9. CASE FailSync \/ Stop
    BY <1>9 DEF FailSync, Stop, ContextInv, NothingSkipped, saved, horizon
<1>10. CASE UNCHANGED vars
    BY <1>10 DEF vars, ContextInv, NothingSkipped, Covered, saved, horizon, context
<1>q. QED
    BY <1>1, <1>2, <1>3, <1>4, <1>5, <1>6, <1>7, <1>8, <1>9, <1>10 DEF Next, Work, Trouble

\* A saved cursor never passes a transaction the controller was not told
\* of, wherever the run fails and whenever the snap stops.
THEOREM CursorCorrect == Spec => []NothingSkipped
<1>1. ScanInv => NothingSkipped
    BY DEF ScanInv
<1>q. QED  BY <1>1, InitScan, StepScan, PTL DEF Spec

\* A held pending transaction is removed only when its final status was
\* emitted or both limits are exceeded, also when a run overlaps a save.
THEOREM PendingCorrect == Spec => PendingKept
<1>1. ASSUME ScanInv, [Next]_vars PROVE KeptUntilHopeless
    <2>1. CASE Save
        <3> SUFFICES ASSUME NEW t \in held, t \notin held'
                     PROVE  \/ <<t, Owner[t]>> \in delivered
                            \/ tries'[t] >= MaxAttempts /\ t \in aged
            BY DEF KeptUntilHopeless
        <3>1. t \in Txs /\ toSave \subseteq delivered
            BY <1>1, <2>1 DEF ScanInv, TypeOK, ContextInv, Save
        <3>2. <<t, Owner[t]>> \in toSave \/ (t \in cHeld /\ Drop(t))
            BY <2>1, <3>1 DEF Save
        <3>3. CASE t \in cHeld /\ Drop(t)
            <4>1. tries'[t] = cTries[t]
                BY <2>1, <3>1, <3>3 DEF Save
            <4>q. QED  BY <4>1, <3>3 DEF Drop
        <3>q. QED  BY <3>1, <3>2, <3>3
    <2>2. CASE ~Save
        <3>1. held \subseteq held'
            BY <1>1, <2>2 DEF Next, Work, Trouble, Include, Submit, Send, EmitPending,
               SavePending, LosePending, Age, Lookup, LookupFinds, LookupMisses,
               LookupFails, Fetch, FetchFails, StartSync, MapScan, Emit, FailSync,
               Stop, vars, saved
        <3>q. QED  BY <3>1 DEF KeptUntilHopeless
    <2>q. QED  BY <2>1, <2>2
<1>2. ScanInv /\ [Next]_vars => [KeptUntilHopeless]_vars
    BY <1>1
<1>q. QED  BY <1>2, InitScan, StepScan, PTL DEF Spec, PendingKept

------------------------------------------------------------------------------
(* The recipient of a send *)

\* What is emitted or to be emitted has an outcome, which can no longer change.
Final(S) == \A t \in Txs, a \in Accounts : <<t, a>> \in S => outcome[t] # "none"

\* A confirmed send is in S for its sender only together with its receive.
Paired(S) ==
    \A t \in Txs :
        <<t, Owner[t]>> \in S /\ outcome[t] = "confirmed" /\ Recipient[t] # NoOne
            => <<t, Recipient[t]>> \in S

PairInv ==
    /\ TypeOK /\ Bounded /\ Indexed
    /\ Final(delivered) /\ Final(toSave)
    /\ Paired(delivered) /\ Paired(toSave)

LEMMA InitPair == Init => PairInv
<1> SUFFICES ASSUME Init PROVE PairInv
    OBVIOUS
<1>1. TypeOK /\ Bounded
    BY InitType
<1>2. Indexed /\ delivered = {} /\ toSave = {}
    BY DEF Init, Indexed
<1>q. QED  BY <1>1, <1>2 DEF PairInv, Final, Paired

\* Mapping a transaction of its owner's history pairs it.
LEMMA MappedPaired ==
    ASSUME NEW t \in Txs, NEW u \in Txs, <<t, Owner[t]>> \in Mapped(u, Owner[u]),
           outcome[t] = "confirmed", Recipient[t] # NoOne
    PROVE  <<t, Recipient[t]>> \in Mapped(u, Owner[u])
<1>1. t = u /\ u \notin Dust
    BY DEF Mapped
<1>2. Recipient[u] \in Accounts
    BY <1>1
<1>q. QED  BY <1>1, <1>2 DEF Mapped

LEMMA MapScanPairs ==
    ASSUME PairInv, MapScan
    PROVE  /\ Final(toSave)'
           /\ Paired(toSave)'
<1> USE DEF PairInv
<1>1. /\ toSave' = UNION {UNION {Mapped(t, a) : t \in Found(a)} : a \in Scanned}
      /\ outcome' = outcome
    BY DEF MapScan, horizon
<1>2. ASSUME NEW a \in Scanned, NEW t \in Found(a)
      PROVE  t \in Txs /\ a = Owner[t] /\ outcome[t] # "none"
    <2>1. a \in Accounts /\ page[a].st = "fetched" /\ ledger[a] \in Seq(Txs)
        BY DEF Scanned, TypeOK
    <2>2. PICK p \in page[a].lo .. page[a].hi : t = ledger[a][p]
        BY DEF Found
    <2>3. /\ page[a].lo \in Nat /\ page[a].hi \in Nat /\ page[a].lo # 0
          /\ page[a].hi <= Len(ledger[a])
        BY <2>1 DEF TypeOK, Bounded
    <2>4. p \in 1 .. Len(ledger[a]) /\ t \in Txs
        BY <2>1, <2>2, <2>3
    <2>q. QED  BY <2>1, <2>2, <2>4 DEF Indexed
<1>3. Final(toSave)'
    <2> SUFFICES ASSUME NEW t \in Txs, NEW b \in Accounts, <<t, b>> \in toSave'
                 PROVE  outcome[t] # "none"
        BY <1>1 DEF Final
    <2>1. PICK a \in Scanned : <<t, b>> \in UNION {Mapped(u, a) : u \in Found(a)}
        BY <1>1
    <2>2. PICK u \in Found(a) : <<t, b>> \in Mapped(u, a)
        BY <2>1
    <2>3. t = u
        BY <2>2 DEF Mapped
    <2>q. QED  BY <1>2, <2>3
<1>4. Paired(toSave)'
    <2> SUFFICES ASSUME NEW t \in Txs, <<t, Owner[t]>> \in toSave',
                        outcome[t] = "confirmed", Recipient[t] # NoOne
                 PROVE  <<t, Recipient[t]>> \in toSave'
        BY <1>1 DEF Paired
    <2>1. PICK a \in Scanned : <<t, Owner[t]>> \in UNION {Mapped(u, a) : u \in Found(a)}
        BY <1>1
    <2>2. PICK u \in Found(a) : <<t, Owner[t]>> \in Mapped(u, a)
        BY <2>1
    <2>3. u \in Txs /\ a = Owner[u]
        BY <1>2
    <2>4. <<t, Recipient[t]>> \in Mapped(u, a)
        BY <2>2, <2>3, MappedPaired
    <2>q. QED  BY <1>1, <2>4
<1>q. QED  BY <1>3, <1>4

LEMMA StepPair == PairInv /\ [Next]_vars => PairInv'
<1> SUFFICES ASSUME PairInv, [Next]_vars PROVE PairInv'
    OBVIOUS
<1> USE DEF PairInv
<1>t. TypeOK' /\ Bounded' /\ Indexed' /\ Grows
    BY StepType, IndexedStays, StepGrows
<1> SUFFICES Final(delivered)' /\ Final(toSave)' /\ Paired(delivered)' /\ Paired(toSave)'
    BY <1>t
<1>1. CASE UNCHANGED <<delivered, toSave>>
    <2>1. \A t \in Txs : outcome[t] # "none" => outcome'[t] = outcome[t]
        BY <1>t DEF Grows
    <2>2. \A t \in Txs : Owner[t] \in Accounts
        OBVIOUS
    <2>q. QED  BY <1>1, <2>1, <2>2 DEF Final, Paired
<1>2. CASE StartSync
    <2>1. toSave' = {} /\ UNCHANGED <<outcome, delivered>>
        BY <1>2 DEF StartSync, horizon
    <2>q. QED  BY <2>1 DEF Final, Paired
<1>3. CASE MapScan
    <2>1. UNCHANGED <<outcome, delivered>>
        BY <1>3 DEF MapScan, horizon
    <2>2. Final(toSave)' /\ Paired(toSave)'
        BY <1>3, MapScanPairs
    <2>q. QED  BY <2>1, <2>2 DEF Final, Paired
<1>4. ASSUME NEW u \in Txs, LookupFinds(u)
      PROVE  Final(delivered)' /\ Final(toSave)' /\ Paired(delivered)' /\ Paired(toSave)'
    <2>1. /\ toSave' = toSave \cup Mapped(u, Owner[u]) /\ outcome[u] # "none"
          /\ UNCHANGED <<outcome, delivered>>
        BY <1>4 DEF LookupFinds, horizon
    <2>2. Final(toSave)'
        BY <2>1 DEF Final, Mapped
    <2>3. Paired(toSave)'
        BY <2>1, MappedPaired DEF Paired
    <2>q. QED  BY <2>1, <2>2, <2>3 DEF Final, Paired
<1>5. CASE Emit
    <2>1. delivered' = delivered \cup toSave /\ UNCHANGED <<outcome, toSave>>
        BY <1>5 DEF Emit, horizon, context
    <2>q. QED  BY <2>1 DEF Final, Paired
<1>6. CASE ~UNCHANGED <<delivered, toSave>>
    <2>1. StartSync \/ MapScan \/ Emit \/ \E u \in Txs : LookupFinds(u)
        BY <1>6 DEF Next, Work, Trouble, Include, Submit, Send, EmitPending, SavePending,
           LosePending, Age, Lookup, LookupMisses, LookupFails, Fetch, FetchFails, Save,
           FailSync, Stop, vars, context
    <2>q. QED  BY <2>1, <1>2, <1>3, <1>4, <1>5
<1>q. QED  BY <1>1, <1>6

\* The receiving account of a confirmed SEP-41 send is told of it with the
\* sender, whether the scan or a look-up found the send.
THEOREM RecipientCorrect == Spec => []RecipientTold
<1>1. PairInv => RecipientTold
    BY DEF PairInv, Paired, RecipientTold
<1>q. QED  BY <1>1, InitPair, StepPair, PTL DEF Spec

\* What the cursors have passed is complete: no transaction is missing at the
\* controller, and none of the receives that come with a send.
THEOREM HistoryCorrect == Spec => []HistoryComplete
<1>1. NothingSkipped /\ RecipientTold => HistoryComplete
    BY DEF HistoryComplete
<1>q. QED  BY <1>1, CursorCorrect, RecipientCorrect, PTL

------------------------------------------------------------------------------
(* What is shown as pending can be corrected *)

\* The final status is the last one told, a run looks up what the state holds
\* still, and what is shown as pending is held or was given up. The first is
\* true only if the wallet tells of a transaction before Horizon has it.
Told == \A t \in Sent :
            /\ outcome[t] # "none" => wallet[t] \notin {"idle", "sent"}
            /\ <<t, Owner[t]>> \in delivered => told[t][Owner[t]] = outcome[t]

HeldOrGivenUp ==
    \A t \in Sent :
        wallet[t] = "saved" /\ told[t][Owner[t]] = "pending" =>
            t \in held \/ (tries[t] >= MaxAttempts /\ t \in aged)

CorrectableInv ==
    /\ ScanInv /\ PairInv
    /\ Told /\ HeldOrGivenUp
    /\ run # "idle" => cHeld \subseteq held

LEMMA InitCorrectable == Init => CorrectableInv
<1> SUFFICES ASSUME Init PROVE CorrectableInv
    OBVIOUS
<1>1. ScanInv /\ PairInv
    BY InitScan, InitPair
<1>q. QED  BY <1>1 DEF CorrectableInv, Init, Told, HeldOrGivenUp

\* Only the wallet, before Horizon has the transaction, and a run that emits
\* its outcome change what the controller was told of it.
LEMMA ToldStays ==
    ASSUME PromptWallet, CorrectableInv, [Next]_vars
    PROVE  Told'
<1> USE DEF CorrectableInv, ScanInv, PairInv, TypeOK, Told
<1>1. Sent \subseteq Txs /\ \A t \in Txs : Owner[t] \in Accounts
    OBVIOUS
<1>2. ASSUME NEW u \in Txs, Include(u) PROVE Told'
    <2>1. /\ wallet' = wallet /\ told' = told /\ delivered' = delivered
          /\ wallet[u] \notin {"idle", "sent"} /\ outcome[u] = "none"
          /\ \A t \in Txs \ {u} : outcome'[t] = outcome[t]
        BY <1>2 DEF Include
    <2>2. <<u, Owner[u]>> \notin delivered
        BY <1>1, <2>1 DEF Final
    <2>q. QED  BY <1>1, <2>1, <2>2
<1>3. ASSUME NEW u \in Txs, EmitPending(u) PROVE Told'
    <2>1. /\ wallet[u] = "sent" /\ wallet' = [wallet EXCEPT ![u] = "emitted"]
          /\ outcome' = outcome /\ delivered' = delivered
          /\ \A t \in Txs \ {u} : told'[t] = told[t]
        BY <1>3 DEF EmitPending, horizon
    <2>2. u \in Sent => outcome[u] = "none"
        BY <2>1
    <2>3. u \in Sent => <<u, Owner[u]>> \notin delivered
        BY <1>1, <2>2 DEF Final
    <2>q. QED  BY <1>1, <2>1, <2>2, <2>3
<1>4. CASE Emit
    <2>1. /\ delivered' = delivered \cup toSave
          /\ \A t \in Txs : \A a \in Accounts :
                 told'[t][a] = IF <<t, a>> \in toSave THEN outcome[t] ELSE told[t][a]
          /\ outcome' = outcome /\ wallet' = wallet
        BY <1>4 DEF Emit, horizon
    <2>q. QED  BY <1>1, <2>1
<1>5. ASSUME NEW u \in Txs, Send(u) \/ SavePending(u) \/ LosePending(u) PROVE Told'
    <2>1. /\ outcome' = outcome /\ told' = told /\ delivered' = delivered
          /\ \A t \in Txs \ {u} : wallet'[t] = wallet[t]
          /\ wallet'[u] # "idle" /\ (wallet'[u] = "sent" => wallet[u] = "idle")
        BY <1>5 DEF Send, SavePending, LosePending, horizon
    <2>q. QED  BY <1>1, <2>1
<1>6. CASE Stop
    BY <1>1, <1>6 DEF Stop, horizon
<1>7. CASE UNCHANGED <<outcome, wallet, told, delivered>>
    BY <1>7
<1>8. CASE ~UNCHANGED <<outcome, wallet, told, delivered>> /\ ~Emit /\ ~Stop
    <2>1. \E u \in Txs : Include(u) \/ EmitPending(u) \/ Send(u) \/ SavePending(u) \/ LosePending(u)
        BY <1>8 DEF Next, Work, Trouble, Submit, Age, Lookup, LookupFinds, LookupMisses, LookupFails,
           Fetch, FetchFails, StartSync, MapScan, Save, FailSync, vars, horizon
    <2>q. QED  BY <2>1, <1>2, <1>3, <1>5
<1>q. QED  BY <1>4, <1>6, <1>7, <1>8

\* A run that saves removes what it settled, which was told, and what it gave
\* up, and it gives up only what the state holds.
LEMMA HeldStays ==
    ASSUME PromptWallet, CorrectableInv, [Next]_vars
    PROVE  HeldOrGivenUp'
<1> USE DEF CorrectableInv, ScanInv, PairInv, TypeOK
<1>1. Sent \subseteq Txs /\ \A t \in Txs : Owner[t] \in Accounts
    OBVIOUS
<1>2. CASE Save
    <2> SUFFICES ASSUME NEW t \in Sent, wallet[t] = "saved", told[t][Owner[t]] = "pending"
                 PROVE  t \in held' \/ (tries'[t] >= MaxAttempts /\ t \in aged)
        BY <1>2 DEF Save, HeldOrGivenUp
    <2>1. toSave \subseteq delivered /\ cHeld \subseteq held
        BY <1>2 DEF Save, ContextInv
    <2>2. <<t, Owner[t]>> \notin toSave
        BY <1>1, <2>1 DEF Told
    <2>3. t \in Txs /\ (t \in held \/ (t \notin held /\ tries[t] >= MaxAttempts /\ t \in aged))
        BY <1>1 DEF HeldOrGivenUp
    <2>4. CASE t \in held /\ ~(t \in cHeld /\ Drop(t))
        BY <1>2, <2>2, <2>3, <2>4 DEF Save
    <2>5. CASE t \in cHeld /\ Drop(t)
        <3>1. tries'[t] = cTries[t]
            BY <1>2, <2>3, <2>5 DEF Save
        <3>q. QED  BY <2>5, <3>1 DEF Drop
    <2>6. CASE t \notin held
        <3>1. tries'[t] = tries[t]
            BY <1>2, <2>1, <2>3, <2>6 DEF Save
        <3>q. QED  BY <2>3, <2>6, <3>1
    <2>q. QED  BY <2>4, <2>5, <2>6
<1>3. ASSUME NEW u \in Txs, SavePending(u) PROVE HeldOrGivenUp'
    <2>1. /\ told' = told /\ aged' = aged /\ held' = held \cup {u}
          /\ \A t \in Txs \ {u} : wallet'[t] = wallet[t] /\ tries'[t] = tries[t]
        BY <1>3 DEF SavePending
    <2>q. QED  BY <1>1, <2>1 DEF HeldOrGivenUp
<1>4. ASSUME NEW u \in Txs, EmitPending(u) PROVE HeldOrGivenUp'
    <2>1. /\ UNCHANGED <<held, tries, aged>>
          /\ wallet'[u] # "saved"
          /\ \A t \in Txs \ {u} : wallet'[t] = wallet[t] /\ told'[t] = told[t]
        BY <1>4 DEF EmitPending, saved
    <2>q. QED  BY <1>1, <2>1 DEF HeldOrGivenUp
<1>5. CASE Emit
    <2>1. /\ UNCHANGED <<held, tries, aged, wallet>>
          /\ \A t \in Txs : \A a \in Accounts :
                 told'[t][a] = IF <<t, a>> \in toSave THEN outcome[t] ELSE told[t][a]
        BY <1>5 DEF Emit, saved
    <2>2. \A t \in Txs : outcome[t] # "pending"
        OBVIOUS
    <2>q. QED  BY <1>1, <2>1, <2>2 DEF HeldOrGivenUp
<1>6. ASSUME NEW u \in Txs, Send(u) \/ LosePending(u) \/ Age(u) PROVE HeldOrGivenUp'
    <2>1. /\ UNCHANGED <<held, tries, told>> /\ aged \subseteq aged'
          /\ \A t \in Txs : wallet'[t] = "saved" => wallet[t] = "saved"
        BY <1>6 DEF Send, LosePending, Age, saved
    <2>q. QED  BY <1>1, <2>1 DEF HeldOrGivenUp
<1>7. CASE Stop
    BY <1>1, <1>7 DEF Stop, saved, HeldOrGivenUp
<1>8. CASE UNCHANGED <<held, tries, wallet, told, aged>>
    BY <1>8 DEF HeldOrGivenUp
<1>9. CASE ~UNCHANGED <<held, tries, wallet, told, aged>> /\ ~Emit /\ ~Stop /\ ~Save
    <2>1. \E u \in Txs : SavePending(u) \/ EmitPending(u) \/ Send(u) \/ LosePending(u) \/ Age(u)
        BY <1>9 DEF Next, Work, Trouble, Submit, Include, Lookup, LookupFinds, LookupMisses, LookupFails,
           Fetch, FetchFails, StartSync, MapScan, FailSync, vars, saved
    <2>q. QED  BY <2>1, <1>3, <1>4, <1>6
<1>q. QED  BY <1>2, <1>5, <1>7, <1>8, <1>9

LEMMA StepCorrectable == PromptWallet /\ CorrectableInv /\ [Next]_vars => CorrectableInv'
<1> SUFFICES ASSUME PromptWallet, CorrectableInv, [Next]_vars PROVE CorrectableInv'
    OBVIOUS
<1>1. ScanInv' /\ PairInv'
    BY StepScan, StepPair DEF CorrectableInv
<1>2. Told' /\ HeldOrGivenUp'
    BY ToldStays, HeldStays
<1>3. ASSUME run' # "idle" PROVE cHeld' \subseteq held'
    <2>1. CASE StartSync
        BY <2>1 DEF StartSync, saved
    <2>2. CASE ~StartSync
        <3>1. run # "idle" /\ cHeld' \subseteq cHeld /\ held \subseteq held'
            BY <1>3, <2>2 DEF CorrectableInv, Next, Work, Trouble, Include, Submit, Send, EmitPending, SavePending,
               LosePending, Age, Lookup, LookupFinds, LookupMisses, LookupFails, Fetch, FetchFails, MapScan,
               Emit, Save, FailSync, Stop, vars, saved, context
        <3>q. QED  BY <3>1 DEF CorrectableInv
    <2>q. QED  BY <2>1, <2>2
<1>q. QED  BY <1>1, <1>2, <1>3 DEF CorrectableInv

\* If the wallet tells of a transaction before Horizon has it, what the
\* controller shows as pending and the snap has saved is still held, or was
\* given up after both limits, whatever failed, stopped or overlapped.
THEOREM CorrectableCorrect == PromptWallet => (Spec => []PendingCorrectable)
<1> SUFFICES ASSUME PromptWallet PROVE Spec => []PendingCorrectable
    OBVIOUS
<1>1. CorrectableInv => PendingCorrectable
    BY DEF CorrectableInv, HeldOrGivenUp, PendingCorrectable
<1>2. CorrectableInv /\ [Next]_vars => CorrectableInv'
    BY StepCorrectable
<1>q. QED  BY <1>1, <1>2, InitCorrectable, PTL DEF Spec

==============================================================================
