----------------------- MODULE StellarAccountSync_proofs -----------------------
(* Proofs about StellarAccountSync, for any assets and amounts: the types, and, *)
(* as long as every token of interest is in the catalogue, that holdings are  *)
(* kept, that the events agree with the snapshot, and what the client has.    *)
(* And about two components beside it, for any callers: StellarKeyring (what  *)
(* was created, signed and listed is what was asked, named and held) and      *)
(* StellarMetadata (the copies of the token catalogue).                       *)
EXTENDS StellarAccountSync, Integers, FiniteSetTheorems, TLAPS

\* The catalogue never fails to load and holds every token.
Full == Catalogs = {Tokens}

\* What the client has while no run is between its save and its last event.
Told ==
    pc \notin {"balances", "list"} /\ ~behind =>
        /\ listed = VisibleIn(snapshot)
        /\ \A a \in Assets : ~Visible(a, snapshot[a]) => shown[a] \in {0, None}

\* What the snapshot has and the ledger does not hold during a run is
\* remembered as seen gone.
GoneSeen ==
    Reading => \A a \in VisibleIn(snapshot) : ~Visible(a, ledger[a]) => a \in seenGone

\* The account as loaded from Horizon: no tokens yet.
Loaded ==
    pc = "fetch" =>
        /\ asked = Tokens
        /\ view[Native] \in Amounts
        /\ \A a \in Tokens : view[a] = None
        /\ \A a \in Assets \ Tokens : view[a] # Gone
        /\ \A a \in VisibleIn(snapshot) \ Tokens : view[a] = None => a \in seenGone

\* With the tokens that could be read.
Fetched ==
    pc = "merge" =>
        /\ view[Native] \in Amounts
        /\ \A a \in Assets : view[a] # Gone
        /\ \A a \in Tokens : IF a \in unresolved THEN view[a] = None ELSE view[a] \in Amounts
        /\ \A a \in VisibleIn(snapshot) : ~Visible(a, view[a]) => a \in seenGone \/ a \in unresolved

\* The merged account and what is to be announced, against the old snapshot.
Diffed ==
    pc = "save" =>
        /\ view[Native] \in Amounts
        /\ VisibleIn(snapshot) \ VisibleIn(view) \subseteq seenGone
        /\ added = (VisibleIn(view) \ VisibleIn(snapshot)) \cup {Native}
        /\ removed = VisibleIn(snapshot) \ VisibleIn(view)
        /\ \A a \in VisibleIn(view) : changes[a] = view[a]
        /\ \A a \in removed : changes[a] = 0
        /\ \A a \in Assets : ~Visible(a, view[a]) /\ a \notin removed => changes[a] = None

\* While the client is being told.
Telling ==
    pc \in {"balances", "list"} /\ ~behind =>
        /\ (listed \ removed) \cup added = VisibleIn(snapshot)
        /\ \A a \in Assets : ~Visible(a, snapshot[a]) =>
               changes[a] = 0 \/ (changes[a] = None /\ shown[a] \in {0, None})

\* Once it has the balances.
Delivered ==
    pc = "list" /\ ~behind =>
        \A a \in Assets : ~Visible(a, snapshot[a]) => shown[a] \in {0, None}

IInv == TypeOK /\ GoneSeen /\ Told /\ Loaded /\ Fetched /\ Diffed /\ Telling /\ Delivered
        /\ RoundTrip /\ BalancesHeal

----------------------------------------------------------------------------

LEMMA InitTypes == Init => TypeOK
BY AssetAssumption DEF Init, TypeOK, Nothing, Entries, Assets, Amounts

\* The amount of a stored entry is an amount.
LEMMA ChangeTypes ==
    ASSUME TypeOK, NEW entries \in [Assets -> Amounts \cup {None, Gone}], NEW a \in Assets
    PROVE  Change(a, entries) \in Amounts \cup {None}
BY AssetAssumption DEF TypeOK, Change, AmountOf, Visible, Amounts

\* Merging leaves an entry of the asset's kind.
LEMMA MergedTypes ==
    ASSUME TypeOK, NEW a \in Assets
    PROVE  Merged(a) \in Entries(a) /\ Merged(a) \in Amounts \cup {None, Gone}
<1>1. CASE view[a] # None
  BY <1>1 DEF TypeOK, Merged
<1>2. CASE view[a] = None /\ a \in unresolved
  BY <1>2, AssetAssumption DEF TypeOK, Merged
<1>3. CASE view[a] = None /\ a \notin unresolved /\ a \in Classics
  BY <1>3, AssetAssumption DEF TypeOK, Merged, Entries, Assets
<1>4. CASE view[a] = None /\ a \notin unresolved /\ a \notin Classics
  BY <1>4, AssetAssumption DEF TypeOK, Merged, Entries, Assets
<1> QED  BY <1>1, <1>2, <1>3, <1>4

LEMMA StepTypes == TypeOK /\ [Next]_vars => TypeOK'
<1> SUFFICES ASSUME TypeOK, [Next]_vars PROVE TypeOK'
  OBVIOUS
<1> USE AssetAssumption
<1>1. CASE LedgerMoves
  <2> PICK a \in Assets, e \in Amounts \cup {None} :
        /\ e \in Holdings(a)
        /\ ledger' = [ledger EXCEPT ![a] = e]
        /\ seenGone' = seenGone \/ seenGone' = seenGone \cup {a}
    BY <1>1 DEF LedgerMoves, Holdings
  <2>1. ledger' \in [Assets -> Amounts \cup {None}] /\ \A b \in Assets : ledger'[b] \in Holdings(b)
    BY DEF TypeOK
  <2> QED  BY <1>1, <2>1 DEF LedgerMoves, TypeOK, locals
<1>2. CASE Start
  BY <1>2 DEF Start, TypeOK, locals, VisibleIn
<1>3. CASE Load
  <2>1. view' \in [Assets -> Amounts \cup {None, Gone}] /\ \A a \in Assets : view'[a] \in Entries(a)
    BY <1>3 DEF Load, TypeOK, Holdings, Entries, Assets
  <2>2. asked' \in SUBSET Tokens
    BY <1>3 DEF Load
  <2> QED  BY <1>3, <2>1, <2>2 DEF Load, TypeOK
<1>4. CASE FetchTokens
  <2> PICK answered \in SUBSET asked :
        /\ view' = [a \in Assets |-> IF a \in answered THEN ledger[a] ELSE view[a]]
        /\ unresolved' = asked \ answered
    BY <1>4 DEF FetchTokens
  <2>1. view' \in [Assets -> Amounts \cup {None, Gone}] /\ \A a \in Assets : view'[a] \in Entries(a)
    BY DEF TypeOK, Holdings, Entries, Assets
  <2> QED  BY <1>4, <2>1 DEF FetchTokens, TypeOK
<1>5. CASE FetchFails
  BY <1>5 DEF FetchFails, TypeOK
<1>6. CASE Merge
  <2>1. view' \in [Assets -> Amounts \cup {None, Gone}] /\ \A a \in Assets : view'[a] \in Entries(a)
    BY <1>6, MergedTypes DEF Merge
  <2>2. changes' \in [Assets -> Amounts \cup {None}]
    BY <1>6, <2>1, ChangeTypes DEF Merge
  <2>3. added' \in SUBSET Assets /\ removed' \in SUBSET Assets
    BY <1>6 DEF Merge, VisibleIn, Assets
  <2> QED  BY <1>6, <2>1, <2>2, <2>3 DEF Merge, TypeOK
<1>7. CASE Save
  BY <1>7 DEF Save, TypeOK, locals
<1>8. CASE EmitBalances
  BY <1>8 DEF EmitBalances, TypeOK, locals
<1>9. CASE EmitList
  BY <1>9 DEF EmitList, TypeOK, ClearLocals, Nothing, Entries, Assets
<1>10. CASE Stop
  BY <1>10 DEF Stop, TypeOK, ClearLocals, Nothing, Entries, Assets
<1>11. CASE UNCHANGED vars
  BY <1>11 DEF TypeOK, vars
<1> QED  BY <1>1, <1>2, <1>3, <1>4, <1>5, <1>6, <1>7, <1>8, <1>9, <1>10, <1>11 DEF Next, RunStep

\* Every variable stays in its range: what is announced is always an amount,
\* and a tombstone is stored for trustlines only.
THEOREM TypeCorrect == Spec => []TypeOK
<1> QED  BY InitTypes, StepTypes, PTL DEF Spec

----------------------------------------------------------------------------

LEMMA InitInv == Init => IInv
<1> SUFFICES ASSUME Init PROVE IInv
  OBVIOUS
<1>1. TypeOK
  BY InitTypes
<1>2. \A a \in Assets : ~Visible(a, snapshot[a])
  BY AssetAssumption DEF Init, Nothing, Visible, Amounts
<1>3. VisibleIn(snapshot) = {}
  BY <1>2 DEF VisibleIn
<1> QED  BY <1>1, <1>3 DEF Init, Nothing, IInv, GoneSeen, Told, Loaded, Fetched, Diffed, Telling, Delivered, RoundTrip, BalancesHeal

\* What the merge makes of an entry, when every token was asked for: nothing
\* visible is lost unless the network reported it gone, and what was visible
\* and no longer is has an entry of balance zero.
LEMMA MergeFacts ==
    ASSUME IInv, pc = "merge", NEW a \in Assets
    PROVE  /\ Visible(a, snapshot[a]) /\ ~Visible(a, Merged(a)) => a \in seenGone
           /\ Visible(a, snapshot[a]) /\ ~Visible(a, Merged(a)) =>
                  Merged(a) # None /\ AmountOf(Merged(a)) = 0
           /\ a = Native => Merged(a) \in Amounts
<1> USE AssetAssumption
<1>1. CASE view[a] # None
  BY <1>1 DEF IInv, TypeOK, Fetched, Merged, Visible, VisibleIn, AmountOf, Amounts, Assets
<1>2. CASE view[a] = None /\ a \in unresolved
  BY <1>2 DEF IInv, TypeOK, Fetched, Merged, Visible, VisibleIn, Amounts
<1>3. CASE view[a] = None /\ a \notin unresolved /\ a \in Classics
  BY <1>3 DEF IInv, TypeOK, Fetched, Merged, Visible, VisibleIn, AmountOf, Amounts
<1>4. CASE view[a] = None /\ a \notin unresolved /\ a \notin Classics
  BY <1>4 DEF IInv, TypeOK, Fetched, Merged, Visible, VisibleIn, Amounts, Assets
<1> QED  BY <1>1, <1>2, <1>3, <1>4

LEMMA StepInv == ASSUME Full PROVE IInv /\ [Next]_vars => IInv'
<1> SUFFICES ASSUME IInv, [Next]_vars PROVE IInv'
  OBVIOUS
<1> USE AssetAssumption DEF Reading
<1>0. TypeOK /\ TypeOK'
  BY StepTypes DEF IInv
<1>1. CASE LedgerMoves
  <2>1. seenGone \subseteq seenGone'
    BY <1>1 DEF LedgerMoves
  <2>2. UNCHANGED <<snapshot, pc, view, asked, unresolved, changes, added, removed, shown, listed, behind>>
    BY <1>1 DEF LedgerMoves, locals
  <2>3. GoneSeen'
    <3> PICK a \in Assets, e \in Amounts \cup {None} :
          /\ ledger' = [ledger EXCEPT ![a] = e]
          /\ Reading /\ a \in VisibleIn(snapshot) => Visible(a, e) \/ a \in seenGone'
      BY <1>1 DEF LedgerMoves, Holdings
    <3> QED  BY <1>0, <2>1, <2>2 DEF TypeOK, IInv, GoneSeen, Visible, VisibleIn
  <2> QED  BY <1>0, <2>1, <2>2, <2>3 DEF IInv, Told, Loaded, Fetched, Diffed, Telling, Delivered, RoundTrip, BalancesHeal, VisibleIn
<1>2. CASE Start
  BY <1>0, <1>2 DEF Start, locals, GoneSeen, IInv, Told, Loaded, Fetched, Diffed, Telling, Delivered, RoundTrip,
     BalancesHeal, VisibleIn
<1>3. CASE Load
  <2>1. /\ view'[Native] \in Amounts
        /\ \A a \in Tokens : view'[a] = None
        /\ \A a \in Assets \ Tokens : view'[a] = ledger[a]
    BY <1>0, <1>3 DEF Load, TypeOK, Assets, Holdings
  <2>2. /\ \A a \in Assets \ Tokens : ledger[a] # Gone
        /\ \A a \in VisibleIn(snapshot) \ Tokens : ledger[a] = None => a \in seenGone
    BY <1>0, <1>3 DEF IInv, GoneSeen, Load, TypeOK, Visible, VisibleIn, Amounts
  <2>3. asked' = Tokens
    BY <1>3 DEF Load, Full
  <2> QED  BY <1>0, <1>3, <2>1, <2>2, <2>3 DEF Load, IInv, GoneSeen, Told, Loaded, Fetched, Diffed, Telling, Delivered, RoundTrip, BalancesHeal, VisibleIn
<1>4. CASE FetchTokens
  <2> PICK answered \in SUBSET asked :
        /\ view' = [a \in Assets |-> IF a \in answered THEN ledger[a] ELSE view[a]]
        /\ unresolved' = asked \ answered
    BY <1>4 DEF FetchTokens
  <2>1. Fetched'
    BY <1>0, <1>4 DEF FetchTokens, TypeOK, IInv, Loaded, GoneSeen, Fetched, Assets, Holdings, Visible, VisibleIn, Amounts
  <2> QED  BY <1>0, <1>4, <2>1 DEF FetchTokens, IInv, GoneSeen, Told, Loaded, Fetched, Diffed, Telling, Delivered, RoundTrip, BalancesHeal, VisibleIn
<1>5. CASE FetchFails
  <2>1. Fetched'
    BY <1>0, <1>5 DEF FetchFails, TypeOK, IInv, Loaded, GoneSeen, Fetched, Assets, Visible, VisibleIn, Amounts
  <2> QED  BY <1>0, <1>5, <2>1 DEF FetchFails, IInv, GoneSeen, Told, Loaded, Fetched, Diffed, Telling, Delivered, RoundTrip, BalancesHeal, VisibleIn
<1>6. CASE Merge
  <2>1. \A a \in Assets : view'[a] = Merged(a)
    BY <1>6 DEF Merge
  <2>2. \A a \in Assets : changes'[a] = Change(a, view')
    BY <1>6 DEF Merge
  <2>3. VisibleIn(snapshot) \ VisibleIn(view') \subseteq seenGone
    BY <1>6, <2>1, MergeFacts DEF Merge, VisibleIn
  <2>4. \A a \in VisibleIn(view') : changes'[a] = view'[a]
    BY <2>2 DEF VisibleIn, Change, AmountOf, Visible, Amounts
  <2>5. \A a \in removed' : changes'[a] = 0
    <3> TAKE a \in removed'
    <3>1. a \in Assets /\ Visible(a, snapshot[a]) /\ ~Visible(a, view'[a])
      BY <1>6 DEF Merge, VisibleIn
    <3>2. view'[a] # None /\ AmountOf(view'[a]) = 0
      BY <1>6, <2>1, <3>1, MergeFacts DEF Merge
    <3> QED  BY <2>2, <3>1, <3>2 DEF Change
  <2>6. \A a \in Assets : ~Visible(a, view'[a]) /\ a \notin removed' => changes'[a] = None
    BY <1>6, <2>2 DEF Merge, VisibleIn, Change
  <2>7. view'[Native] \in Amounts
    BY <1>6, <2>1, MergeFacts DEF Merge, Assets
  <2>8. Diffed'
    BY <1>6, <2>3, <2>4, <2>5, <2>6, <2>7 DEF Merge, Diffed, VisibleIn
  <2> QED  BY <1>0, <1>6, <2>8 DEF Merge, IInv, GoneSeen, Told, Loaded, Fetched, Telling, Delivered, RoundTrip, BalancesHeal, VisibleIn
<1>7. CASE Save
  <2>1. Native \in VisibleIn(view)
    BY <1>7 DEF Save, IInv, Diffed, VisibleIn, Visible, Assets
  <2>2. /\ snapshot' = view
        /\ VisibleIn(snapshot') = VisibleIn(view)
        /\ UNCHANGED <<changes, added, removed, shown, listed, behind>>
    BY <1>7 DEF Save, locals, VisibleIn
  <2>3. RoundTrip'
    <3>1. \A a \in VisibleIn(snapshot') : changes'[a] = snapshot'[a]
      BY <1>7, <2>2 DEF Save, IInv, Diffed
    <3>2. added' \subseteq VisibleIn(snapshot') /\ removed' \cap VisibleIn(snapshot') = {}
      BY <1>7, <2>1, <2>2 DEF Save, IInv, Diffed
    <3>3. \A a \in removed' : changes'[a] = 0
      BY <1>7, <2>2 DEF Save, IInv, Diffed
    <3> QED  BY <3>1, <3>2, <3>3 DEF RoundTrip
  <2>4. Telling'
    <3> SUFFICES ASSUME ~behind
                 PROVE  /\ (listed \ removed) \cup added = VisibleIn(view)
                        /\ \A a \in Assets : ~Visible(a, view[a]) =>
                             changes[a] = 0 \/ (changes[a] = None /\ shown[a] \in {0, None})
      BY <2>2 DEF Telling
    <3>1. listed = VisibleIn(snapshot) /\ \A a \in Assets : ~Visible(a, snapshot[a]) => shown[a] \in {0, None}
      BY <1>7 DEF Save, IInv, Told
    <3>2. (listed \ removed) \cup added = VisibleIn(view)
      BY <1>7, <2>1, <3>1 DEF Save, IInv, Diffed
    <3>3. ASSUME NEW a \in Assets, ~Visible(a, view[a])
          PROVE  changes[a] = 0 \/ (changes[a] = None /\ shown[a] \in {0, None})
      BY <1>7, <3>1, <3>3 DEF Save, IInv, Diffed, VisibleIn
    <3> QED  BY <3>2, <3>3
  <2> QED  BY <1>0, <1>7, <2>3, <2>4 DEF Save, locals, IInv, GoneSeen, Told, Loaded, Fetched, Diffed, Delivered, BalancesHeal
<1>8. CASE EmitBalances
  <2>1. \A a \in Assets : shown'[a] = IF changes[a] # None THEN changes[a] ELSE shown[a]
    BY <1>8 DEF EmitBalances
  <2>2. BalancesHeal'
    BY <1>0, <1>8, <2>1 DEF EmitBalances, IInv, RoundTrip, BalancesHeal, VisibleIn, Visible, TypeOK, Amounts
  <2>3. Telling'
    BY <1>8, <2>1 DEF EmitBalances, locals, IInv, Telling, VisibleIn
  <2>4. Delivered'
    BY <1>8, <2>1 DEF EmitBalances, locals, IInv, Telling, Delivered
  <2> QED  BY <1>0, <1>8, <2>2, <2>3, <2>4 DEF EmitBalances, locals, IInv, GoneSeen, Told, Loaded, Fetched, Diffed, RoundTrip, VisibleIn
<1>9. CASE EmitList
  <2>1. Told'
    <3> SUFFICES ASSUME ~behind
                 PROVE  /\ listed' = VisibleIn(snapshot)
                        /\ \A a \in Assets : ~Visible(a, snapshot[a]) => shown[a] \in {0, None}
      BY <1>9 DEF EmitList, Told, VisibleIn
    <3>1. listed' = VisibleIn(snapshot)
      BY <1>9 DEF EmitList, IInv, Telling
    <3> QED  BY <1>9, <3>1 DEF EmitList, IInv, Telling, Delivered
  <2> QED  BY <1>0, <1>9, <2>1 DEF EmitList, ClearLocals, IInv, GoneSeen, Loaded, Fetched, Diffed, Telling, Delivered, RoundTrip, BalancesHeal, VisibleIn
<1>10. CASE Stop
  BY <1>0, <1>10 DEF Stop, ClearLocals, IInv, GoneSeen, Told, Loaded, Fetched, Diffed, Telling, Delivered, RoundTrip,
     BalancesHeal, VisibleIn
<1>11. CASE UNCHANGED vars
  BY <1>0, <1>11 DEF vars, GoneSeen, IInv, Told, Loaded, Fetched, Diffed, Telling, Delivered, RoundTrip,
     BalancesHeal, VisibleIn
<1> QED  BY <1>1, <1>2, <1>3, <1>4, <1>5, <1>6, <1>7, <1>8, <1>9, <1>10, <1>11 DEF Next, RunStep

THEOREM InvCorrect == ASSUME Full PROVE Spec => []IInv
<1> QED  BY InitInv, StepInv, PTL DEF Spec

\* With the catalogue at hand, no failed read, lost event or stop makes a
\* holding disappear: what leaves the snapshot was really gone during the run.
THEOREM HoldingsCorrect == ASSUME Full PROVE Spec => HoldingsKept
<1>1. IInv /\ [Next]_vars => [VisibleIn(snapshot) \ VisibleIn(snapshot') \subseteq seenGone]_vars
  <2> SUFFICES ASSUME IInv, Next PROVE VisibleIn(snapshot) \ VisibleIn(snapshot') \subseteq seenGone
    OBVIOUS
  <2>1. CASE Save
    BY <2>1 DEF Save, IInv, Diffed, VisibleIn
  <2>2. CASE ~Save
    <3>1. snapshot' = snapshot
      BY <2>2 DEF Next, RunStep, LedgerMoves, Start, Load, FetchTokens, FetchFails, Merge,
                  EmitBalances, EmitList, Stop
    <3> QED  BY <3>1 DEF VisibleIn
  <2> QED  BY <2>1, <2>2
<1> QED  BY <1>1, InvCorrect, PTL DEF Spec, HoldingsKept

\* Both events always agree with the snapshot saved before them, and a removed
\* asset is announced with a balance of zero.
THEOREM RoundTripCorrect == ASSUME Full PROVE Spec => []RoundTrip
<1>1. IInv => RoundTrip
  BY DEF IInv
<1> QED  BY <1>1, InvCorrect, PTL

\* As long as no event was lost, the client lists what the snapshot has and has
\* a zero, or nothing, for the rest.
THEOREM ClientCorrect == ASSUME Full PROVE Spec => []ClientExact
<1>1. IInv => ClientExact
  BY DEF IInv, Told, ClientExact, VisibleIn
<1> QED  BY <1>1, InvCorrect, PTL

----------------------------------------------------------------------------
\* What needs no catalogue: the amounts and the list that are announced are
\* those of the snapshot, even when a run could not ask for every token.

\* The coin is there from Load on.
CoinRead == pc \in {"fetch", "merge"} => view[Native] \in Amounts

\* What is about to be saved, with its announcement.
Prepared ==
    pc = "save" =>
        /\ view[Native] \in Amounts
        /\ added = (VisibleIn(view) \ VisibleIn(snapshot)) \cup {Native}
        /\ removed = VisibleIn(snapshot) \ VisibleIn(view)
        /\ \A a \in VisibleIn(view) : changes[a] = view[a]

\* What was saved, while it is being announced.
Announced ==
    /\ pc = "balances" => \A a \in VisibleIn(snapshot) : changes[a] = snapshot[a]
    /\ pc \in {"balances", "list"} /\ ~behind => (listed \ removed) \cup added = VisibleIn(snapshot)

\* The client's list is the snapshot's whenever nothing is being announced.
ListExact == pc \notin {"balances", "list"} /\ ~behind => listed = VisibleIn(snapshot)

AnyCatalogInv == TypeOK /\ CoinRead /\ Prepared /\ Announced /\ ListExact /\ BalancesHeal

\* The coin keeps the amount that was read when the gaps are filled.
LEMMA CoinMerged == ASSUME AnyCatalogInv, pc = "merge" PROVE Merged(Native) = view[Native] /\ Merged(Native) \in Amounts
<1>1. view[Native] \in Amounts /\ view[Native] # None
  BY AssetAssumption DEF AnyCatalogInv, CoinRead, Amounts
<1> QED  BY <1>1 DEF Merged

LEMMA StepAnyCatalog == AnyCatalogInv /\ [Next]_vars => AnyCatalogInv'
<1> SUFFICES ASSUME AnyCatalogInv, [Next]_vars PROVE AnyCatalogInv'
  OBVIOUS
<1> USE AssetAssumption
<1>0. TypeOK /\ TypeOK'
  BY StepTypes DEF AnyCatalogInv
<1>1. CASE LedgerMoves
  <2>1. UNCHANGED <<snapshot, pc, view, changes, added, removed, shown, listed, behind>>
    BY <1>1 DEF LedgerMoves, locals
  <2> QED  BY <1>0, <2>1 DEF AnyCatalogInv, CoinRead, Prepared, Announced, ListExact, BalancesHeal, VisibleIn
<1>2. CASE Start \/ Stop
  BY <1>0, <1>2 DEF Start, Stop, ClearLocals, locals, AnyCatalogInv, CoinRead, Prepared, Announced, ListExact,
     BalancesHeal, VisibleIn
<1>3. CASE Load
  <2>1. view'[Native] \in Amounts
    BY <1>0, <1>3 DEF Load, TypeOK, Assets, Holdings
  <2> QED  BY <1>0, <1>3, <2>1 DEF Load, AnyCatalogInv, CoinRead, Prepared, Announced, ListExact, BalancesHeal, VisibleIn
<1>4. CASE FetchTokens \/ FetchFails
  <2>1. view'[Native] = view[Native]
    BY <1>0, <1>4 DEF FetchTokens, FetchFails, TypeOK, Assets
  <2> QED  BY <1>0, <1>4, <2>1 DEF FetchTokens, FetchFails, AnyCatalogInv, CoinRead, Prepared, Announced, ListExact,
              BalancesHeal, VisibleIn
<1>5. CASE Merge
  <2>1. view'[Native] \in Amounts
    BY <1>5, CoinMerged DEF Merge, Assets
  <2>2. \A a \in VisibleIn(view') : changes'[a] = view'[a]
    BY <1>5 DEF Merge, VisibleIn, Change, AmountOf, Visible, Amounts
  <2>3. added' = (VisibleIn(view') \ VisibleIn(snapshot')) \cup {Native} /\ removed' = VisibleIn(snapshot') \ VisibleIn(view')
    BY <1>5 DEF Merge, VisibleIn
  <2> QED  BY <1>0, <1>5, <2>1, <2>2, <2>3 DEF Merge, AnyCatalogInv, CoinRead, Prepared, Announced, ListExact,
              BalancesHeal, VisibleIn
<1>6. CASE Save
  <2>1. Native \in VisibleIn(view)
    BY <1>6 DEF Save, AnyCatalogInv, Prepared, VisibleIn, Visible, Assets
  <2>2. snapshot' = view /\ VisibleIn(snapshot') = VisibleIn(view) /\ pc' = "balances"
    BY <1>6 DEF Save, VisibleIn
  <2>3. ~behind => (listed \ removed) \cup added = VisibleIn(view)
    BY <1>6, <2>1 DEF Save, AnyCatalogInv, Prepared, ListExact
  <2> QED  BY <1>0, <1>6, <2>2, <2>3 DEF Save, locals, AnyCatalogInv, CoinRead, Prepared, Announced, ListExact, BalancesHeal
<1>7. CASE EmitBalances
  <2>1. \A a \in VisibleIn(snapshot) : shown'[a] = snapshot[a]
    BY <1>0, <1>7 DEF EmitBalances, AnyCatalogInv, Announced, VisibleIn, Visible, TypeOK, Amounts
  <2> QED  BY <1>0, <1>7, <2>1 DEF EmitBalances, locals, AnyCatalogInv, CoinRead, Prepared, Announced, ListExact,
              BalancesHeal, VisibleIn
<1>8. CASE EmitList
  BY <1>0, <1>8 DEF EmitList, AnyCatalogInv, CoinRead, Prepared, Announced, ListExact, BalancesHeal, VisibleIn
<1>9. CASE UNCHANGED vars
  BY <1>0, <1>9 DEF vars, AnyCatalogInv, CoinRead, Prepared, Announced, ListExact, BalancesHeal, VisibleIn
<1> QED  BY <1>1, <1>2, <1>3, <1>4, <1>5, <1>6, <1>7, <1>8, <1>9 DEF Next, RunStep

LEMMA InitAnyCatalog == Init => AnyCatalogInv
<1> SUFFICES ASSUME Init PROVE AnyCatalogInv
  OBVIOUS
<1>1. TypeOK
  BY InitTypes
<1>2. VisibleIn(snapshot) = {}
  BY AssetAssumption DEF Init, Nothing, Visible, VisibleIn, Amounts
<1> QED  BY <1>1, <1>2 DEF Init, AnyCatalogInv, CoinRead, Prepared, Announced, ListExact, BalancesHeal

\* One delivered event is enough for the amounts, whichever tokens a run could
\* ask for and whatever earlier runs lost.
THEOREM HealCorrect == Spec => []BalancesHeal
<1>1. AnyCatalogInv => BalancesHeal
  BY DEF AnyCatalogInv
<1> QED  BY <1>1, InitAnyCatalog, StepAnyCatalog, PTL DEF Spec

\* Until an event is lost, the client lists the assets of the snapshot, whichever
\* tokens a run could ask for.
THEOREM ListCorrect == Spec => []ListExact
<1>1. AnyCatalogInv => ListExact
  BY DEF AnyCatalogInv
<1> QED  BY <1>1, InitAnyCatalog, StepAnyCatalog, PTL DEF Spec

----------------------------------------------------------------------------
\* The components beside it are instanced with constants and variables of their own. Tokens, and in the metadata
\* changes, have the name of one above: no theorem is about both.
CONSTANTS
    Sources, Calls, Kinds, MaxIndex, Catalogue, Ledger, MaxIds, MaxDeletions, MaxSignatures,   \* StellarKeyring
    Listed, Unlisted, Core, Lookups, Copies, Ttl, MaxChanges, MaxTroubles                      \* StellarMetadata

VARIABLES
    accounts, drawn, deleted, calls, signed, chain, cache, told,
    catalogue, migrating, rows, age, lookups, copies, copied, troubles

----------------------------------------------------------------------------
\* The keyring

Keyring == INSTANCE StellarKeyring

\* The account id is, or was, that of an address.
Known    == DOMAIN accounts \cup DOMAIN deleted
Named(id) == IF id \in DOMAIN accounts THEN accounts[id] ELSE deleted[id]
Is(id, a) == id \in Known /\ Named(id) = a

\* An id is drawn once.
IdsOnce ==
    /\ drawn \in 0..MaxIds /\ Known \subseteq 1..drawn /\ DOMAIN accounts \cap DOMAIN deleted = {}
    /\ \A i \in DOMAIN accounts : accounts[i] \in Keyring!Addresses
    /\ DOMAIN calls = Calls

\* What a call that creates has read stays true of the accounts.
CreateHolds(s) ==
    /\ s.pc \in {"discover", "list", "derive"} => s.source \in Sources /\ s.indexes \subseteq Keyring!Indexes
    /\ s.pc = "discover" => \E source, indexes : s = [pc |-> "discover", source |-> source, indexes |-> indexes]
    /\ s.pc = "derive" => \A n \in DOMAIN s.existing : n \in s.indexes /\ Is(s.existing[n], <<s.source, n>>)
    /\ s.pc = "created" => \A n \in s.indexes : Is(s.answer[n], <<s.source, n>>)

Good(payload) == payload.readable /\ payload.bound # "other"

\* Before its dialog a request knows nothing of its signer, and in its dialog it is the named account's.
SignHolds(s) ==
    /\ s.pc = "resolve" => \E id, payload : s = Keyring!Request(id, payload)
    /\ s.pc = "dialog" =>
         /\ Is(s.id, s.signer) /\ Good(s.payload)
         /\ \E id, payload, signer : s = [pc |-> "dialog", id |-> id, payload |-> payload, signer |-> signer,
                                          shown |-> TRUE, agreed |-> FALSE]

\* Only a call that found the cache filled may be bound to what was listed before: it answers from that snapshot.
ReadHolds(s) ==
    /\ s.pc \in {"load", "tokens", "cache"} => s.expects = Keyring!Nothing
    /\ s.pc = "tokens" => \E among, list, main, tokens :
                             s = [pc |-> "tokens", asked |-> among, list |-> list, expects |-> Keyring!Nothing,
                                  snapshot |-> [main |-> main, tokens |-> tokens]]
    /\ s.pc \in {"tokens", "cache", "answer"} => s.snapshot \in Keyring!Snapshot
    /\ s.pc = "answer" => s.expects = Keyring!Nothing \/ s.expects = s.snapshot

Holds(s) == CreateHolds(s) /\ SignHolds(s) /\ ReadHolds(s)

\* An answer to a request to sign.
Answered(a) ==
    /\ a.signer # "" => Is(a.id, a.signer)
    /\ a.signature # "" => a.signature = a.signer /\ a.shown /\ a.agreed /\ Good(a.payload)
    /\ (a.signature = "" /\ a.signer # "" /\ Good(a.payload)) => a.shown /\ ~a.agreed

\* The list is that of its snapshot; while it is fresh that is what is cached.
ListInv ==
    /\ DOMAIN told = {"listed", "at", "fresh"}
    /\ chain \in Keyring!Versions /\ (cache # Keyring!Nothing => cache \in Keyring!Snapshot)
    /\ told.at # Keyring!Nothing =>
         /\ told.at \in Keyring!Snapshot
         /\ told.listed = IF Keyring!Held(told.at) = {} THEN {"native"} ELSE Keyring!Held(told.at)
    /\ told.fresh => cache = told.at

KeyringInv ==
    /\ IdsOnce /\ ListInv
    /\ \A c \in Calls : Holds(calls[c])
    /\ \A a \in signed : Answered(a)

------------------------------------------------------------------------------
\* The state one call goes to.
LEMMA GotoFacts ==
    ASSUME DOMAIN calls = Calls, NEW c \in Calls, NEW s, Keyring!Goto(c, s)
    PROVE  DOMAIN calls' = Calls /\ calls'[c] = s /\ \A d \in Calls \ {c} : calls'[d] = calls[d]
BY DEF Keyring!Goto

\* What an account is named stays.
Stays == \A id \in Known : id \in Known' /\ Named(id)' = Named(id)

LEMMA HoldsStays == ASSUME Stays, NEW s, Holds(s) PROVE Holds(s)'
<1>1. \A id, a : Is(id, a) => Is(id, a)'
  BY DEF Stays, Is
<1>2. CreateHolds(s)'
  BY <1>1 DEF Holds, CreateHolds, Keyring!Indexes
<1>3. SignHolds(s)'
  BY <1>1 DEF Holds, SignHolds, Good, Keyring!Request
<1>4. ReadHolds(s)'
  BY DEF Holds, ReadHolds, Keyring!Nothing, Keyring!Snapshot, Keyring!Versions
<1> QED  BY <1>2, <1>3, <1>4 DEF Holds

LEMMA ToldStays == ASSUME Stays, NEW a, Answered(a) PROVE Answered(a)'
<1>1. \A id, b : Is(id, b) => Is(id, b)'
  BY DEF Stays, Is
<1> QED  BY <1>1 DEF Answered, Good

\* Names stay, and each call and answer that is new is good.
LEMMA KeyringMoves ==
    ASSUME KeyringInv, IdsOnce', ListInv', Stays,
           \A c \in Calls : \E s : calls'[c] = s /\ (calls[c] = s \/ Holds(s)'),
           \A a \in signed' : a \in signed \/ Answered(a)'
    PROVE  KeyringInv'
<1>1. ASSUME NEW c \in Calls PROVE Holds(calls[c])'
  <2>1. PICK s : calls'[c] = s /\ (calls[c] = s \/ Holds(s)')
    OBVIOUS
  <2>2. Holds(s)'
    <3>1. calls[c] = s => Holds(s)
      BY DEF KeyringInv
    <3> QED  BY <2>1, <3>1, HoldsStays
  <2> QED  BY <2>1, <2>2
<1>2. ASSUME NEW a \in signed' PROVE Answered(a)'
  BY <1>2, ToldStays DEF KeyringInv
<1> QED  BY <1>1, <1>2 DEF KeyringInv

\* The same for a step of one call that goes to s.
LEMMA CallMoves ==
    ASSUME KeyringInv, NEW c \in Calls, NEW s, Keyring!Goto(c, s), Holds(s)', IdsOnce', ListInv', Stays,
           \A a \in signed' : a \in signed \/ Answered(a)'
    PROVE  KeyringInv'
<1>1. DOMAIN calls = Calls
  BY DEF KeyringInv, IdsOnce
<1>2. \A d \in Calls : \E r : calls'[d] = r /\ (calls[d] = r \/ Holds(r)')
  <2> SUFFICES ASSUME NEW d \in Calls PROVE \E r : calls'[d] = r /\ (calls[d] = r \/ Holds(r)')
    OBVIOUS
  <2>1. CASE d = c
    BY <1>1, <2>1, GotoFacts
  <2>2. CASE d # c
    BY <1>1, <2>2, GotoFacts
  <2> QED  BY <2>1, <2>2
<1> QED  BY <1>2, KeyringMoves

\* A step that moves no account keeps the names and ids.
LEMMA SameAccounts ==
    ASSUME KeyringInv, UNCHANGED <<accounts, drawn, deleted>>, DOMAIN calls' = Calls
    PROVE  Stays /\ IdsOnce'
BY DEF KeyringInv, IdsOnce, Stays, Known, Named, Keyring!Addresses, Keyring!Indexes

LEMMA SameReading == ASSUME KeyringInv, UNCHANGED <<chain, cache, told>> PROVE ListInv'
BY DEF KeyringInv, ListInv, Keyring!Held, Keyring!Nothing, Keyring!Snapshot, Keyring!Versions

\* So it is enough, for a step of a call that moves no account, to know where it goes.
LEMMA QuietMoves ==
    ASSUME KeyringInv, NEW c \in Calls, NEW s, Keyring!Goto(c, s), Holds(s)', UNCHANGED <<accounts, drawn, deleted>>,
           UNCHANGED <<chain, cache, told>>, \A a \in signed' : a \in signed \/ Answered(a)'
    PROVE  KeyringInv'
<1>1. DOMAIN calls' = Calls
  BY GotoFacts DEF KeyringInv, IdsOnce
<1> QED  BY <1>1, SameAccounts, SameReading, CallMoves

LEMMA IdleHolds == Holds(Keyring!Idle) /\ Holds(Keyring!Idle)'
BY DEF Holds, CreateHolds, SignHolds, ReadHolds, Keyring!Idle

LEMMA KeyringInitInv == ASSUME Keyring!StellarKeyringAssumption, Keyring!Init PROVE KeyringInv
<1>1. IdsOnce /\ signed = {}
  BY DEF Keyring!StellarKeyringAssumption, Keyring!Init, IdsOnce, Known
<1>2. ListInv
  BY DEF Keyring!Init, ListInv, Keyring!Versions
<1>3. \A c \in Calls : Holds(calls[c])
  BY IdleHolds DEF Keyring!Init
<1> QED  BY <1>1, <1>2, <1>3 DEF KeyringInv

------------------------------------------------------------------------------
\* Creating accounts.
LEMMA CreateSteps ==
    ASSUME Keyring!StellarKeyringAssumption, KeyringInv, NEW c \in Calls,
           \/ \E source \in Sources, from, to \in Keyring!Indexes, d \in BOOLEAN :
                  Keyring!createAccounts(c, source, from, to, d)
           \/ \E active \in BOOLEAN : Keyring!Discover(c, active)
           \/ Keyring!DeriveFails(c) \/ Keyring!Answer(c)
    PROVE  KeyringInv'
<1> USE DEF Keyring!Creating
<1>1. ASSUME NEW source \in Sources, NEW from \in Keyring!Indexes, NEW to \in Keyring!Indexes, NEW d \in BOOLEAN,
             Keyring!createAccounts(c, source, from, to, d)
      PROVE  KeyringInv'
  <2> DEFINE s == [pc |-> IF d THEN "discover" ELSE "list", source |-> source, indexes |-> from..to]
  <2>1. from..to \subseteq Keyring!Indexes
    BY DEF Keyring!StellarKeyringAssumption, Keyring!Indexes
  <2>2. Holds(s)'
    BY <2>1 DEF Holds, CreateHolds, SignHolds, ReadHolds, Keyring!Indexes
  <2>3. Keyring!Goto(c, s) /\ UNCHANGED <<accounts, drawn, deleted, signed, chain, cache, told>>
    BY <1>1 DEF Keyring!createAccounts
  <2> HIDE DEF s
  <2> QED  BY <2>2, <2>3, QuietMoves
<1>2. ASSUME NEW active \in BOOLEAN, Keyring!Discover(c, active) PROVE KeyringInv'
  <2>0. UNCHANGED <<accounts, drawn, deleted, signed, chain, cache, told>>
    BY <1>2 DEF Keyring!Discover
  <2>1. CASE active
    <3>1. calls[c].pc = "discover" /\ Keyring!Goto(c, [calls[c] EXCEPT !.pc = "list"])
      BY <1>2, <2>1 DEF Keyring!Discover
    <3>2. PICK source, indexes : calls[c] = [pc |-> "discover", source |-> source, indexes |-> indexes]
      BY <3>1 DEF KeyringInv, Holds, CreateHolds
    <3>3. [calls[c] EXCEPT !.pc = "list"] = [pc |-> "list", source |-> source, indexes |-> indexes]
      BY <3>2
    <3>4. source \in Sources /\ indexes \subseteq Keyring!Indexes
      BY <3>1, <3>2 DEF KeyringInv, Holds, CreateHolds
    <3>5. Holds([pc |-> "list", source |-> source, indexes |-> indexes])'
      BY <3>4 DEF Holds, CreateHolds, SignHolds, ReadHolds, Keyring!Indexes
    <3> QED  BY <2>0, <3>1, <3>3, <3>5, QuietMoves
  <2>2. CASE ~active
    BY <1>2, <2>0, <2>2, IdleHolds, QuietMoves DEF Keyring!Discover, Keyring!Finish
  <2> QED  BY <2>1, <2>2
<1>3. CASE Keyring!DeriveFails(c) \/ Keyring!Answer(c)
  BY <1>3, IdleHolds, QuietMoves DEF Keyring!DeriveFails, Keyring!Answer, Keyring!Finish
<1> QED  BY <1>1, <1>2, <1>3

\* A set of numbers that is not empty has a greatest one.
LEMMA MaxFacts ==
    ASSUME NEW n \in Nat, NEW S \in SUBSET (1..n), S # {}
    PROVE  Keyring!Max(S) \in S
<1> DEFINE U(i) == {k \in S : k > i}
           T == {U(i) : i \in S}
           R == StrictSubsetOrdering(S)
<1>1. \A i \in S : U(i) \subseteq S /\ IsFiniteSet(U(i))
  <2>1. IsFiniteSet(1..n)
    BY FS_Interval
  <2>2. IsFiniteSet(S)
    BY <2>1, FS_Subset
  <2> QED  BY <2>2, FS_Subset
<1>2. T \subseteq FiniteSubsetsOf(S) /\ T # {}
  BY <1>1 DEF FiniteSubsetsOf
<1>3. IsWellFoundedOn(R, FiniteSubsetsOf(S))
  BY FS_StrictSubsetOrderingWellFounded
<1>4. PICK t \in T : \A u \in T : ~(<<u, t>> \in R)
  <2> HIDE DEF T, R
  <2> QED  BY <1>2, <1>3, WFMin
<1>5. PICK m \in S : t = U(m)
  OBVIOUS
<1>6. ASSUME NEW k \in S, k > m PROVE FALSE
  <2>1. S \subseteq Int
    OBVIOUS
  <2>2. (\A j \in S : j > k => j > m) /\ ~(k > k)
    BY <1>6, <2>1
  <2>3. U(k) \subseteq U(m) /\ k \in U(m) /\ k \notin U(k)
    BY <1>6, <2>2
  <2>4. <<U(k), U(m)>> \in R
    BY <1>1, <2>3 DEF StrictSubsetOrdering
  <2> QED  BY <1>4, <1>5, <2>4
<1>7. \A k \in S : m >= k
  BY <1>6
<1> QED  BY <1>7 DEF Keyring!Max

LEMMA ListStep ==
    ASSUME KeyringInv, NEW c \in Calls, Keyring!List(c)
    PROVE  KeyringInv'
<1> USE DEF Keyring!Creating
<1> DEFINE old == calls[c]
           found == Keyring!Existing(old)
           byIndex(n) == {i \in found : accounts[i][2] = n}
           existing == [n \in {accounts[i][2] : i \in found} |-> Keyring!Max(byIndex(n))]
           s == [pc |-> "derive", source |-> old.source, indexes |-> old.indexes, existing |-> existing]
<1>1. Keyring!Goto(c, s) /\ old.pc = "list" /\ UNCHANGED <<accounts, drawn, deleted, signed, chain, cache, told>>
  BY DEF Keyring!List
<1>2. old.source \in Sources /\ old.indexes \subseteq Keyring!Indexes
  BY <1>1 DEF KeyringInv, Holds, CreateHolds
<1>3. ASSUME NEW n \in DOMAIN existing PROVE n \in old.indexes /\ Is(existing[n], <<old.source, n>>)
  <2>1. \A i \in found : i \in DOMAIN accounts /\ accounts[i][1] = old.source /\ accounts[i][2] \in old.indexes
    BY DEF Keyring!Existing
  <2>2. byIndex(n) \in SUBSET (1..drawn) /\ drawn \in Nat /\ byIndex(n) # {}
    BY <2>1 DEF KeyringInv, IdsOnce, Known
  <2>3. Keyring!Max(byIndex(n)) \in byIndex(n)
    <3> DEFINE S == byIndex(n)
    <3>1. S \in SUBSET (1..drawn) /\ S # {} /\ drawn \in Nat
      BY <2>2
    <3> HIDE DEF S
    <3>2. Keyring!Max(S) \in S
      BY <3>1, MaxFacts
    <3> QED  BY <3>2 DEF S
  <2>4. existing[n] \in byIndex(n)
    BY <2>3
  <2>5. accounts[existing[n]] \in Keyring!Addresses
    BY <2>1, <2>4 DEF KeyringInv, IdsOnce
  <2>6. existing[n] \in DOMAIN accounts /\ accounts[existing[n]] = <<old.source, n>>
    <3> DEFINE i == existing[n]
    <3>1. i \in DOMAIN accounts /\ accounts[i][1] = old.source /\ accounts[i][2] = n
      BY <2>1, <2>4
    <3>2. accounts[i] \in Keyring!Addresses
      BY <2>5
    <3> HIDE DEF i
    <3>3. accounts[i] = <<accounts[i][1], accounts[i][2]>>
      BY <3>2 DEF Keyring!Addresses
    <3> QED  BY <3>1, <3>3 DEF i
  <2>7. n \in old.indexes
    BY <2>1
  <2> QED  BY <2>6, <2>7 DEF Is, Known, Named
<1>4. Holds(s)
  <2> HIDE DEF existing
  <2> QED  BY <1>2, <1>3 DEF Holds, CreateHolds, SignHolds, ReadHolds, s
<1>5. Stays
  BY <1>1 DEF Stays, Known, Named
<1>6. PICK r : r = s
  OBVIOUS
<1> HIDE DEF s
<1>7. Holds(r)'
  BY <1>4, <1>5, <1>6, HoldsStays
<1> QED  BY <1>1, <1>6, <1>7, QuietMoves

\* The numbers below one of a finite set are counted up.
LEMMA CountBelow ==
    ASSUME NEW S, IsFiniteSet(S), S \subseteq Int
    PROVE  /\ \A n \in S : Keyring!Cardinality({m \in S : m < n}) \in 0..(Keyring!Cardinality(S) - 1)
           /\ \A k, n \in S : Keyring!Cardinality({m \in S : m < k}) = Keyring!Cardinality({m \in S : m < n}) => k = n
           /\ Keyring!Cardinality(S) \in Nat
<1> DEFINE Below(n) == {m \in S : m < n}
<1>1. \A T : Keyring!Cardinality(T) = Cardinality(T)
  BY Zenon DEF Keyring!Cardinality, Cardinality
<1>2. \A n \in S : IsFiniteSet(Below(n)) /\ Cardinality(Below(n)) \in Nat
  BY FS_Subset, FS_CardinalityType
<1>3. ASSUME NEW n \in S PROVE Cardinality(Below(n)) \in 0..(Cardinality(S) - 1)
  <2>1. Below(n) \subseteq S \ {n}
    OBVIOUS
  <2>2. IsFiniteSet(S \ {n}) /\ Cardinality(S \ {n}) = Cardinality(S) - 1 /\ Cardinality(S) \in Nat
    BY FS_RemoveElement, FS_CardinalityType
  <2>3. Cardinality(Below(n)) <= Cardinality(S \ {n})
    BY <2>1, <2>2, FS_Subset
  <2> QED  BY <1>2, <2>2, <2>3
<1>4. ASSUME NEW k \in S, NEW n \in S, k < n PROVE Cardinality(Below(k)) < Cardinality(Below(n))
  <2>1. Below(k) \subseteq Below(n) /\ k \in Below(n) /\ k \notin Below(k)
    <3>1. k \in Int /\ n \in Int /\ \A m \in S : m \in Int
      OBVIOUS
    <3>2. (\A m \in S : m < k => m < n) /\ ~(k < k)
      BY <1>4, <3>1
    <3> QED  BY <1>4, <3>2
  <2>2. Below(k) # Below(n)
    BY <2>1
  <2> HIDE DEF Below
  <2> QED  BY <1>2, <2>1, <2>2, FS_Subset
<1>5. \A k, n \in S : Cardinality(Below(k)) = Cardinality(Below(n)) => k = n
  <2> SUFFICES ASSUME NEW k \in S, NEW n \in S, Cardinality(Below(k)) = Cardinality(Below(n)), k # n PROVE FALSE
    OBVIOUS
  <2>1. k < n \/ n < k
    OBVIOUS
  <2>2. Cardinality(Below(k)) \in Nat /\ Cardinality(Below(n)) \in Nat
    BY <1>2
  <2> HIDE DEF Below
  <2> QED  BY <1>4, <2>1, <2>2
<1> QED  BY <1>1, <1>3, <1>5, FS_CardinalityType

LEMMA SaveStep ==
    ASSUME Keyring!StellarKeyringAssumption, KeyringInv, NEW c \in Calls, Keyring!saveMany(c)
    PROVE  KeyringInv'
<1> USE DEF Keyring!Creating
<1> DEFINE old == calls[c]
           missing == old.indexes \ DOMAIN old.existing
           Fresh(n) == drawn + 1 + Keyring!Cardinality({m \in missing : m < n})
           more == Keyring!Cardinality(missing)
           answer == [n \in old.indexes |-> IF n \in missing THEN Fresh(n) ELSE old.existing[n]]
           s == [pc |-> "created", source |-> old.source, indexes |-> old.indexes, answer |-> answer]
<1>1. /\ Keyring!Goto(c, s) /\ old.pc = "derive" /\ UNCHANGED <<deleted, signed, chain, cache, told>>
      /\ drawn' = drawn + more /\ drawn + more <= MaxIds
      /\ accounts' = [i \in DOMAIN accounts \cup {Fresh(n) : n \in missing} |->
                          IF i \in DOMAIN accounts THEN accounts[i]
                          ELSE <<old.source, CHOOSE n \in missing : Fresh(n) = i>>]
  BY DEF Keyring!saveMany
<1>2. old.source \in Sources /\ old.indexes \subseteq Keyring!Indexes
  BY <1>1 DEF KeyringInv, Holds, CreateHolds
<1>3. IsFiniteSet(missing) /\ missing \subseteq Int
  <2>1. IsFiniteSet(Keyring!Indexes) /\ Keyring!Indexes \subseteq Int
    BY FS_Interval DEF Keyring!StellarKeyringAssumption, Keyring!Indexes
  <2> QED  BY <1>2, <2>1, FS_Subset
<1>4. drawn \in 0..MaxIds /\ drawn \in Nat /\ MaxIds \in Nat
  BY DEF KeyringInv, IdsOnce, Keyring!StellarKeyringAssumption
<1>5. /\ more \in Nat
      /\ \A n \in missing : Fresh(n) \in (drawn + 1)..(drawn + more)
      /\ \A k, n \in missing : Fresh(k) = Fresh(n) => k = n
  <2> HIDE DEF missing
  <2>1. /\ \A n \in missing : Keyring!Cardinality({m \in missing : m < n}) \in 0..(more - 1)
        /\ \A k, n \in missing : Keyring!Cardinality({m \in missing : m < k}) = Keyring!Cardinality({m \in missing : m < n})
                                 => k = n
        /\ more \in Nat
    BY <1>3, CountBelow
  <2> DEFINE count(n) == Keyring!Cardinality({m \in missing : m < n})
  <2>2. /\ \A n \in missing : count(n) \in 0..(more - 1)
        /\ \A k, n \in missing : count(k) = count(n) => k = n
        /\ \A n \in missing : Fresh(n) = drawn + 1 + count(n)
    BY <2>1
  <2> HIDE DEF count, Fresh, more
  <2>3. ASSUME NEW n \in missing PROVE Fresh(n) \in (drawn + 1)..(drawn + more)
    <3>1. count(n) \in 0..(more - 1) /\ Fresh(n) = drawn + 1 + count(n) /\ more \in Nat
      BY <2>1, <2>2 DEF more
    <3> QED  BY <1>4, <3>1
  <2>4. ASSUME NEW k \in missing, NEW n \in missing, Fresh(k) = Fresh(n) PROVE k = n
    <3>1. /\ count(n) \in Int /\ Fresh(n) = drawn + 1 + count(n) /\ count(k) \in Int /\ Fresh(k) = drawn + 1 + count(k)
      BY <2>2
    <3>2. count(n) = count(k)
      BY <1>4, <2>4, <3>1
    <3> QED  BY <2>2, <3>2
  <2>5. more \in Nat
    BY <2>1 DEF more
  <2> QED  BY <2>3, <2>4, <2>5
<1> HIDE DEF missing, Fresh, more
<1>6. drawn' \in 0..MaxIds /\ drawn <= drawn'
  BY <1>1, <1>4, <1>5
<1>7. ASSUME NEW n \in missing
      PROVE  /\ Fresh(n) \in 1..drawn' /\ Fresh(n) \notin Known
             /\ Fresh(n) \in DOMAIN accounts' /\ accounts'[Fresh(n)] = <<old.source, n>>
  <2>1. Fresh(n) \in 1..drawn' /\ Fresh(n) \notin 1..drawn
    BY <1>1, <1>4, <1>5
  <2>2. Fresh(n) \notin Known
    BY <2>1 DEF KeyringInv, IdsOnce
  <2>3. (CHOOSE k \in missing : Fresh(k) = Fresh(n)) = n
    BY <1>5
  <2> QED  BY <1>1, <2>1, <2>2, <2>3 DEF Known
<1>8. \A i \in DOMAIN accounts : i \in DOMAIN accounts' /\ accounts'[i] = accounts[i]
  BY <1>1
<1>9. \A i \in DOMAIN accounts' : i \in DOMAIN accounts \/ \E n \in missing : i = Fresh(n)
  BY <1>1
<1>10. Stays
  BY <1>1, <1>7, <1>8, <1>9 DEF Stays, Known, Named
<1>11. IdsOnce'
  <2>1. DOMAIN calls' = Calls
    BY <1>1, GotoFacts DEF KeyringInv, IdsOnce
  <2>2. 1..drawn \subseteq 1..drawn'
    BY <1>4, <1>6
  <2>3. Known \subseteq 1..drawn /\ DOMAIN accounts \cap DOMAIN deleted = {} /\ deleted' = deleted
    BY <1>1 DEF KeyringInv, IdsOnce
  <2>4. Known' \subseteq 1..drawn' /\ DOMAIN accounts' \cap DOMAIN deleted' = {}
    <3>1. \A i \in DOMAIN accounts' : i \in DOMAIN accounts \/ (i \in 1..drawn' /\ i \notin Known)
      BY <1>7, <1>9
    <3> QED  BY <2>2, <2>3, <3>1 DEF Known
  <2>5. ASSUME NEW i \in DOMAIN accounts' PROVE accounts'[i] \in Keyring!Addresses
    <3>1. CASE i \in DOMAIN accounts
      BY <1>8, <3>1 DEF KeyringInv, IdsOnce
    <3>2. CASE \E n \in missing : i = Fresh(n)
      <4>1. PICK n \in missing : i = Fresh(n)
        BY <3>2
      <4>2. n \in Keyring!Indexes
        BY <1>2 DEF missing
      <4> QED  BY <1>2, <1>7, <4>1, <4>2 DEF Keyring!Addresses
    <3> QED  BY <1>9, <3>1, <3>2
  <2> QED  BY <1>6, <2>1, <2>4, <2>5 DEF IdsOnce, Keyring!Addresses, Keyring!Indexes
<1>12. PICK r : r = s
  OBVIOUS
<1>13. r.pc = "created" /\ r.source = old.source /\ r.indexes = old.indexes /\ r.answer = answer
  BY <1>12
<1>14. ASSUME NEW n \in r.indexes PROVE Is(r.answer[n], <<r.source, n>>)'
  <2>0. n \in old.indexes /\ r.answer[n] = answer[n]
    BY <1>13
  <2>1. CASE n \in missing
    <3>1. r.answer[n] = Fresh(n)
      BY <2>0, <2>1
    <3> QED  BY <1>7, <1>13, <2>1, <3>1 DEF Is, Known, Named
  <2>2. CASE n \notin missing
    <3>1. r.answer[n] = old.existing[n] /\ n \in DOMAIN old.existing
      BY <2>0, <2>2 DEF missing
    <3>2. Is(old.existing[n], <<old.source, n>>)
      BY <1>1, <3>1 DEF KeyringInv, Holds, CreateHolds
    <3> QED  BY <1>10, <1>13, <3>1, <3>2 DEF Is, Stays
  <2> QED  BY <2>1, <2>2
<1>15. Holds(r)'
  BY <1>13, <1>14 DEF Holds, CreateHolds, SignHolds, ReadHolds
<1> HIDE DEF s
<1> QED  BY <1>1, <1>10, <1>11, <1>12, <1>15, SameReading, CallMoves

LEMMA DeleteStep ==
    ASSUME KeyringInv, NEW id \in Keyring!Ids, Keyring!deleteAccount(id)
    PROVE  KeyringInv'
<1> USE DEF Keyring!Creating
<1>1. /\ id \in DOMAIN accounts /\ accounts' = [i \in DOMAIN accounts \ {id} |-> accounts[i]]
      /\ deleted' = [i \in DOMAIN deleted \cup {id} |-> IF i = id THEN accounts[i] ELSE deleted[i]]
      /\ UNCHANGED <<drawn, calls, signed, chain, cache, told>>
  BY DEF Keyring!deleteAccount
<1>2. Stays
  BY <1>1 DEF KeyringInv, IdsOnce, Stays, Known, Named
<1>3. IdsOnce'
  BY <1>1 DEF KeyringInv, IdsOnce, Known, Keyring!Addresses, Keyring!Indexes
<1>4. \A c \in Calls : \E s : calls'[c] = s /\ (calls[c] = s \/ Holds(s)')
  BY <1>1
<1> QED  BY <1>1, <1>2, <1>3, <1>4, SameReading, KeyringMoves

------------------------------------------------------------------------------
\* Signing.
Asking(at, id, payload, signer, seen, agreed) ==
    [pc |-> at, id |-> id, payload |-> payload, signer |-> signer, shown |-> seen, agreed |-> agreed]

LEMMA AskingAgreed ==
    ASSUME NEW at, NEW id, NEW payload, NEW signer, NEW seen, NEW agreed, NEW new
    PROVE  [Asking(at, id, payload, signer, seen, agreed) EXCEPT !.agreed = new] = Asking(at, id, payload, signer, seen, new)
BY DEF Asking

LEMMA RespondMoves ==
    ASSUME KeyringInv, NEW c \in Calls, NEW call, NEW signature, Keyring!Respond(c, call, signature),
           UNCHANGED <<accounts, drawn, deleted, chain, cache, told>>,
           Answered([id |-> call.id, payload |-> call.payload, signer |-> call.signer, shown |-> call.shown,
                 agreed |-> call.agreed, signature |-> signature])
    PROVE  KeyringInv'
<1> DEFINE a == [id |-> call.id, payload |-> call.payload, signer |-> call.signer, shown |-> call.shown,
                 agreed |-> call.agreed, signature |-> signature]
<1>1. signed' = signed \cup {a} /\ Keyring!Goto(c, Keyring!Idle)
  BY DEF Keyring!Respond, Keyring!Finish
<1>2. Stays
  BY DEF Stays, Known, Named
<1>3. Answered(a)
  OBVIOUS
<1> HIDE DEF a
<1>4. Answered(a)'
  BY <1>2, <1>3, ToldStays
<1>5. \A b \in signed' : b \in signed \/ Answered(b)'
  BY <1>1, <1>4
<1> QED  BY <1>1, <1>5, IdleHolds, QuietMoves

LEMMA SignSteps ==
    ASSUME KeyringInv, NEW c \in Calls,
           \/ \E id \in Keyring!Ids, p \in Keyring!Payload : Keyring!submitRequest(c, id, p)
           \/ Keyring!ResolveAccount(c)
           \/ \E agrees \in BOOLEAN : Keyring!Confirm(c, agrees)
    PROVE  KeyringInv'
<1>0. PICK no, yes : no = FALSE /\ yes = TRUE
  OBVIOUS
<1>1. ASSUME NEW id \in Keyring!Ids, NEW p \in Keyring!Payload, Keyring!submitRequest(c, id, p) PROVE KeyringInv'
  <2>1. /\ Keyring!Goto(c, Keyring!Request(id, p))
        /\ UNCHANGED <<accounts, drawn, deleted, signed, chain, cache, told>>
    BY <1>1 DEF Keyring!submitRequest
  <2>2. Holds(Keyring!Request(id, p))'
    BY DEF Holds, CreateHolds, SignHolds, ReadHolds, Keyring!Request
  <2> QED  BY <2>1, <2>2, QuietMoves
<1>2. CASE Keyring!ResolveAccount(c)
  <2>1. calls[c].pc = "resolve" /\ UNCHANGED <<accounts, drawn, deleted, chain, cache, told>>
    BY <1>2 DEF Keyring!ResolveAccount
  <2>2. PICK id, payload : calls[c] = Keyring!Request(id, payload)
    BY <2>1 DEF KeyringInv, Holds, SignHolds
  <2>3. CASE id \notin DOMAIN accounts
    <3>1. PICK call : call = Keyring!Request(id, payload)
      OBVIOUS
    <3>2. call.id = id /\ call.signer = ""
      BY <3>1 DEF Keyring!Request
    <3>3. Keyring!Respond(c, call, "")
      BY <1>2, <2>2, <2>3, <3>1, <3>2 DEF Keyring!ResolveAccount
    <3>4. Answered([id |-> call.id, payload |-> call.payload, signer |-> call.signer, shown |-> call.shown,
                agreed |-> call.agreed, signature |-> ""])
      BY <3>2 DEF Answered
    <3> QED  BY <2>1, <3>3, <3>4, RespondMoves
  <2>4. CASE id \in DOMAIN accounts
    <3>1. Is(id, accounts[id])
      BY <2>4 DEF Is, Known, Named
    <3>2. PICK r : r = Asking("resolve", id, payload, accounts[id], no, no)
      OBVIOUS
    <3>3. r.id = id /\ r.payload = payload /\ r.signer = accounts[id] /\ r.shown = FALSE /\ r.agreed = FALSE
      BY <1>0, <3>2 DEF Asking
    <3>4. calls[c].id = id /\ calls[c].payload = payload /\ [calls[c] EXCEPT !.signer = accounts[calls[c].id]] = r
      <4>1. PICK call, nobody, a : call = calls[c] /\ nobody = "" /\ a = accounts[id]
        OBVIOUS
      <4>2. call = Asking("resolve", id, payload, nobody, no, no)
        BY <1>0, <2>2, <4>1 DEF Keyring!Request, Asking
      <4>3. call.id = id /\ call.payload = payload
        BY <4>2 DEF Asking
      <4>4. [call EXCEPT !.signer = a] = Asking("resolve", id, payload, a, no, no)
        BY <4>2 DEF Asking
      <4> QED  BY <3>2, <4>1, <4>3, <4>4
    <3>5. CASE ~Good(payload)
      <4>1. Keyring!Respond(c, r, "")
        BY <1>2, <2>4, <3>4, <3>2, <3>5 DEF Keyring!ResolveAccount, Keyring!assertIsValidBoundAddress, Good
      <4>2. Answered([id |-> r.id, payload |-> r.payload, signer |-> r.signer, shown |-> r.shown, agreed |-> r.agreed,
                  signature |-> ""])
        BY <3>1, <3>3, <3>5 DEF Answered
      <4> QED  BY <2>1, <4>1, <4>2, RespondMoves
    <3>6. CASE Good(payload)
      <4>1. Keyring!Goto(c, [r EXCEPT !.pc = "dialog", !.shown = TRUE]) /\ signed' = signed
        BY <1>2, <2>4, <3>4, <3>6 DEF Keyring!ResolveAccount, Keyring!assertIsValidBoundAddress, Good
      <4>2. PICK s : s = Asking("dialog", id, payload, accounts[id], yes, no)
        OBVIOUS
      <4>3. s = [r EXCEPT !.pc = "dialog", !.shown = TRUE]
        <5>1. PICK a : a = accounts[id]
          OBVIOUS
        <5>2. [r EXCEPT !.pc = "dialog", !.shown = yes] = [[r EXCEPT !.pc = "dialog"] EXCEPT !.shown = yes]
          BY Zenon
        <5>3. r = Asking("resolve", id, payload, a, no, no)
          BY <3>2, <5>1
        <5>4. [r EXCEPT !.pc = "dialog"] = Asking("dialog", id, payload, a, no, no)
          BY <5>3 DEF Asking
        <5>5. [Asking("dialog", id, payload, a, no, no) EXCEPT !.shown = yes] = Asking("dialog", id, payload, a, yes, no)
          BY DEF Asking
        <5> QED  BY <1>0, <4>2, <5>1, <5>2, <5>4, <5>5
      <4>4. Holds(s)
        BY <1>0, <3>1, <3>6, <4>2 DEF Asking, Holds, CreateHolds, SignHolds, ReadHolds
      <4>5. Stays
        BY <2>1 DEF Stays, Known, Named
      <4>6. Holds(s)'
        BY <4>4, <4>5, HoldsStays
      <4> QED  BY <2>1, <4>1, <4>3, <4>6, QuietMoves
    <3> QED  BY <3>5, <3>6
  <2> QED  BY <2>3, <2>4
<1>3. ASSUME NEW agrees \in BOOLEAN, Keyring!Confirm(c, agrees) PROVE KeyringInv'
  <2>1. calls[c].pc = "dialog" /\ UNCHANGED <<accounts, drawn, deleted, chain, cache, told>>
    BY <1>3 DEF Keyring!Confirm
  <2>2. PICK id, payload, signer : calls[c] = [pc |-> "dialog", id |-> id, payload |-> payload, signer |-> signer,
                                               shown |-> TRUE, agreed |-> FALSE]
    BY <2>1 DEF KeyringInv, Holds, SignHolds
  <2>3. Is(id, signer) /\ Good(payload)
    BY <2>1, <2>2 DEF KeyringInv, Holds, SignHolds
  <2>4. PICK call : call = Asking("dialog", id, payload, signer, yes, agrees)
    OBVIOUS
  <2>5. call.id = id /\ call.payload = payload /\ call.signer = signer /\ call.shown = TRUE /\ call.agreed = agrees
    BY <1>0, <2>4 DEF Asking
  <2>6. [calls[c] EXCEPT !.agreed = agrees] = call
    <3>1. calls[c] = Asking("dialog", id, payload, signer, yes, no)
      BY <1>0, <2>2 DEF Asking
    <3> QED  BY <2>4, <3>1, AskingAgreed
  <2> DEFINE signature == IF agrees THEN signer ELSE ""
  <2>7. Keyring!Respond(c, call, signature)
    BY <1>3, <2>5, <2>6 DEF Keyring!Confirm
  <2>8. Answered([id |-> call.id, payload |-> call.payload, signer |-> call.signer, shown |-> call.shown,
              agreed |-> call.agreed, signature |-> signature])
    BY <2>3, <2>5 DEF Answered
  <2> HIDE DEF signature
  <2> QED  BY <2>1, <2>7, <2>8, RespondMoves
<1> QED  BY <1>1, <1>2, <1>3

------------------------------------------------------------------------------
\* Reading.
LEMMA ReadingSame ==
    ASSUME KeyringInv, NEW c \in Calls, NEW s, Keyring!Goto(c, s), UNCHANGED <<accounts, drawn, deleted, signed>>,
           ReadHolds(s)', s.pc \in {"idle", "load", "tokens", "cache", "answer"}, ListInv'
    PROVE  KeyringInv'
<1>1. DOMAIN calls' = Calls
  BY GotoFacts DEF KeyringInv, IdsOnce
<1>2. Holds(s)'
  BY DEF Holds, CreateHolds, SignHolds
<1> QED  BY <1>1, <1>2, SameAccounts, CallMoves

LEMMA ReadSteps ==
    ASSUME KeyringInv, NEW c \in Calls,
           \/ Keyring!getAccountAssets(c)
           \/ \E among \in SUBSET Keyring!Assets : Keyring!getAccountBalances(c, among)
           \/ Keyring!LoadOnChainAccount(c) \/ Keyring!FetchAndBindSep41Balances(c) \/ Keyring!FetchFails(c)
           \/ Keyring!UseCache(c) \/ Keyring!AnswerBalances(c)
    PROVE  KeyringInv'
<1> USE DEF Keyring!Reading
<1>0. ListInv /\ DOMAIN calls = Calls /\ ReadHolds(calls[c])
  BY DEF KeyringInv, IdsOnce, Holds
<1>1. CASE Keyring!getAccountAssets(c)
  <2> DEFINE s == [pc |-> "load", asked |-> {}, list |-> TRUE, expects |-> Keyring!Nothing]
  <2>1. Keyring!Goto(c, s) /\ UNCHANGED <<accounts, drawn, deleted, signed, chain, cache, told>>
    BY <1>1 DEF Keyring!getAccountAssets
  <2>2. ReadHolds(s)' /\ s.pc = "load"
    BY DEF ReadHolds, Keyring!Nothing
  <2> HIDE DEF s
  <2> QED  BY <2>1, <2>2, SameReading, ReadingSame
<1>2. ASSUME NEW among \in SUBSET Keyring!Assets, Keyring!getAccountBalances(c, among) PROVE KeyringInv'
  <2>1. PICK expects : expects = IF told.fresh THEN told.at ELSE Keyring!Nothing
    OBVIOUS
  <2>2. UNCHANGED <<accounts, drawn, deleted, signed, chain, cache, told>>
    BY <1>2 DEF Keyring!getAccountBalances
  <2>3. CASE cache # Keyring!Nothing
    <3>1. PICK s : s = [pc |-> "answer", asked |-> among, expects |-> expects, snapshot |-> cache]
      OBVIOUS
    <3>2. Keyring!Goto(c, s)
      BY <1>2, <2>1, <2>3, <3>1 DEF Keyring!getAccountBalances
    <3>3. expects = Keyring!Nothing \/ expects = cache
      BY <1>0, <2>1 DEF ListInv
    <3>4. ReadHolds(s)' /\ s.pc = "answer"
      BY <1>0, <2>3, <3>1, <3>3 DEF ListInv, ReadHolds, Keyring!Nothing, Keyring!Snapshot, Keyring!Versions
    <3> QED  BY <2>2, <3>2, <3>4, SameReading, ReadingSame
  <2>4. CASE cache = Keyring!Nothing
    <3>1. PICK s : s = [pc |-> "load", asked |-> among, list |-> FALSE, expects |-> expects]
      OBVIOUS
    <3>2. Keyring!Goto(c, s)
      BY <1>2, <2>1, <2>4, <3>1 DEF Keyring!getAccountBalances
    <3>3. expects = Keyring!Nothing
      BY <1>0, <2>1, <2>4 DEF ListInv
    <3>4. ReadHolds(s)' /\ s.pc = "load"
      BY <3>1, <3>3 DEF ReadHolds, Keyring!Nothing
    <3> QED  BY <2>2, <3>2, <3>4, SameReading, ReadingSame
  <2> QED  BY <2>3, <2>4
<1>3. CASE Keyring!LoadOnChainAccount(c)
  <2>1. calls[c].pc = "load" /\ UNCHANGED <<accounts, drawn, deleted, signed, chain, cache, told>>
    BY <1>3 DEF Keyring!LoadOnChainAccount
  <2>2. PICK s : s = [pc |-> IF Ledger[chain] = {} THEN "cache" ELSE "tokens", asked |-> calls[c].asked,
                      list |-> calls[c].list, expects |-> calls[c].expects,
                      snapshot |-> [main |-> chain, tokens |-> chain]]
    OBVIOUS
  <2>3. Keyring!Goto(c, s)
    BY <1>3, <2>2 DEF Keyring!LoadOnChainAccount
  <2>4. calls[c].expects = Keyring!Nothing /\ chain \in Keyring!Versions
    BY <1>0, <2>1 DEF ReadHolds, ListInv
  <2>5. s.snapshot \in Keyring!Snapshot /\ s.expects = Keyring!Nothing /\ s.pc \in {"cache", "tokens"}
    BY <2>2, <2>4 DEF Keyring!Snapshot
  <2>6. \E a, list, main, tokens : s = [pc |-> s.pc, asked |-> a, list |-> list, expects |-> Keyring!Nothing,
                                        snapshot |-> [main |-> main, tokens |-> tokens]]
    BY <2>2, <2>4
  <2>7. ReadHolds(s)'
    BY <2>5, <2>6 DEF ReadHolds, Keyring!Nothing, Keyring!Snapshot, Keyring!Versions
  <2> QED  BY <2>1, <2>3, <2>5, <2>7, SameReading, ReadingSame
<1>4. CASE Keyring!FetchAndBindSep41Balances(c)
  <2>1. calls[c].pc = "tokens" /\ UNCHANGED <<accounts, drawn, deleted, signed, chain, cache, told>>
    BY <1>4 DEF Keyring!FetchAndBindSep41Balances
  <2>2. PICK a, list, main, tokens : calls[c] = [pc |-> "tokens", asked |-> a, list |-> list,
                                                 expects |-> Keyring!Nothing, snapshot |-> [main |-> main, tokens |-> tokens]]
    BY <1>0, <2>1 DEF ReadHolds
  <2>3. PICK s : s = [calls[c] EXCEPT !.pc = "cache", !.snapshot.tokens = chain]
    OBVIOUS
  <2>4. Keyring!Goto(c, s)
    BY <1>4, <2>3 DEF Keyring!FetchAndBindSep41Balances
  <2>5. s.pc = "cache" /\ s.expects = Keyring!Nothing /\ s.snapshot = [main |-> main, tokens |-> chain]
    BY <2>2, <2>3
  <2>6. main \in Keyring!Versions /\ chain \in Keyring!Versions
    BY <1>0, <2>1, <2>2 DEF ReadHolds, ListInv, Keyring!Snapshot
  <2>7. s.snapshot \in Keyring!Snapshot
    BY <2>5, <2>6 DEF Keyring!Snapshot
  <2>8. ReadHolds(s)'
    BY <2>5, <2>7 DEF ReadHolds, Keyring!Nothing, Keyring!Snapshot, Keyring!Versions
  <2> QED  BY <2>1, <2>4, <2>5, <2>8, SameReading, ReadingSame
<1>5. CASE Keyring!FetchFails(c) \/ Keyring!AnswerBalances(c)
  BY <1>5, IdleHolds, QuietMoves DEF Keyring!FetchFails, Keyring!AnswerBalances, Keyring!Finish
<1>6. CASE Keyring!UseCache(c)
  <2>1. calls[c].pc = "cache" /\ cache' = calls[c].snapshot /\ UNCHANGED <<accounts, drawn, deleted, signed, chain>>
    BY <1>6 DEF Keyring!UseCache
  <2>2. calls[c].snapshot \in Keyring!Snapshot /\ calls[c].expects = Keyring!Nothing
    BY <1>0, <2>1 DEF ReadHolds
  <2>3. CASE calls[c].list
    <3>1. Keyring!Goto(c, Keyring!Idle)
          /\ told' = [listed |-> IF Keyring!Held(calls[c].snapshot) = {} THEN {"native"} ELSE Keyring!Held(calls[c].snapshot),
                      at |-> calls[c].snapshot, fresh |-> TRUE]
      BY <1>6, <2>3 DEF Keyring!UseCache, Keyring!Finish
    <3>2. PICK kept : kept = calls[c].snapshot
      OBVIOUS
    <3>3. /\ told'.at = kept /\ cache' = kept /\ DOMAIN told' = {"listed", "at", "fresh"}
          /\ told'.listed = IF Keyring!Held(kept) = {} THEN {"native"} ELSE Keyring!Held(kept)
      BY <2>1, <3>1, <3>2
    <3>4. ListInv'
      BY <1>0, <2>1, <2>2, <3>2, <3>3 DEF ListInv, Keyring!Held, Keyring!Nothing, Keyring!Snapshot, Keyring!Versions
    <3>5. ReadHolds(Keyring!Idle)' /\ Keyring!Idle.pc = "idle"
      BY IdleHolds DEF Holds, Keyring!Idle
    <3> QED  BY <2>1, <3>1, <3>4, <3>5, ReadingSame
  <2>4. CASE ~calls[c].list
    <3>1. PICK s : s = [pc |-> "answer", asked |-> calls[c].asked, expects |-> calls[c].expects,
                        snapshot |-> calls[c].snapshot]
      OBVIOUS
    <3>2. Keyring!Goto(c, s) /\ told' = [told EXCEPT !.fresh = FALSE]
      BY <1>6, <2>4, <3>1 DEF Keyring!UseCache
    <3>3. ListInv'
      BY <1>0, <2>1, <2>2, <3>2 DEF ListInv, Keyring!Held, Keyring!Nothing, Keyring!Snapshot, Keyring!Versions
    <3>4. ReadHolds(s)' /\ s.pc = "answer"
      BY <2>2, <3>1 DEF ReadHolds, Keyring!Nothing, Keyring!Snapshot, Keyring!Versions
    <3> QED  BY <2>1, <3>2, <3>3, <3>4, ReadingSame
  <2> QED  BY <2>3, <2>4
<1> QED  BY <1>1, <1>2, <1>3, <1>4, <1>5, <1>6

LEMMA KeyringStep ==
    ASSUME Keyring!StellarKeyringAssumption, KeyringInv, [Keyring!Next]_(Keyring!stellarKeyringVars)
    PROVE  KeyringInv'
<1>1. CASE \E c \in Calls :
             \/ \E s \in Sources, f, t \in Keyring!Indexes, d \in BOOLEAN : Keyring!createAccounts(c, s, f, t, d)
             \/ \E active \in BOOLEAN : Keyring!Discover(c, active)
             \/ Keyring!DeriveFails(c) \/ Keyring!Answer(c)
  BY <1>1, CreateSteps
<1>2. CASE \E c \in Calls : Keyring!List(c) \/ Keyring!saveMany(c)
  BY <1>2, ListStep, SaveStep
<1>3. CASE \E id \in Keyring!Ids : Keyring!deleteAccount(id)
  BY <1>3, DeleteStep
<1>4. CASE \E c \in Calls :
             \/ \E id \in Keyring!Ids, p \in Keyring!Payload : Keyring!submitRequest(c, id, p)
             \/ Keyring!ResolveAccount(c)
             \/ \E agrees \in BOOLEAN : Keyring!Confirm(c, agrees)
  BY <1>4, SignSteps
<1>5. CASE \E c \in Calls :
             \/ Keyring!getAccountAssets(c)
             \/ \E among \in SUBSET Keyring!Assets : Keyring!getAccountBalances(c, among)
             \/ Keyring!LoadOnChainAccount(c) \/ Keyring!FetchAndBindSep41Balances(c) \/ Keyring!FetchFails(c)
             \/ Keyring!UseCache(c) \/ Keyring!AnswerBalances(c)
  BY <1>5, ReadSteps
<1>6. ASSUME UNCHANGED <<accounts, drawn, deleted, calls, signed>>, ListInv' PROVE KeyringInv'
  <2>1. Stays /\ IdsOnce'
    BY <1>6, SameAccounts DEF KeyringInv, IdsOnce
  <2>2. \A c \in Calls : \E s : calls'[c] = s /\ (calls[c] = s \/ Holds(s)')
    BY <1>6
  <2> QED  BY <1>6, <2>1, <2>2, KeyringMoves
<1>7. CASE Keyring!Advance \/ Keyring!Expire
  <2>1. ListInv'
    <3>1. ListInv
      BY DEF KeyringInv
    <3>2. CASE Keyring!Advance
      <4>1. chain' \in Keyring!Versions /\ UNCHANGED <<cache, told>>
        BY <3>2 DEF Keyring!Advance, Keyring!Versions
      <4> QED  BY <3>1, <4>1 DEF ListInv, Keyring!Held, Keyring!Nothing, Keyring!Snapshot, Keyring!Versions
    <3>3. CASE Keyring!Expire
      <4>1. cache' = Keyring!Nothing /\ told' = [told EXCEPT !.fresh = FALSE] /\ chain' = chain
        BY <3>3 DEF Keyring!Expire
      <4> QED  BY <3>1, <4>1 DEF ListInv, Keyring!Held, Keyring!Nothing, Keyring!Snapshot, Keyring!Versions
    <3> QED  BY <1>7, <3>2, <3>3
  <2> QED  BY <1>6, <1>7, <2>1 DEF Keyring!Advance, Keyring!Expire, Keyring!Reading
<1>8. CASE UNCHANGED Keyring!stellarKeyringVars
  BY <1>6, <1>8, SameReading DEF Keyring!stellarKeyringVars
<1> QED  BY <1>1, <1>2, <1>3, <1>4, <1>5, <1>7, <1>8 DEF Keyring!Next

LEMMA KeyringCorrect == ASSUME Keyring!StellarKeyringAssumption PROVE Keyring!Spec => []KeyringInv
<1>1. Keyring!Init => KeyringInv
  BY KeyringInitInv
<1>2. KeyringInv /\ [Keyring!Next]_(Keyring!stellarKeyringVars) => KeyringInv'
  BY KeyringStep
<1> QED  BY <1>1, <1>2, PTL DEF Keyring!Spec

\* A call that creates accounts answers one for every index it was asked for, of its own entropy source and at that
\* index, however many calls read the list before others saved to it (batchCreate, saveMany).
THEOREM AccountsAsAsked ==
    ASSUME Keyring!StellarKeyringAssumption PROVE Keyring!Spec => [](Keyring!TypeOK /\ Keyring!CreatedAsAsked)
<1>1. KeyringInv => Keyring!TypeOK
  BY DEF KeyringInv, IdsOnce, ListInv, Known, Keyring!TypeOK, Keyring!Range, Keyring!Nothing
<1>2. KeyringInv => Keyring!CreatedAsAsked
  <2> SUFFICES ASSUME KeyringInv, NEW c \in Calls, calls[c].pc = "created", NEW n \in calls[c].indexes
               PROVE  LET id == calls[c].answer[n]
                      IN  /\ id \in DOMAIN accounts \cup DOMAIN deleted
                          /\ (IF id \in DOMAIN accounts THEN accounts[id] ELSE deleted[id]) = <<calls[c].source, n>>
    BY DEF Keyring!CreatedAsAsked
  <2> QED  BY DEF KeyringInv, Holds, CreateHolds, Is, Known, Named
<1> QED  BY <1>1, <1>2, KeyringCorrect, PTL

\* A signature is the named account's, over a payload that was shown and agreed to, whatever happened to the account
\* while the dialog was open; anything else is answered without one (the SEP-43 handlers).
THEOREM SignedWithConsent ==
    ASSUME Keyring!StellarKeyringAssumption PROVE Keyring!Spec => []Keyring!SignedKnowingly
<1>1. KeyringInv => Keyring!SignedKnowingly
  BY DEF KeyringInv, Answered, Good, Is, Known, Named, Keyring!SignedKnowingly
<1> QED  BY <1>1, KeyringCorrect, PTL

\* What was listed can be asked for: as long as its snapshot is cached, every listed asset has a balance, of that
\* snapshot (getAccountAssets, getAccountBalances).
THEOREM ListedAnswered ==
    ASSUME Keyring!StellarKeyringAssumption PROVE Keyring!Spec => []Keyring!ListedHaveBalances
<1>1. KeyringInv => Keyring!ListedHaveBalances
  <2> SUFFICES ASSUME KeyringInv, NEW c \in Calls, calls[c].pc = "answer"
               PROVE  LET call == calls[c]
                          of   == Keyring!Balances(call)
                      IN  /\ call.expects # Keyring!Nothing =>
                               /\ call.expects.main = call.snapshot.main
                               /\ told.at = call.expects => told.listed \cap call.asked \subseteq DOMAIN of
                               /\ \A a \in DOMAIN of \cap Catalogue : of[a] = call.expects.tokens
                          /\ Ledger[call.snapshot.main] # {} =>
                               (call.asked \cap Tokens \cap Ledger[chain]) \ Catalogue \subseteq DOMAIN of
    BY DEF Keyring!ListedHaveBalances
  <2> DEFINE call == calls[c]
             of == Keyring!Balances(call)
             live == ((call.asked \cap Tokens) \ Catalogue) \cap Ledger[chain]
  <2>1. call.snapshot \in Keyring!Snapshot /\ (call.expects = Keyring!Nothing \/ call.expects = call.snapshot)
    BY DEF KeyringInv, Holds, ReadHolds
  <2>2. /\ call.snapshot.main \in DOMAIN Ledger
        /\ Catalogue \subseteq Tokens /\ "native" \notin Tokens
        /\ \A v \in DOMAIN Ledger : Ledger[v] # {} => "native" \in Ledger[v]
    BY <2>1 DEF Keyring!Snapshot, Keyring!Versions, Keyring!StellarKeyringAssumption
  <2>3. ASSUME call.expects = call.snapshot, told.at = call.expects, call.expects # Keyring!Nothing
        PROVE  told.listed = IF Keyring!Held(call.snapshot) = {} THEN {"native"} ELSE Keyring!Held(call.snapshot)
    BY <2>3 DEF KeyringInv, ListInv
  <2>4. CASE Ledger[call.snapshot.main] = {}
    <3>1. DOMAIN of = call.asked \cap {"native"}
      BY <2>4 DEF Keyring!Balances
    <3>2. Keyring!Held(call.snapshot) = {}
      BY <2>4 DEF Keyring!Held
    <3> HIDE DEF of, call
    <3> QED  BY <2>1, <2>2, <2>3, <2>4, <3>1, <3>2 DEF call, of
  <2>5. CASE Ledger[call.snapshot.main] # {}
    <3>1. of = [a \in (call.asked \cap Keyring!Held(call.snapshot)) \cup live |->
                    IF a \in live THEN chain ELSE Keyring!VersionOf(call.snapshot, a)]
      BY <2>5 DEF Keyring!Balances, Keyring!missingSep41AssetIds
    <3>2. Keyring!Held(call.snapshot) # {}
      BY <2>2, <2>5 DEF Keyring!Held
    <3>3. \A a \in DOMAIN of \cap Catalogue : of[a] = call.snapshot.tokens
      BY <2>2, <3>1 DEF Keyring!VersionOf
    <3>4. DOMAIN of = (call.asked \cap Keyring!Held(call.snapshot)) \cup live
      BY <3>1
    <3> HIDE DEF of, call
    <3> QED  BY <2>1, <2>3, <3>2, <3>3, <3>4 DEF call, of
  <2> QED  BY <2>4, <2>5
<1> QED  BY <1>1, KeyringCorrect, PTL

----------------------------------------------------------------------------
\* The metadata of tokens

\* Its assets are called listed here.
Metadata == INSTANCE StellarMetadata WITH Assets <- Listed

Record == [Metadata!Ids -> 0..2]
Found(record) == Metadata!Found(record)
LookupStates == [at : {"idle", "controller", "state", "api", "save", "done", "failed"}, ids : SUBSET Metadata!Ids,
                 found : Record, fetched : Record]
CopyStates == [at : {"idle", "api", "save"}, ids : SUBSET Metadata!Ids, found : Record, fetched : Record]

\* What a look-up has found so far it was asked for, and the next caller finds it too.
Kept(s) == Found(s.found) \subseteq s.ids \cap (Core \cup Found(rows)) /\ (s.at = "save" => Found(s.fetched) \subseteq s.ids)

MetadataInv ==
    /\ catalogue \in Record /\ rows \in Record /\ copied \in Record
    /\ migrating \in BOOLEAN /\ age \in 0..Metadata!Never
    /\ lookups \in [Lookups -> LookupStates] /\ copies \in [Copies -> CopyStates]
    /\ Metadata!StampTrue
    /\ \A l \in Lookups : Kept(lookups[l])

LEMMA RecordFacts ==
    /\ \A r, o \in Record : Metadata!Joined(r, o) \in Record /\ Found(Metadata!Joined(r, o)) = Found(r) \cup Found(o)
    /\ \A r \in Record : \A from : Metadata!Taking(r, from) \in Record /\ Found(Metadata!Taking(r, from)) = Found(r) \cap from
    /\ Metadata!None \in Record /\ Found(Metadata!None) = {}
    /\ Metadata!CoreVersion \in Record /\ Found(Metadata!CoreVersion) \subseteq Core
BY DEF Record, Found, Metadata!Found, Metadata!Joined, Metadata!Taking, Metadata!None, Metadata!CoreVersion

LEMMA IdleLookup == Metadata!Idle \in LookupStates /\ Metadata!Idle \in CopyStates /\ Kept(Metadata!Idle)
BY RecordFacts DEF Metadata!Idle, LookupStates, CopyStates, Kept, Found

LEMMA MetadataInitInv == ASSUME Metadata!StellarMetadataAssumption, Metadata!Init PROVE MetadataInv
<1>1. catalogue \in Record /\ rows \in Record /\ copied \in Record
  BY RecordFacts DEF Metadata!Init, Record, Metadata!Ids
<1>2. migrating \in BOOLEAN /\ age \in 0..Metadata!Never /\ Metadata!StampTrue
  BY DEF Metadata!Init, Metadata!StellarMetadataAssumption, Metadata!Never, Metadata!StampTrue
<1>3. lookups \in [Lookups -> LookupStates] /\ copies \in [Copies -> CopyStates] /\ \A l \in Lookups : Kept(lookups[l])
  BY IdleLookup DEF Metadata!Init
<1> QED  BY <1>1, <1>2, <1>3 DEF MetadataInv

\* Rows are only added to, or written over.
Grow == rows' \in Record /\ Found(rows) \subseteq Found(rows')

LEMMA KeptGrows == ASSUME Grow, NEW s, Kept(s) PROVE Kept(s)'
BY DEF Grow, Kept, Found, Metadata!Found, Metadata!Ids

LEMMA SaveGrows ==
    ASSUME Metadata!StellarMetadataAssumption, MetadataInv, NEW fetched \in Record, NEW full \in BOOLEAN,
           Metadata!saveMany(fetched, full)
    PROVE  /\ Grow /\ Found(fetched) \subseteq Found(rows') /\ copied' \in Record
           /\ age' \in 0..Metadata!Never /\ Metadata!StampTrue'
<1> USE DEF MetadataInv
<1>1. rows' = Metadata!Joined(fetched, rows)
  BY DEF Metadata!saveMany
<1>2. rows' \in Record /\ Found(rows') = Found(fetched) \cup Found(rows)
  BY <1>1, RecordFacts
<1>3. CASE full /\ Found(fetched) # {}
  <2>1. age' = 0 /\ copied' = fetched
    BY <1>3 DEF Metadata!saveMany, Found
  <2>2. Metadata!StampTrue'
    BY <1>2, <1>3, <2>1 DEF Metadata!StampTrue, Found, Metadata!Found, Metadata!Ids
  <2>3. age' \in 0..Metadata!Never
    BY <2>1 DEF Metadata!StellarMetadataAssumption, Metadata!Never
  <2> QED  BY <1>2, <2>1, <2>2, <2>3 DEF Grow
<1>4. CASE ~(full /\ Found(fetched) # {})
  <2>1. UNCHANGED <<age, copied>>
    BY <1>4 DEF Metadata!saveMany, Found
  <2>2. Metadata!StampTrue'
    BY <1>2, <2>1 DEF Metadata!StampTrue, Found, Metadata!Found, Metadata!Ids, Metadata!Never
  <2> QED  BY <1>2, <2>1, <2>2 DEF Grow, Metadata!Never
<1> QED  BY <1>3, <1>4

\* A look-up goes to a state where what it found is kept.
LEMMA LookupMoves ==
    ASSUME MetadataInv, NEW l \in Lookups, NEW s \in LookupStates, Metadata!LookupTo(l, s), Grow, Kept(s)'
    PROVE  lookups' \in [Lookups -> LookupStates] /\ \A k \in Lookups : Kept(lookups[k])'
<1>1. lookups' = [lookups EXCEPT ![l] = s] /\ lookups \in [Lookups -> LookupStates]
  BY DEF Metadata!LookupTo, MetadataInv
<1>2. lookups' \in [Lookups -> LookupStates] /\ lookups'[l] = s /\ \A k \in Lookups \ {l} : lookups'[k] = lookups[k]
  BY <1>1
<1>3. ASSUME NEW k \in Lookups PROVE Kept(lookups[k])'
  <2>1. CASE k = l
    BY <1>2, <2>1
  <2>2. CASE k # l
    <3>1. PICK r : r = lookups[k]
      OBVIOUS
    <3>2. Kept(r)'
      BY <3>1, KeptGrows DEF MetadataInv
    <3> QED  BY <1>2, <2>2, <3>1, <3>2
  <2> QED  BY <2>1, <2>2
<1> QED  BY <1>2, <1>3

LEMMA StateFacts ==
    ASSUME NEW s \in LookupStates, NEW f \in Record,
           NEW step \in {"idle", "controller", "state", "api", "save", "done", "failed"}
    PROVE  /\ [s EXCEPT !.at = step] \in LookupStates /\ [s EXCEPT !.found = f, !.at = step] \in LookupStates
           /\ [s EXCEPT !.fetched = f, !.at = step] \in LookupStates
BY DEF LookupStates

LEMMA LookupStep ==
    ASSUME Metadata!StellarMetadataAssumption, MetadataInv, NEW l \in Lookups,
           Metadata!Ask(l) \/ Metadata!Lookup(l) \/ Metadata!LookupFails(l)
    PROVE  MetadataInv'
<1> DEFINE s == lookups[l]
<1>2. s \in LookupStates /\ Kept(s) /\ s.ids \in SUBSET Metadata!Ids /\ s.found \in Record /\ s.fetched \in Record
  BY DEF MetadataInv, LookupStates
\* All but a backfill leave the rows alone.
<1>3. ASSUME NEW r \in LookupStates, Metadata!LookupTo(l, r), UNCHANGED <<rows, age, copied>>, migrating' \in BOOLEAN, Kept(r)
      PROVE  MetadataInv'
  <2>1. Grow
    BY <1>3 DEF Grow, MetadataInv
  <2>2. UNCHANGED <<catalogue, copies>>
    BY <1>3 DEF Metadata!LookupTo
  <2>3. Kept(r)'
    BY <1>3, <2>1, KeptGrows
  <2>4. lookups' \in [Lookups -> LookupStates] /\ \A k \in Lookups : Kept(lookups[k])'
    BY <1>3, <2>1, <2>3, LookupMoves
  <2>5. Metadata!StampTrue'
    BY <1>3 DEF MetadataInv, Metadata!StampTrue, Metadata!Found
  <2> QED  BY <1>3, <2>2, <2>4, <2>5 DEF MetadataInv, Record, CopyStates, Metadata!Ids, Metadata!Never
<1>4. CASE Metadata!Ask(l)
  <2>1. PICK ids \in SUBSET Metadata!Ids :
            Metadata!LookupTo(l, [Metadata!Idle EXCEPT !.at = IF migrating THEN "controller" ELSE "state", !.ids = ids])
    BY <1>4 DEF Metadata!Ask
  <2>2. PICK r : r = [Metadata!Idle EXCEPT !.at = IF migrating THEN "controller" ELSE "state", !.ids = ids]
    OBVIOUS
  <2>3. r \in LookupStates /\ r.found = Metadata!None /\ r.at # "save"
    BY <2>2, RecordFacts DEF Metadata!Idle, LookupStates
  <2>4. Kept(r)
    BY <2>3, RecordFacts DEF Kept
  <2> QED  BY <1>3, <1>4, <2>1, <2>2, <2>3, <2>4 DEF Metadata!Ask, MetadataInv
<1>5. CASE Metadata!getAssetsControllerAssetMetadata(l)
  <2>1. PICK hits, step : /\ hits = Metadata!Taking(Metadata!CoreVersion, s.ids)
                          /\ step = IF s.ids \subseteq Metadata!Found(hits) THEN "done" ELSE "state"
    OBVIOUS
  <2>2. PICK r : r = [s EXCEPT !.found = hits, !.at = step]
    OBVIOUS
  <2>3. Metadata!LookupTo(l, r)
    BY <1>5, <2>1, <2>2 DEF Metadata!getAssetsControllerAssetMetadata
  <2>4. hits \in Record /\ Found(hits) \subseteq s.ids \cap Core /\ step \in {"done", "state"}
    BY <2>1, RecordFacts
  <2>5. r \in LookupStates
    BY <1>2, <2>2, <2>4, StateFacts
  <2>6. r.found = hits /\ r.ids = s.ids /\ r.at = step
    BY <1>2, <2>2 DEF LookupStates
  <2>7. Kept(r)
    BY <2>4, <2>6 DEF Kept
  <2> QED  BY <1>3, <1>5, <2>3, <2>5, <2>7 DEF Metadata!getAssetsControllerAssetMetadata, MetadataInv
<1>6. CASE Metadata!getSnapAssetMetadata(l)
  <2>1. PICK hits, step : /\ hits = Metadata!Joined(s.found, Metadata!getByAssetIds(Metadata!Missing(l)))
                          /\ step = IF s.ids \subseteq Metadata!Found(hits) THEN "done" ELSE "api"
    OBVIOUS
  <2>2. PICK r : r = [s EXCEPT !.found = hits, !.at = step]
    OBVIOUS
  <2>3. Metadata!LookupTo(l, r)
    BY <1>6, <2>1, <2>2 DEF Metadata!getSnapAssetMetadata
  <2>4. hits \in Record /\ Found(hits) \subseteq Found(s.found) \cup (Found(rows) \cap s.ids) /\ step \in {"done", "api"}
    BY <1>2, <2>1, RecordFacts DEF Metadata!getByAssetIds, Metadata!Missing, MetadataInv
  <2>5. r \in LookupStates
    BY <1>2, <2>2, <2>4, StateFacts
  <2>6. r.found = hits /\ r.ids = s.ids /\ r.at = step
    BY <1>2, <2>2 DEF LookupStates
  <2>7. Kept(r)
    BY <1>2, <2>4, <2>6 DEF Kept
  <2> QED  BY <1>3, <1>6, <2>3, <2>5, <2>7 DEF Metadata!getSnapAssetMetadata, MetadataInv
<1>7. CASE Metadata!fetchTokenAssetsFromApi(l)
  <2>1. PICK fetched, step : /\ fetched = Metadata!getAssetsByAssetIds(Metadata!Missing(l))
                             /\ step = IF Metadata!Found(fetched) = {} THEN "done" ELSE "save"
    OBVIOUS
  <2>2. PICK r : r = [s EXCEPT !.fetched = fetched, !.at = step]
    OBVIOUS
  <2>3. Metadata!LookupTo(l, r)
    BY <1>7, <2>1, <2>2 DEF Metadata!fetchTokenAssetsFromApi
  <2>4. fetched \in Record /\ Found(fetched) \subseteq s.ids /\ step \in {"done", "save"}
    BY <1>2, <2>1, RecordFacts DEF Metadata!getAssetsByAssetIds, Metadata!Missing, MetadataInv
  <2>5. r \in LookupStates
    BY <1>2, <2>2, <2>4, StateFacts
  <2>6. r.found = s.found /\ r.fetched = fetched /\ r.ids = s.ids
    BY <1>2, <2>2 DEF LookupStates
  <2>7. Kept(r)
    BY <1>2, <2>4, <2>6 DEF Kept
  <2> QED  BY <1>3, <1>7, <2>3, <2>5, <2>7 DEF Metadata!fetchTokenAssetsFromApi, MetadataInv
<1>8. CASE Metadata!Backfill(l)
  <2>1. s.at = "save" /\ Metadata!saveMany(s.fetched, FALSE) /\ UNCHANGED migrating
    BY <1>8 DEF Metadata!Backfill
  <2>2. /\ Grow /\ Found(s.fetched) \subseteq Found(rows') /\ copied' \in Record
        /\ age' \in 0..Metadata!Never /\ Metadata!StampTrue'
    BY <1>2, <2>1, SaveGrows
  <2>3. PICK hits : hits = Metadata!Joined(s.found, s.fetched)
    OBVIOUS
  <2>4. PICK r : r = [s EXCEPT !.found = hits, !.at = "done"]
    OBVIOUS
  <2>5. Metadata!LookupTo(l, r)
    BY <1>8, <2>3, <2>4 DEF Metadata!Backfill
  <2>6. hits \in Record /\ Found(hits) = Found(s.found) \cup Found(s.fetched) /\ Found(s.fetched) \subseteq s.ids
    BY <1>2, <2>1, <2>3, RecordFacts DEF Kept
  <2>7. r \in LookupStates
    BY <1>2, <2>4, <2>6, StateFacts
  <2>8. r.found = hits /\ r.ids = s.ids /\ r.at = "done"
    BY <1>2, <2>4 DEF LookupStates
  <2>9. Found(hits) \subseteq s.ids \cap (Core \cup Found(rows'))
    BY <1>2, <2>2, <2>6 DEF Kept, Grow
  <2>10. Kept(r)'
    BY <2>8, <2>9 DEF Kept, Found, Metadata!Found, Metadata!Ids
  <2>11. lookups' \in [Lookups -> LookupStates] /\ \A k \in Lookups : Kept(lookups[k])'
    BY <2>2, <2>5, <2>7, <2>10, LookupMoves
  <2>12. UNCHANGED <<catalogue, copies>>
    BY <2>5 DEF Metadata!LookupTo
  <2> QED  BY <2>1, <2>2, <2>11, <2>12 DEF MetadataInv, Grow, Record, CopyStates, Metadata!Ids, Metadata!Never
<1>9. CASE Metadata!Answered(l)
  BY <1>3, <1>9, IdleLookup DEF Metadata!Answered, MetadataInv
<1>10. CASE Metadata!LookupFails(l)
  <2>1. PICK r : r = [s EXCEPT !.at = "failed"]
    OBVIOUS
  <2>2. r \in LookupStates
    BY <1>2, <2>1, StateFacts
  <2>3. r.found = s.found /\ r.ids = s.ids /\ r.at = "failed"
    BY <1>2, <2>1 DEF LookupStates
  <2>4. Kept(r)
    BY <1>2, <2>3 DEF Kept
  <2> QED  BY <1>3, <1>10, <2>1, <2>2, <2>4 DEF Metadata!LookupFails, MetadataInv
<1> QED  BY <1>4, <1>5, <1>6, <1>7, <1>8, <1>9, <1>10 DEF Metadata!Lookup

LEMMA CopyStep ==
    ASSUME Metadata!StellarMetadataAssumption, MetadataInv,
           \/ Metadata!synchronize \/ Metadata!synchronizeIfStale
           \/ \E c \in Copies : Metadata!Copy(c) \/ Metadata!CopyFails(c)
    PROVE  MetadataInv'
<1>1. ASSUME NEW c \in Copies, NEW r \in CopyStates, Metadata!CopyTo(c, r), Grow, copied' \in Record,
             age' \in 0..Metadata!Never, Metadata!StampTrue'
      PROVE  MetadataInv'
  <2>1. copies' \in [Copies -> CopyStates] /\ UNCHANGED <<lookups, catalogue, migrating>>
    BY <1>1 DEF MetadataInv, Metadata!CopyTo
  <2>2. \A l \in Lookups : Kept(lookups[l])'
    <3> SUFFICES ASSUME NEW l \in Lookups PROVE Kept(lookups[l])'
      OBVIOUS
    <3>1. PICK s : s = lookups[l]
      OBVIOUS
    <3>2. Kept(s)'
      BY <1>1, <3>1, KeptGrows DEF MetadataInv
    <3> QED  BY <2>1, <3>1, <3>2
  <2> QED  BY <1>1, <2>1, <2>2 DEF MetadataInv, Grow, Record, LookupStates, CopyStates, Metadata!Ids, Metadata!Never
<1>2. UNCHANGED <<rows, age, copied>> => Grow /\ copied' \in Record /\ age' \in 0..Metadata!Never /\ Metadata!StampTrue'
  BY DEF MetadataInv, Grow, Metadata!StampTrue, Metadata!Found, Record, Metadata!Never, Metadata!Ids
<1>3. [Metadata!Idle EXCEPT !.at = "api"] \in CopyStates
  BY IdleLookup DEF CopyStates
<1>4. CASE Metadata!synchronize \/ Metadata!synchronizeIfStale
  BY <1>1, <1>2, <1>3, <1>4 DEF Metadata!synchronize, Metadata!synchronizeIfStale
<1>5. ASSUME NEW c \in Copies, Metadata!getAssetsByChainId(c) PROVE MetadataInv'
  <2>1. PICK r : r = [copies[c] EXCEPT !.fetched = catalogue, !.at = "save"]
    OBVIOUS
  <2>2. r \in CopyStates
    BY <2>1 DEF MetadataInv, CopyStates
  <2> QED  BY <1>1, <1>2, <1>5, <2>1, <2>2 DEF Metadata!getAssetsByChainId
<1>6. ASSUME NEW c \in Copies, Metadata!SaveCopy(c) PROVE MetadataInv'
  <2>1. copies[c].fetched \in Record
    BY DEF MetadataInv, CopyStates
  <2>2. Grow /\ copied' \in Record /\ age' \in 0..Metadata!Never /\ Metadata!StampTrue'
    BY <1>6, <2>1, SaveGrows DEF Metadata!SaveCopy
  <2> QED  BY <1>1, <1>6, <2>2, IdleLookup DEF Metadata!SaveCopy
<1>7. ASSUME NEW c \in Copies, Metadata!CopyFails(c) PROVE MetadataInv'
  BY <1>1, <1>2, <1>7, IdleLookup DEF Metadata!CopyFails
<1> QED  BY <1>4, <1>5, <1>6, <1>7 DEF Metadata!Copy

\* The stamp of the last copy is true, and what a look-up answered stays answerable, whatever is written over the rows
\* meanwhile (saveMany, fetchAndPersistAssetsByAssetIds).
THEOREM MetadataTrue ==
    ASSUME Metadata!StellarMetadataAssumption
    PROVE  Metadata!Spec => [](Metadata!TypeOK /\ Metadata!StampTrue /\ Metadata!AnswersKept)
<1>1. Metadata!Init => MetadataInv
  BY MetadataInitInv
<1>2. MetadataInv /\ [Metadata!Next]_(Metadata!metadataVars) => MetadataInv'
  <2> SUFFICES ASSUME MetadataInv, [Metadata!Next]_(Metadata!metadataVars) PROVE MetadataInv'
    OBVIOUS
  <2>1. ASSUME UNCHANGED <<rows, lookups, copies, copied>>, catalogue' \in Record, migrating' \in BOOLEAN,
               age' \in 0..Metadata!Never, age' # Metadata!Never \/ age' = age, age # Metadata!Never \/ age' = age
        PROVE  MetadataInv'
    BY <2>1 DEF MetadataInv, Kept, Found, Metadata!Found, Metadata!StampTrue, Record, LookupStates, CopyStates,
                Metadata!Ids, Metadata!Never
  <2>2. CASE Metadata!Environment /\ UNCHANGED <<rows, lookups, copies, copied, troubles>>
    <3>1. catalogue' \in Record /\ migrating' \in BOOLEAN
      BY <2>2 DEF MetadataInv, Metadata!Environment, Record
    <3> QED  BY <2>1, <2>2, <3>1 DEF MetadataInv, Metadata!Environment
  <2>3. CASE Metadata!Clock
    BY <2>1, <2>3 DEF MetadataInv, Metadata!Clock, Metadata!Never, Metadata!StellarMetadataAssumption
  <2>4. CASE UNCHANGED Metadata!metadataVars
    BY <2>1, <2>4 DEF MetadataInv, Metadata!metadataVars
  <2> QED  BY <2>2, <2>3, <2>4, LookupStep, CopyStep DEF Metadata!Next
<1>3. MetadataInv => Metadata!TypeOK /\ Metadata!StampTrue /\ Metadata!AnswersKept
  BY DEF MetadataInv, Kept, Found, Record, LookupStates, CopyStates, Metadata!TypeOK, Metadata!AnswersKept
<1> QED  BY <1>1, <1>2, <1>3, PTL DEF Metadata!Spec

================================================================================
