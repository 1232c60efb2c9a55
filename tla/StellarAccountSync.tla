--------------------------- MODULE StellarAccountSync ---------------------------
(* How the Stellar snap brings one account's balances from the ledger to the  *)
(* client: OnChainAccountSynchronizeService.synchronize, called inside one    *)
(* exclusive run of SynchronizeService.                                       *)
(*                                                                            *)
(* A run loads the account from Horizon (native coin and trustlines) and the  *)
(* catalogue of SEP-41 tokens, asks the Soroban RPC for the balance of every  *)
(* token of the catalogue, fills what could not be read from the snapshot the *)
(* previous run saved, computes what changed since that snapshot, saves the   *)
(* new one and only then tells the client: first the balances, then the list  *)
(* of assets. Each read, the save and each event is an await: the ledger      *)
(* moves in between, any of them can fail, and the snap's worker can be       *)
(* terminated. Runs are exclusive (StellarSynchronize), so there is one.      *)
(*                                                                            *)
(* Accounts are independent of each other in a run; the module follows one.   *)
EXTENDS Naturals, FiniteSets

CONSTANTS
    Native,     \* the coin
    Classics,   \* assets held through a trustline
    Tokens,     \* SEP-41 contract tokens
    MaxAmount,  \* bound on balances
    Catalogs,   \* what #loadSep41AssetsSafe may return; {} when it fails
    None,       \* no entry
    Gone        \* a tombstone: a trustline seen before that was removed

Assets  == {Native} \cup Classics \cup Tokens
Amounts == 0 .. MaxAmount

ASSUME AssetAssumption ==
    /\ Native \notin Classics \cup Tokens
    /\ Classics \cap Tokens = {}
    /\ Catalogs \subseteq SUBSET Tokens
    /\ MaxAmount \in Nat
    /\ None \notin Nat /\ Gone \notin Nat /\ None # Gone

VARIABLES
    ledger,     \* the balances on chain; None where there is no trustline
    snapshot,   \* the saved entries of the account, None where nothing is stored
    pc,         \* where the run is
    view,       \* onChainAccount, the account object the run fills
    asked,      \* the catalogue of this run
    unresolved, \* tokens whose missing balance the snapshot is to fill
    changes,    \* balanceChanges of the run, None where it says nothing
    added,      \* assetListChanges.added
    removed,    \* assetListChanges.removed
    shown,      \* the balances the client has
    listed,     \* the assets the client lists
    seenGone,   \* history: assets of the snapshot the ledger did not hold at some time
    behind      \* history: some run saved a snapshot and did not tell the client

vars == <<ledger, snapshot, pc, view, asked, unresolved, changes, added,
          removed, shown, listed, seenGone, behind>>

locals == <<view, asked, unresolved, changes, added, removed>>

(* #getVisibleAsset: the coin always, a trustline unless it is a tombstone, a *)
(* token when its balance is above zero.                                      *)
Visible(a, e) == e \in Amounts /\ (a \in Tokens => e # 0)

VisibleIn(entries) == {a \in Assets : Visible(a, entries[a])}

\* Faulty variant: the entry's balance whatever the entry is.
AmountAsStored(e) == e

(* The amount a keyring balance entry is given; a tombstone has balance 0.    *)
AmountOf(e) == IF e = Gone THEN 0 ELSE e

Nothing == [a \in Assets |-> None]

(* What the ledger can hold of an asset.                                      *)
Holdings(a) == IF a \in Classics THEN Amounts \cup {None} ELSE Amounts

Entries(a) ==
    CASE a = Native     -> Amounts \cup {None}
      [] a \in Classics -> Amounts \cup {None, Gone}
      [] a \in Tokens   -> Amounts \cup {None}

Init ==
    /\ ledger \in [Assets -> Amounts \cup {None}]
    /\ \A a \in Assets : ledger[a] \in Holdings(a)
    /\ snapshot = Nothing
    /\ pc = "idle"
    /\ view = Nothing /\ asked = {} /\ unresolved = {}
    /\ changes = Nothing /\ added = {} /\ removed = {}
    /\ shown = Nothing /\ listed = {}
    /\ seenGone = {}
    /\ behind = FALSE

ClearLocals ==
    /\ view' = Nothing /\ asked' = {} /\ unresolved' = {}
    /\ changes' = Nothing /\ added' = {} /\ removed' = {}

-----------------------------------------------------------------------------

(* Between the start of a run and its save.                                   *)
Reading == pc \in {"load", "fetch", "merge", "save"}

(* A payment in or out, a trustline opened or removed, on the ledger.         *)
LedgerMoves ==
    \E a \in Assets : \E e \in Holdings(a) :
        /\ e # ledger[a]
        /\ ledger' = [ledger EXCEPT ![a] = e]
        /\ seenGone' = IF Reading /\ a \in VisibleIn(snapshot) /\ ~Visible(a, e)
                       THEN seenGone \cup {a}
                       ELSE seenGone
        /\ UNCHANGED <<snapshot, pc, locals, shown, listed, behind>>

Start ==
    /\ pc \in {"idle", "done"}
    /\ pc' = "load"
    /\ seenGone' = VisibleIn(snapshot) \ VisibleIn(ledger)
    /\ UNCHANGED <<ledger, snapshot, locals, shown, listed, behind>>

(* #loadActivatedPairsSafe beside #loadSep41AssetsSafe: the coin and the      *)
(* trustlines from Horizon, and the catalogue.                                *)
Load ==
    /\ pc = "load"
    /\ pc' = "fetch"
    /\ view' = [a \in Assets |-> IF a \in Tokens THEN None ELSE ledger[a]]
    /\ asked' \in Catalogs
    /\ UNCHANGED <<ledger, snapshot, unresolved, changes, added, removed,
                   shown, listed, seenGone, behind>>

\* Faulty variant: a token without a value counts as read.
FetchTokensNoGaps ==
    /\ pc = "fetch"
    /\ pc' = "merge"
    /\ \E answered \in SUBSET asked :
        view' = [a \in Assets |-> IF a \in answered THEN ledger[a] ELSE view[a]]
    /\ unresolved' = {}
    /\ UNCHANGED <<ledger, snapshot, asked, changes, added, removed,
                   shown, listed, seenGone, behind>>

(* getSep41AssetBalances answers; a token whose call failed in the batch has  *)
(* no value and stays unresolved.                                             *)
FetchTokens ==
    /\ pc = "fetch"
    /\ pc' = "merge"
    /\ \E answered \in SUBSET asked :
        /\ view' = [a \in Assets |-> IF a \in answered THEN ledger[a] ELSE view[a]]
        /\ unresolved' = asked \ answered
    /\ UNCHANGED <<ledger, snapshot, asked, changes, added, removed,
                   shown, listed, seenGone, behind>>

(* getSep41AssetBalances throws: unresolvedSep41AssetIds is undefined, which  *)
(* the merge reads as every token.                                            *)
FetchFails ==
    /\ pc = "fetch"
    /\ pc' = "merge"
    /\ unresolved' = Tokens
    /\ UNCHANGED <<ledger, snapshot, view, asked, changes, added, removed,
                   shown, listed, seenGone, behind>>

-----------------------------------------------------------------------------

\* Faulty variant: no tombstones.
MergedNoTombstone(a) ==
    IF view[a] = None /\ a \in unresolved THEN snapshot[a] ELSE view[a]

\* Faulty variant: a zero of the network is taken for a missing value.
MergedZeroMissing(a) ==
    CASE view[a] \notin {None, 0}            -> view[a]
      [] view[a] \in {None, 0} /\ a \in Tokens -> snapshot[a]
      [] view[a] = None /\ a \in Classics /\ snapshot[a] # None -> Gone
      [] OTHER                               -> view[a]

(* #mergePersistedEntriesIntoOnChainAccount for one asset: an entry the run   *)
(* did not read is copied if it is an unresolved token, and becomes a         *)
(* tombstone if it is a trustline.                                            *)
Merged(a) ==
    CASE view[a] # None                    -> view[a]
      [] view[a] = None /\ a \in unresolved -> snapshot[a]
      [] view[a] = None /\ a \in Classics /\ snapshot[a] # None -> Gone
      [] OTHER                             -> None

\* Faulty variant: an entry only for what changed.
ChangeDifferent(a, entries) ==
    IF entries[a] # snapshot[a] /\ (Visible(a, snapshot[a]) \/ Visible(a, entries[a]))
    THEN AmountOf(IF entries[a] # None THEN entries[a] ELSE snapshot[a])
    ELSE None

(* The balance entry of an asset visible before or now: the entry of the run, *)
(* else the entry of the snapshot.                                            *)
Change(a, entries) ==
    IF Visible(a, snapshot[a]) \/ Visible(a, entries[a])
    THEN AmountOf(IF entries[a] # None THEN entries[a] ELSE snapshot[a])
    ELSE None

\* Faulty variant: compared before the gaps are filled.
MergeAfterDiff ==
    /\ pc = "merge"
    /\ pc' = "save"
    /\ view' = [a \in Assets |-> Merged(a)]
    /\ changes' = [a \in Assets |-> Change(a, view')]
    /\ added' = (VisibleIn(view) \ VisibleIn(snapshot)) \cup {Native}
    /\ removed' = VisibleIn(snapshot) \ VisibleIn(view)
    /\ asked' = {} /\ unresolved' = {}
    /\ UNCHANGED <<ledger, snapshot, shown, listed, seenGone, behind>>

(* The snapshot is read, merged and compared (#computeKeyringSyncDeltas); no  *)
(* await separates the three. The coin is always in added.                    *)
Merge ==
    /\ pc = "merge"
    /\ pc' = "save"
    /\ view' = [a \in Assets |-> Merged(a)]
    /\ changes' = [a \in Assets |-> Change(a, view')]
    /\ added' = (VisibleIn(view') \ VisibleIn(snapshot)) \cup {Native}
    /\ removed' = VisibleIn(snapshot) \ VisibleIn(view')
    /\ asked' = {} /\ unresolved' = {}
    /\ UNCHANGED <<ledger, snapshot, shown, listed, seenGone, behind>>

(* saveMany.                                                                  *)
Save ==
    /\ pc = "save"
    /\ pc' = "balances"
    /\ snapshot' = view
    /\ seenGone' = {}
    /\ UNCHANGED <<ledger, locals, shown, listed, behind>>

(* The client takes AccountBalancesUpdated.                                   *)
EmitBalances ==
    /\ pc = "balances"
    /\ pc' = "list"
    /\ shown' = [a \in Assets |-> IF changes[a] # None THEN changes[a] ELSE shown[a]]
    /\ UNCHANGED <<ledger, snapshot, locals, listed, seenGone, behind>>

(* The client takes AccountAssetListUpdated, and the run returns.             *)
EmitList ==
    /\ pc = "list"
    /\ pc' = "done"
    /\ listed' = (listed \ removed) \cup added
    /\ ClearLocals
    /\ seenGone' = {}
    /\ UNCHANGED <<ledger, snapshot, shown, behind>>

(* The run ends early: Horizon does not know the account or does not answer,  *)
(* the state cannot be read or written, the client refuses an event (caught   *)
(* and logged; the list is then not sent either), or the worker is killed.    *)
Stop ==
    /\ pc \notin {"idle", "done"}
    /\ pc' = "idle"
    /\ behind' = (behind \/ pc \in {"balances", "list"})
    /\ ClearLocals
    /\ seenGone' = {}
    /\ UNCHANGED <<ledger, snapshot, shown, listed>>

RunStep == Start \/ Load \/ FetchTokens \/ Merge \/ Save \/ EmitBalances \/ EmitList

Next == LedgerMoves \/ RunStep \/ FetchFails \/ Stop

Spec == Init /\ [][Next]_vars

-----------------------------------------------------------------------------

TypeOK ==
    /\ ledger \in [Assets -> Amounts \cup {None}]
    /\ \A a \in Assets : ledger[a] \in Holdings(a)
    /\ snapshot \in [Assets -> Amounts \cup {None, Gone}]
    /\ \A a \in Assets : snapshot[a] \in Entries(a)
    /\ pc \in {"idle", "load", "fetch", "merge", "save", "balances", "list", "done"}
    /\ view \in [Assets -> Amounts \cup {None, Gone}]
    /\ \A a \in Assets : view[a] \in Entries(a)
    /\ asked \in SUBSET Tokens
    /\ unresolved \in SUBSET Tokens
    /\ changes \in [Assets -> Amounts \cup {None}]
    /\ added \in SUBSET Assets
    /\ removed \in SUBSET Assets
    /\ shown \in [Assets -> Amounts \cup {None}]
    /\ listed \in SUBSET Assets
    /\ seenGone \in SUBSET Assets
    /\ behind \in BOOLEAN

(* A holding leaves the saved snapshot only when the account really was       *)
(* without it at some moment of the run: a failed read, of one token or of    *)
(* all of them, is never taken for a zero balance.                            *)
HoldingsKept ==
    [][VisibleIn(snapshot) \ VisibleIn(snapshot') \subseteq seenGone]_vars

(* "State is written first so client handlers that round-trip into the snap   *)
(* for balances always see the new source of truth": while the client is      *)
(* being told, everything in both events agrees with the saved snapshot, and  *)
(* what is announced as removed is announced with a balance of zero.          *)
RoundTrip ==
    pc \in {"balances", "list"} =>
        /\ \A a \in VisibleIn(snapshot) : changes[a] = snapshot[a]
        /\ added \subseteq VisibleIn(snapshot)
        /\ removed \cap VisibleIn(snapshot) = {}
        /\ \A a \in removed : changes[a] = 0

(* Balances heal: once a run has delivered its first event the client has the *)
(* right amount of every asset in the snapshot, whatever earlier runs lost.   *)
BalancesHeal ==
    pc \in {"list", "done"} =>
        \A a \in VisibleIn(snapshot) : shown[a] = snapshot[a]

(* The list is sent as differences: as long as no event was lost, the client  *)
(* lists exactly the assets of the snapshot when no run is open, and has a    *)
(* zero, or nothing, for every other asset.                                   *)
ClientExact ==
    pc \in {"idle", "done"} /\ ~behind =>
        /\ listed = VisibleIn(snapshot)
        /\ \A a \in Assets \ listed : shown[a] \in {0, None}
-----------------------------------------------------------------------------
(* The cron job keeps starting runs, and a run that nothing ends goes on.     *)
FairSpec == Spec /\ WF_vars(RunStep)

(* Nothing moves, no run ends early and no token of a batch fails.            *)
CalmStep ==
    /\ ledger' = ledger
    /\ pc' # "idle"
    /\ pc = "fetch" => unresolved' = {}

CalmsDown == <>[][CalmStep]_vars

(* Whatever was lost before, once all is calm the client ends up with the     *)
(* right amount of everything the account holds, and the snapshot with what   *)
(* the ledger holds and nothing else.                                         *)
SettlesInTheEnd ==
    CalmsDown => <>[](/\ \A a \in VisibleIn(ledger) : shown[a] = ledger[a]
                      /\ VisibleIn(snapshot) = VisibleIn(ledger))
=============================================================================
