--------------------------- MODULE StellarMetadata ---------------------------
(***************************************************************************)
(* What the Stellar wallet knows of its assets: the rows it keeps, filled  *)
(* by full copies of the token API's catalogue and by look-ups of single   *)
(* assets, which ask the client's assets controller first when the         *)
(* migration to it is on. Copies and look-ups overlap; the catalogue       *)
(* changes and the sources fail while they run.                            *)
(***************************************************************************)
EXTENDS Integers, FiniteSets

CONSTANTS
    Assets, Unlisted,   \* what the token API lists, and what it never does
    Core,               \* what the controller knows
    Lookups, Copies,    \* who may look assets up, and who copies the catalogue
    Ttl,                \* how old the last copy may be
    MaxChanges, MaxTroubles  \* bounds: changes of the catalogue, of the flag or of what is asked; and failures

StellarMetadataAssumption ==
    /\ IsFiniteSet(Assets) /\ IsFiniteSet(Unlisted) /\ Assets \cap Unlisted = {} /\ Core \subseteq Assets \cup Unlisted
    /\ Copies \subseteq {"cron", "stale"} /\ IsFiniteSet(Lookups) /\ Ttl \in Nat /\ {MaxChanges, MaxTroubles} \subseteq Nat

VARIABLES
    catalogue,      \* the version the token API has of each asset, 0 when it lists none
    migrating,      \* the feature flag: whether the controller is asked
    rows,           \* assets in the snap's state: the version stored, 0 when there is none
    age,            \* since assetMetadataLastSyncedAt, up to Ttl + 1; Never when it is not set
    lookups,        \* where each look-up is, with what it found
    copies,         \* where each copy of the catalogue is, with what it fetched
    copied,         \* the catalogue of the copy that stamped last (history)
    changes, troubles

metadataVars == <<catalogue, migrating, rows, age, lookups, copies, copied, changes, troubles>>

Ids   == Assets \cup Unlisted
Never == Ttl + 2
None  == [a \in Ids |-> 0]
Idle  == [at |-> "idle", ids |-> {}, found |-> None, fetched |-> None]
Found(record) == {a \in Ids : record[a] # 0}

\* What the controller says of an asset has no version of its own: it counts as 1.
CoreVersion == [a \in Ids |-> IF a \in Core THEN 1 ELSE 0]

Taking(record, from) == [a \in Ids |-> IF a \in from THEN record[a] ELSE 0]
Joined(one, other)   == [a \in Ids |-> IF one[a] # 0 THEN one[a] ELSE other[a]]

Init ==
    /\ catalogue = [a \in Ids |-> IF a \in Assets THEN 1 ELSE 0]
    /\ migrating \in BOOLEAN
    /\ rows = None /\ age = Never /\ copied = None
    /\ lookups = [l \in Lookups |-> Idle] /\ copies = [c \in Copies |-> Idle]
    /\ changes = 0 /\ troubles = 0

\* A fault to compare with: an empty catalogue counts as a copy.
saveManyOrNone(fetched, fullSync) ==
    /\ rows' = Joined(fetched, rows)
    /\ IF fullSync THEN age' = 0 /\ copied' = fetched ELSE UNCHANGED <<age, copied>>

\* Rows are written over those of the same assets, in one update of the state; nothing at all for no rows.
saveMany(fetched, fullSync) ==
    /\ rows' = Joined(fetched, rows)
    /\ IF fullSync /\ Found(fetched) # {} THEN age' = 0 /\ copied' = fetched ELSE UNCHANGED <<age, copied>>

isStale == age > Ttl

------------------------------------------------------------------------------
\* A look-up: each id once; from the controller when it is asked, what it misses from the state, and what that
\* misses from the token API, whose rows are stored and whose gaps are left out of the answer.
LookupTo(l, record) == lookups' = [lookups EXCEPT ![l] = record] /\ UNCHANGED <<copies, catalogue>>

getByAssetIds(ids)       == Taking(rows, ids)
getAssetsByAssetIds(ids) == Taking(catalogue, ids)

Missing(l) == lookups[l].ids \ Found(lookups[l].found)

Ask(l) ==
    /\ lookups[l].at = "idle" /\ changes < MaxChanges
    /\ \E ids \in SUBSET Ids \ {{}} :
         LookupTo(l, [Idle EXCEPT !.at = IF migrating THEN "controller" ELSE "state", !.ids = ids])
    /\ changes' = changes + 1
    /\ UNCHANGED <<migrating, rows, age, copied, troubles>>

getAssetsControllerAssetMetadata(l) ==
    /\ lookups[l].at = "controller"
    /\ LET hits == Taking(CoreVersion, lookups[l].ids)
       IN  LookupTo(l, [lookups[l] EXCEPT !.found = hits,
                                          !.at = IF lookups[l].ids \subseteq Found(hits) THEN "done" ELSE "state"])
    /\ UNCHANGED <<migrating, rows, age, copied, changes, troubles>>

getSnapAssetMetadata(l) ==
    /\ lookups[l].at = "state"
    /\ LET hits == Joined(lookups[l].found, getByAssetIds(Missing(l)))
       IN  LookupTo(l, [lookups[l] EXCEPT !.found = hits,
                                          !.at = IF lookups[l].ids \subseteq Found(hits) THEN "done" ELSE "api"])
    /\ UNCHANGED <<migrating, rows, age, copied, changes, troubles>>

fetchTokenAssetsFromApi(l) ==
    /\ lookups[l].at = "api"
    /\ LET fetched == getAssetsByAssetIds(Missing(l))
       IN  LookupTo(l, [lookups[l] EXCEPT !.fetched = fetched, !.at = IF Found(fetched) = {} THEN "done" ELSE "save"])
    /\ UNCHANGED <<migrating, rows, age, copied, changes, troubles>>

Backfill(l) ==
    /\ lookups[l].at = "save"
    /\ saveMany(lookups[l].fetched, FALSE)
    /\ LookupTo(l, [lookups[l] EXCEPT !.found = Joined(lookups[l].found, lookups[l].fetched), !.at = "done"])
    /\ UNCHANGED <<migrating, changes, troubles>>

\* The caller has its answer, or the error: the controller or the API could not be read.
Answered(l) ==
    /\ lookups[l].at \in {"done", "failed"}
    /\ LookupTo(l, Idle)
    /\ UNCHANGED <<migrating, rows, age, copied, changes, troubles>>

LookupFails(l) ==
    /\ lookups[l].at \in {"controller", "api"} /\ troubles < MaxTroubles
    /\ LookupTo(l, [lookups[l] EXCEPT !.at = "failed"])
    /\ troubles' = troubles + 1
    /\ UNCHANGED <<migrating, rows, age, copied, changes>>

Lookup(l) ==
    \/ getAssetsControllerAssetMetadata(l) \/ getSnapAssetMetadata(l) \/ fetchTokenAssetsFromApi(l) \/ Backfill(l)
    \/ Answered(l)

------------------------------------------------------------------------------
\* A copy of the catalogue: the cron job's always, a synchronisation's when the last one is stale.
CopyTo(c, record) == copies' = [copies EXCEPT ![c] = record] /\ UNCHANGED <<lookups, catalogue, migrating, changes>>

synchronize ==
    /\ "cron" \in Copies /\ copies["cron"].at = "idle"
    /\ CopyTo("cron", [Idle EXCEPT !.at = "api"])
    /\ UNCHANGED <<rows, age, copied, troubles>>

synchronizeIfStale ==
    /\ "stale" \in Copies /\ copies["stale"].at = "idle" /\ isStale
    /\ CopyTo("stale", [Idle EXCEPT !.at = "api"])
    /\ UNCHANGED <<rows, age, copied, troubles>>

getAssetsByChainId(c) ==
    /\ copies[c].at = "api"
    /\ CopyTo(c, [copies[c] EXCEPT !.fetched = catalogue, !.at = "save"])
    /\ UNCHANGED <<rows, age, copied, troubles>>

SaveCopy(c) ==
    /\ copies[c].at = "save"
    /\ saveMany(copies[c].fetched, TRUE)
    /\ CopyTo(c, Idle)
    /\ UNCHANGED troubles

CopyFails(c) ==
    /\ copies[c].at = "api" /\ troubles < MaxTroubles
    /\ CopyTo(c, Idle)
    /\ troubles' = troubles + 1
    /\ UNCHANGED <<rows, age, copied>>

Copy(c) == getAssetsByChainId(c) \/ SaveCopy(c)

------------------------------------------------------------------------------
\* Time goes by.
Clock ==
    /\ age <= Ttl /\ age' = age + 1
    /\ UNCHANGED <<catalogue, migrating, rows, lookups, copies, copied, changes, troubles>>

\* The API renames an asset, drops it, or lists it again; the flag is turned.
Environment ==
    \/ /\ changes < MaxChanges
       /\ \E a \in Assets, v \in 0..2 : v # catalogue[a] /\ catalogue' = [catalogue EXCEPT ![a] = v]
       /\ changes' = changes + 1 /\ UNCHANGED <<migrating, age>>
    \/ /\ changes < MaxChanges
       /\ migrating' = ~migrating /\ changes' = changes + 1 /\ UNCHANGED <<catalogue, age>>

Next ==
    \/ \E l \in Lookups : Ask(l) \/ Lookup(l) \/ LookupFails(l)
    \/ synchronize \/ synchronizeIfStale
    \/ \E c \in Copies : Copy(c) \/ CopyFails(c)
    \/ Environment /\ UNCHANGED <<rows, lookups, copies, copied, troubles>>
    \/ Clock

Spec == Init /\ [][Next]_metadataVars

------------------------------------------------------------------------------
TypeOK ==
    /\ {catalogue, rows, copied} \subseteq [Ids -> 0..2] /\ migrating \in BOOLEAN /\ age \in 0..Never
    /\ \A l \in Lookups : lookups[l].at \in {"idle", "controller", "state", "api", "save", "done", "failed"}
    /\ \A c \in Copies : copies[c].at \in {"idle", "api", "save"}

\* The stamp of the last copy is true: what that copy listed is stored, whatever look-ups and other copies wrote
\* at the same time; an empty catalogue does not count as a copy (saveMany, isStale).
StampTrue == age # Never => Found(copied) # {} /\ Found(copied) \subseteq Found(rows)

\* What a look-up answered stays answerable: it is the controller's, or it is in the state for the next caller,
\* and nothing was answered that was not asked (fetchAndPersistAssetsByAssetIds).
AnswersKept ==
    \A l \in Lookups : lookups[l].at = "done" =>
        Found(lookups[l].found) \subseteq lookups[l].ids \cap (Core \cup Found(rows))

\* When the catalogue has come to rest, the rows are the catalogue's, older answers still on their way included.
Current == \A a \in Assets : catalogue[a] # 0 => rows[a] = catalogue[a]

EventuallyCurrent == <>[]Current

Fairness ==
    /\ \A l \in Lookups : WF_metadataVars(Lookup(l))
    /\ \A c \in Copies : WF_metadataVars(Copy(c))
    /\ WF_metadataVars(synchronizeIfStale)
    /\ WF_metadataVars(Clock)

==============================================================================
