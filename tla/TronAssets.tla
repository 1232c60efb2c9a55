----------------------------- MODULE TronAssets -----------------------------
(***************************************************************************)
(* The assets of a Tron account between the node, the saved state and the  *)
(* client. A synchronisation fetches a snapshot, merges it with what is    *)
(* saved, tells the client the new list, saves, and tells the balances; a  *)
(* send fetches and saves in silence. The node's answers are cached for a  *)
(* moment. Versions of the account are numbered: History[v] is what it     *)
(* holds at version v. And what one fetch reads: the answers of three      *)
(* requests become the native asset, what is staked, unstaking or earned,  *)
(* the resources and the tokens; metadata gives them their decimals and    *)
(* the prices decide which tokens are kept.                                *)
(***************************************************************************)
EXTENDS Integers, Sequences, FiniteSets, FiniteSetsExt, Functions

CONSTANTS
    Assets, Essential,   \* ESSENTIAL_ASSETS stay in the list at zero
    Jobs, Silent,        \* the jobs of sends, that tell the client nothing
    History,             \* of the account: an amount for each asset, or Absent
    MaxTroubles,         \* bound: requests, events and saves that fail, and crashes
    Tokens, Trc10,       \* the tokens a fetch reads, and those of them the node itself keeps
    Sums, Times          \* amounts and times of a fetch

Absent  == -1
Last    == Len(History)
NoCache == 0

TronAssetsAssumption ==
    /\ IsFiniteSet(Assets) /\ Essential \subseteq Assets /\ Silent \subseteq Jobs /\ MaxTroubles \in Nat
    /\ History \in Seq([Assets -> Nat \cup {Absent}]) /\ Last > 0
    /\ \A v \in 1..Last, a \in Essential : History[v][a] # Absent
    /\ IsFiniteSet(Tokens) /\ Trc10 \subseteq Tokens /\ Sums \subseteq Nat /\ 0 \in Sums /\ Times \subseteq Nat

VARIABLES
    version,   \* of the account on the node
    cached,    \* the version the request cache answers with, NoCache
    saved,     \* the saved amounts, Absent where there is no entry
    savedAt,   \* the version each entry was fetched at
    listed,    \* what the client lists
    shown,     \* the balances the client shows
    jobs,      \* each run: its step, the version when it started, what it fetched and merged
    troubles,
    given, fetched   \* what the requests of one fetch answer, and what it makes of them

assetsVars == <<version, cached, saved, savedAt, listed, shown, jobs, troubles>>
holdingsVars == <<given, fetched>>

Amounts == [Assets -> Nat \cup {Absent}]
Nobody  == [a \in Assets |-> Absent]
Idle    == [pc |-> "idle", from |-> 0, at |-> 0, assets |-> Nobody, save |-> Nobody,
            added |-> {}, removed |-> {}]

TypeOK ==
    /\ version \in 1..Last /\ cached \in 0..Last
    /\ saved \in Amounts /\ savedAt \in [Assets -> 0..Last]
    /\ listed \subseteq Assets /\ shown \in [Assets -> Nat]
    /\ jobs \in [Jobs -> [pc : {"idle", "started", "fetched", "listing", "saving", "telling", "done"},
                          from : 0..Last, at : 0..Last, assets : Amounts, save : Amounts,
                          added : SUBSET Assets, removed : SUBSET Assets]]
    /\ troubles \in 0..MaxTroubles

Init ==
    /\ version = 1 /\ cached = NoCache
    /\ saved = Nobody /\ savedAt = [a \in Assets |-> 0]
    /\ listed = {} /\ shown = [a \in Assets |-> 0]
    /\ jobs = [j \in Jobs |-> Idle]
    /\ troubles = 0

Trouble == troubles < MaxTroubles /\ troubles' = troubles + 1

------------------------------------------------------------------------------
AccountChanges ==
    /\ version < Last
    /\ version' = version + 1
    /\ UNCHANGED <<cached, saved, savedAt, listed, shown, jobs, troubles>>

\* REQUEST_CACHE_TTL_MS is over.
CacheExpires ==
    /\ cached # NoCache
    /\ cached' = NoCache
    /\ UNCHANGED <<version, saved, savedAt, listed, shown, jobs, troubles>>

Start(j) ==
    /\ jobs[j].pc \in {"idle", "done"}
    /\ jobs' = [jobs EXCEPT ![j] = [Idle EXCEPT !.pc = "started", !.from = version]]
    /\ UNCHANGED <<version, cached, saved, savedAt, listed, shown, troubles>>

\* Without the prices only the essential assets are left.
fetchAccountAssets(v, priced) ==
    [a \in Assets |-> IF a \in Essential \/ priced THEN History[v][a] ELSE Absent]

\* The account is left out of the run when its own request fails: nothing is saved or told.
Fetch(j) ==
    /\ jobs[j].pc = "started"
    /\ LET v == IF cached = NoCache THEN version ELSE cached
       IN  \/ /\ \E priced \in BOOLEAN :
                   /\ IF priced THEN UNCHANGED troubles ELSE Trouble
                   /\ jobs' = [jobs EXCEPT ![j].pc = "fetched", ![j].at = v,
                                           ![j].assets = fetchAccountAssets(v, priced)]
              /\ cached' = v
           \/ /\ Trouble
              /\ jobs' = [jobs EXCEPT ![j] = Idle]
              /\ UNCHANGED cached
    /\ UNCHANGED <<version, saved, savedAt, listed, shown>>

\* mergeSnapshot: saved assets the snapshot lacks are saved with nothing and removed.
disappearedAssets(assets) ==
    {a \in Assets \ Essential : saved[a] # Absent /\ assets[a] = Absent}
shouldBeInRemovedList(assets) == {a \in Assets \ Essential : assets[a] = 0}
assetsToSave(assets) ==
    [a \in Assets |-> IF a \in disappearedAssets(assets) THEN 0 ELSE assets[a]]

Merge(j) ==
    /\ jobs[j].pc = "fetched"
    /\ LET assets  == jobs[j].assets
           removed == disappearedAssets(assets) \cup shouldBeInRemovedList(assets)
       IN  jobs' = [jobs EXCEPT ![j].pc = IF j \in Silent THEN "saving" ELSE "listing",
                                ![j].save = assetsToSave(assets),
                                ![j].added = {a \in Assets : assets[a] # Absent} \ removed,
                                ![j].removed = removed]
    /\ UNCHANGED <<version, cached, saved, savedAt, listed, shown, troubles>>

\* An event that is not taken, or a save that fails, ends the run.
GivesUp(j) ==
    /\ jobs[j].pc \in {"listing", "saving", "telling"}
    /\ Trouble
    /\ jobs' = [jobs EXCEPT ![j] = Idle]
    /\ UNCHANGED <<version, cached, saved, savedAt, listed, shown>>

TellList(j) ==
    /\ jobs[j].pc = "listing"
    /\ listed' = (listed \cup jobs[j].added) \ jobs[j].removed
    /\ jobs' = [jobs EXCEPT ![j].pc = "saving"]
    /\ UNCHANGED <<version, cached, saved, savedAt, shown, troubles>>

\* saveMany of the repository: one update of the state.
Save(j) ==
    /\ jobs[j].pc = "saving"
    /\ saved' = [a \in Assets |-> IF jobs[j].save[a] # Absent THEN jobs[j].save[a] ELSE saved[a]]
    /\ savedAt' = [a \in Assets |-> IF jobs[j].save[a] # Absent THEN jobs[j].at ELSE savedAt[a]]
    /\ jobs' = [jobs EXCEPT ![j].pc = IF j \in Silent THEN "done" ELSE "telling"]
    /\ UNCHANGED <<version, cached, listed, shown, troubles>>

TellBalances(j) ==
    /\ jobs[j].pc = "telling"
    /\ shown' = [a \in Assets |-> IF jobs[j].save[a] # Absent THEN jobs[j].save[a] ELSE shown[a]]
    /\ jobs' = [jobs EXCEPT ![j] = Idle]
    /\ UNCHANGED <<version, cached, saved, savedAt, listed, troubles>>

Crash ==
    /\ Trouble
    /\ jobs' = [j \in Jobs |-> Idle]
    /\ cached' = NoCache
    /\ UNCHANGED <<version, saved, savedAt, listed, shown>>

Work(j) == Fetch(j) \/ Merge(j) \/ TellList(j) \/ Save(j) \/ TellBalances(j)

Next ==
    \/ AccountChanges
    \/ CacheExpires
    \/ \E j \in Jobs : Start(j)
    \/ \E j \in Jobs : Fetch(j)
    \/ \E j \in Jobs : Merge(j)
    \/ \E j \in Jobs : GivesUp(j)
    \/ \E j \in Jobs : TellList(j)
    \/ \E j \in Jobs : Save(j)
    \/ \E j \in Jobs : TellBalances(j)
    \/ Crash

Spec == Init /\ [][Next]_assetsVars

\* The cronjobs start a synchronisation again and again; what was started goes on; the cache expires.
FairSpec ==
    /\ Spec
    /\ WF_assetsVars(CacheExpires) /\ WF_assetsVars(AccountChanges)
    /\ \A j \in Jobs \ Silent : WF_assetsVars(Start(j))
    /\ \A j \in Jobs : WF_assetsVars(Work(j))

------------------------------------------------------------------------------
Held(a) == IF History[Last][a] = Absent THEN 0 ELSE History[Last][a]

\* Whatever sends save in silence, snapshots overtake each other, prices fail and runs are cut
\* short, the client ends up showing what the account holds, and listing of the assets the snap
\* knows exactly those that are held or essential (saveManyAndEmit and mergeSnapshot).
EventuallyShown ==
    <>[](/\ \A a \in Assets : shown[a] = Held(a)
         /\ \A a \in Assets : saved[a] # Absent => (a \in listed <=> a \in Essential \/ Held(a) > 0))

\* A balance the client shows was saved before: no crash or failed save leaves the client with
\* an amount that the next merge does not know of (the order save, balances event).
ShownIsKnown == \A a \in Assets : shown[a] > 0 => saved[a] # Absent

\* What fetchAccountAssetsByIDs promises a send: the entries it goes on with were fetched after it asked.
FreshIsFresh ==
    \A j \in Silent : jobs[j].pc = "done" => jobs[j].at >= jobs[j].from

------------------------------------------------------------------------------
\* What one fetch reads.
StakedKinds   == {"staked-for-bandwidth", "staked-for-energy"}
PendingKinds  == {"ready-for-withdrawal", "in-lock-period"}
TrxKinds      == {"slip44:195", "staking-rewards"} \cup StakedKinds \cup PendingKinds
ResourceKinds == {"energy", "maximum-energy", "bandwidth", "maximum-bandwidth"}
EssentialKinds     == TrxKinds \cup ResourceKinds

\* No answer yet; a fetch that failed.
Pending == [kept |-> {}, failed |-> FALSE]
Failed  == [kept |-> {}, failed |-> TRUE]

FrozenTypes == {"bandwidth", "ENERGY", "TRON_POWER"}   \* "bandwidth" has no type on the wire

\* info: what the account request gave; unfrozen: two withdrawals under way; reads: the two
\* readings of the clock.
Given ==
    [info     : {"active", "absent", "failed"},
     balance  : Sums,
     frozen   : [FrozenTypes -> Sums],
     delegated : [{"bandwidth", "energy"} -> Sums],
     unfrozen : [1..2 -> [amount : Sums, expires : Times]],
     reads    : {r \in Times \X Times : r[1] <= r[2]},
     net      : {[ok |-> FALSE]} \cup
                [ok : {TRUE}, freeNetLimit : Sums, NetLimit : Sums, freeNetUsed : Sums,
                 NetUsed : Sums, EnergyLimit : Sums, EnergyUsed : Sums],
     reward   : Sums \cup {-1},
     tokens   : [Tokens -> Sums],
     fallback : BOOLEAN,
     known    : SUBSET Tokens,                        \* the token API knows their decimals
     metadata : BOOLEAN,
     prices   : {[ok |-> FALSE]} \cup [ok : {TRUE}, of : SUBSET Tokens]]

------------------------------------------------------------------------------
isInactiveAccount == given.info # "active"

Clamp(n) == IF n > 0 THEN n ELSE 0
NoneOf(S) == [x \in S |-> 0]

buildAccountResources(field) == IF given.net.ok THEN given.net[field] ELSE 0

buildStakedData ==
    IF isInactiveAccount
    THEN [frozenV2 |-> NoneOf(FrozenTypes), delegated |-> NoneOf({"bandwidth", "energy"}),
          unfrozenV2 |-> [i \in 1..2 |-> [amount |-> 0, expires |-> 0]]]
    ELSE [frozenV2 |-> given.frozen, delegated |-> given.delegated, unfrozenV2 |-> given.unfrozen]

\* Of an account the node does not know only the TRC-20 balances are found, if that request works.
TokensHeld == IF ~isInactiveAccount THEN Tokens ELSE IF given.fallback THEN Tokens \ Trc10 ELSE {}

buildAccountData ==
    [nativeBalance  |-> IF isInactiveAccount THEN 0 ELSE given.balance,
     tokens         |-> [t \in TokensHeld |-> given.tokens[t]],
     stakingRewards |-> Clamp(given.reward),          \* 0 as well when its request failed
     staked         |-> buildStakedData]

extractStakedNativeAssets(staked) ==
    [kind \in StakedKinds |->
        IF kind = "staked-for-energy"
        THEN staked.frozenV2["ENERGY"] + staked.delegated["energy"]
        ELSE staked.frozenV2["bandwidth"] + staked.delegated["bandwidth"]]

Unfreezing(staked, Counts(_)) ==
    MapThenSumSet(LAMBDA i : staked.unfrozenV2[i].amount,
                  {i \in 1..2 : Counts(staked.unfrozenV2[i].expires)})

\* Each of the two reads the clock itself, in this order.
extractReadyForWithdrawalAsset(staked) == Unfreezing(staked, LAMBDA e : e <= given.reads[1])
extractInLockPeriodAsset(staked)       == Unfreezing(staked, LAMBDA e : e > given.reads[2])

extractBandwidth ==
    LET maximum == buildAccountResources("freeNetLimit") + buildAccountResources("NetLimit")
        used    == buildAccountResources("freeNetUsed") + buildAccountResources("NetUsed")
    IN  [kind \in {"bandwidth", "maximum-bandwidth"} |->
            IF kind = "bandwidth" THEN Clamp(maximum - used) ELSE maximum]

extractEnergy ==
    LET maximum == buildAccountResources("EnergyLimit")
    IN  [kind \in {"energy", "maximum-energy"} |->
            IF kind = "energy" THEN Clamp(maximum - buildAccountResources("EnergyUsed")) ELSE maximum]

extractNativeAndRewards(data) ==
    [kind \in {"slip44:195", "staking-rewards"} |->
        IF kind = "slip44:195" THEN data.nativeBalance ELSE data.stakingRewards]

extractPending(staked) ==
    [kind \in PendingKinds |-> IF kind = "ready-for-withdrawal" THEN extractReadyForWithdrawalAsset(staked)
                                                               ELSE extractInLockPeriodAsset(staked)]

Entries(f) == {[assetType |-> x, rawAmount |-> f[x]] : x \in DOMAIN f}

extractAssets(data) ==
    UNION {Entries(extractNativeAndRewards(data)), Entries(extractStakedNativeAssets(data.staked)),
           Entries(extractPending(data.staked)), Entries(data.tokens), Entries(extractBandwidth),
           Entries(extractEnergy)}

\* The decimals each kind is shown with.
TrxDecimals      == 6
ResourceDecimals == 0
KnownDecimals    == 18
DefaultDecimals  == 9

splitAssetsByType(assetType) ==
    CASE assetType \in TrxKinds      -> "trx"
      [] assetType \in ResourceKinds -> "resource"
      [] assetType \in Tokens        -> "token"

getTokensMetadata(assetType) == IF assetType \in given.known THEN KnownDecimals ELSE DefaultDecimals

getAssetsMetadata(assetType) ==
    LET class == splitAssetsByType(assetType)
    IN  CASE class = "trx"      -> TrxDecimals
          [] class = "resource" -> ResourceDecimals
          [] class = "token"    -> getTokensMetadata(assetType)

enrichAssetsWithMetadata(assets) ==
    {[assetType |-> a.assetType, rawAmount |-> a.rawAmount,
      decimals |-> getAssetsMetadata(a.assetType)] : a \in assets}

\* Without the prices no token is kept.
filterTokensWithoutPriceData(assets) ==
    {a \in assets : a.assetType \in EssentialKinds \/ (given.prices.ok /\ a.assetType \in given.prices.of)}

\* An account the node does not know holds nothing but TRC-20 tokens; any other failure of that
\* request, and a failed metadata request, fail the fetch.
fetchAssetsAndBalancesForAccount ==
    IF given.info = "failed" \/ ~given.metadata THEN Failed
    ELSE [kept |-> filterTokensWithoutPriceData(enrichAssetsWithMetadata(extractAssets(buildAccountData))),
          failed |-> FALSE]

FetchHoldings ==
    /\ fetched = Pending
    /\ fetched' = fetchAssetsAndBalancesForAccount
    /\ UNCHANGED given

HoldingsNext == FetchHoldings

------------------------------------------------------------------------------
Kept(kind) == (CHOOSE a \in fetched.kept : a.assetType = kind).rawAmount
Total(S)   == MapThenSumSet(Kept, S)
Done       == fetched \notin {Pending, Failed}

\* No sun is counted twice: whatever is staked, delegated or unstaking appears under one kind,
\* however the clock moves between its readings, and only what expires between the two is missing
\* (extractReadyForWithdrawalAsset reads before extractInLockPeriodAsset).
NothingCountedTwice ==
    Done /\ given.info = "active" =>
        LET unfreezing == {i \in 1..2 : given.unfrozen[i].expires \notin (given.reads[1] + 1)..given.reads[2]}
        IN  /\ Total(StakedKinds) + given.frozen["TRON_POWER"] =
                  MapThenSumSet(LAMBDA t : given.frozen[t], FrozenTypes)
                  + given.delegated["bandwidth"] + given.delegated["energy"]
            /\ Total(PendingKinds) = MapThenSumSet(LAMBDA i : given.unfrozen[i].amount, unfreezing)

\* Every kind of the permanent account model is there exactly once whatever request failed, no
\* resource exceeds its maximum, and only amounts of tokens unknown to the token API are shown at
\* the wrong scale.
AccountModelComplete ==
    Done =>
        /\ \A kind \in EssentialKinds : Cardinality({a \in fetched.kept : a.assetType = kind}) = 1
        /\ Kept("bandwidth") <= Kept("maximum-bandwidth") /\ Kept("energy") <= Kept("maximum-energy")
        /\ \A a \in fetched.kept : a.rawAmount >= 0
        /\ \A a \in fetched.kept : a.decimals = DefaultDecimals => a.assetType \notin given.known

==============================================================================
