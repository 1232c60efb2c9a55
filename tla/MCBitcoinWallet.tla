-------------------------- MODULE MCBitcoinWallet --------------------------
(***************************************************************************)
(* The parts of the Bitcoin wallet that are checked together: a behaviour  *)
(* runs one part. Accounts, synchronisation, caches and the fetch policy,  *)
(* which have to get somewhere in the end, keep their own variables; the   *)
(* others find theirs in v1, ..., v10.                                     *)
(***************************************************************************)
EXTENDS BitcoinAccounts, TLC

CONSTANTS Parts, Nothing, p1, p2, i1, i2, i3, c1, c2

VARIABLES
    part,
    chain, stored, live, open, rescan, events, at, phase, before, after, subject, told, lossy, scanned, refused,
    troubles, mix,
    clock, store, wrapper, entry, expiryMap, call,
    circuit, trial, failures, request, aborted, answer,
    v1, v2, v3, v4, v5, v6, v7, v8, v9, v10

syncVars   == <<chain, stored, live, open, rescan, events, at, phase, before, after, subject, told, lossy, scanned,
                refused, troubles, mix>>
cacheVars  == <<clock, store, wrapper, entry, expiryMap, call>>
policyVars == <<circuit, trial, failures, request, aborted, answer>>
slots      == <<v1, v2, v3, v4, v5, v6, v7, v8, v9, v10>>
walletVars == <<part, vars, syncVars, cacheVars, policyVars, slots>>

\* u is on an address only a full scan looks at; b is created while the snap runs.
Synchronizing == INSTANCE BitcoinSync WITH
    Accounts <- {"a", "b"}, Txs <- {"t", "u"}, Owner <- [t |-> "a", u |-> "b"], Hidden <- {"u"}, Own <- {"t"},
    Born <- {"a"}, NoAccount <- Nothing, MaxTroubles <- 1,
    Mixes <- {{"cron", "selected"}, {"cron", "scan"}, {"cron", "send"}}, pc <- at, target <- subject

Caching == INSTANCE Cache WITH Callers <- {"c", "d"}, MaxTime <- 2, Ttl <- 1

Policy == INSTANCE FetchPolicy WITH
    Requests <- {"r", "q"}, MaxRetries <- 2, MaxFailures <- 2,
    Length <- 5, BatchSize <- 2, settles <- v1, first <- v2, outcome <- v3, results <- v4, ended <- v5

\* The opener has something inscribed, or the account the form is switched to has.
Sending == INSTANCE BitcoinSend WITH
    Accounts <- {"a", "b"}, Recipients <- {"r"}, Amounts <- {1}, Rates <- {1, 2}, Fallback <- 1, Editors <- {1},
    Wallets <- {[a |-> [free |-> 2, frozen |-> 1], b |-> [free |-> 3, frozen |-> 0]]},
    MaxClicks <- 5, MaxRounds <- 1, MaxChanges <- 1,
    wallet <- v1, opener <- v2, ui <- v3, jobs <- v4, refresh <- v5, edits <- v6, sent <- v7, clicks <- v8,
    rounds <- v9, changes <- v10

Out(to, script, amount) == [to |-> to, script |-> script, amount |-> amount]

Signing == INSTANCE BitcoinSigning WITH
    Requests <- {1, 2}, Coin <- [c |-> 4, d |-> 2],
    Templates <- {<<Out("other", 0, 1)>>, <<Out("other", 0, 1), Out("own", 2, 1)>>},
    Given <- {[inputs |-> {"c"}, outs |-> <<Out("own", 1, 2), Out("own", 0, 1)>>],
              [inputs |-> {"x"}, outs |-> <<Out("other", 0, 1)>>]},
    Theirs <- {[inputs |-> {"x"}, outs |-> <<Out("own", 0, 1), Out("other", 0, 1)>>]},
    Estimates <- {0, 5}, Fallback <- 20, Dust <- 2, MaxTroubles <- 1,
    stored <- v1, chain <- v2, inscribed <- v3, request <- v4, troubles <- v5

Proving == INSTANCE OwnershipProofs WITH
    Wallet <- "bitcoin", Accounts <- {"a", "b"}, Source <- [a |-> "s", b |-> "t"], Names <- {"a", "A", "b", "x"},
    Of <- [a |-> "a", A |-> "a", b |-> "b", x |-> "nobody"], Longest <- 2, MaxFaults <- 2, batch <- v1, results <- v2

ASSUME Assumptions ==
    /\ Synchronizing!BitcoinSyncAssumption /\ Policy!PolicyAssumption /\ Policy!BatchAssumption
    /\ Sending!BitcoinSendAssumption /\ Signing!BitcoinSigningAssumption /\ Proving!OwnershipProofsAssumption

------------------------------------------------------------------------------
\* Slots a part does not use.
Free6 == v6 = 0 /\ v7 = 0 /\ v8 = 0 /\ v9 = 0 /\ v10 = 0
Free3 == v3 = 0 /\ v4 = 0 /\ v5 = 0 /\ Free6

MCInit ==
    /\ part \in Parts
    /\ Init
    /\ Synchronizing!Init /\ (part # "synchronizing" => mix = {"cron", "scan"})
    /\ Caching!Init /\ (part # "caching" => store = "memory" /\ wrapper = "useCache")
    /\ Policy!Init
    /\ CASE part = "waves"   -> Policy!BatchInit /\ Free6
         [] part = "sending" -> Sending!Init
         [] part = "signing" -> Signing!Init /\ Free6
         [] part = "proving" -> Proving!Init /\ Free3
         [] OTHER            -> v1 = 0 /\ v2 = 0 /\ Free3

Keep6 == UNCHANGED <<v6, v7, v8, v9, v10>>
Keep3 == UNCHANGED <<v3, v4, v5>> /\ Keep6

In(of, Action)      == part = of /\ Action /\ UNCHANGED part
InSlots(of, Action) == In(of, Action) /\ UNCHANGED <<vars, syncVars, cacheVars, policyVars>>

MCNext ==
    \/ In("accounts", Next) /\ UNCHANGED <<syncVars, cacheVars, policyVars, slots>>
    \/ In("synchronizing", Synchronizing!Next) /\ UNCHANGED <<vars, cacheVars, policyVars, slots>>
    \/ In("caching", Caching!Next) /\ UNCHANGED <<vars, syncVars, policyVars, slots>>
    \/ In("policy", Policy!Next) /\ UNCHANGED <<vars, syncVars, cacheVars, slots>>
    \/ InSlots("waves", Policy!BatchNext /\ Keep6)
    \/ InSlots("sending", Sending!Next)
    \/ InSlots("signing", Signing!Next /\ Keep6)
    \/ InSlots("proving", Proving!Next /\ Keep3)

MCSpec == MCInit /\ [][MCNext]_walletVars

\* The fairness of each part's FairSpec, for the behaviours of the part.
MCFairSpec ==
    /\ MCSpec
    /\ \A c \in Calls : WF_vars(part = "accounts" /\ Step(c))
    /\ \A i \in Ids : WF_vars(part = "accounts" /\ (SyncInscriptions(i) \/ SyncThrows(i)))
    /\ \A r \in {"cron", "selected", "scan", "send"} : WF_syncVars(part = "synchronizing" /\ Synchronizing!Work(r))
    /\ WF_syncVars(part = "synchronizing" /\ Synchronizing!Cron)
    /\ \A c \in {"c", "d"} : WF_cacheVars(part = "caching" /\ Caching!Work(c))
    /\ \A r \in {"r", "q"} : WF_policyVars(part = "policy" /\ Policy!Run(r))

------------------------------------------------------------------------------
\* What is sent and signed is what was asked for, reviewed and announced, from coins that may be spent
\* (SendFlowUseCases, AccountUseCases, batchesAll, the keyring's proofs).
SentRight ==
    /\ part = "sending" => Sending!ShownTogether /\ Sending!SentAsReviewed /\ Sending!FrozenKept
    /\ part = "signing" => Signing!SigningRight
    /\ part = "waves" => Policy!BatchTypeOK /\ Policy!WavesInOrder
    /\ part = "proving" => Proving!BatchIsSingles /\ Proving!MessagesAreOwn

\* The client is told nothing that is not stored, and a cached value is answered no later past its time than its
\* own fetch took (emitSyncEvents, StateCache, useCacheUntil).
AnsweredIsKnown ==
    /\ part = "synchronizing" => Synchronizing!TypeOK /\ Synchronizing!ToldIsStored
    /\ part = "caching" => Caching!TypeOK /\ Caching!StaleBounded
    /\ part = "policy" => Policy!TypeOK

\* Overlapping runs do not undo each other, an account leaves the repair list when its scan is stored, and a caller
\* that gave up is done with (BdkAccountRepository, CronHandler, executeWithFetchPolicy).
StepsRight ==
    [][/\ part = "synchronizing" => Synchronizing!NeverForgotten /\ Synchronizing!LeavesScanned
       /\ part = "policy" => Policy!DoneWith]_walletVars

\* Every creation and deletion gets its turn and ends; once the client stays open the repair list empties and the
\* client shows what is stored; a value that can be fetched stays cached; every request that was made is answered.
SettlesInTheEnd ==
    /\ EveryCallEnds
    /\ (<>[]open) => <>[](part = "synchronizing" => Synchronizing!ToldAndRepaired)
    /\ (<>[][\E c \in {"c", "d"} : Caching!Work(c)]_cacheVars) => <>[](part = "caching" => entry # Nothing)
    /\ (<>[][~(\E r \in {"r", "q"} : Policy!Again(r))]_policyVars) => <>[](part = "policy" => Policy!Answered)
=============================================================================
