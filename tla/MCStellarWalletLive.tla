-------------------------- MODULE MCStellarWalletLive --------------------------
(***************************************************************************)
(* The parts of the Stellar wallet that have to get somewhere in the end:  *)
(* a behaviour runs one part, and the others keep to their first state.    *)
(* What fails, fails for a while: requests are answered from some point    *)
(* on, the snap is not stopped any more and the user stops switching       *)
(* accounts. From then on the cron job runs for ever, or, to see what the  *)
(* other requests for a run achieve, not at all.                           *)
(***************************************************************************)
EXTENDS StellarTransactions, TLC

CONSTANTS Parts, x, y, s, i, c1, c2, Gone

VARIABLES
    part,
    calm,   \* "no", or how the surroundings are once they have settled: "cron" or "quiet"
    owed,   \* accounts of events scheduled since, until they get into a run
    chain, tx, ready, selected, events, snapshot, lock, inSync, pc, asking, waiting, got, saving, history, track,
    asked, finalized,
    opening, ui, render, jobs, runs, click, save, answer, saves, troubles,
    catalogue, migrating, rows, age, looked, copies, copied, changes, mishaps

world            == <<chain, tx, ready, selected>>
synchronizeVars  == <<world, events, snapshot, lock, inSync, pc, asking, waiting, got, saving, history, track, asked,
                      finalized>>
confirmationVars == <<opening, ui, render, jobs, runs, click, save, answer, saves, troubles>>
metadataVars     == <<catalogue, migrating, rows, age, looked, copies, copied, changes, mishaps>>
walletVars       == <<part, calm, owed, vars, synchronizeVars, confirmationVars, metadataVars>>

Synchronize == INSTANCE StellarSynchronize WITH
    Accounts <- {x, y}, Selections <- {{x}, {y}}, Txs <- {}, Sender <- <<>>, Receiver <- <<>>, NoAccount <- Gone,
    Calls <- {c1, c2}, NoCall <- Gone, MaxVersion <- 1, MaxReschedules <- 1, accts <- asking

Confirmation == INSTANCE StellarConfirmation WITH
    Openings <- {[keys |-> {"prices", "scan"}, unmemoed |-> FALSE]}
                    \cup [keys : {{"scan", "transaction"}}, unmemoed : BOOLEAN],
    Runners <- {1}, MaxPending <- 2, MaxSaves <- 1, MaxTroubles <- 1, Closed <- Gone

Metadata == INSTANCE StellarMetadata WITH
    Assets <- {"c"}, Unlisted <- {"x"}, Core <- {"x"}, Lookups <- {1}, Copies <- {"cron", "stale"}, Ttl <- 1,
    MaxChanges <- 2, MaxTroubles <- 1, lookups <- looked, troubles <- mishaps

ASSUME Assumptions == Confirmation!StellarConfirmationAssumption /\ Metadata!StellarMetadataAssumption

MCOwner     == s :> x @@ i :> x
MCRecipient == s :> NoOne @@ i :> NoOne

------------------------------------------------------------------------------
MCInit ==
    /\ part \in Parts /\ calm = "no" /\ owed = {}
    /\ Init /\ Synchronize!Init /\ Confirmation!Init /\ Metadata!Init
    /\ part # "synchronize" => selected = {x}
    /\ part # "confirmation" => opening.unmemoed
    /\ part # "metadata" => ~migrating

Only(of, Action) == part = of /\ Action /\ UNCHANGED part

\* Settling down: the snap is awake, and nothing else happens at that moment.
CalmDown == calm = "no" /\ calm' \in IF part = "synchronize" THEN {"cron", "quiet"} ELSE {"cron"}

Transactions ==
    /\ Only("transactions", \/ (Work \/ (calm = "no" /\ Trouble)) /\ UNCHANGED calm
                            \/ CalmDown /\ UNCHANGED vars)
    /\ UNCHANGED <<owed, synchronizeVars, confirmationVars, metadataVars>>

Before == calm = "no" /\ Synchronize!Next /\ UNCHANGED calm
SettleDown ==
    /\ CalmDown /\ ready' = TRUE
    /\ UNCHANGED <<chain, tx, selected, events, snapshot, lock, inSync, pc, asking, waiting, got, saving, history,
                   track, asked, finalized>>
After ==
    /\ calm # "no" /\ UNCHANGED calm
    /\ \/ \E a \in {x, y} : Synchronize!Change(a)
       \/ \E c \in {c1, c2} : Synchronize!FireEvent(c) \/ Synchronize!Run(c)
Tick == calm = "cron" /\ UNCHANGED calm /\ \E c \in {c1, c2} : Synchronize!Cron(c)

Asked == {a \in {x, y} : \E S \in SUBSET {x, y} : a \in S /\ Synchronize!SyncEvent(S) \in events'}
Synchronizing ==
    /\ Only("synchronize", Before \/ SettleDown \/ After \/ Tick)
    /\ owed' = IF calm' = "quiet" THEN (owed \cup Asked) \ inSync' ELSE {}
    /\ UNCHANGED <<vars, confirmationVars, metadataVars>>

MCNext ==
    \/ Transactions
    \/ Synchronizing
    \/ Only("confirmation", Confirmation!Next) /\ UNCHANGED <<calm, owed, vars, synchronizeVars, metadataVars>>
    \/ Only("metadata", Metadata!Next) /\ UNCHANGED <<calm, owed, vars, synchronizeVars, confirmationVars>>

\* The fairness of each part, for the behaviours of the part: scheduled events and the cron job fire, and what was
\* started takes the steps it can take. Until a part settles down it need not.
MCSpec ==
    /\ MCInit /\ [][MCNext]_walletVars
    /\ WF_calm(part \in {"transactions", "synchronize"} /\ CalmDown)
    /\ WF_vars(part = "transactions" /\ StartSync) /\ WF_vars(part = "transactions" /\ MapScan)
    /\ WF_vars(part = "transactions" /\ Emit) /\ WF_vars(part = "transactions" /\ Save)
    /\ \A a \in Accounts : WF_vars(part = "transactions" /\ Fetch(a))
    /\ \A t \in Txs : /\ WF_vars(part = "transactions" /\ Lookup(t))
                      /\ WF_vars(part = "transactions" /\ (SavePending(t) \/ LosePending(t)))
    /\ Synchronize!Fairness
    /\ SF_synchronizeVars(part = "synchronize" /\ Tick)
    /\ WF_confirmationVars(part = "confirmation" /\ Confirmation!Render)
    /\ WF_confirmationVars(part = "confirmation" /\ Confirmation!Saving)
    /\ WF_confirmationVars(part = "confirmation" /\ Confirmation!HandleClick)
    /\ WF_confirmationVars(part = "confirmation" /\ Confirmation!Handled(1))
    /\ WF_metadataVars(part = "metadata" /\ Metadata!Lookup(1))
    /\ \A c \in {"cron", "stale"} : WF_metadataVars(part = "metadata" /\ Metadata!Copy(c))
    /\ WF_metadataVars(part = "metadata" /\ Metadata!synchronizeIfStale)
    /\ WF_metadataVars(part = "metadata" /\ Metadata!Clock)

------------------------------------------------------------------------------
\* Nobody confirms what is still looked at, the stamp of a copy of the catalogue stands for a whole one, and what
\* was looked up is not lost again (ConfirmationHandler, AssetMetadataService).
AnswersRight ==
    /\ part = "confirmation" => Confirmation!ConfirmedKnowingly
    /\ part = "metadata" => Metadata!StampTrue /\ Metadata!AnswersKept


\* With the cron job, what the network shows of a selected account reaches the snapshot, although requests that
\* overlap a run are skipped.
EventuallyFresh ==
    \A a \in {x, y} : <>[](calm # "quiet" /\ a \in selected => snapshot[a] >= chain[a])

\* "Scheduled as a short background event instead of waiting": also without the cron job the accounts of a scheduled
\* event get into a run, although overlapping requests are turned away.
ServedWhenCalm == \A a \in {x, y} : []<>(a \notin owed)

\* Accounts are synchronised, with the cron job or without, and the token catalogue arrives in the state.
SettlesInTheEnd == EventuallyFresh /\ ServedWhenCalm /\ <>[](part = "metadata" => Metadata!Current)

\* A scan does not keep the confirmation disabled for ever (ConfirmationHandler).
ConfirmationSettles == Confirmation!ConfirmationSettles
==============================================================================
