------------------------- MODULE SolanaConfirmation -------------------------
(***************************************************************************)
(* The confirmation of a Solana transaction: a dialog is shown at once and *)
(* completed by what it awaits, then refreshed every 20 seconds. All       *)
(* dialogs share one name, under which the interface of the last one is    *)
(* stored. Who completes, refreshes or folds a dialog writes all of its    *)
(* context, from a copy read earlier.                                      *)
(***************************************************************************)
EXTENDS Naturals

CONSTANTS
    Dialogs, NoDialog,
    Runners,     \* executions of the background event that can overlap
    Folding,     \* bound: the dialogs whose details are folded or unfolded
    Dapp,        \* the request comes from a dapp: refreshes check its blockhash
    MaxDue,      \* bound: refreshes that are scheduled
    MaxTroubles  \* bound: requests that fail

SolanaConfirmationAssumption ==
    NoDialog \notin Dialogs /\ Dapp \in BOOLEAN /\ MaxDue \in Nat \ {0} /\ MaxTroubles \in Nat

VARIABLES
    simulates, \* the preferences ask for simulations
    expired,   \* dialogs whose transaction names a blockhash that is too old
    ui,        \* the interface of each dialog
    context,   \* what it shows
    flow,      \* the request that opened it
    answer,    \* what the user said
    clearing,  \* answered dialogs whose button has still to delete the stored id
    folding,   \* the context that a click on "Advanced" was given
    slot,      \* the id stored under the name of the confirmation
    due, job   \* refreshes that are scheduled, and those that run
VARIABLE troubles

confirmationVars == <<simulates, expired, ui, context, flow, answer, clearing, folding, slot, due, job, troubles>>
dialog == <<ui, answer, clearing, folding>>

Context == [scan : {"none", "good", "expired"}, fetching : BOOLEAN]
New     == [scan |-> "none", fetching |-> TRUE]
NoClick == [scan |-> "no click", fetching |-> FALSE]
Resting == [at |-> "idle", id |-> NoDialog, seen |-> New]

TypeOK ==
    /\ simulates \in BOOLEAN /\ expired \subseteq Dialogs
    /\ ui \in [Dialogs -> {"none", "open", "closed"}]
    /\ context \in [Dialogs -> Context] /\ folding \in [Dialogs -> Context \cup {NoClick}]
    /\ flow \in [Dialogs -> {"idle", "prices", "scan", "keep", "schedule", "await", "approved", "rejected", "failed"}]
    /\ answer \in [Dialogs -> {"none", "yes", "no"}]
    /\ clearing \subseteq Dialogs /\ slot \in Dialogs \cup {NoDialog}
    /\ due \in 0..MaxDue
    /\ job \in [Runners -> [at : {"idle", "mark", "work", "write", "undo"}, id : Dialogs \cup {NoDialog}, seen : Context]]
    /\ troubles \in 0..MaxTroubles

Init ==
    /\ simulates \in BOOLEAN /\ expired = {}
    /\ ui = [d \in Dialogs |-> "none"] /\ context = [d \in Dialogs |-> New]
    /\ flow = [d \in Dialogs |-> "idle"] /\ answer = [d \in Dialogs |-> "none"]
    /\ clearing = {} /\ folding = [d \in Dialogs |-> NoClick] /\ slot = NoDialog
    /\ due = 0 /\ job = [r \in Runners |-> Resting] /\ troubles = 0

Fails == troubles < MaxTroubles /\ troubles' = troubles + 1
To(d, pc) == flow' = [flow EXCEPT ![d] = pc]
Schedule == due < MaxDue /\ due' = due + 1

------------------------------------------------------------------------------
\* render: create the interface and show it; the rest runs while the user looks at it.
Open(d) ==
    /\ flow[d] = "idle"
    /\ ui' = [ui EXCEPT ![d] = "open"] /\ To(d, "prices")
    /\ UNCHANGED <<simulates, expired, context, answer, clearing, folding, slot, due, job, troubles>>

\* An interface that the user has closed cannot be updated: render fails, whatever the answer was.
Complete(d, ctx, next) ==
    /\ IF ui[d] = "open" THEN context' = [context EXCEPT ![d] = ctx] /\ To(d, next)
                         ELSE UNCHANGED context /\ To(d, "failed")
    /\ UNCHANGED <<simulates, expired, dialog, slot, due, job>>

Price(d) ==
    /\ flow[d] = "prices"
    /\ Complete(d, New, "scan") /\ UNCHANGED troubles

\* The first scan says nothing of the blockhash itself. Without simulations it is asked for if security alerts
\* are wanted.
FirstScan(d) ==
    /\ flow[d] = "scan"
    /\ \/ Complete(d, [scan |-> "good", fetching |-> FALSE], "keep") /\ UNCHANGED troubles
       \/ ~simulates /\ Complete(d, [scan |-> "none", fetching |-> FALSE], "keep") /\ UNCHANGED troubles
       \/ Fails /\ Complete(d, [scan |-> "none", fetching |-> FALSE], "keep")

Keep(d) ==
    /\ flow[d] = "keep"
    /\ slot' = d /\ To(d, "schedule")
    /\ UNCHANGED <<simulates, expired, dialog, context, due, job, troubles>>

FirstSchedule(d) ==
    /\ flow[d] = "schedule"
    /\ Schedule /\ To(d, "await")
    /\ UNCHANGED <<simulates, expired, dialog, context, slot, job, troubles>>

\* The answer of the dialog, which it may have had for long.
Decide(d) ==
    /\ flow[d] = "await" /\ answer[d] # "none"
    /\ To(d, IF answer[d] = "yes" THEN "approved" ELSE "rejected")
    /\ UNCHANGED <<simulates, expired, dialog, context, slot, due, job, troubles>>

Render(d) == Price(d) \/ FirstScan(d) \/ Keep(d) \/ FirstSchedule(d) \/ Decide(d)

------------------------------------------------------------------------------
\* The confirm button is disabled while a scan is fetched and when it found an error.
Confirmable(d) == ~context[d].fetching /\ context[d].scan # "expired"

\* Its button resolves the interface, then deletes what is stored under the name.
Answer(d) ==
    /\ ui[d] = "open"
    /\ \E a \in {"yes", "no"} :
          /\ a = "yes" => Confirmable(d)
          /\ answer' = [answer EXCEPT ![d] = a]
    /\ ui' = [ui EXCEPT ![d] = "closed"] /\ clearing' = clearing \cup {d}
    /\ UNCHANGED <<simulates, expired, context, flow, folding, slot, due, job, troubles>>

Clear(d) ==
    /\ d \in clearing
    /\ clearing' = clearing \ {d} /\ slot' = NoDialog
    /\ UNCHANGED <<simulates, expired, ui, answer, folding, context, flow, due, job, troubles>>

\* A click on "Advanced" is given the context of its moment; its handler writes that back, unfolded.
Click(d) ==
    /\ d \in Folding /\ ui[d] = "open" /\ folding[d] = NoClick
    /\ folding' = [folding EXCEPT ![d] = context[d]]
    /\ UNCHANGED <<simulates, expired, ui, answer, clearing, context, flow, slot, due, job, troubles>>

Fold(d) ==
    /\ folding[d] # NoClick
    /\ context' = IF ui[d] = "open" THEN [context EXCEPT ![d] = folding[d]] ELSE context
    /\ folding' = [folding EXCEPT ![d] = NoClick]
    /\ UNCHANGED <<simulates, expired, ui, answer, clearing, flow, slot, due, job, troubles>>

Buttons(d) == Clear(d) \/ Fold(d)

------------------------------------------------------------------------------
\* refreshConfirmationEstimation.
End(r) == job' = [job EXCEPT ![r] = Resting]
Gone(d) == ui[d] # "open"

\* It finds the dialog by its name and reads its context.
Fire(r) ==
    /\ due > 0 /\ job[r] = Resting
    /\ due' = due - 1
    /\ IF slot = NoDialog \/ Gone(slot) THEN UNCHANGED job
       ELSE job' = [job EXCEPT ![r] = [at |-> IF simulates THEN "mark" ELSE "work", id |-> slot, seen |-> context[slot]]]
    /\ UNCHANGED <<simulates, expired, dialog, context, flow, slot, troubles>>

Refreshing(r, at) == job[r].at = at /\ UNCHANGED <<simulates, expired, dialog, flow, slot>>

Mark(r) ==
    /\ Refreshing(r, "mark")
    /\ IF Gone(job[r].id) THEN End(r) /\ UNCHANGED context
       ELSE /\ context' = [context EXCEPT ![job[r].id] = [job[r].seen EXCEPT !.fetching = TRUE]]
            /\ job' = [job EXCEPT ![r].at = "work"]
    /\ UNCHANGED <<due, troubles>>

\* isTransactionBlockhashExpired and scanTransaction do not fail: a blockhash that counts as valid, and no
\* scan, come of their errors.
TooOld(id)    == Dapp /\ id \in expired
Scanned(seen) == IF simulates THEN "good" ELSE seen.scan
Failed(seen)  == IF simulates THEN "none" ELSE seen.scan

\* The context is read again, at the time the scan and the check of the blockhash begin.
Work(r) ==
    /\ Refreshing(r, "work")
    /\ LET id == job[r].id
           Next_(scan) == IF Gone(id) THEN End(r)
                          ELSE job' = [job EXCEPT ![r].at = "write", ![r].seen = [scan |-> scan, fetching |-> FALSE]]
       IN  \/ Next_(IF TooOld(id) THEN "expired" ELSE Scanned(job[r].seen)) /\ UNCHANGED troubles
           \/ Fails /\ \E scan \in {Scanned(job[r].seen), Failed(job[r].seen)} :
                          Next_(IF TooOld(id) /\ scan = "none" THEN "expired" ELSE scan)
    /\ UNCHANGED <<context, due>>

\* With its answers it writes the context and schedules itself anew.
Write(r) ==
    /\ Refreshing(r, "write")
    /\ IF Gone(job[r].id) THEN End(r) /\ UNCHANGED <<context, due, troubles>>
       ELSE /\ context' = [context EXCEPT ![job[r].id] = job[r].seen]
            /\ \/ Schedule /\ End(r) /\ UNCHANGED troubles
               \/ Fails /\ job' = [job EXCEPT ![r].at = "undo"] /\ UNCHANGED due

\* After an error the status is put back and nothing is scheduled.
Undo(r) ==
    /\ Refreshing(r, "undo")
    /\ context' = IF Gone(job[r].id) THEN context ELSE [context EXCEPT ![job[r].id].fetching = FALSE]
    /\ End(r) /\ UNCHANGED <<due, troubles>>

Refresh(r) == Fire(r) \/ Mark(r) \/ Work(r) \/ Write(r) \/ Undo(r)

Expire(d) ==
    /\ ui[d] = "open" /\ expired' = expired \cup {d} /\ d \notin expired
    /\ UNCHANGED <<simulates, dialog, context, flow, slot, due, job, troubles>>

Next ==
    \/ \E d \in Dialogs : Open(d) \/ Render(d) \/ Answer(d) \/ Click(d) \/ Buttons(d) \/ Expire(d)
    \/ \E r \in Runners : Refresh(r)

Spec == Init /\ [][Next]_confirmationVars

\* What is awaited returns and scheduled events fire; nobody has to answer.
FairSpec ==
    /\ Spec
    /\ \A d \in Dialogs : WF_confirmationVars(Render(d)) /\ WF_confirmationVars(Buttons(d))
    /\ \A r \in Runners : WF_confirmationVars(Refresh(r))

------------------------------------------------------------------------------
\* A request that the user approved is carried out, unless the dialog was not complete when it was answered
\* or something failed; one that was rejected or not answered never is (render, ConfirmationHandler).
AnswersCount ==
    \A d \in Dialogs :
        /\ flow[d] = "approved" => answer[d] = "yes"
        /\ flow[d] = "failed" => ui[d] = "closed"

\* Refreshing ends when no dialog is left (refreshConfirmationEstimation.tsx:40-54).
EventuallyQuiet ==
    <>[](\A d \in Dialogs : ui[d] # "open") => <>[](due = 0 /\ \A r \in Runners : job[r] = Resting)

\* A dialog that stays, while no other was opened and nothing fails, comes out of each "fetching" and shows
\* again and again that its blockhash has expired, whatever is folded or overwritten meanwhile.
Alone(d) == troubles = 0 /\ \A e \in Dialogs \ {d} : ui[e] = "none"
Timely(d) == ~context[d].fetching /\ (Dapp /\ d \in expired => context[d].scan = "expired")

RepeatedlyTimely == \A d \in Dialogs : <>[](Alone(d) /\ ui[d] = "open") => []<>Timely(d)
==============================================================================
