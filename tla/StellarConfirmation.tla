------------------------ MODULE StellarConfirmation ------------------------
(***************************************************************************)
(* A confirmation of the Stellar wallet while it is open: the controller   *)
(* renders it, a background event refreshes it again and again, the user   *)
(* looks at other screens and writes a memo. All that is shown is one      *)
(* context; who writes it writes all of it, from a copy read some awaits   *)
(* before. The event that refreshes next is named in it: a refresher that  *)
(* finds another name than it started with leaves (its work is old).       *)
(***************************************************************************)
EXTENDS Naturals, FiniteSets

CONSTANTS Openings,    \* how a confirmation may open: what is refreshed, whether it lacks a memo it needs
          Runners,     \* refreshes that may be on their way at once (bound)
          MaxPending,  \* refreshes, clicks and saves on their way together (bound)
          MaxSaves,    \* memos written (bound)
          MaxTroubles, \* failures and restarts (bound)
          Closed       \* no context: the dialog is gone

StellarConfirmationAssumption ==
    /\ Openings \subseteq [keys : SUBSET {"prices", "scan", "transaction"}, unmemoed : BOOLEAN]
    /\ MaxPending \in Nat /\ MaxSaves \in Nat /\ MaxTroubles \in Nat

VARIABLES opening,   \* how this one opened
          ui,        \* the context, Closed when the dialog is gone
          render,    \* how far the controller is, with the event it has scheduled
          jobs,      \* events scheduled, each with what it refreshes
          runs,      \* refreshes on their way
          click,     \* a click that is handled, with the context it was made on
          save,      \* a memo that is saved
          answer,    \* what was confirmed: the context's fields that matter, Closed if nothing was
          saves, troubles

confirmationVars == <<opening, ui, render, jobs, runs, click, save, answer, saves, troubles>>

NoEvent == 0

\* An event has a name of its own: one that nothing remembers.
Remembered ==
    {job.id : job \in jobs} \cup {render.event} \cup (IF ui = Closed THEN {} ELSE {ui.event})
    \cup {runs[r].copy.event : r \in {q \in Runners : runs[q].copy # Closed}}
    \cup (IF click.copy = Closed THEN {} ELSE {click.copy.event})
    \cup (IF save.copy = Closed THEN {} ELSE {save.copy.event})

Fresh == CHOOSE id \in 1..(Cardinality(Remembered) + 1) : id \notin Remembered

------------------------------------------------------------------------------
\* What of a context disables the confirmation.
isRemoteTransactionScanLoading(c)     == c.scan = "fetching"
isLocalTransactionValidationFailed(c) == c.transaction = "error"
shouldDisableConfirmation(c)          == isRemoteTransactionScanLoading(c) \/ isLocalTransactionValidationFailed(c)
requiresMaliciousAcknowledgement(c)   == c.verdict = "malicious"

shouldDisableMemoEdit(c) == c.scan = "fetching" \/ (c.transaction = "error" /\ c.banner # "memo")

Memoable == "transaction" \in opening.keys

defaultContext ==
    [prices |-> IF "prices" \in opening.keys THEN "fetching" ELSE "fetched",
     scan |-> IF opening.unmemoed THEN "error" ELSE IF "scan" \in opening.keys THEN "fetching" ELSE "fetched",
     transaction |-> IF opening.unmemoed THEN "error" ELSE "fetched", banner |-> IF opening.unmemoed THEN "memo" ELSE "none",
     verdict |-> "benign", scanned |-> FALSE, memo |-> FALSE,
     event |-> NoEvent, screen |-> "main", acknowledged |-> FALSE]

scheduledKeys == IF opening.unmemoed THEN opening.keys \ {"scan", "transaction"} ELSE opening.keys

Idle == [pc |-> "idle", keys |-> {}, copy |-> Closed, again |-> FALSE]
NoClick == [kind |-> "none", copy |-> Closed]
NoSave  == [pc |-> "idle", copy |-> Closed, event |-> NoEvent]

Init ==
    /\ opening \in Openings
    /\ ui = defaultContext
    /\ render = [pc |-> "schedule", event |-> NoEvent]
    /\ jobs = {} /\ runs = [r \in Runners |-> Idle]
    /\ click = NoClick /\ save = NoSave /\ answer = Closed /\ saves = 0 /\ troubles = 0

Admits ==
    Cardinality({r \in Runners : runs[r] # Idle}) + (IF click # NoClick THEN 1 ELSE 0)
       + (IF save # NoSave THEN 1 ELSE 0) < MaxPending

\* updateInterfaceIfExists: nothing to write once the dialog is gone.
Update(c) == ui' = IF ui = Closed THEN Closed ELSE c

------------------------------------------------------------------------------
\* renderConfirmationDialog, after the dialog is shown.
RenderSchedule ==
    /\ render.pc = "schedule"
    /\ IF scheduledKeys = {}
       THEN render' = [render EXCEPT !.pc = "done"] /\ UNCHANGED jobs
       ELSE /\ jobs' = jobs \cup {[id |-> Fresh, keys |-> scheduledKeys]}
            /\ render' = [pc |-> "write", event |-> Fresh]
    /\ UNCHANGED <<opening, ui, runs, click, save, answer, saves, troubles>>

\* The context is the one it began with, and the event.
RenderWrite ==
    /\ render.pc = "write" /\ render' = [pc |-> "done", event |-> NoEvent]
    /\ Update([defaultContext EXCEPT !.event = render.event])
    /\ UNCHANGED <<opening, jobs, runs, click, save, answer, saves, troubles>>

------------------------------------------------------------------------------
\* A refresh (RefreshConfirmationContextHandler).
At(r, step) == runs[r].pc = step
Ends(r)     == runs' = [runs EXCEPT ![r] = Idle]
RunsOnly    == UNCHANGED <<opening, ui, render, jobs, click, save, answer, saves, troubles>>

\* What refreshers read of a context.
Seen(c) == [f \in {"prices", "scan", "transaction", "memo", "event"} |-> c[f]]

\* Events fire seconds later: what the render, a click or a save had to do is done.
\* The context is read for the refreshers; a dialog that is gone ends it.
Fire(r) ==
    /\ At(r, "idle") /\ render.pc = "done" /\ click = NoClick /\ save.pc # "write" /\ Admits
    /\ \E job \in jobs :
          /\ jobs' = jobs \ {job}
          /\ runs' = IF ui = Closed THEN runs
                     ELSE [runs EXCEPT ![r].pc = "refresh", ![r].keys = job.keys, ![r].copy = Seen(ui)]
    /\ UNCHANGED <<opening, ui, render, click, save, answer, saves, troubles>>

\* What a refresher gives: the fields it patches, its vote for another round, and whether refreshing pauses.
Result(patch, again, pause) == [patch |-> patch, again |-> again, pause |-> pause]
Patched(c, patch) == [f \in DOMAIN c |-> IF f \in DOMAIN patch THEN patch[f] ELSE c[f]]

\* The transaction is built again first, with the memo that is shown; it may be refused.
TransactionResults(c) ==
    IF c.transaction = "error" THEN {}
    ELSE {Result(<<>>, TRUE, FALSE)}
         \cup {Result([transaction |-> "error", scan |-> "error", banner |-> b], FALSE, TRUE) :
                  b \in IF c.memo THEN {"other"} ELSE {"memo", "other"}}

\* The scan is of the transaction just built, with its memo; one that fails is not tried again.
ScanResults(c) ==
    IF c.scan = "error" THEN {}
    ELSE {Result([scan |-> "fetched", verdict |-> v, scanned |-> c.memo], TRUE, FALSE) : v \in {"benign", "malicious"}}
         \cup {Result([scan |-> "error", verdict |-> "benign"], FALSE, FALSE)}

PriceResults(c) ==
    IF c.prices = "error" THEN {}
    ELSE {Result([prices |-> "fetched"], TRUE, FALSE), Result([prices |-> "error"], FALSE, FALSE)}

\* What the refreshers of some keys may give together, from one context: the
\* transaction first, then the others with what it patched, unless it pauses.
Some(results) == IF results = {} THEN {{}} ELSE {{x} : x \in results}

Rounds(keys, c) ==
    UNION {LET patched == IF first = {} THEN c ELSE LET one == CHOOSE y \in first : TRUE IN Patched(c, one.patch)
               paused  == \E x \in first : x.pause
               scans   == IF "scan" \in keys /\ ~paused THEN Some(ScanResults(patched)) ELSE {{}}
               prices  == IF "prices" \in keys THEN Some(PriceResults(patched)) ELSE {{}}
           IN  {first \cup scan \cup price : scan \in scans, price \in prices} :
              first \in IF "transaction" \in keys THEN Some(TransactionResults(c)) ELSE {{}}}

\* The results are merged into the context as it is now, unless another event has been named in it meanwhile.
Refresh(r) ==
    /\ At(r, "refresh") /\ RunsOnly
    /\ \E results \in Rounds(runs[r].keys, runs[r].copy) :
          LET started == runs[r].copy.event
              superseded == started # NoEvent /\ ui.event # NoEvent /\ ui.event # started
              merged[some \in SUBSET results] ==
                  IF some = {} THEN ui
                  ELSE LET one == CHOOSE y \in some : TRUE IN Patched(merged[some \ {one}], one.patch)
          IN  IF results = {} \/ ui = Closed \/ superseded
              THEN Ends(r)
              ELSE runs' = [runs EXCEPT ![r].pc = "schedule", ![r].copy = merged[results],
                                        ![r].again = (\E x \in results : x.again) /\ ~(\E x \in results : x.pause)]

\* Another round if any refresher wants one and none pauses.
ScheduleNext(r) ==
    /\ At(r, "schedule")
    /\ LET event == IF runs[r].again THEN Fresh ELSE NoEvent
       IN  /\ jobs' = IF runs[r].again THEN jobs \cup {[id |-> event, keys |-> runs[r].keys]} ELSE jobs
           /\ runs' = [runs EXCEPT ![r].pc = "write", ![r].copy.event = event]
    /\ UNCHANGED <<opening, ui, render, click, save, answer, saves, troubles>>

WriteContext(r) ==
    /\ At(r, "write") /\ Update(runs[r].copy) /\ Ends(r)
    /\ UNCHANGED <<opening, render, jobs, click, save, answer, saves, troubles>>

------------------------------------------------------------------------------
\* Clicks. Each screen has its buttons, some disabled by what it shows.
Buttons(c) ==
    CASE c.screen = "acknowledge" -> {"back", "acknowledge"} \cup (IF c.acknowledged THEN {"proceed"} ELSE {})
      [] c.screen = "memo"        -> {"back"}
      [] OTHER -> {"cancel"}
                  \cup (IF shouldDisableConfirmation(c) THEN {}
                        ELSE IF requiresMaliciousAcknowledgement(c) THEN {"review"} ELSE {"confirm"})
                  \cup (IF Memoable /\ ~shouldDisableMemoEdit(c) THEN {"open"} ELSE {})

Click ==
    /\ ui # Closed /\ click = NoClick /\ save.pc = "idle" /\ Admits
    /\ \E kind \in Buttons(ui) : click' = [kind |-> kind, copy |-> ui]
    /\ UNCHANGED <<opening, ui, render, jobs, runs, save, answer, saves, troubles>>

\* What is confirmed is the context the click was made on; the caller reads its memo.
Confirmed(c) ==
    [disabled |-> shouldDisableConfirmation(c), verdict |-> c.verdict, acknowledged |-> c.acknowledged,
     stale |-> c.scan = "fetched" /\ c.scanned # c.memo]
Resolve(with) == ui' = Closed /\ answer' = with

\* onProceedClick looks again at what it was made on.
HandleClick ==
    /\ click.kind # "none" /\ click' = NoClick
    /\ LET c == click.copy
           shows(next) == Update(next) /\ UNCHANGED answer
       IN  CASE click.kind = "cancel" -> Resolve(Closed)
             [] click.kind = "confirm" \/ (click.kind = "proceed" /\ ~shouldDisableConfirmation(c)) -> Resolve(Confirmed(c))
             [] click.kind = "review" -> shows([c EXCEPT !.screen = "acknowledge", !.acknowledged = FALSE])
             [] click.kind = "acknowledge" -> shows([c EXCEPT !.acknowledged = ~@])
             [] click.kind = "open" -> shows([c EXCEPT !.screen = "memo"])
             [] click.kind \in {"back", "proceed"} -> shows([c EXCEPT !.screen = "main", !.acknowledged = FALSE])
    /\ UNCHANGED <<opening, render, jobs, runs, save, saves, troubles>>

\* A memo is written on its screen; it is put in the context as it is now (onSaveSubmit).
SaveMemo ==
    /\ ui # Closed /\ ui.screen = "memo" /\ click = NoClick /\ save.pc = "idle" /\ saves < MaxSaves /\ Admits
    /\ saves' = saves + 1
    /\ save' = [pc |-> "schedule", event |-> NoEvent, copy |-> ui]
    /\ UNCHANGED <<opening, ui, render, jobs, runs, click, answer, troubles>>

\* A fault to compare with: it is scheduled what was scheduled when the dialog opened.
SaveScheduleAsOpened ==
    /\ save.pc = "schedule"
    /\ LET c == save.copy
       IN  /\ jobs' = {job \in jobs : job.id # c.event} \cup {[id |-> Fresh, keys |-> scheduledKeys]}
           /\ save' = [pc |-> "write", event |-> Fresh,
                       copy |-> [c EXCEPT !.memo = TRUE, !.screen = "main", !.banner = "none", !.event = Fresh,
                                          !.transaction = "fetched",
                                          !.scan = IF "scan" \in opening.keys THEN "fetching" ELSE @]]
    /\ UNCHANGED <<opening, ui, render, runs, click, answer, saves, troubles>>

\* The event named before is cancelled, another one scheduled; all that was shown is to be fetched again.
SaveSchedule ==
    /\ save.pc = "schedule"
    /\ LET c == save.copy
       IN  /\ jobs' = {job \in jobs : job.id # c.event} \cup {[id |-> Fresh, keys |-> opening.keys]}
           /\ save' = [pc |-> "write", event |-> Fresh,
                       copy |-> [c EXCEPT !.memo = TRUE, !.screen = "main", !.banner = "none", !.event = Fresh,
                                          !.transaction = "fetched",
                                          !.scan = IF "scan" \in opening.keys THEN "fetching" ELSE @]]
    /\ UNCHANGED <<opening, ui, render, runs, click, answer, saves, troubles>>

SaveWrite ==
    /\ save.pc = "write" /\ save' = NoSave /\ Update(save.copy)
    /\ UNCHANGED <<opening, render, jobs, runs, click, answer, saves, troubles>>

------------------------------------------------------------------------------
\* Failures: the event before was cancelled and the next one cannot be scheduled; the snap is restarted.
Trouble(kind) == troubles < MaxTroubles /\ troubles' = troubles + 1

SaveFails ==
    /\ save.pc = "schedule" /\ Trouble("schedule")
    /\ jobs' = {job \in jobs : job.id # save.copy.event}
    /\ Update([save.copy EXCEPT !.screen = "memo"]) /\ save' = NoSave
    /\ UNCHANGED <<opening, render, runs, click, answer, saves>>

Handled(r) == Fire(r) \/ Refresh(r) \/ ScheduleNext(r) \/ WriteContext(r)

Render == RenderSchedule \/ RenderWrite
Saving == SaveSchedule \/ SaveWrite

Next ==
    \/ Render \/ (\E r \in Runners : Handled(r)) \/ Click \/ HandleClick
    \/ SaveMemo \/ Saving \/ SaveFails

Fairness ==
    WF_confirmationVars(Render) /\ WF_confirmationVars(Saving) /\ WF_confirmationVars(HandleClick)
    /\ \A r \in Runners : WF_confirmationVars(Handled(r))

------------------------------------------------------------------------------
\* A verdict that is shown is of the envelope with the memo that is shown,
\* though scans, clicks and memos overtake each other.
ScanIsOfWhatIsShown ==
    ui # Closed /\ ui.scan = "fetched" => ui.scanned = ui.memo

\* Nobody confirms what is still scanned, was refused, or was found malicious and not acknowledged.
ConfirmedKnowingly ==
    answer # Closed => ~answer.disabled /\ ~answer.stale /\ (answer.verdict = "malicious" => answer.acknowledged)

\* A scan does not keep the confirmation disabled for ever.
ConfirmationSettles == <>[](ui = Closed \/ ui.scan # "fetching")
=============================================================================
