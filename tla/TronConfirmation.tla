-------------------------- MODULE TronConfirmation --------------------------
(***************************************************************************)
(* Tron confirmation dialogs and the background jobs that refresh them.    *)
(* A job finds its dialog by name, reads the context of its interface, and *)
(* writes it back after requests of its own: render, the scan job and the  *)
(* price job of several dialogs overwrite each other's context.            *)
(***************************************************************************)
EXTENDS Naturals

CONSTANTS
    Dialogs,
    Signing,     \* the dialogs of signTransaction (TRUE) or of confirmSend (FALSE)
    NoDialog,
    NoScan,      \* no result
    Expired,     \* the result of the local check
    MaxHead,     \* bound: how often time makes transaction data expire
    MaxTroubles  \* bound: failed requests and locks

TronConfirmationAssumption ==
    /\ Signing \in BOOLEAN
    /\ NoDialog \notin Dialogs
    /\ NoScan \notin Nat /\ Expired \notin Nat      \* no result is the time of some data
    /\ MaxHead \in Nat /\ MaxTroubles \in Nat

VARIABLES
    scanning,  \* the user's preferences ask for scans
    head,      \* transaction data made before this is expired
    ui,        \* the interface of each dialog
    context,   \* what it shows
    flow,      \* how far the request that opened it is
    result,    \* what render holds: the data it was opened with and its first scan
    kept,      \* dialogs whose interface id was stored
    idMap,     \* mapInterfaceNameToId for these dialogs
    answer,    \* what the user said
    due,       \* background events that are scheduled
    job,       \* the execution of each job
    open,      \* the client is active and unlocked
    troubles

confirmVars == <<scanning, head, ui, context, flow, result, kept, idMap, answer, due, job, open, troubles>>
dialog == <<ui, answer>>
render == <<flow, result, kept>>

Jobs     == IF Signing THEN {"scan"} ELSE {"scan", "price"}
Versions == 0..MaxHead                  \* transaction data, by the time it was made
Context  == [scan   : Versions \cup {NoScan, Expired}, raw : Versions,
             status : {"loading", "fetching", "fetched", "error"},
             prices : {"loading", "fetching", "fetched"}]
MaxDue   == 2                           \* bound: events of one kind

Nothing == [scan |-> NoScan, raw |-> 0, status |-> "loading", prices |-> "loading"]
Resting == [at |-> "idle", id |-> NoDialog, seen |-> Nothing]

TypeOK ==
    /\ scanning \in BOOLEAN /\ open \in BOOLEAN
    /\ head \in Versions
    /\ ui \in [Dialogs -> {"none", "open", "closed"}]
    /\ context \in [Dialogs -> Context]
    /\ flow \in [Dialogs -> {"idle", "scan", "update", "jobs", "await", "approved", "rejected", "failed"}]
    /\ result \in [Dialogs -> [raw : Versions, scan : Versions \cup {NoScan, Expired}]]
    /\ kept \in SUBSET Dialogs
    /\ idMap \in Dialogs \cup {NoDialog}
    /\ answer \in [Dialogs -> {"none", "yes", "no"}]
    /\ due \in [Jobs -> 0..MaxDue]
    /\ \A j \in Jobs : /\ job[j].at \in {"idle", "mark", "work", "write"}
                       /\ job[j].id \in Dialogs \cup {NoDialog}
                       /\ job[j].seen \in Context
    /\ troubles \in 0..MaxTroubles

Init ==
    /\ scanning \in BOOLEAN
    /\ head = 0
    /\ ui = [d \in Dialogs |-> "none"]
    /\ context = [d \in Dialogs |-> Nothing]
    /\ flow = [d \in Dialogs |-> "idle"]
    /\ result = [d \in Dialogs |-> [raw |-> 0, scan |-> NoScan]]
    /\ kept = {}
    /\ idMap = NoDialog
    /\ answer = [d \in Dialogs |-> "none"]
    /\ due = [j \in Jobs |-> 0]
    /\ job = [j \in Jobs |-> Resting]
    /\ open = TRUE
    /\ troubles = 0

Trouble == troubles < MaxTroubles /\ troubles' = troubles + 1

\* The local check: data that is too old cannot be broadcast.
Late(raw) == raw < head

------------------------------------------------------------------------------
\* A request shows its dialog; the confirm button waits for the first scan. Without scans
\* a dialog that signs checks the expiry before it opens.
Open(d) ==
    /\ flow[d] = "idle"
    /\ ui' = [ui EXCEPT ![d] = "open"]
    /\ \E late \in {FALSE, Signing /\ ~scanning} :
         LET scan == IF late THEN Expired ELSE NoScan
         IN  /\ context' = [context EXCEPT ![d] = [Nothing EXCEPT
                   !.raw = head, !.status = IF scanning THEN "loading" ELSE "fetched", !.scan = scan]]
             /\ result' = [result EXCEPT ![d] = [raw |-> head, scan |-> scan]]
    /\ flow' = [flow EXCEPT ![d] = "scan"]
    /\ UNCHANGED <<scanning, head, kept, idMap, answer, due, job, open, troubles>>

\* The id of the interface is stored while the scan runs.
Keep(d) ==
    /\ flow[d] \in {"scan", "update"} /\ d \notin kept
    /\ kept' = kept \cup {d}
    /\ idMap' = d
    /\ UNCHANGED <<scanning, head, dialog, context, flow, result, due, job, open, troubles>>

\* The first scan, with the data the dialog was opened with; a local expiry counts more.
Results(raw) == LET remote == IF scanning THEN {raw, NoScan} ELSE {NoScan}
                IN  IF Signing /\ scanning /\ Late(raw) THEN {Expired} \cup remote ELSE remote

Scan(d) ==
    /\ flow[d] = "scan"
    /\ \E r \in Results(result[d].raw) :
          result' = [result EXCEPT ![d].scan = IF scanning THEN r ELSE @]
    /\ flow' = [flow EXCEPT ![d] = "update"]
    /\ UNCHANGED <<scanning, head, dialog, context, kept, idMap, due, job, open, troubles>>

\* render shows its own context; it fails when the dialog was answered meanwhile.
Update(d) ==
    /\ flow[d] = "update" /\ d \in kept
    /\ IF ui[d] = "open"
       THEN /\ context' = [context EXCEPT ![d] =
                  [scan   |-> result[d].scan, raw |-> result[d].raw, prices |-> "loading",
                   status |-> IF scanning /\ result[d].scan = NoScan THEN "error" ELSE "fetched"]]
            /\ flow' = [flow EXCEPT ![d] = "jobs"]
       ELSE flow' = [flow EXCEPT ![d] = "failed"] /\ UNCHANGED context
    /\ UNCHANGED <<scanning, head, dialog, result, kept, idMap, due, job, open, troubles>>

ScheduleJobs(d) ==
    /\ flow[d] = "jobs"
    /\ \A j \in Jobs : due[j] < MaxDue
    /\ due' = [j \in Jobs |-> due[j] + 1]
    /\ flow' = [flow EXCEPT ![d] = "await"]
    /\ UNCHANGED <<scanning, head, dialog, context, result, kept, idMap, job, open, troubles>>

\* A refresh that cannot be scheduled: a signature goes on without, a send fails.
ScheduleFails(d) ==
    /\ flow[d] = "jobs"
    /\ Trouble
    /\ flow' = [flow EXCEPT ![d] = IF Signing THEN "await" ELSE "failed"]
    /\ UNCHANGED <<scanning, head, dialog, context, result, kept, idMap, due, job, open>>

\* The user answers; the button is disabled while the first scan loads and when the data
\* is known to be expired.
Confirmable(d) == context[d].status # "loading" /\ context[d].scan # Expired

Answer(d) ==
    /\ ui[d] = "open"
    /\ \E a \in {"yes", "no"} :
         /\ a = "yes" => Confirmable(d)
         /\ answer' = [answer EXCEPT ![d] = a]
    /\ ui' = [ui EXCEPT ![d] = "closed"]
    /\ UNCHANGED <<scanning, head, context, render, idMap, due, job, open, troubles>>

\* The id is cleared, whoever's it is, and the request goes on or is rejected.
Decide(d) ==
    /\ flow[d] = "await" /\ ui[d] = "closed"
    /\ idMap' = NoDialog
    /\ flow' = [flow EXCEPT ![d] = IF answer[d] = "yes" THEN "approved" ELSE "rejected"]
    /\ UNCHANGED <<scanning, head, dialog, context, result, kept, due, job, open, troubles>>

------------------------------------------------------------------------------
End(j) == job' = [job EXCEPT ![j] = Resting]

\* A scheduled event: dropped while the client is locked; it looks the dialog up by name
\* and reads the context of its interface.
Fire(j) ==
    /\ due[j] > 0 /\ job[j].at = "idle"
    /\ due' = [due EXCEPT ![j] = @ - 1]
    /\ job' = IF open /\ idMap # NoDialog /\ ui[idMap] = "open"
              THEN [job EXCEPT ![j] = [at |-> "mark", id |-> idMap, seen |-> context[idMap]]]
              ELSE job
    /\ UNCHANGED <<scanning, head, dialog, context, render, idMap, open, troubles>>

\* It shows that it fetches: the context it read, with the status of its own part.
Marked(j) == LET seen == job[j].seen
             IN  IF j = "price" THEN [seen EXCEPT !.prices = "fetching"]
                 ELSE IF scanning THEN [seen EXCEPT !.status = "fetching"] ELSE seen

Mark(j) ==
    /\ job[j].at = "mark"
    /\ IF ui[job[j].id] = "open"
       THEN /\ context' = [context EXCEPT ![job[j].id] = Marked(j)]
            /\ job' = [job EXCEPT ![j].at = "work"]
       ELSE End(j) /\ UNCHANGED context
    /\ UNCHANGED <<scanning, head, dialog, render, idMap, due, open, troubles>>

\* What a scan job finds. The data of a send is made fresh before it is scanned; the
\* payload of a signature never changes, but is checked for expiry.
Fresh(raw) == IF ~Signing /\ Late(raw) THEN head ELSE raw
Found(raw) == IF Signing /\ Late(raw) THEN Expired ELSE raw

Refreshed ==
    LET seen == job["scan"].seen
        raw  == Fresh(seen.raw)
    IN  [seen EXCEPT !.raw    = raw,
                     !.scan   = IF scanning \/ Found(raw) = Expired THEN Found(raw) ELSE @,
                     !.status = IF scanning THEN "fetched" ELSE @]

\* With its answer it reads the context again: a scan job keeps its own fields of the
\* context it read first, a price job none.
Again(j, mine) ==
    /\ job[j].at = "work"
    /\ LET now == context[job[j].id]
       IN  IF ui[job[j].id] = "open"
           THEN job' = [job EXCEPT ![j].at = "write",
                                   ![j].seen = IF j = "price" THEN now ELSE [mine EXCEPT !.prices = now.prices]]
           ELSE End(j)

Work(j) ==
    /\ Again(j, Refreshed)
    /\ UNCHANGED <<scanning, head, dialog, context, render, idMap, due, open, troubles>>

\* Prices that fail end their job. A scan that fails leaves no result; for a signature the
\* scan and the check for expiry fail apart, and a failed check changes nothing.
Failures(seen) ==
    IF Signing
    THEN IF scanning THEN {[seen EXCEPT !.scan = NoScan, !.status = "error"],
                           [seen EXCEPT !.scan = seen.raw, !.status = "fetched"]}
                     ELSE {seen}
    ELSE {[seen EXCEPT !.scan = NoScan, !.status = "error", !.raw = raw] : raw \in {seen.raw, Fresh(seen.raw)}}

WorkFails(j) ==
    /\ job[j].at = "work"
    /\ Trouble
    /\ IF j = "price" THEN End(j) ELSE \E mine \in Failures(job[j].seen) : Again(j, mine)
    /\ UNCHANGED <<scanning, head, dialog, context, render, idMap, due, open>>

\* It shows what it found in the context it read last, and comes again in 20 seconds.
Write(j) ==
    /\ job[j].at = "write"
    /\ IF ui[job[j].id] = "open"
       THEN /\ context' = [context EXCEPT ![job[j].id] =
                              IF j = "price" THEN [job[j].seen EXCEPT !.prices = "fetched"] ELSE job[j].seen]
            /\ due[j] < MaxDue
            /\ due' = [due EXCEPT ![j] = @ + 1]
       ELSE UNCHANGED <<context, due>>
    /\ End(j)
    /\ UNCHANGED <<scanning, head, dialog, render, idMap, open, troubles>>

------------------------------------------------------------------------------
Age ==
    /\ head < MaxHead
    /\ head' = head + 1
    /\ UNCHANGED <<scanning, dialog, context, render, idMap, due, job, open, troubles>>

Lock ==
    /\ open /\ open' = FALSE
    /\ Trouble
    /\ UNCHANGED <<scanning, head, dialog, context, render, idMap, due, job>>

Unlock ==
    /\ ~open /\ open' = TRUE
    /\ UNCHANGED <<scanning, head, dialog, context, render, idMap, due, job, troubles>>

Request(d) == Keep(d) \/ Scan(d) \/ Update(d) \/ ScheduleJobs(d) \/ Decide(d)
Run(j)     == Fire(j) \/ Mark(j) \/ Work(j) \/ Write(j)

Next ==
    \/ \E d \in Dialogs : Open(d) \/ Request(d) \/ ScheduleFails(d) \/ Answer(d)
    \/ \E j \in Jobs : Run(j) \/ WorkFails(j)
    \/ Age
    \/ Lock
    \/ Unlock

Spec == Init /\ [][Next]_confirmVars

FairSpec ==
    /\ Spec
    /\ \A d \in Dialogs : WF_confirmVars(Request(d))
    /\ \A j \in Jobs : WF_confirmVars(Run(j))

------------------------------------------------------------------------------
\* Whatever render, the scan job and the price job overwrite: a scan a dialog shows is
\* the scan of the transaction data that dialog holds.
ScanOfShown == \A d \in Dialogs : context[d].scan \in Versions => context[d].scan = context[d].raw

\* The refreshing ends when the last dialog is gone.
EventuallyIdle ==
    (<>[](\A d \in Dialogs : ui[d] # "open")) =>
        <>[](\A j \in Jobs : due[j] = 0 /\ job[j].at = "idle")

\* In a dialog that nothing disturbs, expired data is seen to expire again and again (the
\* price job may each time put back the context it read before): a send gets fresh data,
\* a signature shows the expiry.
Undisturbed(d) == troubles = 0 /\ \A e \in Dialogs \ {d} : ui[e] = "none"
Timely(d) == IF Signing THEN Late(context[d].raw) => context[d].scan = Expired
                        ELSE ~Late(context[d].raw)

RepeatedlyFresh ==
    \A d \in Dialogs : ([]Undisturbed(d)) /\ (<>[](ui[d] = "open")) => []<>Timely(d)

==============================================================================
