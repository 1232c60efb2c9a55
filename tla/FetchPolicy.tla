----------------------------- MODULE FetchPolicy -----------------------------
(****************************************************************************)
(* Calls of one remote service through executeWithFetchPolicy: a retry      *)
(* policy around a circuit breaker (both of a library, external here), with *)
(* the classification of errors and the caller's abort signal. And batches  *)
(* of such work, batchesAll and batchesAllSettled: a mapper runs on items   *)
(* in waves of a fixed size, and the results are in the order of the items. *)
(****************************************************************************)
EXTENDS Integers, Sequences

CONSTANTS
    Requests,    \* calls of executeWithFetchPolicy
    MaxRetries,  \* retries after the first attempt
    MaxFailures, \* failures in a row that open the circuit
    Length, BatchSize  \* of a batch of calls

PolicyAssumption == MaxRetries \in Nat /\ MaxFailures \in Nat \ {0}
BatchAssumption  == Length \in Nat /\ BatchSize \in Nat \ {0}

VARIABLES
    circuit,   \* "closed", "open" or "half": one trial call is let through
    trial,     \* a trial call is under way
    failures,  \* failures in a row
    request,   \* [pc, attempts] of the loop of each call
    aborted,   \* the calls whose signal is aborted
    answer,    \* what each caller was given: "none", "value", "error" or "abort"
    settles,   \* batchesAllSettled (or batchesAll, which gives up at a rejection)
    first,     \* the index the current wave starts at
    outcome,   \* of the mapper for each item that was started
    results,   \* what is collected so far
    ended      \* "no", "returned" or "thrown"

policyVars == <<circuit, trial, failures, request, aborted, answer>>
batchVars  == <<settles, first, outcome, results, ended>>

\* What an attempt ends in, as the policy sees it after the conversion of errors:
\* network failures, time-outs and 408, 425, 429, 500, 502, 503, 504 are
\* transient ("later" when their Retry-After is over the cap), any other 5xx is a
\* failure of the service; a 4xx, a parse error and an abort are neither.
Ends == {"value", "transient", "later", "service", "other", "abort"}

isTransientError(end) == end \in {"transient", "later"}
isServiceFailure(end) == isTransientError(end) \/ end = "service"
isRetryable(end)      == end = "transient"

TypeOK ==
    /\ circuit \in {"closed", "open", "half"}
    /\ trial \in BOOLEAN
    /\ failures \in 0..MaxFailures
    /\ request \in [Requests -> [pc : {"idle", "ready", "running", "waiting", "done"},
                                 attempts : 0..(MaxRetries + 1)]]
    /\ aborted \in SUBSET Requests
    /\ answer \in [Requests -> {"none", "value", "error", "abort"}]

Init ==
    /\ circuit = "closed"
    /\ trial = FALSE
    /\ failures = 0
    /\ request = [r \in Requests |-> [pc |-> "idle", attempts |-> 0]]
    /\ aborted = {}
    /\ answer = [r \in Requests |-> "none"]

\* executeWithFetchPolicy: a call that is aborted already is not passed on.
Execute(r) ==
    /\ request[r].pc = "idle"
    /\ request' = [request EXCEPT ![r].pc = IF r \in aborted THEN "done" ELSE "ready"]
    /\ answer' = [answer EXCEPT ![r] = IF r \in aborted THEN "abort" ELSE @]
    /\ UNCHANGED <<circuit, trial, failures, aborted>>

\* The caller gives up: raceWithSignal rejects at once, the loop goes on behind it.
Abort(r) ==
    /\ r \notin aborted
    /\ aborted' = aborted \cup {r}
    /\ answer' = [answer EXCEPT ![r] = IF @ = "none" /\ request[r].pc # "idle" THEN "abort" ELSE @]
    /\ UNCHANGED <<circuit, trial, failures, request>>

\* The loop of r ends: its caller is answered unless it has given up.
Finish(r, end) ==
    /\ request' = [request EXCEPT ![r].pc = "done"]
    /\ answer' = [answer EXCEPT ![r] = IF @ # "none" THEN @
                                       ELSE IF end = "value" THEN "value" ELSE "error"]

\* What the circuit breaker makes of the end of an attempt: what is no failure of the
\* service closes a circuit on trial.
Count(end) ==
    LET opens == isServiceFailure(end) /\ (circuit = "half" \/ failures + 1 = MaxFailures)
    IN  /\ circuit' = IF opens THEN "open" ELSE IF circuit = "half" THEN "closed" ELSE circuit
        /\ failures' = IF opens \/ end = "value" \/ circuit = "half" THEN 0
                       ELSE IF isServiceFailure(end) THEN failures + 1 ELSE failures
        /\ trial' = IF circuit = "half" THEN FALSE ELSE trial

\* An attempt: nothing is called while the circuit is open or tried by another, nor for a
\* caller that gave up during the wait, which counts as an attempt that was no failure.
CircuitBroken == circuit = "open" \/ (circuit = "half" /\ trial)

Refused(r) ==
    /\ request[r].pc = "ready"
    /\ CircuitBroken
    /\ Finish(r, "other")
    /\ UNCHANGED <<circuit, trial, failures, aborted>>

GivenUp(r) ==
    /\ request[r].pc = "ready"
    /\ ~CircuitBroken
    /\ r \in aborted
    /\ Finish(r, "abort")
    /\ Count("abort")
    /\ UNCHANGED aborted

\* A fault to compare with: nobody looks at the signal after a wait.
OperateAlways(r) ==
    /\ request[r].pc = "ready"
    /\ ~CircuitBroken
    /\ request' = [request EXCEPT ![r] = [pc |-> "running", attempts |-> @.attempts + 1]]
    /\ trial' = (circuit = "half")
    /\ UNCHANGED <<circuit, failures, aborted, answer>>

Operate(r) ==
    /\ request[r].pc = "ready"
    /\ ~CircuitBroken
    /\ r \notin aborted
    /\ request' = [request EXCEPT ![r] = [pc |-> "running", attempts |-> @.attempts + 1]]
    /\ trial' = (circuit = "half")
    /\ UNCHANGED <<circuit, failures, aborted, answer>>

\* The operation ends; whatever it ends in counts as an abort once the caller gave up.
\* A circuit that another attempt opened in the meantime does not count this one.
Settle(r, ending) ==
    LET end     == IF r \in aborted /\ ending # "value" THEN "abort" ELSE ending
        retries == isRetryable(end) /\ request[r].attempts <= MaxRetries
    IN  /\ request[r].pc = "running"
        /\ IF circuit = "open" THEN UNCHANGED <<circuit, trial, failures>> ELSE Count(end)
        /\ IF retries
           THEN /\ request' = [request EXCEPT ![r].pc = "waiting"]
                /\ UNCHANGED answer
           ELSE Finish(r, end)
        /\ UNCHANGED aborted

\* The backoff is over.
Wake(r) ==
    /\ request[r].pc = "waiting"
    /\ request' = [request EXCEPT ![r].pc = "ready"]
    /\ UNCHANGED <<circuit, trial, failures, aborted, answer>>

\* The circuit has been open for long enough.
HalfOpen ==
    /\ circuit = "open"
    /\ circuit' = "half"
    /\ UNCHANGED <<trial, failures, request, aborted, answer>>

\* The caller asks again: a new call.
Again(r) ==
    /\ request[r].pc = "done"
    /\ request' = [request EXCEPT ![r] = [pc |-> "idle", attempts |-> 0]]
    /\ aborted' = aborted \ {r}
    /\ answer' = [answer EXCEPT ![r] = "none"]
    /\ UNCHANGED <<circuit, trial, failures>>

Run(r) ==
    \/ Execute(r)
    \/ Refused(r)
    \/ GivenUp(r)
    \/ Operate(r)
    \/ \E ending \in Ends \ {"abort"} : Settle(r, ending)
    \/ Wake(r)

Next ==
    \/ \E r \in Requests : Run(r) \/ Abort(r) \/ Again(r)
    \/ HalfOpen

Spec == Init /\ [][Next]_policyVars

------------------------------------------------------------------------------
\* A caller that gave up is done with: the service is not called for it again, not
\* even when a backoff ends later, and what becomes of a request of its own does not
\* open the circuit for the others. Only a service that failed an open request does.
DoneWith ==
    /\ \A r \in aborted : request'[r].attempts <= request[r].attempts
    /\ circuit # "open" /\ circuit' = "open"
          => \E r \in Requests \ aborted : request[r].pc = "running" /\ request'[r].pc # "running"
AbortIsFinal == [][DoneWith]_policyVars

\* The retries of a call come to an end, whatever the service answers and however often
\* the circuit opens.
FairRuns == \A r \in Requests : WF_policyVars(Run(r))

Answered == \A r \in Requests : answer[r] # "none" /\ request[r].pc = "done"
EveryRequestAnswered ==
    (<>[][~(\E r \in Requests : Again(r))]_policyVars)
        => <>[]Answered

------------------------------------------------------------------------------
\* Batches.
Items == 1..Length
Wave(n) == {i \in Items : n <= i /\ i < n + BatchSize}
Mapping == {i \in Items : outcome[i] = "running"}

BatchTypeOK ==
    /\ settles \in BOOLEAN
    /\ first \in 1..(Length + BatchSize)
    /\ outcome \in [Items -> {"none", "running", "value", "error"}]
    /\ results \in Seq({"value", "error"})
    /\ ended \in {"no", "returned", "thrown"}

Started(n) == [i \in Items |-> IF i \in Wave(n) THEN "running" ELSE outcome[i]]

BatchInit ==
    /\ settles \in BOOLEAN
    /\ first = 1
    /\ outcome = [i \in Items |-> IF i \in Wave(1) THEN "running" ELSE "none"]
    /\ results = <<>>
    /\ ended = IF Length = 0 THEN "returned" ELSE "no"

\* A mapper ends, in any order; batchesAll rejects at the first error.
ItemEnds(i, o) ==
    /\ outcome[i] = "running"
    /\ outcome' = [outcome EXCEPT ![i] = o]
    /\ ended' = IF ended = "no" /\ o = "error" /\ ~settles THEN "thrown" ELSE ended
    /\ UNCHANGED <<settles, first, results>>

\* The wave is over: its results are collected and the next wave starts.
WaveSize == IF first + BatchSize > Length THEN Length + 1 - first ELSE BatchSize

NextWave ==
    /\ ended = "no"
    /\ Mapping = {}
    /\ results' = results \o [k \in 1..WaveSize |-> outcome[first + k - 1]]
    /\ first' = first + BatchSize
    /\ outcome' = Started(first + BatchSize)
    /\ ended' = IF first + BatchSize > Length THEN "returned" ELSE "no"
    /\ UNCHANGED settles

BatchNext ==
    \/ \E i \in Items, o \in {"value", "error"} : ItemEnds(i, o)
    \/ NextWave

BatchSpec == BatchInit /\ [][BatchNext]_batchVars

------------------------------------------------------------------------------
\* Never more than batchSize mappers run, every item is mapped before the call returns,
\* and the results are those of the items in their order, whatever order they
\* ended in; batchesAll returns no error.
WavesInOrder ==
    /\ \A i, j \in Mapping : i < j + BatchSize
    /\ ended = "returned" => /\ results = [i \in Items |-> outcome[i]]
                             /\ \A i \in Items : outcome[i] \in (IF settles THEN {"value", "error"}
                                                                  ELSE {"value"})

==============================================================================
