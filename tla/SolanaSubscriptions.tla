------------------------ MODULE SolanaSubscriptions ------------------------
(***************************************************************************)
(* The subscriptions over the web socket of one Solana network: requests   *)
(* that are stored as pending and confirmed by a message, sent again when  *)
(* the connection recovers, notifications that find their subscription by  *)
(* the server's number, signatures that are watched until they are saved,  *)
(* and accounts that are watched while they are selected. Every handler    *)
(* goes on beside the others: a step ends where it awaits.                 *)
(***************************************************************************)
EXTENDS Integers, FiniteSets, FiniteSetsExt

CONSTANTS
    Signatures, Accounts,   \* what is subscribed to; a request is its own id
    Troubles, Recurring     \* bound: what may go wrong once, and any number of times

SolanaSubscriptionsAssumption ==
    /\ IsFiniteSet(Signatures) /\ IsFiniteSet(Accounts) /\ Signatures \cap Accounts = {} 
    /\ Troubles \cup Recurring \subseteq {"loss", "refusal", "fetch", "expiry", "restart"}

Subs == Signatures \cup Accounts

VARIABLES
    up,         \* the connection is open
    server,     \* the number of each subscription the server has on this connection, 0 for none
    inbox,      \* its messages, handled in any order
    sent,       \* the transactions sent so far, by signature
    reached,    \* signatures that reached the commitment they are watched for
    stored,     \* the subscriptions of the state
    expired,    \* of those of signatures
    watched,    \* #pendingSubscriptions, in memory
    selected,   \* the selected accounts
    subscribing,\* calls of subscribe: of monitor or setMonitoredAccounts ("own") and of #reSubscribe ("again")
    confirming, \* confirmations that have read the subscription
    ending,     \* the handler of a notification, of a recovered signature, and plain calls of unsubscribe
    resending,  \* #reSubscribe
    saved,      \* signatures whose transaction is saved
    crossed,    \* a number was recorded after its end, ended after it was recorded anew, or taken for another's
    troubles    \* what went wrong

subsVars == <<up, server, inbox, sent, reached, stored, expired, watched, selected, subscribing, confirming,
              ending, resending, saved, crossed, troubles>>
outside == <<sent, reached, selected>>

Callers == {"own", "again"}
Enders  == {"notification", "recovery", "unsubscribe"}
Numbers == 1..Cardinality(Subs)
None    == [status |-> "none", number |-> 0]
Pending == [status |-> "pending", number |-> 0]
Confirmed(n) == [status |-> "confirmed", number |-> n]
Idle    == [pc |-> "idle", number |-> 0]
Asleep  == [pc |-> "idle", list |-> {}]

TypeOK ==
    /\ up \in BOOLEAN /\ server \in [Subs -> 0..Cardinality(Subs)]
    /\ inbox \subseteq [kind : {"confirmation", "notification", "failure"}, sub : Subs, number : 0..Cardinality(Subs)]
    /\ sent \subseteq Signatures /\ reached \subseteq Signatures /\ saved \subseteq Signatures
    /\ stored \in [Subs -> {None, Pending} \cup {Confirmed(n) : n \in Numbers}]
    /\ expired \subseteq Signatures /\ watched \subseteq Signatures /\ selected \subseteq Accounts
    /\ subscribing \in [Subs \X Callers -> {"idle", "read", "delete", "save", "send", "register"}]
    /\ confirming \subseteq [sub : Subs, number : Numbers]
    /\ ending \in [Subs \X Enders -> [pc : {"idle", "status", "work", "read", "delete", "send", "forget"},
                                      number : 0..Cardinality(Subs)]]
    /\ resending \in [pc : {"idle", "read", "delete"}, list : SUBSET Subs]
    /\ crossed \in BOOLEAN /\ troubles \subseteq Troubles

Init ==
    /\ up = FALSE /\ server = [s \in Subs |-> 0] /\ inbox = {}
    /\ sent = {} /\ reached = {} /\ saved = {}
    /\ stored = [s \in Subs |-> None] /\ expired = {} /\ watched = {} /\ selected = {}
    /\ subscribing = [c \in Subs \X Callers |-> "idle"] /\ confirming = {}
    /\ ending = [e \in Subs \X Enders |-> Idle] /\ resending = Asleep
    /\ crossed = FALSE /\ troubles = {}

Trouble(kind) ==
    \/ kind \in Troubles \ troubles /\ troubles' = troubles \cup {kind}
    \/ kind \in Recurring /\ UNCHANGED troubles

Message(kind, s, n) == [kind |-> kind, sub |-> s, number |-> n]

\* One call of each kind runs at a time for a subscription.
Subscribe(calls) ==
    /\ \A c \in calls : subscribing[c] = "idle"
    /\ subscribing' = [c \in Subs \X Callers |-> IF c \in calls THEN "read" ELSE subscribing[c]]
End(subs, e, pc) ==
    /\ \A s \in subs : ending[<<s, e>>] = Idle
    /\ ending' = [c \in Subs \X Enders |-> IF c \in subs \X {e} THEN [Idle EXCEPT !.pc = pc] ELSE ending[c]]

------------------------------------------------------------------------------
\* Only monitor has something left to do once subscribe has returned.
Returned(s, c) == IF s \in Signatures /\ c = "own" THEN "register" ELSE "idle"

\* subscribe: a confirmed one is left as it is, a pending one is made anew; what is in the store
\* when the connection opens is sent by #reSubscribe.
Read(s, c) ==
    /\ subscribing[<<s, c>>] = "read"
    /\ subscribing' = [subscribing EXCEPT ![<<s, c>>] = IF stored[s] = None    THEN "save" ELSE
                                                    IF stored[s] = Pending THEN "delete" ELSE Returned(s, c)]
    /\ UNCHANGED <<up, server, inbox, stored, expired, watched, confirming, ending, resending, outside, saved,
                   crossed, troubles>>

DeletePending(s, c) ==
    /\ subscribing[<<s, c>>] = "delete"
    /\ stored' = [stored EXCEPT ![s] = None]
    /\ subscribing' = [subscribing EXCEPT ![<<s, c>>] = "save"]
    /\ UNCHANGED <<up, server, inbox, expired, watched, confirming, ending, resending, outside, saved, crossed,
                   troubles>>

SavePending(s, c) ==
    /\ subscribing[<<s, c>>] = "save"
    /\ stored' = [stored EXCEPT ![s] = Pending]
    /\ expired' = expired \ {s}
    /\ subscribing' = [subscribing EXCEPT ![<<s, c>>] = "send"]
    /\ UNCHANGED <<up, server, inbox, watched, confirming, ending, resending, outside, saved, crossed, troubles>>

\* The server has one number for equal requests on a connection, and tells at once what was reached before.
Send(s, c) ==
    /\ subscribing[<<s, c>>] = "send"
    /\ \/ /\ up
          /\ LET n == IF server[s] > 0 THEN server[s]
                      ELSE CHOOSE m \in Numbers : m \notin {server[t] : t \in Subs} /\ \A k \in 1..(m - 1) :
                                                      k \in {server[t] : t \in Subs}
             IN  /\ server' = [server EXCEPT ![s] = IF s \in reached THEN 0 ELSE n]
                 /\ inbox' = inbox \cup {Message("confirmation", s, n)}
                               \cup {Message("notification", s, n) : r \in {s} \cap reached}
          /\ UNCHANGED troubles
       \/ /\ up /\ Trouble("refusal")
          /\ inbox' = inbox \cup {Message("failure", s, 0)}
          /\ UNCHANGED server
       \/ /\ ~up
          /\ UNCHANGED <<server, inbox, troubles>>
    /\ subscribing' = [subscribing EXCEPT ![<<s, c>>] = Returned(s, c)]
    /\ UNCHANGED <<up, stored, expired, watched, confirming, ending, resending, outside, saved, crossed>>

\* monitor remembers the signature.
Register(s, c) ==
    /\ subscribing[<<s, c>>] = "register"
    /\ subscribing' = [subscribing EXCEPT ![<<s, c>>] = "idle"]
    /\ watched' = watched \cup {s}
    /\ UNCHANGED <<up, server, inbox, stored, expired, confirming, ending, resending, outside, saved, crossed,
                   troubles>>

------------------------------------------------------------------------------
\* Messages.
Confirmation(m) ==
    /\ m.kind = "confirmation"
    /\ inbox' = inbox \ {m}
    /\ confirming' = IF stored[m.sub] = None THEN confirming
                     ELSE confirming \cup {[sub |-> m.sub, number |-> m.number]}
    /\ UNCHANGED <<up, server, stored, expired, watched, subscribing, ending, resending, outside, saved, crossed,
                   troubles>>

\* The update writes what was read before, whatever became of it.
Confirm(c) ==
    /\ confirming' = confirming \ {c}
    /\ stored' = [stored EXCEPT ![c.sub] = Confirmed(c.number)]
    /\ crossed' = (crossed \/ (server[c.sub] # c.number /\ c.sub \notin reached))
    /\ UNCHANGED <<up, server, inbox, expired, watched, subscribing, ending, resending, outside, saved, troubles>>

Failure(m) ==
    /\ m.kind = "failure"
    /\ inbox' = inbox \ {m}
    /\ stored' = IF stored[m.sub] = Pending THEN [stored EXCEPT ![m.sub] = None] ELSE stored
    /\ UNCHANGED <<up, server, expired, watched, subscribing, confirming, ending, resending, outside, saved,
                   crossed, troubles>>

\* The subscription is found by the number alone; without one the notification is dropped.
Notification(m) ==
    /\ m.kind = "notification"
    /\ inbox' = inbox \ {m}
    /\ LET found == {t \in Subs : stored[t] = Confirmed(m.number)}
       IN  IF found = {} THEN UNCHANGED <<ending, crossed>>
           ELSE \E t \in found :
                  /\ End({t} \cap Signatures, "notification", "work")
                  /\ crossed' = (crossed \/ t # m.sub)
    /\ UNCHANGED <<up, server, stored, expired, watched, subscribing, confirming, resending, outside, saved,
                   troubles>>

------------------------------------------------------------------------------
\* Fetch the transaction, save it and report it; a failure is reported and ends the watch all the same.
Work(s, e) ==
    /\ ending[<<s, e>>].pc = "work"
    /\ \/ /\ saved' = saved \cup ({s} \cap reached)
          /\ UNCHANGED troubles
       \/ /\ Trouble("fetch")
          /\ UNCHANGED saved
    /\ ending' = [ending EXCEPT ![<<s, e>>].pc = "read"]
    /\ UNCHANGED <<up, server, inbox, stored, expired, watched, subscribing, confirming, resending, outside, crossed>>

\* Only the handlers of a signature have something left to do once unsubscribe has returned.
Ended(e) == [Idle EXCEPT !.pc = IF e = "unsubscribe" THEN "idle" ELSE "forget"]

\* unsubscribe.
ReadToEnd(s, e) ==
    /\ ending[<<s, e>>].pc = "read"
    /\ ending' = [ending EXCEPT ![<<s, e>>] =
            IF stored[s] = None THEN Ended(e) ELSE [pc |-> "delete", number |-> stored[s].number]]
    /\ UNCHANGED <<up, server, inbox, stored, expired, watched, subscribing, confirming, resending, outside, saved,
                   crossed, troubles>>

Delete(s, e) ==
    /\ ending[<<s, e>>].pc = "delete"
    /\ stored' = [stored EXCEPT ![s] = None]
    /\ expired' = expired \ {s}
    /\ ending' = [ending EXCEPT ![<<s, e>>] = IF @.number > 0 THEN [@ EXCEPT !.pc = "send"] ELSE Ended(e)]
    /\ UNCHANGED <<up, server, inbox, watched, subscribing, confirming, resending, outside, saved, crossed, troubles>>

\* The server ends what has this number now, a subscription that was made again meanwhile too.
SendEnd(s, e) ==
    /\ ending[<<s, e>>].pc = "send"
    /\ server' = IF up THEN [t \in Subs |-> IF server[t] = ending[<<s, e>>].number THEN 0 ELSE server[t]] ELSE server
    /\ crossed' = (crossed \/ (up /\ \E t \in Subs : server[t] = ending[<<s, e>>].number /\ (t # s \/ stored[t] # None)))
    /\ ending' = [ending EXCEPT ![<<s, e>>] = Ended(e)]
    /\ UNCHANGED <<up, inbox, stored, expired, watched, subscribing, confirming, resending, outside, saved, troubles>>

Forget(s, e) ==
    /\ ending[<<s, e>>].pc = "forget"
    /\ ending' = [ending EXCEPT ![<<s, e>>] = Idle]
    /\ watched' = watched \ {s}
    /\ UNCHANGED <<up, server, inbox, stored, expired, subscribing, confirming, resending, outside, saved, crossed,
                   troubles>>

\* A recovered connection asks for the status of each watched signature.
FetchStatus(s) ==
    /\ ending[<<s, "recovery">>].pc = "status"
    /\ \/ /\ ending' = [ending EXCEPT ![<<s, "recovery">>] = IF s \in reached THEN [Idle EXCEPT !.pc = "work"] ELSE Idle]
          /\ UNCHANGED troubles
       \/ /\ Trouble("fetch")
          /\ ending' = [ending EXCEPT ![<<s, "recovery">>] = Idle]
    /\ UNCHANGED <<up, server, inbox, stored, expired, watched, subscribing, confirming, resending, outside, saved,
                   crossed>>

------------------------------------------------------------------------------
\* #reSubscribe: what has not expired is deleted and asked for again.
Resend ==
    \/ /\ resending.pc = "read"
       /\ resending' = [pc |-> "delete", list |-> {t \in Subs \ expired : stored[t] # None}]
       /\ UNCHANGED <<stored, subscribing>>
    \/ /\ resending.pc = "delete"
       /\ stored' = [t \in Subs |-> IF t \in resending.list THEN None ELSE stored[t]]
       /\ Subscribe(resending.list \X {"again"})
       /\ resending' = Asleep
ResendStep == Resend /\ UNCHANGED <<up, server, inbox, expired, watched, confirming, ending, outside, saved, crossed,
                                    troubles>>

\* A fault to compare with: what was missed while the connection was closed is not asked for.
ConnectForgetful ==
    /\ ~up
    /\ up' = TRUE
    /\ resending' = [Asleep EXCEPT !.pc = "read"]
    /\ UNCHANGED <<server, inbox, sent, reached, stored, expired, watched, selected, subscribing, confirming, ending,
                   saved, crossed, troubles>>

\* Every recovery handler runs when the connection opens.
Connect ==
    /\ ~up
    /\ up' = TRUE
    /\ resending' = [Asleep EXCEPT !.pc = "read"]
    /\ End(watched, "recovery", "status")
    /\ UNCHANGED <<server, inbox, sent, reached, stored, expired, watched, selected, subscribing, confirming, saved,
                   crossed, troubles>>

\* Messages of a closed connection are ignored; a confirmation already being handled is not.
Disconnect ==
    /\ up /\ Trouble("loss")
    /\ up' = FALSE /\ server' = [t \in Subs |-> 0] /\ inbox' = {}
    /\ UNCHANGED <<stored, expired, watched, subscribing, confirming, ending, resending, outside, saved, crossed>>

\* A transaction is sent: its signature is watched, once.
Monitor(s) ==
    /\ s \in Signatures \ sent
    /\ sent' = sent \cup {s}
    /\ Subscribe({<<s, "own">>})
    /\ UNCHANGED <<up, server, inbox, reached, stored, expired, watched, selected, confirming, ending, resending,
                   saved, crossed, troubles>>

\* The client becomes active, or the selection changes: the difference between what is stored and what is selected.
SetMonitored ==
    LET monitored == {t \in Accounts : stored[t] # None}
    IN  /\ monitored # selected
        /\ Subscribe((selected \ monitored) \X {"own"})
        /\ End(monitored \ selected, "unsubscribe", "read")
        /\ UNCHANGED <<up, server, inbox, stored, expired, watched, confirming, resending, outside, saved, crossed,
                       troubles>>

OnInactive ==
    /\ expired # {} /\ End(expired, "unsubscribe", "read")
    /\ UNCHANGED <<up, server, inbox, stored, expired, watched, subscribing, confirming, resending, outside, saved,
                   crossed, troubles>>

Select ==
    /\ \E chosen \in SUBSET Accounts \ {selected} : selected' = chosen
    /\ UNCHANGED <<up, server, inbox, sent, reached, stored, expired, watched, subscribing, confirming, ending, resending,
                   saved, crossed, troubles>>

Expire(s) ==
    /\ s \in Signatures /\ stored[s] # None /\ Trouble("expiry")
    /\ s \notin expired
    /\ expired' = expired \cup {s}
    /\ UNCHANGED <<up, server, inbox, stored, watched, subscribing, confirming, ending, resending, outside, saved,
                   crossed>>

Reach(s) ==
    /\ s \in sent \ reached
    /\ reached' = reached \cup {s}
    /\ inbox' = inbox \cup {Message("notification", s, server[t]) : t \in {r \in {s} : server[r] > 0}}
    /\ server' = [server EXCEPT ![s] = 0]
    /\ UNCHANGED <<up, sent, stored, expired, watched, selected, subscribing, confirming, ending, resending, saved, crossed, troubles>>

\* The state and the transactions survive.
Restart ==
    /\ Trouble("restart")
    /\ up' = FALSE /\ server' = [t \in Subs |-> 0] /\ inbox' = {} /\ watched' = {}
    /\ subscribing' = [c \in Subs \X Callers |-> "idle"] /\ confirming' = {}
    /\ ending' = [e \in Subs \X Enders |-> Idle] /\ resending' = Asleep
    /\ UNCHANGED <<stored, expired, outside, saved, crossed>>

------------------------------------------------------------------------------
Subscribing(c) == \E s \in Subs :
    Read(s, c) \/ DeletePending(s, c) \/ SavePending(s, c) \/ Send(s, c) \/ Register(s, c)
Finishing(e) == \E s \in Subs : Work(s, e) \/ ReadToEnd(s, e) \/ Delete(s, e) \/ SendEnd(s, e) \/ Forget(s, e)
Recovering == ResendStep \/ \E s \in Signatures : FetchStatus(s)
Receiving == (\E m \in inbox : Confirmation(m) \/ Failure(m) \/ Notification(m)) \/ \E c \in confirming : Confirm(c)

Next == (\E c \in Callers : Subscribing(c)) \/ (\E e \in Enders : Finishing(e)) \/ Recovering \/ Receiving \/ Connect \/ Disconnect \/ SetMonitored \/ OnInactive
            \/ Select \/ Restart \/ \E s \in Signatures : Monitor(s) \/ Expire(s) \/ Reach(s)

Spec == Init /\ [][Next]_subsVars
\* Started work goes on; a client that is used is told of its selection again and again, and reopens a lost connection.
FairSpec == Spec /\ (\A c \in Callers : WF_subsVars(Subscribing(c))) /\ (\A e \in Enders : WF_subsVars(Finishing(e)))
                 /\ WF_subsVars(Recovering) /\ WF_subsVars(Receiving)
                 /\ WF_subsVars(Connect) /\ WF_subsVars(SetMonitored)

------------------------------------------------------------------------------
Resting ==
    /\ inbox = {} /\ confirming = {} /\ resending = Asleep
    /\ \A c \in Subs \X Callers : subscribing[c] = "idle"
    /\ \A c \in Subs \X Enders : ending[c] = Idle

\* Nothing waits for a notification nobody sends: at rest, on an open connection, a stored subscription is
\* confirmed with the number the server has for it now, or its signature was reached before.
StoredIsLive == Resting /\ up /\ ~crossed => \A s \in Subs : stored[s] = None \/ s \in reached \cup expired \/ stored[s] = Confirmed(server[s])

\* "It recovers from any missed notifications": a signature that is sent and reached is saved in the end, for as
\* long as connections are lost and recovered again and again, and nothing else fails.
EventuallySaved ==
    ([]<>up /\ []<>~up) => \A s \in Signatures : <>[](troubles = {} /\ s \in sent \cap reached => s \in saved)

\* The accounts that are selected, and no others, are subscribed to in the end.
EventuallyMonitored ==
    <>[]up => \A a \in Accounts :
        /\ <>[](a \in selected /\ ~crossed) => <>[](stored[a] = Confirmed(server[a]))
        /\ <>[](a \notin selected) => <>[](stored[a] = None)
=============================================================================
