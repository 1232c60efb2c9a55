------------------------ MODULE SolanaConnections_proofs ------------------------
\* Proofs about SolanaConnections, for any networks, handlers and limits: the
\* types and, when the client's calls do not overlap and the extension does not
\* restart, that no close job survives the return of the user and that the snap
\* closes no socket of an open client. And about the two components beside it:
\* SolanaSubscriptions (what is stored lives on the server) and SolanaKeyring
\* (an account keeps its address, what was selected is what is watched, and a
\* request is signed by the account it names).
EXTENDS SolanaConnections, Integers, FiniteSetTheorems, TLAPS

\* Lifecycle calls one at a time, within one run of the extension.
Orderly == Isolated /\ MaxRestarts = 0

\* At most one call is in progress.
OneCall == \A g, h \in Handlers : pc[g] # "idle" /\ pc[h] # "idle" => g = h

\* What a call in progress knows of the client and of the scheduled job.
CallInv(h) ==
    /\ pc[h] # "status"
    /\ pc[h] = "read" =>
        scheduled \subseteq {stored} /\ next[h] = IF active THEN "open" ELSE "schedule"
    /\ pc[h] = "cancel" =>
        scheduled \subseteq {held[h]} /\ next[h] = IF active THEN "open" ELSE "schedule"
    /\ pc[h] = "forget" =>
        scheduled = {} /\ next[h] = IF active THEN "open" ELSE "schedule"
    /\ pc[h] = "store" => ~active /\ scheduled \subseteq {held[h]}
    /\ pc[h] \in {"schedule", "list", "close", "clear"} => ~active /\ scheduled = {}
    /\ pc[h] = "open" => active /\ scheduled = {}

\* Between calls.
RestInv == Quiet => scheduled \subseteq {stored} /\ (active => scheduled = {})

IInv == TypeOK /\ OneCall /\ RestInv /\ \A h \in Handlers : CallInv(h)

----------------------------------------------------------------------------

LEMMA CountTypes ==
    ASSUME NEW f \in [Networks -> Nat], NEW n \in Networks
    PROVE  /\ Plus(f, n) \in [Networks -> Nat]
           /\ f[n] > 0 => Minus(f, n) \in [Networks -> Nat]
<1>1. f[n] \in Nat
  OBVIOUS
<1>2. f[n] + 1 \in Nat /\ (f[n] > 0 => f[n] - 1 \in Nat)
  BY <1>1
<1>3. Plus(f, n) \in [Networks -> Nat]
  BY <1>2 DEF Plus
<1>4. f[n] > 0 => Minus(f, n) \in [Networks -> Nat]
  BY <1>2 DEF Minus
<1> QED  BY <1>3, <1>4

LEMMA InitTypes == Init => TypeOK
<1> SUFFICES ASSUME Init PROVE TypeOK
  OBVIOUS
<1>1. retry \in [Networks -> 0 .. MaxAttempts + 1]
  BY ConnectionAssumption DEF Init
<1>2. opening \in [Networks -> Nat] /\ broken \in [Networks -> Nat] /\ timers \in [Networks -> Nat]
  BY DEF Init
<1>3. /\ pc \in [Handlers -> Steps]
      /\ next \in [Handlers -> {"idle", "open", "schedule"}]
      /\ held \in [Handlers -> EventIds \cup {NoEvent}]
      /\ list \in [Handlers -> SUBSET Networks]
  BY DEF Init, Steps
<1>4. active \in BOOLEAN /\ up \in BOOLEAN
  BY Zenon DEF Init
<1>6. restarts \in 0 .. MaxRestarts
  <2>1. restarts = 0 /\ MaxRestarts \in Nat
    BY ConnectionAssumption DEF Init
  <2> QED  BY <2>1
<1>5. /\ scheduled \in SUBSET EventIds /\ stored \in EventIds \cup {NoEvent}
      /\ open \in SUBSET Networks /\ welcome \in SUBSET open
  BY DEF Init
<1> QED  BY <1>1, <1>2, <1>3, <1>4, <1>5, <1>6 DEF TypeOK

LEMMA StepTypes == TypeOK /\ [Next]_vars => TypeOK'
<1> SUFFICES ASSUME TypeOK, [Next]_vars PROVE TypeOK'
  OBVIOUS
<1> USE ConnectionAssumption DEF TypeOK, vars, client, job, sockets, calls
<1>1. ASSUME NEW h \in Handlers, HandlerStep(h) PROVE TypeOK'
  <2>1. CASE ReadEvent(h)
    BY <2>1 DEF ReadEvent, Goto, Steps
  <2>2. CASE CancelEvent(h)
    BY <2>2 DEF CancelEvent, Goto, Steps
  <2>3. CASE ForgetEvent(h)
    BY <2>3 DEF ForgetEvent, Goto, Steps
  <2>4. CASE Schedule(h)
    BY <2>4 DEF Schedule, Goto, Steps
  <2>5. CASE StoreEvent(h)
    BY <2>5 DEF StoreEvent, Goto, Steps
  <2>6. CASE Setup(h)
    BY <2>6 DEF Setup, Goto, Steps
  <2>7. CASE OpenAll(h)
    BY <2>7 DEF OpenAll, Goto, Steps
  <2>8. CASE ListSockets(h)
    BY <2>8 DEF ListSockets, Goto, Steps
  <2>9. CASE CloseSocket(h)
    BY <2>9 DEF CloseSocket, Goto, Steps
  <2>10. CASE ClearEvent(h)
    BY <2>10 DEF ClearEvent, Goto, Steps
  <2> QED  BY <1>1, <2>1, <2>2, <2>3, <2>4, <2>5, <2>6, <2>7, <2>8, <2>9, <2>10 DEF HandlerStep
<1>2. ASSUME NEW h \in Handlers, Activate(h) PROVE TypeOK'
  BY <1>2 DEF Activate, Goto, Steps
<1>3. ASSUME NEW h \in Handlers, Deactivate(h) PROVE TypeOK'
  BY <1>3 DEF Deactivate, Goto, Steps
<1>4. ASSUME NEW h \in Handlers, Restart(h) PROVE TypeOK'
  BY <1>4 DEF Restart, Steps
<1>5. ASSUME NEW h \in Handlers, JobFires(h) PROVE TypeOK'
  BY <1>5 DEF JobFires, Goto, Steps
<1>6. ASSUME NEW n \in Networks, Connect(n)
      PROVE  open' \in SUBSET Networks /\ welcome' \in SUBSET open' /\ broken' \in [Networks -> Nat]
  BY <1>6, CountTypes DEF Connect
<1>7. ASSUME NEW n \in Networks, OpenConnection(n) PROVE TypeOK'
  <2>1. opening' \in [Networks -> Nat]
    BY <1>7, CountTypes DEF OpenConnection
  <2>2. open' \in SUBSET Networks /\ welcome' \in SUBSET open' /\ broken' \in [Networks -> Nat]
    BY <1>6, <1>7 DEF OpenConnection
  <2> QED  BY <1>7, <2>1, <2>2 DEF OpenConnection
<1>8. ASSUME NEW n \in Networks, Connected(n) PROVE TypeOK'
  BY <1>8 DEF Connected
<1>9. ASSUME NEW n \in Networks, Disconnected(n) PROVE TypeOK'
  <2>1. broken' \in [Networks -> Nat]
    BY <1>9, CountTypes DEF Disconnected
  <2>2. timers' \in [Networks -> Nat]
    BY <1>9, CountTypes DEF Disconnected
  <2>3. retry' \in [Networks -> 0 .. MaxAttempts + 1]
    BY <1>9 DEF Disconnected
  <2> QED  BY <1>9, <2>1, <2>2, <2>3 DEF Disconnected
<1>10. ASSUME NEW n \in Networks, TimerFires(n) PROVE TypeOK'
  <2>1. timers' \in [Networks -> Nat]
    BY <1>10, CountTypes DEF TimerFires
  <2>2. open' \in SUBSET Networks /\ welcome' \in SUBSET open' /\ broken' \in [Networks -> Nat]
    BY <1>6, <1>10 DEF TimerFires
  <2> QED  BY <1>10, <2>1, <2>2 DEF TimerFires
<1>11. ASSUME NEW n \in Networks, Drop(n) PROVE TypeOK'
  <2>1. broken' \in [Networks -> Nat]
    BY <1>11, CountTypes DEF Drop
  <2> QED  BY <1>11, <2>1 DEF Drop
<1>12. CASE Reach
  BY <1>12 DEF Reach
<1>13. CASE UNCHANGED vars
  BY <1>13
<1> QED  BY <1>1, <1>2, <1>3, <1>4, <1>5, <1>7, <1>8, <1>9, <1>10, <1>11, <1>12, <1>13
            DEF Next, ClientStep, SocketStep

\* Every variable stays in its range: an open event is only expected of an open
\* socket, and the count of attempts stops at the limit.
THEOREM TypeCorrect == Spec => []TypeOK
<1> QED  BY InitTypes, StepTypes, PTL DEF Spec

----------------------------------------------------------------------------

LEMMA InitInv == Init => IInv
BY InitTypes DEF Init, IInv, OneCall, RestInv, CallInv

LEMMA StepInv == ASSUME Orderly PROVE IInv /\ [Next]_vars => IInv'
<1> SUFFICES ASSUME IInv, [Next]_vars PROVE IInv'
  OBVIOUS
<1>0. TypeOK /\ TypeOK'
  BY StepTypes DEF IInv
<1> USE ConnectionAssumption
<1>1. ASSUME NEW h \in Handlers, HandlerStep(h) PROVE IInv'
  <2>1. pc[h] # "idle" /\ pc[h] # "status"
    BY <1>1 DEF HandlerStep, ReadEvent, CancelEvent, ForgetEvent, Schedule, StoreEvent, Setup,
                OpenAll, ListSockets, CloseSocket, ClearEvent, IInv, CallInv
  <2>2. \A g \in Handlers : g # h => pc[g] = "idle"
    BY <2>1 DEF IInv, OneCall
  <2>3. UNCHANGED client /\ \A g \in Handlers : g # h => pc'[g] = "idle"
    BY <1>0, <1>1, <2>2 DEF TypeOK, HandlerStep, ReadEvent, CancelEvent, ForgetEvent, Schedule, StoreEvent, Setup,
                OpenAll, ListSockets, CloseSocket, ClearEvent, Goto, calls
  <2>4. OneCall' /\ \A g \in Handlers : g # h => CallInv(g)'
    BY <2>3 DEF OneCall, CallInv
  <2> SUFFICES CallInv(h)' /\ (pc'[h] = "idle" => scheduled' \subseteq {stored'} /\ (active' => scheduled' = {}))
    BY <1>0, <2>4 DEF IInv, RestInv, Quiet
  <2>5. CallInv(h)
    BY DEF IInv
  <2> USE DEF client, job, calls
  <2>6. CASE ReadEvent(h)
    BY <1>0, <2>3, <2>5, <2>6 DEF ReadEvent, Goto, CallInv, TypeOK
  <2>7. CASE CancelEvent(h)
    BY <1>0, <2>3, <2>5, <2>7 DEF CancelEvent, Goto, CallInv, TypeOK
  <2>8. CASE ForgetEvent(h)
    BY <1>0, <2>3, <2>5, <2>8 DEF ForgetEvent, Goto, CallInv, TypeOK
  <2>9. CASE Schedule(h)
    BY <1>0, <2>3, <2>5, <2>9 DEF Schedule, Goto, CallInv, TypeOK
  <2>10. CASE StoreEvent(h)
    BY <1>0, <2>3, <2>5, <2>10 DEF StoreEvent, Goto, CallInv, TypeOK
  <2>11. CASE Setup(h)
    BY <2>1, <2>11 DEF Setup
  <2>12. CASE OpenAll(h)
    BY <1>0, <2>3, <2>5, <2>12 DEF OpenAll, Goto, CallInv, TypeOK
  <2>13. CASE ListSockets(h)
    BY <1>0, <2>3, <2>5, <2>13 DEF ListSockets, Goto, CallInv, TypeOK
  <2>14. CASE CloseSocket(h)
    BY <1>0, <2>3, <2>5, <2>14 DEF CloseSocket, Goto, CallInv, TypeOK
  <2>15. CASE ClearEvent(h)
    BY <1>0, <2>3, <2>5, <2>15 DEF ClearEvent, Goto, CallInv, TypeOK
  <2> QED  BY <1>1, <2>6, <2>7, <2>8, <2>9, <2>10, <2>11, <2>12, <2>13, <2>14, <2>15 DEF HandlerStep
<1>2. ASSUME NEW h \in Handlers, Activate(h) PROVE IInv'
  <2>1. Quiet
    BY <1>2 DEF Activate, Free, Orderly
  <2>2. \A g \in Handlers : g # h => pc'[g] = "idle"
    BY <1>0, <1>2, <2>1 DEF Activate, Goto, Quiet, TypeOK
  <2>3. pc'[h] = "read" /\ next'[h] = "open" /\ active' /\ UNCHANGED job
    BY <1>0, <1>2 DEF Activate, Goto, TypeOK
  <2> QED  BY <1>0, <2>1, <2>2, <2>3 DEF IInv, OneCall, RestInv, CallInv, Quiet, job
<1>3. ASSUME NEW h \in Handlers, Deactivate(h) PROVE IInv'
  <2>1. Quiet
    BY <1>3 DEF Deactivate, Free, Orderly
  <2>2. \A g \in Handlers : g # h => pc'[g] = "idle"
    BY <1>0, <1>3, <2>1 DEF Deactivate, Goto, Quiet, TypeOK
  <2>3. pc'[h] = "read" /\ next'[h] = "schedule" /\ ~active' /\ UNCHANGED job
    BY <1>0, <1>3 DEF Deactivate, Goto, TypeOK
  <2> QED  BY <1>0, <2>1, <2>2, <2>3 DEF IInv, OneCall, RestInv, CallInv, Quiet, job
<1>4. ASSUME NEW h \in Handlers, Restart(h) PROVE IInv'
  BY <1>0, <1>4 DEF Restart, Orderly, TypeOK
<1>5. ASSUME NEW h \in Handlers, JobFires(h) PROVE IInv'
  <2>1. Quiet
    BY <1>5 DEF JobFires, Free, Orderly
  <2>2. \A g \in Handlers : g # h => pc'[g] = "idle"
    BY <1>0, <1>5, <2>1 DEF JobFires, Goto, Quiet, TypeOK
  <2>3. pc'[h] = "list" /\ UNCHANGED client
    BY <1>0, <1>5 DEF JobFires, Goto, TypeOK
  <2>4. scheduled # {} /\ scheduled \subseteq {stored} /\ ~active
    BY <1>5, <2>1 DEF JobFires, IInv, RestInv
  <2>5. scheduled' = {}
    BY <1>5, <2>4 DEF JobFires
  <2> QED  BY <1>0, <2>2, <2>3, <2>4, <2>5 DEF IInv, OneCall, RestInv, CallInv, Quiet, client
<1>6. ASSUME UNCHANGED <<active, job, calls>> PROVE IInv'
  BY <1>0, <1>6 DEF job, calls, IInv, OneCall, RestInv, CallInv, Quiet
<1>7. ASSUME NEW n \in Networks, SocketStep(n) \/ Drop(n) PROVE IInv'
  BY <1>6, <1>7 DEF SocketStep, OpenConnection, Connected, Disconnected, TimerFires, Drop, client
<1>8. CASE Reach
  BY <1>6, <1>8 DEF Reach
<1>9. CASE UNCHANGED vars
  BY <1>6, <1>9 DEF vars, client
<1> QED  BY <1>1, <1>2, <1>3, <1>4, <1>5, <1>7, <1>8, <1>9 DEF Next, ClientStep

THEOREM InvCorrect == ASSUME Orderly PROVE Spec => []IInv
<1> QED  BY InitInv, StepInv, PTL DEF Spec

\* When calls do not overlap, an open client has no close job ahead of it.
THEOREM JobCorrect == ASSUME Orderly PROVE Spec => []JobCancelled
<1>1. IInv => JobCancelled
  BY DEF IInv, RestInv, JobCancelled
<1> QED  BY <1>1, InvCorrect, PTL

\* And the snap closes no socket of an open client.
THEOREM KeptCorrect == ASSUME Orderly PROVE Spec => KeptWhileActive
<1> DEFINE Kept == \A n \in open \ open' :
                      active => broken'[n] > broken[n] \/ restarts' > restarts
<1>1. IInv /\ [Next]_vars => [Kept]_vars
  <2> SUFFICES ASSUME IInv, Next PROVE Kept
    OBVIOUS
  <2> USE ConnectionAssumption
  <2>1. ASSUME NEW h \in Handlers, CloseSocket(h) PROVE Kept
    <3>1. ~active
      BY <2>1 DEF CloseSocket, IInv, CallInv
    <3> QED  BY <3>1
  <2>2. ASSUME NEW h \in Handlers, Restart(h) PROVE Kept
    BY <2>2 DEF Restart, Orderly, IInv, TypeOK
  <2>3. ASSUME NEW n \in Networks, Drop(n) PROVE Kept
    <3>1. broken'[n] > broken[n]
      BY <2>3 DEF Drop, Plus, IInv, TypeOK
    <3>2. \A m \in open \ open' : m = n
      BY <2>3 DEF Drop
    <3> QED  BY <3>1, <3>2
  <2>4. ASSUME open \subseteq open' PROVE Kept
    BY <2>4
  <2>5. ASSUME NEW n \in Networks, SocketStep(n) PROVE open \subseteq open'
    BY <2>5 DEF SocketStep, OpenConnection, Connected, Disconnected, TimerFires, Connect
  <2>6. ASSUME NEW h \in Handlers, HandlerStep(h), ~CloseSocket(h) PROVE open \subseteq open'
    BY <2>6 DEF HandlerStep, ReadEvent, CancelEvent, ForgetEvent, Schedule, StoreEvent, Setup,
                OpenAll, ListSockets, ClearEvent, sockets
  <2>7. ASSUME NEW h \in Handlers, Activate(h) \/ Deactivate(h) \/ JobFires(h) PROVE open \subseteq open'
    BY <2>7 DEF Activate, Deactivate, JobFires, sockets
  <2>8. CASE Reach
    BY <2>4, <2>8 DEF Reach, sockets
  <2> QED  BY <2>1, <2>2, <2>3, <2>4, <2>5, <2>6, <2>7, <2>8 DEF Next, ClientStep
<1> QED  BY <1>1, InvCorrect, PTL DEF Spec, KeptWhileActive

------------------------------------------------------------------------------
\* The components beside it are instanced with constants and variables of their own; those that have the name of one
\* above or of each other's (up, stored, watched) belong to no proof about both.
CONSTANTS
    Signatures, Accounts, Troubles, Recurring,                                 \* SolanaSubscriptions
    Sources, Calls, Methods, MaxIndex, MaxIds, MaxDeletions                    \* SolanaKeyring

VARIABLES
    server, inbox, sent, reached, expired, watched, selected, subscribing, confirming, ending, resending, saved,
    crossed, troubles,
    accounts, owned, wanted, drawn, deleted, requests, signed

------------------------------------------------------------------------------
\* Subscriptions

Socket == INSTANCE SolanaSubscriptions

\* How many subscriptions there can be.
Size == Socket!Cardinality(Socket!Subs)
Stored == {Socket!None, Socket!Pending} \cup {Socket!Confirmed(n) : n \in Socket!Numbers}
Messages == [kind : {"confirmation", "notification", "failure"}, sub : Socket!Subs, number : 0..Size]

SocketTypes ==
    /\ up \in BOOLEAN /\ crossed \in BOOLEAN /\ server \in [Socket!Subs -> 0..Size]
    /\ inbox \subseteq Messages /\ \A m \in inbox : m.kind = "confirmation" => m.number \in Socket!Numbers
    /\ confirming \subseteq [sub : Socket!Subs, number : Socket!Numbers]
    /\ stored \in [Socket!Subs -> Stored]
    /\ subscribing \in [Socket!Subs \X Socket!Callers -> {"idle", "read", "delete", "save", "send", "register"}]

\* What a stored subscription can still hope for: the connection that is to recover it, a confirmation under way, or
\* for a pending one the request that is to be sent or its failure.
Hope(s) ==
    \/ ~up
    \/ resending.pc = "read" \/ (resending.pc = "delete" /\ s \in resending.list)
    \/ \E m \in inbox : m.sub = s /\ m.kind = "confirmation"
    \/ \E c \in confirming : c.sub = s
    \/ /\ stored[s] = Socket!Pending
       /\ (\E m \in inbox : m.sub = s /\ m.kind = "failure") \/ \E c \in Socket!Callers : subscribing[<<s, c>>] = "send"

Live(s) ==
    stored[s] = Socket!None \/ s \in reached \cup expired \/ stored[s] = Socket!Confirmed(server[s]) \/ Hope(s)

AllLive == ~crossed => \A s \in Socket!Subs : Live(s)

SocketInv == SocketTypes /\ AllLive

LEMMA SizeFacts ==
    ASSUME Socket!SolanaSubscriptionsAssumption
    PROVE  /\ IsFiniteSet(Socket!Subs) /\ Size = Cardinality(Socket!Subs) /\ Size \in Nat
           /\ Socket!Numbers = 1..Size
<1>1. \A S : Socket!Cardinality(S) = Cardinality(S)
  BY Zenon DEF Socket!Cardinality, Cardinality
<1>2. \A S : Socket!IsFiniteSet(S) <=> IsFiniteSet(S)
  BY Zenon DEF Socket!IsFiniteSet, IsFiniteSet
<1>3. IsFiniteSet(Socket!Subs)
  <2>1. IsFiniteSet(Signatures) /\ IsFiniteSet(Accounts)
    BY <1>2 DEF Socket!SolanaSubscriptionsAssumption
  <2> QED  BY <2>1, FS_Union DEF Socket!Subs
<1>4. Size = Cardinality(Socket!Subs) /\ Socket!Numbers = 1..Size
  BY <1>1 DEF Size, Socket!Numbers
<1> QED  BY <1>3, <1>4, FS_CardinalityType

LEMMA StatusApart ==
    /\ Socket!None # Socket!Pending
    /\ \A n : Socket!Confirmed(n) # Socket!None /\ Socket!Confirmed(n) # Socket!Pending
    /\ \A m, n : Socket!Confirmed(m) = Socket!Confirmed(n) => m = n
BY DEF Socket!None, Socket!Pending, Socket!Confirmed

\* A set of numbers that is not empty has a least one.
LEMMA LeastNumber ==
    ASSUME NEW n \in Nat, NEW S \in SUBSET (1..n), S # {}
    PROVE  \E m \in S : \A k \in S : m <= k
<1> DEFINE U(i) == {k \in S : k < i}
           T == {U(i) : i \in S}
           R == StrictSubsetOrdering(S)
<1>1. \A i \in S : U(i) \subseteq S /\ IsFiniteSet(U(i))
  <2>1. IsFiniteSet(1..n)
    BY FS_Interval
  <2>2. IsFiniteSet(S)
    BY <2>1, FS_Subset
  <2> QED  BY <2>2, FS_Subset
<1>2. T \subseteq FiniteSubsetsOf(S) /\ T # {}
  BY <1>1 DEF FiniteSubsetsOf
<1>3. IsWellFoundedOn(R, FiniteSubsetsOf(S))
  BY FS_StrictSubsetOrderingWellFounded
<1>4. PICK t \in T : \A u \in T : ~(<<u, t>> \in R)
  <2> HIDE DEF T, R
  <2> QED  BY <1>2, <1>3, WFMin
<1>5. PICK m \in S : t = U(m)
  OBVIOUS
<1>6. ASSUME NEW k \in S, k < m PROVE FALSE
  <2>1. S \subseteq Int
    OBVIOUS
  <2>2. (\A j \in S : j < k => j < m) /\ ~(k < k)
    BY <1>6, <2>1
  <2>3. U(k) \subseteq U(m) /\ k \in U(m) /\ k \notin U(k)
    BY <1>6, <2>2
  <2>4. <<U(k), U(m)>> \in R
    BY <1>1, <2>3 DEF StrictSubsetOrdering
  <2> QED  BY <1>4, <1>5, <2>4
<1>7. \A k \in S : m <= k
  BY <1>6
<1> QED  BY <1>7

\* The server has a number left for a subscription it does not have.
FreeNumber(s) ==
    IF server[s] > 0 THEN server[s]
    ELSE CHOOSE m \in Socket!Numbers : m \notin {server[t] : t \in Socket!Subs} /\ \A k \in 1..(m - 1) :
                                           k \in {server[t] : t \in Socket!Subs}

LEMMA FreeFacts ==
    ASSUME Socket!SolanaSubscriptionsAssumption, SocketTypes, NEW s \in Socket!Subs
    PROVE  FreeNumber(s) \in Socket!Numbers /\ (server[s] > 0 => FreeNumber(s) = server[s])
<1> DEFINE used == {server[t] : t \in Socket!Subs}
           free == {m \in 1..Size : m \notin used}
<1>0. server \in [Socket!Subs -> 0..Size] /\ Size \in Nat /\ Socket!Numbers = 1..Size
  BY SizeFacts DEF SocketTypes
<1>1. CASE server[s] > 0
  <2>1. server[s] \in 1..Size
    BY <1>0, <1>1
  <2> QED  BY <1>0, <1>1, <2>1 DEF FreeNumber
<1>2. CASE ~(server[s] > 0)
  <2>1. free # {}
    <3> SUFFICES ASSUME free = {} PROVE FALSE
      OBVIOUS
    <3> DEFINE f == [m \in 1..Size |-> CHOOSE t \in Socket!Subs : server[t] = m]
               others == Socket!Subs \ {s}
    <3>1. \A m \in 1..Size : \E t \in Socket!Subs : server[t] = m
      OBVIOUS
    <3>2. \A m \in 1..Size : f[m] \in Socket!Subs /\ server[f[m]] = m
      BY <3>1
    <3>3. \A m \in 1..Size : f[m] # s
      BY <1>0, <1>2, <3>2
    <3>4. f \in [1..Size -> others]
      BY <3>2, <3>3
    <3>5. IsFiniteSet(others) /\ IsFiniteSet(1..Size) /\ Cardinality(others) < Cardinality(1..Size)
      <4>1. IsFiniteSet(others) /\ Cardinality(others) = Size - 1
        BY SizeFacts, FS_RemoveElement
      <4>2. IsFiniteSet(1..Size) /\ Cardinality(1..Size) = IF 1 > Size THEN 0 ELSE Size - 1 + 1
        BY <1>0, FS_Interval
      <4> QED  BY <1>0, <4>1, <4>2
    <3> HIDE DEF f, others
    <3>6. \E x, y \in 1..Size : x # y /\ f[x] = f[y]
      <4> DEFINE S == 1..Size
      <4>1. f \in [S -> others] /\ IsFiniteSet(others) /\ IsFiniteSet(S) /\ Cardinality(others) < Cardinality(S)
        BY <3>4, <3>5
      <4> HIDE DEF S
      <4>2. \E x, y \in S : x # y /\ f[x] = f[y]
        BY <4>1, FS_PigeonHole
      <4> QED  BY <4>2 DEF S
    <3> QED  BY <3>2, <3>6
  <2>2. PICK m \in free : \A k \in free : m <= k
    <3>1. free \in SUBSET (1..Size)
      OBVIOUS
    <3> HIDE DEF free
    <3> QED  BY <1>0, <2>1, <3>1, LeastNumber
  <2>3. \A k \in 1..(m - 1) : k \in used
    <3> SUFFICES ASSUME NEW k \in 1..(m - 1), k \notin used PROVE FALSE
      OBVIOUS
    <3>1. k \in 1..Size /\ ~(m <= k)
      BY <1>0
    <3> QED  BY <2>2, <3>1
  <2>4. \E i \in Socket!Numbers : i \notin used /\ \A k \in 1..(i - 1) : k \in used
    BY <1>0, <2>2, <2>3
  <2> HIDE DEF used
  <2>5. FreeNumber(s) \in Socket!Numbers
    BY <1>2, <2>4 DEF FreeNumber, used
  <2> QED  BY <1>2, <2>5
<1> QED  BY <1>1, <1>2

LEMMA SocketInitInv == ASSUME Socket!SolanaSubscriptionsAssumption, Socket!Init PROVE SocketInv
<1>1. SocketTypes
  <2>1. server \in [Socket!Subs -> 0..Size]
    BY SizeFacts DEF Socket!Init
  <2>2. stored \in [Socket!Subs -> Stored]
    BY DEF Socket!Init, Stored
  <2>3. /\ up \in BOOLEAN /\ crossed \in BOOLEAN /\ inbox = {} /\ confirming = {}
        /\ subscribing \in [Socket!Subs \X Socket!Callers -> {"idle", "read", "delete", "save", "send", "register"}]
    BY DEF Socket!Init
  <2> QED  BY <2>1, <2>2, <2>3 DEF SocketTypes
<1>2. AllLive
  BY DEF AllLive, Live, Socket!Init
<1> QED  BY <1>1, <1>2 DEF SocketInv

------------------------------------------------------------------------------
\* Calls of subscribe that begin.
LEMMA SubscribeFacts ==
    ASSUME SocketTypes, NEW new, Socket!Subscribe(new)
    PROVE  /\ subscribing' \in [Socket!Subs \X Socket!Callers -> {"idle", "read", "delete", "save", "send", "register"}]
           /\ \A s \in Socket!Subs, c \in Socket!Callers : subscribing[<<s, c>>] = "send" => subscribing'[<<s, c>>] = "send"
BY DEF SocketTypes, Socket!Subscribe

\* A call of subscribe that goes on.
LEMMA GoesOn ==
    ASSUME SocketTypes, NEW s \in Socket!Subs, NEW c \in Socket!Callers,
           NEW step \in {"idle", "read", "delete", "save", "send", "register"},
           subscribing' = [subscribing EXCEPT ![<<s, c>>] = step]
    PROVE  /\ subscribing' \in [Socket!Subs \X Socket!Callers -> {"idle", "read", "delete", "save", "send", "register"}]
           /\ subscribing'[<<s, c>>] = step
           /\ \A t \in Socket!Subs, d \in Socket!Callers : <<t, d>> # <<s, c>> => subscribing'[<<t, d>>] = subscribing[<<t, d>>]
BY DEF SocketTypes

\* What a request sends.
LEMMA SendFacts ==
    ASSUME Socket!SolanaSubscriptionsAssumption, SocketTypes, NEW s \in Socket!Subs, NEW c \in Socket!Callers, Socket!Send(s, c)
    PROVE  /\ subscribing' = [subscribing EXCEPT ![<<s, c>>] = Socket!Returned(s, c)]
           /\ UNCHANGED <<up, stored, expired, confirming, resending, reached, crossed>>
           /\ \/ /\ up
                 /\ server' = [server EXCEPT ![s] = IF s \in reached THEN 0 ELSE FreeNumber(s)]
                 /\ inbox' = inbox \cup {Socket!Message("confirmation", s, FreeNumber(s))}
                                \cup {Socket!Message("notification", s, FreeNumber(s)) : r \in {s} \cap reached}
              \/ up /\ inbox' = inbox \cup {Socket!Message("failure", s, 0)} /\ server' = server
              \/ ~up /\ UNCHANGED <<server, inbox>>
BY DEF Socket!Send, Socket!outside, FreeNumber

LEMMA SendTypes ==
    ASSUME Socket!SolanaSubscriptionsAssumption, SocketTypes, NEW s \in Socket!Subs, NEW c \in Socket!Callers, Socket!Send(s, c)
    PROVE  SocketTypes'
<1> DEFINE n == FreeNumber(s)
<1>1. n \in Socket!Numbers /\ n \in 0..Size /\ 0 \in 0..Size
  BY FreeFacts, SizeFacts
<1>2. subscribing' \in [Socket!Subs \X Socket!Callers -> {"idle", "read", "delete", "save", "send", "register"}]
  BY SendFacts, GoesOn DEF Socket!Returned
<1>3. server' \in [Socket!Subs -> 0..Size]
  <2> HIDE DEF n
  <2> QED  BY <1>1, SendFacts DEF SocketTypes, n
<1>4. inbox' \subseteq Messages /\ \A m \in inbox' : m.kind = "confirmation" => m.number \in Socket!Numbers
  <2>1. \A m \in inbox' : m \in inbox \/ m = Socket!Message("confirmation", s, n)
                          \/ m = Socket!Message("notification", s, n) \/ m = Socket!Message("failure", s, 0)
    <3> HIDE DEF n
    <3>1. inbox' \subseteq inbox \cup {Socket!Message("confirmation", s, n), Socket!Message("notification", s, n),
                                       Socket!Message("failure", s, 0)}
      <4>1. {Socket!Message("notification", s, n) : r \in {s} \cap reached} \subseteq {Socket!Message("notification", s, n)}
        OBVIOUS
      <4>2. \/ inbox' = inbox \cup {Socket!Message("confirmation", s, n)}
                              \cup {Socket!Message("notification", s, n) : r \in {s} \cap reached}
            \/ inbox' = inbox \cup {Socket!Message("failure", s, 0)}
            \/ inbox' = inbox
        BY SendFacts, Zenon DEF n
      <4> QED  BY <4>1, <4>2
    <3> QED  BY <3>1
  <2> HIDE DEF n
  <2>2. /\ {Socket!Message("confirmation", s, n), Socket!Message("notification", s, n), Socket!Message("failure", s, 0)}
              \subseteq Messages
        /\ Socket!Message("confirmation", s, n).number = n
        /\ Socket!Message("notification", s, n).kind # "confirmation"
        /\ Socket!Message("failure", s, 0).kind # "confirmation"
    BY <1>1 DEF Socket!Message, Messages
  <2> QED  BY <1>1, <2>1, <2>2 DEF SocketTypes
<1> QED  BY <1>2, <1>3, <1>4, SendFacts DEF SocketTypes

LEMMA SocketTypesStep ==
    ASSUME Socket!SolanaSubscriptionsAssumption, SocketTypes, [Socket!Next]_(Socket!subsVars) PROVE SocketTypes'
<1> USE DEF Socket!outside
<1>1. ASSUME NEW s \in Socket!Subs, NEW c \in Socket!Callers,
             Socket!Read(s, c) \/ Socket!DeletePending(s, c) \/ Socket!SavePending(s, c) \/ Socket!Register(s, c)
      PROVE  SocketTypes'
  <2>1. PICK step \in {"idle", "read", "delete", "save", "send", "register"} : subscribing' = [subscribing EXCEPT ![<<s, c>>] = step]
    BY <1>1 DEF Socket!Read, Socket!DeletePending, Socket!SavePending, Socket!Register, Socket!Returned
  <2>2. stored' \in [Socket!Subs -> Stored]
    BY <1>1 DEF Socket!Read, Socket!DeletePending, Socket!SavePending, Socket!Register, SocketTypes, Stored
  <2>3. UNCHANGED <<up, crossed, server, inbox, confirming>>
    BY <1>1 DEF Socket!Read, Socket!DeletePending, Socket!SavePending, Socket!Register
  <2> QED  BY <2>1, <2>2, <2>3, GoesOn DEF SocketTypes
<1>2. ASSUME NEW s \in Socket!Subs, NEW e \in Socket!Enders, Socket!Delete(s, e) PROVE SocketTypes'
  <2>1. stored' \in [Socket!Subs -> Stored]
    BY <1>2 DEF Socket!Delete, SocketTypes, Stored
  <2> QED  BY <1>2, <2>1 DEF Socket!Delete, SocketTypes
<1>3. ASSUME NEW s \in Socket!Subs, NEW e \in Socket!Enders, Socket!SendEnd(s, e) PROVE SocketTypes'
  <2>1. server' \in [Socket!Subs -> 0..Size]
    BY <1>3, SizeFacts DEF Socket!SendEnd, SocketTypes
  <2>2. crossed' \in BOOLEAN
    BY <1>3 DEF Socket!SendEnd
  <2> QED  BY <1>3, <2>1, <2>2 DEF Socket!SendEnd, SocketTypes
<1>4. CASE Socket!ResendStep
  <2>1. stored' \in [Socket!Subs -> Stored]
    BY <1>4 DEF Socket!ResendStep, Socket!Resend, SocketTypes, Stored
  <2>2. subscribing' \in [Socket!Subs \X Socket!Callers -> {"idle", "read", "delete", "save", "send", "register"}]
    BY <1>4, SubscribeFacts DEF Socket!ResendStep, Socket!Resend, SocketTypes
  <2> QED  BY <1>4, <2>1, <2>2 DEF Socket!ResendStep, SocketTypes
<1>5. ASSUME NEW m \in inbox, Socket!Confirmation(m) \/ Socket!Failure(m) \/ Socket!Notification(m) PROVE SocketTypes'
  <2>1. inbox' \subseteq inbox /\ UNCHANGED <<up, server, subscribing>>
    BY <1>5 DEF Socket!Confirmation, Socket!Failure, Socket!Notification
  <2>2. stored' \in [Socket!Subs -> Stored]
    BY <1>5 DEF Socket!Confirmation, Socket!Failure, Socket!Notification, SocketTypes, Stored
  <2>3. confirming' \subseteq [sub : Socket!Subs, number : Socket!Numbers]
    BY <1>5 DEF Socket!Confirmation, Socket!Failure, Socket!Notification, SocketTypes, Messages
  <2>4. crossed' \in BOOLEAN
    BY <1>5 DEF Socket!Confirmation, Socket!Failure, Socket!Notification, SocketTypes
  <2> QED  BY <2>1, <2>2, <2>3, <2>4 DEF SocketTypes
<1>6. ASSUME NEW c \in confirming, Socket!Confirm(c) PROVE SocketTypes'
  <2>1. c.number \in Socket!Numbers
    BY DEF SocketTypes
  <2>2. stored' \in [Socket!Subs -> Stored]
    BY <1>6, <2>1 DEF Socket!Confirm, SocketTypes, Stored
  <2>3. crossed' \in BOOLEAN
    BY <1>6 DEF Socket!Confirm
  <2> QED  BY <1>6, <2>2, <2>3 DEF Socket!Confirm, SocketTypes
<1>7. CASE Socket!Disconnect \/ Socket!Restart
  <2>1. server' \in [Socket!Subs -> 0..Size]
    BY <1>7, SizeFacts DEF Socket!Disconnect, Socket!Restart
  <2>2. subscribing' \in [Socket!Subs \X Socket!Callers -> {"idle", "read", "delete", "save", "send", "register"}]
    BY <1>7 DEF Socket!Disconnect, Socket!Restart, SocketTypes
  <2> QED  BY <1>7, <2>1, <2>2 DEF Socket!Disconnect, Socket!Restart, SocketTypes
<1>8. CASE Socket!Connect \/ Socket!OnInactive \/ Socket!Select
  BY <1>8 DEF Socket!Connect, Socket!OnInactive, Socket!Select, SocketTypes
<1>9. CASE Socket!SetMonitored
  BY <1>9, SubscribeFacts DEF Socket!SetMonitored, SocketTypes
<1>10. ASSUME NEW s \in Signatures, Socket!Monitor(s) PROVE SocketTypes'
  BY <1>10, SubscribeFacts DEF Socket!Monitor, SocketTypes
<1>11. ASSUME NEW s \in Signatures, Socket!Expire(s) PROVE SocketTypes'
  BY <1>11 DEF Socket!Expire, SocketTypes
<1>12. ASSUME NEW s \in Signatures, Socket!Reach(s) PROVE SocketTypes'
  <2>1. s \in Socket!Subs /\ server[s] \in 0..Size /\ 0 \in 0..Size
    <3>1. s \in Socket!Subs
      BY DEF Socket!Subs
    <3>2. 0 \in 0..Size
      BY SizeFacts
    <3> QED  BY <3>1, <3>2 DEF SocketTypes
  <2>2. server' \in [Socket!Subs -> 0..Size]
    BY <1>12, <2>1 DEF Socket!Reach, SocketTypes
  <2>3. \A m \in inbox' : m \in inbox \/ m = Socket!Message("notification", s, server[s])
    BY <1>12 DEF Socket!Reach
  <2>4. Socket!Message("notification", s, server[s]) \in Messages
        /\ Socket!Message("notification", s, server[s]).kind # "confirmation"
    BY <2>1 DEF Socket!Message, Messages
  <2>5. inbox' \subseteq Messages /\ \A m \in inbox' : m.kind = "confirmation" => m.number \in Socket!Numbers
    BY <2>3, <2>4 DEF SocketTypes
  <2> QED  BY <1>12, <2>2, <2>5 DEF Socket!Reach, SocketTypes
<1>13. ASSUME NEW s \in Socket!Subs, NEW e \in Socket!Enders,
              Socket!Work(s, e) \/ Socket!ReadToEnd(s, e) \/ Socket!Forget(s, e)
       PROVE  SocketTypes'
  BY <1>13 DEF Socket!Work, Socket!ReadToEnd, Socket!Forget, SocketTypes
<1>14. ASSUME NEW s \in Signatures, Socket!FetchStatus(s) PROVE SocketTypes'
  BY <1>14 DEF Socket!FetchStatus, SocketTypes
<1>15. CASE UNCHANGED Socket!subsVars
  BY <1>15 DEF Socket!subsVars, SocketTypes
<1> QED
  BY <1>1, <1>2, <1>3, <1>4, <1>5, <1>6, <1>7, <1>8, <1>9, <1>10, <1>11, <1>12, <1>13, <1>14, <1>15, SendTypes
  DEF Socket!Next, Socket!Subscribing, Socket!Finishing, Socket!Recovering, Socket!Receiving

------------------------------------------------------------------------------
\* What a subscription lives on is left alone.
Undisturbed(s) ==
    /\ stored'[s] = stored[s] /\ (server'[s] = server[s] \/ s \in reached')
    /\ reached \subseteq reached' /\ (s \in expired => s \in expired') /\ up' = up
    /\ resending' = resending \/ ~(resending.pc = "read" \/ (resending.pc = "delete" /\ s \in resending.list))
    /\ \A m \in inbox : m.sub = s /\ (m.kind = "confirmation" \/ (m.kind = "failure" /\ stored[s] = Socket!Pending))
                        => m \in inbox'
    /\ \A c \in confirming : c.sub = s => c \in confirming'
    /\ \A c \in Socket!Callers : subscribing[<<s, c>>] = "send" => subscribing'[<<s, c>>] = "send"

LEMMA UndisturbedLives == ASSUME NEW s, Live(s), Undisturbed(s) PROVE Live(s)'
<1>1. CASE stored[s] = Socket!None \/ s \in reached \cup expired \/ stored[s] = Socket!Confirmed(server[s])
  BY <1>1 DEF Undisturbed, Live, Socket!None, Socket!Confirmed
<1>2. CASE Hope(s)
  <2>1. Hope(s)'
    BY <1>2 DEF Undisturbed, Hope, Socket!Pending
  <2> QED  BY <2>1 DEF Live
<1> QED  BY <1>1, <1>2 DEF Live

LEMMA LiveStep ==
    ASSUME Socket!SolanaSubscriptionsAssumption, SocketInv, [Socket!Next]_(Socket!subsVars), ~crossed', NEW s \in Socket!Subs
    PROVE  Live(s)'
<1> USE DEF Socket!outside
<1>t. SocketTypes
  BY DEF SocketInv
<1>c. ~crossed
  BY DEF Socket!Next, Socket!Subscribing, Socket!Finishing, Socket!Recovering, Socket!Receiving,
         Socket!Read, Socket!DeletePending, Socket!SavePending, Socket!Send, Socket!Register, Socket!Work,
         Socket!ReadToEnd, Socket!Delete, Socket!SendEnd, Socket!Forget, Socket!FetchStatus, Socket!ResendStep,
         Socket!Confirmation, Socket!Failure, Socket!Notification, Socket!Confirm, Socket!Connect, Socket!Disconnect,
         Socket!SetMonitored, Socket!OnInactive, Socket!Select, Socket!Restart, Socket!Monitor, Socket!Expire,
         Socket!Reach, Socket!subsVars
<1>l. Live(s)
  BY <1>c DEF SocketInv, AllLive
<1>1. ASSUME NEW t \in Socket!Subs, NEW c \in Socket!Callers,
             Socket!Read(t, c) \/ Socket!Register(t, c) \/ Socket!DeletePending(t, c) \/ Socket!SavePending(t, c)
      PROVE  Live(s)'
  <2>1. PICK step \in {"idle", "read", "delete", "save", "send", "register"} : subscribing' = [subscribing EXCEPT ![<<t, c>>] = step]
    BY <1>1 DEF Socket!Read, Socket!DeletePending, Socket!SavePending, Socket!Register, Socket!Returned
  <2>2. /\ subscribing'[<<t, c>>] = step
        /\ \A d \in Socket!Callers : <<s, d>> # <<t, c>> => subscribing'[<<s, d>>] = subscribing[<<s, d>>]
    BY <1>t, <2>1, GoesOn
  <2>3. UNCHANGED <<up, server, inbox, reached, confirming, resending>>
    BY <1>1 DEF Socket!Read, Socket!DeletePending, Socket!SavePending, Socket!Register
  <2>4. CASE t # s \/ Socket!Read(t, c) \/ Socket!Register(t, c)
    <3>1. stored'[s] = stored[s] /\ (s \in expired => s \in expired')
      BY <1>1, <1>t, <2>4 DEF Socket!Read, Socket!DeletePending, Socket!SavePending, Socket!Register, SocketTypes
    <3>2. t # s \/ subscribing[<<t, c>>] # "send"
      BY <2>4 DEF Socket!Read, Socket!Register
    <3>3. \A d \in Socket!Callers : subscribing[<<s, d>>] = "send" => subscribing'[<<s, d>>] = "send"
      BY <2>2, <3>2
    <3> QED  BY <1>l, <2>3, <3>1, <3>3, UndisturbedLives DEF Undisturbed
  <2>5. CASE t = s /\ Socket!DeletePending(t, c)
    BY <1>t, <2>5 DEF Socket!DeletePending, SocketTypes, Live, Socket!None
  <2>6. CASE t = s /\ Socket!SavePending(t, c)
    <3>1. stored'[s] = Socket!Pending /\ step = "send"
      BY <1>t, <2>1, <2>2, <2>6, GoesOn DEF Socket!SavePending, SocketTypes
    <3> QED  BY <2>2, <2>6, <3>1 DEF Live, Hope, Socket!Pending
  <2> QED  BY <1>1, <2>4, <2>5, <2>6
<1>2. ASSUME NEW t \in Socket!Subs, NEW c \in Socket!Callers, Socket!Send(t, c) PROVE Live(s)'
  <2>0. UNCHANGED <<up, stored, expired, confirming, resending, reached>> /\ inbox \subseteq inbox'
    BY <1>2, <1>t, SendFacts
  <2>1. CASE t # s
    <3>1. server'[s] = server[s]
      BY <1>2, <1>t, <2>1, SendFacts DEF SocketTypes
    <3>2. \A d \in Socket!Callers : subscribing'[<<s, d>>] = subscribing[<<s, d>>]
      BY <1>2, <1>t, <2>1, SendFacts DEF SocketTypes
    <3> QED  BY <1>l, <2>0, <3>1, <3>2, UndisturbedLives DEF Undisturbed
  <2>2. CASE t = s
    <3>1. CASE ~up
      BY <2>0, <3>1 DEF Live, Hope
    <3>2. CASE Socket!Message("confirmation", s, FreeNumber(s)) \in inbox'
      <4>1. \E m \in inbox' : m.sub = s /\ m.kind = "confirmation"
        BY <3>2 DEF Socket!Message
      <4> QED  BY <4>1 DEF Live, Hope
    <3>3. CASE Socket!Message("failure", s, 0) \in inbox' /\ server' = server
      <4>1. \E m \in inbox' : m.sub = s /\ m.kind = "failure"
        BY <3>3 DEF Socket!Message
      <4>2. stored[s] = Socket!Pending => Hope(s)'
        BY <2>0, <4>1 DEF Hope, Socket!Pending
      <4>3. CASE stored[s] # Socket!Pending
        <5>1. Hope(s) => Hope(s)'
          BY <2>0, <4>3 DEF Hope, Socket!Pending
        <5> QED  BY <1>l, <2>0, <3>3, <5>1 DEF Live, Socket!None, Socket!Confirmed
      <4> QED  BY <4>2, <4>3 DEF Live
    <3> QED  BY <1>2, <1>t, <2>2, <3>1, <3>2, <3>3, SendFacts
  <2> QED  BY <2>1, <2>2
<1>3. ASSUME NEW t \in Socket!Subs, NEW e \in Socket!Enders, Socket!Delete(t, e) PROVE Live(s)'
  <2>1. /\ stored' = [stored EXCEPT ![t] = Socket!None] /\ expired' = expired \ {t}
        /\ UNCHANGED <<up, server, inbox, reached, subscribing, confirming, resending>>
    BY <1>3 DEF Socket!Delete
  <2>2. CASE t = s
    BY <1>t, <2>1, <2>2 DEF SocketTypes, Live, Socket!None
  <2>3. CASE t # s
    <3>1. stored'[s] = stored[s] /\ (s \in expired => s \in expired')
      BY <1>t, <2>1, <2>3 DEF SocketTypes
    <3> QED  BY <1>l, <2>1, <3>1, UndisturbedLives DEF Undisturbed
  <2> QED  BY <2>2, <2>3
<1>4. ASSUME NEW t \in Socket!Subs, NEW e \in Socket!Enders, Socket!SendEnd(t, e) PROVE Live(s)'
  <2>1. UNCHANGED <<up, inbox, stored, expired, reached, subscribing, confirming, resending>>
    BY <1>4 DEF Socket!SendEnd
  <2>2. CASE server'[s] = server[s]
    BY <1>l, <2>1, <2>2, UndisturbedLives DEF Undisturbed
  <2>3. CASE server'[s] # server[s]
    <3>1. up /\ server[s] = ending[<<t, e>>].number
      BY <1>4, <1>t, <2>3 DEF Socket!SendEnd, SocketTypes
    <3>2. stored[s] = Socket!None
      BY <1>4, <3>1 DEF Socket!SendEnd
    <3> QED  BY <2>1, <3>2 DEF Live, Socket!None
  <2> QED  BY <2>2, <2>3
<1>5. CASE Socket!ResendStep
  <2>0. UNCHANGED <<up, server, inbox, expired, reached, confirming>>
    BY <1>5 DEF Socket!ResendStep
  <2>1. CASE resending.pc = "read"
    <3>1. /\ resending' = [pc |-> "delete", list |-> {t \in Socket!Subs \ expired : stored[t] # Socket!None}]
          /\ stored' = stored
      BY <1>5, <2>1 DEF Socket!ResendStep, Socket!Resend
    <3>2. stored[s] = Socket!None \/ s \in expired \/ (resending'.pc = "delete" /\ s \in resending'.list)
      BY <3>1
    <3> QED  BY <2>0, <3>1, <3>2 DEF Live, Hope, Socket!None
  <2>2. CASE resending.pc = "delete"
    <3>1. /\ stored' = [t \in Socket!Subs |-> IF t \in resending.list THEN Socket!None ELSE stored[t]]
          /\ Socket!Subscribe(resending.list \X {"again"})
      BY <1>5, <2>2 DEF Socket!ResendStep, Socket!Resend
    <3>2. CASE s \in resending.list
      BY <3>1, <3>2 DEF Live, Socket!None
    <3>3. CASE s \notin resending.list
      BY <1>l, <1>t, <2>0, <2>2, <3>1, <3>3, SubscribeFacts, UndisturbedLives DEF Undisturbed
    <3> QED  BY <3>2, <3>3
  <2> QED  BY <1>5, <2>1, <2>2 DEF Socket!ResendStep, Socket!Resend
<1>6. ASSUME NEW m \in inbox, Socket!Confirmation(m) PROVE Live(s)'
  <2>1. /\ inbox' = inbox \ {m} /\ UNCHANGED <<up, server, stored, expired, reached, subscribing, resending>>
        /\ confirming' = IF stored[m.sub] = Socket!None THEN confirming
                         ELSE confirming \cup {[sub |-> m.sub, number |-> m.number]}
    BY <1>6 DEF Socket!Confirmation
  <2>2. CASE m.sub # s
    BY <1>l, <2>1, <2>2, UndisturbedLives DEF Undisturbed
  <2>3. CASE m.sub = s /\ stored[s] = Socket!None
    BY <2>1, <2>3 DEF Live, Socket!None
  <2>4. CASE m.sub = s /\ stored[s] # Socket!None
    <3>1. [sub |-> m.sub, number |-> m.number] \in confirming' /\ [sub |-> m.sub, number |-> m.number].sub = s
      BY <2>1, <2>4
    <3> QED  BY <3>1 DEF Live, Hope
  <2> QED  BY <2>2, <2>3, <2>4
<1>7. ASSUME NEW m \in inbox, Socket!Failure(m) PROVE Live(s)'
  <2>1. /\ inbox' = inbox \ {m} /\ UNCHANGED <<up, server, expired, reached, subscribing, confirming, resending>>
        /\ stored' = IF stored[m.sub] = Socket!Pending THEN [stored EXCEPT ![m.sub] = Socket!None] ELSE stored
        /\ m.kind = "failure"
    BY <1>7 DEF Socket!Failure
  <2>2. CASE m.sub = s /\ stored[s] = Socket!Pending
    BY <1>t, <2>1, <2>2 DEF SocketTypes, Live, Socket!None
  <2>3. CASE m.sub # s \/ stored[s] # Socket!Pending
    <3>1. stored'[s] = stored[s]
      BY <1>t, <2>1, <2>3 DEF SocketTypes
    <3> QED  BY <1>l, <2>1, <2>3, <3>1, UndisturbedLives DEF Undisturbed
  <2> QED  BY <2>2, <2>3
<1>8. ASSUME NEW c \in confirming, Socket!Confirm(c) PROVE Live(s)'
  <2>1. /\ confirming' = confirming \ {c} /\ stored' = [stored EXCEPT ![c.sub] = Socket!Confirmed(c.number)]
        /\ crossed' = (crossed \/ (server[c.sub] # c.number /\ c.sub \notin reached))
        /\ UNCHANGED <<up, server, inbox, expired, reached, subscribing, resending>>
    BY <1>8 DEF Socket!Confirm
  <2>2. CASE c.sub = s
    <3>1. server[s] = c.number \/ s \in reached
      BY <2>1, <2>2
    <3>2. stored'[s] = Socket!Confirmed(c.number)
      BY <1>t, <2>1, <2>2 DEF SocketTypes
    <3> QED  BY <2>1, <3>1, <3>2 DEF Live, Socket!Confirmed
  <2>3. CASE c.sub # s
    <3>1. stored'[s] = stored[s]
      BY <1>t, <2>1, <2>3 DEF SocketTypes
    <3> QED  BY <1>l, <2>1, <2>3, <3>1, UndisturbedLives DEF Undisturbed
  <2> QED  BY <2>2, <2>3
<1>9. CASE Socket!Connect
  <2>1. resending'.pc = "read"
    BY <1>9 DEF Socket!Connect, Socket!Asleep
  <2> QED  BY <2>1 DEF Live, Hope
<1>10. CASE Socket!Disconnect \/ Socket!Restart
  <2>1. ~up'
    BY <1>10 DEF Socket!Disconnect, Socket!Restart
  <2> QED  BY <2>1 DEF Live, Hope
<1>11. ASSUME NEW t \in Signatures, Socket!Reach(t) PROVE Live(s)'
  <2>1. /\ reached' = reached \cup {t} /\ inbox \subseteq inbox' /\ server' = [server EXCEPT ![t] = 0]
        /\ UNCHANGED <<up, stored, expired, subscribing, confirming, resending>>
    BY <1>11 DEF Socket!Reach
  <2>2. server'[s] = server[s] \/ s \in reached'
    BY <1>t, <2>1 DEF SocketTypes
  <2> QED  BY <1>l, <2>1, <2>2, UndisturbedLives DEF Undisturbed
<1>12. ASSUME NEW t \in Signatures, Socket!Expire(t) PROVE Live(s)'
  <2>1. expired \subseteq expired' /\ UNCHANGED <<up, server, inbox, stored, reached, subscribing, confirming, resending>>
    BY <1>12 DEF Socket!Expire
  <2> QED  BY <1>l, <2>1, UndisturbedLives DEF Undisturbed
<1>13. CASE Socket!SetMonitored \/ \E t \in Signatures : Socket!Monitor(t)
  <2>1. UNCHANGED <<up, server, inbox, stored, expired, reached, confirming, resending>>
    BY <1>13 DEF Socket!SetMonitored, Socket!Monitor
  <2>2. \A c \in Socket!Callers : subscribing[<<s, c>>] = "send" => subscribing'[<<s, c>>] = "send"
    BY <1>13, <1>t, SubscribeFacts DEF Socket!SetMonitored, Socket!Monitor
  <2> QED  BY <1>l, <2>1, <2>2, UndisturbedLives DEF Undisturbed
<1>14. ASSUME NEW m \in inbox, Socket!Notification(m) PROVE Live(s)'
  <2>1. /\ m.kind = "notification" /\ inbox' = inbox \ {m}
        /\ UNCHANGED <<up, server, stored, expired, reached, subscribing, confirming, resending>>
    BY <1>14 DEF Socket!Notification
  <2> QED  BY <1>l, <2>1, UndisturbedLives DEF Undisturbed
<1>15. ASSUME UNCHANGED <<up, server, inbox, stored, expired, reached, subscribing, confirming, resending>> PROVE Live(s)'
  BY <1>l, <1>15, UndisturbedLives DEF Undisturbed
<1>16. CASE \/ Socket!OnInactive \/ Socket!Select \/ UNCHANGED Socket!subsVars
            \/ \E t \in Socket!Subs, e \in Socket!Enders : Socket!Work(t, e) \/ Socket!ReadToEnd(t, e) \/ Socket!Forget(t, e)
            \/ \E t \in Signatures : Socket!FetchStatus(t)
  BY <1>15, <1>16 DEF Socket!OnInactive, Socket!Select, Socket!subsVars, Socket!Work, Socket!ReadToEnd, Socket!Forget,
                      Socket!FetchStatus
<1> QED
  BY <1>1, <1>2, <1>3, <1>4, <1>5, <1>6, <1>7, <1>8, <1>9, <1>10, <1>11, <1>12, <1>13, <1>14, <1>16
  DEF Socket!Next, Socket!Subscribing, Socket!Finishing, Socket!Recovering, Socket!Receiving

\* Nothing waits for a notification nobody sends: at rest, on an open connection, and as long as no number was taken for
\* that of another subscription or connection (crossed), a stored subscription has the number
\* the server has for it now, or its signature was reached before (WebSocketConnectionService, SubscriptionService).
THEOREM StoredLive ==
    ASSUME Socket!SolanaSubscriptionsAssumption PROVE Socket!Spec => []Socket!StoredIsLive
<1>1. Socket!Init => SocketInv
  BY SocketInitInv
<1>2. SocketInv /\ [Socket!Next]_(Socket!subsVars) => SocketInv'
  BY SocketTypesStep, LiveStep DEF SocketInv, AllLive
<1>3. SocketInv => Socket!StoredIsLive
  <2> SUFFICES ASSUME SocketInv, Socket!Resting, up, ~crossed, NEW s \in Socket!Subs
               PROVE  stored[s] = Socket!None \/ s \in reached \cup expired \/ stored[s] = Socket!Confirmed(server[s])
    BY DEF Socket!StoredIsLive
  <2>1. inbox = {} /\ confirming = {} /\ resending.pc = "idle"
    BY DEF Socket!Resting, Socket!Asleep
  <2>2. \A c \in Socket!Callers : subscribing[<<s, c>>] # "send"
    BY DEF Socket!Resting
  <2>3. ~Hope(s)
    BY <2>1, <2>2 DEF Hope
  <2> QED  BY <2>3 DEF SocketInv, AllLive, Live
<1> QED  BY <1>1, <1>2, <1>3, PTL DEF Socket!Spec

------------------------------------------------------------------------------
\* The keyring

\* Its calls are called requests here.
Keyring == INSTANCE SolanaKeyring WITH calls <- requests

\* An id is drawn once: it is that of an account, or of one that was deleted.
IdsOnce == DOMAIN accounts \cup DOMAIN deleted = 1..drawn /\ DOMAIN accounts \cap DOMAIN deleted = {}

\* The addresses accounts have, or had.
Was(a) == (\E i \in DOMAIN accounts : accounts[i] = a) \/ \E i \in DOMAIN deleted : deleted[i] = a

\* What a call has read stays true of the accounts, whatever the others do.
Holds(s) ==
    /\ s.pc \in {"discover", "save"} => s.found \subseteq 1..drawn
    /\ s.pc = "created" => s.ids \subseteq 1..drawn
    /\ s.pc = "watch" => \A a \in s.addresses : Was(a)
    /\ s.pc = "resolved" =>
         s.id \in 1..drawn /\ (s.id \in DOMAIN accounts => accounts[s.id] = s.asked)
    /\ s.pc \in {"confirm", "sign"} => (s.routed => s.account = s.asked)

\* The addresses W are those of the chosen accounts there are, and perhaps of accounts that are gone.
Chosen(i) == i \in wanted.ids /\ i \in DOMAIN accounts
Matches(W) ==
    /\ \A i \in Keyring!Ids : Chosen(i) => accounts[i] \in W
    /\ \A a \in W : (\E i \in Keyring!Ids : Chosen(i) /\ accounts[i] = a) \/ \E i \in DOMAIN deleted : deleted[i] = a

Selecting(c) == requests[c].pc \in {"select", "watch"}

\* A selection that is alone: its call, if there is one yet, is for the ids last selected, and what it is about to
\* watch is what they call for.
AloneHolds ==
    wanted.alone =>
        /\ Keyring!Unmixed(accounts) /\ wanted.ids \subseteq 1..drawn
        /\ \A c, d \in Calls : Selecting(c) /\ Selecting(d) => c = d
        /\ \A c \in Calls :
             /\ requests[c].pc = "select" => requests[c].ids = wanted.ids
             /\ requests[c].pc = "watch" => Matches((watched \ requests[c].stop) \cup requests[c].addresses)
        /\ (\A c \in Calls : ~Selecting(c)) => Matches(watched)

WatchedWere == \A a \in watched : Was(a)

KeyringInv ==
    /\ Keyring!TypeOK /\ IdsOnce /\ WatchedWere /\ AloneHolds /\ Keyring!SignedAsAsked
    /\ \A c \in Calls : Holds(requests[c])

\* The states of a call.
Lists  == [pc : {"discover", "save"}, source : Sources, indexes : SUBSET Keyring!Indexes,
           seen : SUBSET Keyring!Addresses, found : SUBSET Keyring!Ids]
Asks   == [pc : {"confirm", "sign"}, method : Methods, id : Keyring!Ids, account : Keyring!Addresses,
           asked : Keyring!Addresses, routed : BOOLEAN]
Routes == [pc : {"resolved"}, method : Methods, id : Keyring!Ids, asked : Keyring!Addresses]
Stops  == [pc : {"watch"}, stop : SUBSET Keyring!Addresses, start : SUBSET Keyring!Ids,
           addresses : SUBSET Keyring!Addresses]

LEMMA CallStates ==
    ASSUME NEW s \in Keyring!Call
    PROVE  /\ s.pc \in {"discover", "save"} => s \in Lists
           /\ s.pc = "watch" => s \in Stops
           /\ s.pc = "select" => s.ids \in SUBSET Keyring!Ids
           /\ s.pc = "resolved" => s \in Routes
           /\ s.pc \in {"confirm", "sign"} => s \in Asks
           /\ Lists \subseteq Keyring!Call /\ Asks \subseteq Keyring!Call /\ Routes \subseteq Keyring!Call
           /\ Stops \subseteq Keyring!Call /\ Keyring!Idle \in Keyring!Call
BY DEF Keyring!Call, Keyring!Idle, Lists, Asks, Routes, Stops

LEMMA KeyringConstants ==
    ASSUME Keyring!SolanaKeyringAssumption
    PROVE  /\ MaxIndex \in Nat /\ MaxIds \in Nat /\ Keyring!IsFiniteSet(Sources)
           /\ Methods \subseteq {"signAndSendTransaction", "signTransaction", "signMessage", "signIn"}
BY DEF Keyring!SolanaKeyringAssumption

\* The number of elements that the keyring counts is the number of elements.
LEMMA SameCardinality == \A S : Keyring!Cardinality(S) = Cardinality(S)
BY Zenon DEF Keyring!Cardinality, Cardinality

\* The types, address by address.
LEMMA TypeFacts ==
    ASSUME KeyringInv
    PROVE  /\ drawn \in 0..MaxIds /\ DOMAIN accounts \subseteq 1..drawn /\ DOMAIN deleted \subseteq 1..drawn
           /\ \A i \in DOMAIN accounts : accounts[i] \in Keyring!Addresses
           /\ \A i \in DOMAIN deleted : deleted[i] \in Keyring!Addresses
           /\ DOMAIN requests = Calls /\ \A c \in Calls : requests[c] \in Keyring!Call
           /\ wanted \in [ids : SUBSET Keyring!Ids, alone : BOOLEAN]
           /\ watched \subseteq Keyring!Addresses
BY DEF KeyringInv, IdsOnce, Keyring!TypeOK, Keyring!Range

LEMMA GotoFacts ==
    ASSUME KeyringInv, NEW c \in Calls, NEW s, Keyring!Goto(c, s)
    PROVE  /\ DOMAIN requests' = Calls /\ requests'[c] = s
           /\ \A d \in Calls : d # c => requests'[d] = requests[d]
BY TypeFacts DEF Keyring!Goto

LEMMA KeyringInitInv == ASSUME Keyring!SolanaKeyringAssumption, Keyring!Init PROVE KeyringInv
<1>1. /\ DOMAIN accounts = {} /\ DOMAIN deleted = {} /\ drawn = 0 /\ watched = {} /\ owned = {} /\ signed = {}
      /\ wanted = [ids |-> {}, alone |-> TRUE] /\ \A c \in Calls : requests[c] = Keyring!Idle
      /\ DOMAIN requests = Calls
  BY DEF Keyring!Init
<1>2. 1..0 = {} /\ 0 \in 0..MaxIds
  BY KeyringConstants
<1>3. Keyring!TypeOK
  BY <1>1, <1>2 DEF Keyring!TypeOK, Keyring!Range, Keyring!Call
<1>4. IdsOnce /\ WatchedWere /\ AloneHolds /\ Keyring!SignedAsAsked /\ \A c \in Calls : Holds(requests[c])
  BY <1>1, <1>2 DEF IdsOnce, WatchedWere, AloneHolds, Matches, Chosen, Selecting, Keyring!SignedAsAsked, Holds,
                    Keyring!Idle, Keyring!Unmixed
<1> QED  BY <1>3, <1>4 DEF KeyringInv

------------------------------------------------------------------------------
\* Accounts change by getting a new id or by being deleted.
Grows ==
    /\ drawn' \in 0..MaxIds /\ drawn <= drawn'
    /\ \A i \in DOMAIN accounts' : i \in 1..drawn => i \in DOMAIN accounts /\ accounts'[i] = accounts[i]
    /\ \A i \in DOMAIN accounts : i \in DOMAIN accounts' \/ (i \in DOMAIN deleted' /\ deleted'[i] = accounts[i])
    /\ \A i \in DOMAIN deleted : i \in DOMAIN deleted' /\ deleted'[i] = deleted[i]

LEMMA GrowsStays == ASSUME KeyringInv, UNCHANGED <<accounts, drawn, deleted>> PROVE Grows /\ IdsOnce'
BY TypeFacts DEF Grows, KeyringInv, IdsOnce

LEMMA WasStays == ASSUME Grows, KeyringInv, NEW a, Was(a) PROVE Was(a)'
<1>1. ASSUME NEW i \in DOMAIN accounts, accounts[i] = a PROVE Was(a)'
  <2>1. CASE i \in DOMAIN accounts'
    BY <1>1, <2>1, TypeFacts DEF Grows, Was
  <2>2. CASE i \notin DOMAIN accounts'
    BY <1>1, <2>2 DEF Grows, Was
  <2> QED  BY <2>1, <2>2
<1>2. ASSUME NEW i \in DOMAIN deleted, deleted[i] = a PROVE Was(a)'
  BY <1>2 DEF Grows, Was
<1> QED  BY <1>1, <1>2 DEF Was

LEMMA HoldsStays ==
    ASSUME Grows, KeyringInv, NEW s, Holds(s)
    PROVE  Holds(s)'
<1>1. 1..drawn \subseteq 1..drawn'
  BY TypeFacts DEF Grows
<1>2. s.pc = "watch" => \A a \in s.addresses : Was(a)'
  BY WasStays DEF Holds
<1>3. s.pc = "resolved" =>
         s.id \in 1..drawn' /\ (s.id \in DOMAIN accounts' => accounts'[s.id] = s.asked)
  BY <1>1 DEF Grows, Holds
<1> QED  BY <1>1, <1>2, <1>3 DEF Holds

\* The chosen accounts change only by being deleted.
LEMMA MatchesStays ==
    ASSUME Grows, KeyringInv, wanted.ids \subseteq 1..drawn, wanted' = wanted \/ wanted'.ids = wanted.ids,
           NEW W, Matches(W)
    PROVE  Matches(W)'
<1>1. wanted'.ids = wanted.ids
  OBVIOUS
<1>2. \A i \in Keyring!Ids : Chosen(i)' => Chosen(i) /\ accounts'[i] = accounts[i]
  BY <1>1 DEF Grows, Chosen
<1>3. \A i \in Keyring!Ids : Chosen(i)' => accounts'[i] \in W
  BY <1>2 DEF Matches
<1>4. ASSUME NEW a \in W
      PROVE  (\E i \in Keyring!Ids : Chosen(i)' /\ accounts'[i] = a) \/ \E i \in DOMAIN deleted' : deleted'[i] = a
  <2>1. ASSUME NEW i \in Keyring!Ids, Chosen(i), accounts[i] = a
        PROVE  (Chosen(i)' /\ accounts'[i] = a) \/ \E j \in DOMAIN deleted' : deleted'[j] = a
    <3>1. i \in DOMAIN accounts' => Chosen(i)'
      BY <1>1, <2>1 DEF Chosen
    <3> QED  BY <1>2, <2>1, <3>1 DEF Grows, Chosen
  <2> QED  BY <2>1 DEF Matches, Grows
<1> QED  BY <1>3, <1>4 DEF Matches

\* Steps that move one call on, and neither select nor watch.
LEMMA CallMoves ==
    ASSUME KeyringInv, NEW c \in Calls, NEW s \in Keyring!Call, Keyring!Goto(c, s), Holds(s),
           ~Selecting(c), s.pc \notin {"select", "watch"},
           UNCHANGED <<accounts, owned, watched, wanted, drawn, deleted>>,
           signed' \subseteq Keyring!Signature, Keyring!SignedAsAsked'
    PROVE  KeyringInv'
<1>1. Keyring!TypeOK'
  BY GotoFacts DEF KeyringInv, Keyring!TypeOK
<1>2. Grows /\ IdsOnce'
  BY GrowsStays
<1>3. \A d \in Calls : Holds(requests[d])'
  <2> SUFFICES ASSUME NEW d \in Calls PROVE Holds(requests[d])'
    OBVIOUS
  <2>1. requests'[d] = s \/ requests'[d] = requests[d]
    BY GotoFacts
  <2> QED  BY <2>1 DEF Holds, Was, KeyringInv
<1>4. WatchedWere'
  BY DEF KeyringInv, WatchedWere, Was
<1>5. AloneHolds'
  <2>1. \A d \in Calls : (Selecting(d)' <=> Selecting(d)) /\ (Selecting(d) => requests'[d] = requests[d])
    BY GotoFacts DEF Selecting
  <2>2. \A W : Matches(W)' <=> Matches(W)
    BY DEF Matches, Chosen
  <2>3. AloneHolds
    BY DEF KeyringInv
  <2>4. \A d \in Calls : requests'[d].pc \in {"select", "watch"} => requests'[d] = requests[d]
    BY <2>1 DEF Selecting
  <2> QED  BY <2>1, <2>2, <2>3, <2>4 DEF AloneHolds
<1> QED  BY <1>1, <1>2, <1>3, <1>4, <1>5 DEF KeyringInv

\* Steps of the accounts that leave the watching and the signing alone.
LEMMA AccountsMove ==
    ASSUME Keyring!SolanaKeyringAssumption, KeyringInv, Grows, IdsOnce',
           \A i \in DOMAIN accounts' : accounts'[i] \in Keyring!Addresses,
           \A i \in DOMAIN deleted' : deleted'[i] \in Keyring!Addresses,
           owned' \subseteq owned, UNCHANGED <<watched, signed>>,
           wanted' \in [ids : SUBSET Keyring!Ids, alone : BOOLEAN], wanted'.ids = wanted.ids,
           wanted'.alone => wanted.alone /\ Keyring!Unmixed(accounts'),
           DOMAIN requests' = Calls,
           \A d \in Calls : requests'[d] = requests[d]
                            \/ (requests'[d] \in Keyring!Call /\ Holds(requests[d])' /\ ~Selecting(d) /\ ~Selecting(d)')
    PROVE  KeyringInv'
<1>t. Keyring!TypeOK
  BY DEF KeyringInv
<1>1. Keyring!TypeOK'
  <2>1. DOMAIN accounts' \subseteq Keyring!Ids /\ DOMAIN deleted' \subseteq Keyring!Ids
    <3>1. 1..drawn' \subseteq 1..MaxIds
      BY KeyringConstants DEF Grows
    <3> QED  BY <3>1 DEF IdsOnce, Keyring!Ids
  <2>2. \A d \in Calls : requests'[d] \in Keyring!Call
    BY <1>t DEF Keyring!TypeOK
  <2>3. Keyring!Range(accounts)' \subseteq Keyring!Addresses /\ Keyring!Range(deleted)' \subseteq Keyring!Addresses
    BY DEF Keyring!Range
  <2> QED  BY <1>t, <2>1, <2>2, <2>3 DEF Keyring!TypeOK, Grows
<1>2. \A d \in Calls : Holds(requests[d])'
  <2> SUFFICES ASSUME NEW d \in Calls PROVE Holds(requests[d])'
    OBVIOUS
  <2>1. CASE requests'[d] = requests[d]
    <3> DEFINE s == requests[d]
    <3>1. Holds(s)
      BY DEF KeyringInv
    <3>2. /\ s.pc \in {"discover", "save"} => s.found \subseteq 1..drawn'
          /\ s.pc = "created" => s.ids \subseteq 1..drawn'
          /\ s.pc = "watch" => \A a \in s.addresses : Was(a)'
          /\ s.pc = "resolved" => s.id \in 1..drawn' /\ (s.id \in DOMAIN accounts' => accounts'[s.id] = s.asked)
          /\ s.pc \in {"confirm", "sign"} => (s.routed => s.account = s.asked)
      BY <3>1, HoldsStays DEF Holds
    <3> QED  BY <2>1, <3>2 DEF Holds
  <2>2. CASE requests'[d] # requests[d]
    BY <2>2
  <2> QED  BY <2>1, <2>2
<1>3. WatchedWere'
  BY WasStays DEF KeyringInv, WatchedWere
<1>4. Keyring!SignedAsAsked'
  BY DEF KeyringInv, Keyring!SignedAsAsked
<1>5. AloneHolds'
  <2> SUFFICES ASSUME wanted'.alone PROVE AloneHolds'
    BY DEF AloneHolds
  <2>0. AloneHolds /\ wanted.alone
    BY DEF KeyringInv
  <2>1. \A d \in Calls : (Selecting(d)' <=> Selecting(d)) /\ (Selecting(d) => requests'[d] = requests[d])
    BY DEF Selecting
  <2>2. wanted.ids \subseteq 1..drawn /\ wanted'.ids \subseteq 1..drawn'
    BY <2>0, TypeFacts DEF AloneHolds, Grows
  <2>3. \A W : Matches(W) => Matches(W)'
    BY <2>2, MatchesStays
  <2>4. \A d \in Calls : requests'[d].pc \in {"select", "watch"} => requests'[d] = requests[d]
    BY <2>1 DEF Selecting
  <2>5. ASSUME NEW d \in Calls, requests'[d].pc = "watch"
        PROVE  Matches((watched \ requests[d].stop) \cup requests[d].addresses)'
    <3> DEFINE W == (watched \ requests[d].stop) \cup requests[d].addresses
    <3>1. requests'[d] = requests[d] /\ Matches(W)
      BY <2>0, <2>4, <2>5 DEF AloneHolds
    <3>2. W' = W
      BY <3>1
    <3> HIDE DEF W
    <3>3. /\ \A i \in Keyring!Ids : Chosen(i)' => accounts'[i] \in W
          /\ \A a \in W : (\E i \in Keyring!Ids : Chosen(i)' /\ accounts'[i] = a) \/ \E i \in DOMAIN deleted' : deleted'[i] = a
      BY <2>3, <3>1 DEF Matches
    <3>4. Matches(W)'
      BY <3>2, <3>3 DEF Matches
    <3> QED  BY <3>4 DEF W
  <2>6. (\A d \in Calls : ~Selecting(d)') => Matches(watched)'
    <3> SUFFICES ASSUME \A d \in Calls : ~Selecting(d)' PROVE Matches(watched)'
      OBVIOUS
    <3>1. Matches(watched)
      BY <2>0, <2>1 DEF AloneHolds
    <3>2. /\ \A i \in Keyring!Ids : Chosen(i)' => accounts'[i] \in watched
          /\ \A a \in watched : (\E i \in Keyring!Ids : Chosen(i)' /\ accounts'[i] = a) \/ \E i \in DOMAIN deleted' : deleted'[i] = a
      BY <2>3, <3>1 DEF Matches
    <3> QED  BY <3>2 DEF Matches
  <2>7. \A d, e \in Calls : Selecting(d)' /\ Selecting(e)' => d = e
    BY <2>0, <2>1 DEF AloneHolds
  <2>8. \A d \in Calls : requests'[d].pc = "select" => requests'[d].ids = wanted'.ids
    BY <2>0, <2>4 DEF AloneHolds
  <2> QED  BY <2>2, <2>5, <2>6, <2>7, <2>8 DEF AloneHolds
<1> QED  BY <1>1, <1>2, <1>3, <1>4, <1>5 DEF KeyringInv

------------------------------------------------------------------------------
\* Among ids that exist there is a last one.
LEMMA MaxFacts ==
    ASSUME NEW n \in Nat, NEW S \in SUBSET (1..n), S # {}
    PROVE  Keyring!Max(S) \in S
<1> DEFINE U(i) == {k \in S : k > i}
           T == {U(i) : i \in S}
           R == StrictSubsetOrdering(S)
<1>1. \A i \in S : U(i) \subseteq S /\ IsFiniteSet(U(i))
  <2>1. IsFiniteSet(1..n)
    BY FS_Interval
  <2>2. IsFiniteSet(S)
    BY <2>1, FS_Subset
  <2> QED  BY <2>2, FS_Subset
<1>2. T \subseteq FiniteSubsetsOf(S) /\ T # {}
  BY <1>1 DEF FiniteSubsetsOf
<1>3. IsWellFoundedOn(R, FiniteSubsetsOf(S))
  BY FS_StrictSubsetOrderingWellFounded
<1>4. PICK t \in T : \A u \in T : ~(<<u, t>> \in R)
  <2> HIDE DEF T, R
  <2> QED  BY <1>2, <1>3, WFMin
<1>5. PICK m \in S : t = U(m)
  OBVIOUS
<1>6. ASSUME NEW k \in S, k > m PROVE FALSE
  <2>1. S \subseteq Int
    OBVIOUS
  <2>2. (\A j \in S : j > k => j > m) /\ ~(k > k)
    BY <1>6, <2>1
  <2>3. U(k) \subseteq U(m) /\ k \in U(m) /\ k \notin U(k)
    BY <1>6, <2>2
  <2>4. <<U(k), U(m)>> \in R
    BY <1>1, <2>3 DEF StrictSubsetOrdering
  <2> QED  BY <1>4, <1>5, <2>4
<1>7. \A k \in S : m >= k
  BY <1>6
<1> QED  BY <1>7 DEF Keyring!Max

LEMMA ListStep ==
    ASSUME Keyring!SolanaKeyringAssumption, KeyringInv, NEW c \in Calls, NEW source \in Sources,
           NEW indexes \in SUBSET Keyring!Indexes, NEW type, Keyring!List(c, source, indexes, type)
    PROVE  KeyringInv'
<1> DEFINE seen == Keyring!Range(accounts) \cap ({source} \X indexes)
           found == {Keyring!Kept(a) : a \in seen}
           s == [pc |-> IF type = "bip44:discover" THEN "discover" ELSE "save", source |-> source,
                 indexes |-> indexes, seen |-> seen, found |-> found]
<1>1. ASSUME NEW a \in seen PROVE Keyring!Kept(a) \in 1..drawn
  <2> DEFINE S == {i \in DOMAIN accounts : accounts[i] = a}
  <2>1. drawn \in Nat /\ S \in SUBSET (1..drawn) /\ S # {}
    BY TypeFacts DEF Keyring!Range
  <2>2. Keyring!Kept(a) = Keyring!Max(S)
    BY DEF Keyring!Kept
  <2> HIDE DEF S
  <2> QED  BY <2>1, <2>2, MaxFacts
<1>2. found \subseteq 1..drawn
  BY <1>1
<1>3. seen \subseteq Keyring!Addresses /\ 1..drawn \subseteq Keyring!Ids
  BY TypeFacts, KeyringConstants DEF Keyring!Ids, Keyring!Addresses
<1>5. Keyring!Goto(c, s) /\ ~Selecting(c)
      /\ UNCHANGED <<accounts, owned, watched, wanted, drawn, deleted, signed>>
  BY DEF Keyring!List, Selecting, Keyring!Idle
<1> HIDE DEF seen, found
<1>6. s \in Keyring!Call /\ Holds(s) /\ s.pc \in {"discover", "save"}
  BY <1>2, <1>3 DEF Keyring!Call, Holds
<1> HIDE DEF s
<1> QED  BY <1>5, <1>6, CallMoves DEF KeyringInv, Keyring!TypeOK, Keyring!SignedAsAsked

\* Ends and moves that change the program counter alone.
LEMMA PcSteps ==
    ASSUME Keyring!SolanaKeyringAssumption, KeyringInv, NEW c \in Calls,
           \/ \E o \in {"active", "none", "failed"} : Keyring!Discover(c, o)
           \/ Keyring!Answer(c)
           \/ \E b \in BOOLEAN : Keyring!Confirm(c, b)
    PROVE  KeyringInv'
<1>1. requests[c] \in Keyring!Call /\ Holds(requests[c])
  BY TypeFacts DEF KeyringInv
<1>2. Keyring!Idle \in Keyring!Call /\ Holds(Keyring!Idle) /\ Keyring!Idle.pc = "idle"
  BY <1>1, CallStates DEF Keyring!Idle, Holds
<1>3. UNCHANGED <<accounts, owned, watched, wanted, drawn, deleted, signed>> /\ ~Selecting(c)
  BY DEF Keyring!Discover, Keyring!Answer, Keyring!Confirm, Selecting
<1>4. CASE Keyring!Finish(c)
  BY <1>2, <1>3, <1>4, CallMoves DEF KeyringInv, Keyring!TypeOK, Keyring!SignedAsAsked, Keyring!Finish
<1>5. CASE requests[c].pc = "discover" /\ Keyring!Goto(c, [requests[c] EXCEPT !.pc = "save"])
  <2> DEFINE s == [requests[c] EXCEPT !.pc = "save"]
  <2>1. requests[c] \in Lists
    BY <1>1, <1>5, CallStates
  <2>2. s \in Lists /\ s.found = requests[c].found /\ s.pc = "save"
    BY <2>1 DEF Lists
  <2> HIDE DEF s
  <2>3. s \in Keyring!Call /\ Holds(s)
    BY <1>1, <1>5, <2>2, CallStates DEF Holds
  <2> QED  BY <1>3, <1>5, <2>2, <2>3, CallMoves DEF KeyringInv, Keyring!TypeOK, Keyring!SignedAsAsked, s
<1>6. CASE requests[c].pc = "confirm" /\ Keyring!Goto(c, [requests[c] EXCEPT !.pc = "sign"])
  <2> DEFINE s == [requests[c] EXCEPT !.pc = "sign"]
  <2>1. requests[c] \in Asks
    BY <1>1, <1>6, CallStates
  <2>2. s \in Asks /\ s.pc = "sign" /\ s.routed = requests[c].routed /\ s.account = requests[c].account /\ s.asked = requests[c].asked
    BY <2>1 DEF Asks
  <2> HIDE DEF s
  <2>3. s \in Keyring!Call /\ Holds(s)
    BY <1>1, <1>6, <2>2, CallStates DEF Holds
  <2> QED  BY <1>3, <1>6, <2>2, <2>3, CallMoves DEF KeyringInv, Keyring!TypeOK, Keyring!SignedAsAsked, s
<1> QED  BY <1>4, <1>5, <1>6 DEF Keyring!Discover, Keyring!Answer, Keyring!Confirm

\* What a save writes: ids of its own, for the addresses that were not listed.
LEMMA SaveStep ==
    ASSUME Keyring!SolanaKeyringAssumption, KeyringInv, NEW c \in Calls, Keyring!Save(c)
    PROVE  KeyringInv'
<1> DEFINE new == ({requests[c].source} \X requests[c].indexes) \ requests[c].seen
           n   == Keyring!Cardinality(new)
<1>1. requests[c] \in Lists /\ Holds(requests[c]) /\ requests[c].pc = "save"
  BY TypeFacts, CallStates DEF Keyring!Save, KeyringInv
<1>2. new \subseteq Keyring!Addresses
  BY <1>1 DEF Lists, Keyring!Addresses
<1>3. n \in Nat
  <2>1. IsFiniteSet(requests[c].indexes)
    <3>1. IsFiniteSet(0..MaxIndex)
      BY KeyringConstants, FS_Interval
    <3> QED  BY <1>1, <3>1, FS_Subset DEF Lists, Keyring!Indexes
  <2>2. IsFiniteSet({requests[c].source} \X requests[c].indexes)
    BY <2>1, FS_Singleton, FS_Product
  <2>3. IsFiniteSet(new)
    BY <2>2, FS_Difference
  <2> HIDE DEF new
  <2> QED  BY <2>3, FS_CardinalityType, SameCardinality
<1> HIDE DEF n
<1>4. drawn + n <= MaxIds
  BY DEF Keyring!Save, n
<1>5. PICK fresh \in [(drawn + 1)..(drawn + n) -> new] :
        /\ accounts' = Keyring!merge(fresh) /\ drawn' = drawn + n
        /\ wanted' = [wanted EXCEPT !.alone = @ /\ Keyring!Unmixed(Keyring!merge(fresh))]
        /\ Keyring!Goto(c, [pc |-> "created", ids |-> requests[c].found \cup DOMAIN fresh])
  BY DEF Keyring!Save, n
<1> HIDE DEF new
<1>6. /\ DOMAIN accounts' = DOMAIN accounts \cup (drawn + 1)..(drawn + n)
      /\ \A i \in DOMAIN accounts' : accounts'[i] = IF i \in (drawn + 1)..(drawn + n) THEN fresh[i] ELSE accounts[i]
  BY <1>5 DEF Keyring!merge
<1>7. UNCHANGED <<owned, watched, deleted, signed>>
  BY DEF Keyring!Save
<1>d. drawn \in Nat /\ drawn' = drawn + n /\ drawn' \in 0..MaxIds
  BY <1>3, <1>4, <1>5, TypeFacts
<1>8. Grows
  <2>1. \A i \in 1..drawn : i \notin (drawn + 1)..(drawn + n)
    BY <1>3, <1>d
  <2>2. \A i \in DOMAIN accounts' : i \in 1..drawn => i \in DOMAIN accounts /\ accounts'[i] = accounts[i]
    BY <1>6, <2>1
  <2>3. drawn <= drawn'
    BY <1>3, <1>d
  <2>4. DOMAIN accounts \subseteq DOMAIN accounts'
    BY <1>6
  <2> QED  BY <1>7, <1>d, <2>2, <2>3, <2>4 DEF Grows
<1>9. IdsOnce'
  <2>1. 1..drawn' = 1..drawn \cup (drawn + 1)..(drawn + n)
    BY <1>3, <1>d
  <2>2. 1..drawn \cap (drawn + 1)..(drawn + n) = {}
    BY <1>3, <1>d
  <2> QED  BY <1>6, <1>7, <2>1, <2>2 DEF KeyringInv, IdsOnce
<1>10. \A i \in DOMAIN accounts' : accounts'[i] \in Keyring!Addresses
  BY <1>2, <1>5, <1>6, TypeFacts
<1>11. /\ wanted' \in [ids : SUBSET Keyring!Ids, alone : BOOLEAN] /\ wanted'.ids = wanted.ids
       /\ wanted'.alone => wanted.alone /\ Keyring!Unmixed(accounts')
  <2> DEFINE b == wanted.alone /\ Keyring!Unmixed(Keyring!merge(fresh))
  <2>1. wanted \in [ids : SUBSET Keyring!Ids, alone : BOOLEAN] /\ wanted' = [wanted EXCEPT !.alone = b] /\ b \in BOOLEAN
    BY <1>5, TypeFacts
  <2>2. b => wanted.alone /\ Keyring!Unmixed(accounts')
    BY <1>5
  <2> HIDE DEF b
  <2> QED  BY <2>1, <2>2
<1>12. DOMAIN requests' = Calls /\ \A d \in Calls : requests'[d] = requests[d]
             \/ (requests'[d] \in Keyring!Call /\ Holds(requests[d])' /\ ~Selecting(d) /\ ~Selecting(d)')
  <2> DEFINE s == [pc |-> "created", ids |-> requests[c].found \cup DOMAIN fresh]
  <2>1. requests[c].found \cup DOMAIN fresh \subseteq 1..drawn'
    BY <1>1, <1>3, <1>5, <1>d DEF Holds
  <2>2. s.ids \subseteq 1..drawn' /\ s.pc = "created"
    BY <2>1
  <2>3. s \in Keyring!Call
    <3>1. 1..drawn' \subseteq Keyring!Ids
      BY <1>d, KeyringConstants DEF Keyring!Ids
    <3> QED  BY <2>1, <3>1 DEF Keyring!Call
  <2>4. Keyring!Goto(c, s)
    BY <1>5
  <2> HIDE DEF s
  <2>5. DOMAIN requests' = Calls /\ requests'[c] = s /\ \A d \in Calls : d # c => requests'[d] = requests[d]
    BY <2>4, GotoFacts
  <2> QED  BY <1>1, <2>2, <2>3, <2>5 DEF Holds, Selecting
<1> QED  BY <1>7, <1>8, <1>9, <1>10, <1>11, <1>12, TypeFacts, AccountsMove

LEMMA DeleteStep ==
    ASSUME Keyring!SolanaKeyringAssumption, KeyringInv, NEW id \in Keyring!Ids, Keyring!deleteAccount(id)
    PROVE  KeyringInv'
<1>1. /\ DOMAIN accounts' = DOMAIN accounts \ {id} /\ \A i \in DOMAIN accounts' : accounts'[i] = accounts[i]
      /\ owned' \subseteq owned /\ UNCHANGED <<watched, wanted, drawn, requests, signed>>
      /\ DOMAIN deleted' = DOMAIN deleted \cup ({id} \cap DOMAIN accounts)
      /\ \A i \in DOMAIN deleted' : deleted'[i] = IF i \in DOMAIN deleted THEN deleted[i] ELSE accounts[i]
  BY DEF Keyring!deleteAccount
<1>2. IdsOnce
  BY DEF KeyringInv
<1>3. Grows
  BY <1>1, <1>2, TypeFacts DEF Grows, IdsOnce
<1>4. IdsOnce'
  BY <1>1, <1>2 DEF IdsOnce
<1>5. wanted.alone => Keyring!Unmixed(accounts)
  BY DEF KeyringInv, AloneHolds
<1>6. wanted'.alone => wanted.alone /\ Keyring!Unmixed(accounts')
  BY <1>1, <1>5 DEF Keyring!Unmixed
<1>7. /\ \A i \in DOMAIN accounts' : accounts'[i] \in Keyring!Addresses
      /\ \A i \in DOMAIN deleted' : deleted'[i] \in Keyring!Addresses
  BY <1>1, TypeFacts
<1> QED  BY <1>1, <1>3, <1>4, <1>6, <1>7, TypeFacts, AccountsMove

------------------------------------------------------------------------------
\* Selecting

LEMMA SelectStep ==
    ASSUME Keyring!SolanaKeyringAssumption, KeyringInv, NEW c \in Calls, NEW ids \in SUBSET Keyring!Ids,
           Keyring!setSelectedAccounts(c, ids)
    PROVE  KeyringInv'
<1> DEFINE s == [pc |-> "select", ids |-> ids]
           b == Keyring!Unmixed(accounts) /\ \A d \in Calls : requests[d].pc \notin {"select", "watch"}
<1>1. /\ Keyring!Goto(c, s) /\ wanted' = [ids |-> ids, alone |-> b] /\ ids \subseteq DOMAIN accounts
      /\ UNCHANGED <<accounts, owned, watched, drawn, deleted, signed>>
  BY DEF Keyring!setSelectedAccounts
<1>2. b \in BOOLEAN
  OBVIOUS
<1>3. s \in Keyring!Call /\ s.pc = "select" /\ s.ids = ids
  BY DEF Keyring!Call
<1> HIDE DEF s, b
<1>4. DOMAIN requests' = Calls /\ requests'[c] = s /\ \A d \in Calls : d # c => requests'[d] = requests[d]
  BY <1>1, GotoFacts
<1>5. Keyring!TypeOK'
  BY <1>1, <1>2, <1>3, <1>4 DEF KeyringInv, Keyring!TypeOK
<1>6. \A d \in Calls : Holds(requests[d])'
  <2> SUFFICES ASSUME NEW d \in Calls PROVE Holds(requests[d])'
    OBVIOUS
  <2>1. requests'[d] = s \/ requests'[d] = requests[d]
    BY <1>4
  <2> QED  BY <1>1, <1>3, <2>1 DEF Holds, Was, KeyringInv
<1>7. AloneHolds'
  <2> SUFFICES ASSUME wanted'.alone PROVE AloneHolds'
    BY DEF AloneHolds
  <2>1. b /\ wanted'.ids = ids
    BY <1>1
  <2>2. Keyring!Unmixed(accounts') /\ ids \subseteq 1..drawn'
    BY <1>1, <2>1, TypeFacts DEF b
  <2>3. \A d \in Calls : d # c => requests'[d].pc \notin {"select", "watch"}
    BY <1>4, <2>1 DEF b
  <2> QED  BY <1>3, <1>4, <2>1, <2>2, <2>3 DEF AloneHolds, Selecting
<1> QED  BY <1>1, <1>5, <1>6, <1>7 DEF KeyringInv, IdsOnce, WatchedWere, Was, Keyring!SignedAsAsked

\* The comparison of what is watched with what was chosen: what it leaves and adds is what the choice calls for.
LEMMA MonitorStep ==
    ASSUME Keyring!SolanaKeyringAssumption, KeyringInv, NEW c \in Calls, Keyring!setMonitoredAccounts(c)
    PROVE  KeyringInv'
<1> DEFINE current == {i \in DOMAIN accounts : accounts[i] \in watched}
           chosen  == requests[c].ids
           start   == (DOMAIN accounts \cap chosen) \ current
           stop    == Keyring!AddressesOf(current \ chosen)
           added   == Keyring!AddressesOf(start)
           s       == [pc |-> "watch", stop |-> stop, start |-> start, addresses |-> added]
<1>1. /\ requests[c].pc = "select" /\ Keyring!Goto(c, s)
      /\ UNCHANGED <<accounts, owned, watched, wanted, drawn, deleted, signed>>
  BY DEF Keyring!setMonitoredAccounts
<1>2. /\ \A a : a \in stop <=> \E i \in DOMAIN accounts : accounts[i] = a /\ a \in watched /\ i \notin chosen
      /\ \A a : a \in added <=> \E i \in DOMAIN accounts : accounts[i] = a /\ a \notin watched /\ i \in chosen
      /\ start \subseteq DOMAIN accounts
  BY DEF Keyring!AddressesOf
<1>p. s.pc = "watch" /\ s.stop = stop /\ s.start = start /\ s.addresses = added
  OBVIOUS
<1> HIDE DEF stop, added, start
<1>3. s \in Keyring!Call
  <2>1. stop \subseteq Keyring!Addresses /\ added \subseteq Keyring!Addresses
    BY <1>2, TypeFacts
  <2>2. start \subseteq Keyring!Ids
    BY <1>2 DEF KeyringInv, Keyring!TypeOK
  <2> QED  BY <2>1, <2>2 DEF Keyring!Call
<1> HIDE DEF s
<1>4. DOMAIN requests' = Calls /\ requests'[c] = s /\ \A d \in Calls : d # c => requests'[d] = requests[d]
  BY <1>1, GotoFacts
<1>5. Keyring!TypeOK'
  BY <1>1, <1>3, <1>4 DEF KeyringInv, Keyring!TypeOK
<1>6. \A d \in Calls : Holds(requests[d])'
  <2> SUFFICES ASSUME NEW d \in Calls PROVE Holds(requests[d])'
    OBVIOUS
  <2>1. CASE d = c
    BY <1>1, <1>2, <1>4, <1>p, <2>1 DEF Holds, Was
  <2>2. CASE d # c
    BY <1>1, <1>4, <2>2 DEF Holds, Was, KeyringInv
  <2> QED  BY <2>1, <2>2
<1>7. AloneHolds'
  <2> SUFFICES ASSUME wanted'.alone PROVE AloneHolds'
    BY DEF AloneHolds
  <2>1. /\ wanted' = wanted /\ chosen = wanted.ids /\ Keyring!Unmixed(accounts)
        /\ wanted.ids \subseteq 1..drawn /\ \A d \in Calls : Selecting(d) => d = c
    BY <1>1 DEF KeyringInv, AloneHolds, Selecting
  <2>2. Matches((watched \ stop) \cup added)
    <3>1. ASSUME NEW i \in Keyring!Ids, Chosen(i) PROVE accounts[i] \in (watched \ stop) \cup added
      <4>1. i \in DOMAIN accounts /\ i \in chosen
        BY <2>1, <3>1 DEF Chosen
      <4>2. accounts[i] \notin stop
        BY <1>2, <2>1, <4>1 DEF Keyring!Unmixed
      <4> QED  BY <1>2, <4>1, <4>2
    <3>2. ASSUME NEW a \in (watched \ stop) \cup added
          PROVE  (\E i \in Keyring!Ids : Chosen(i) /\ accounts[i] = a) \/ \E i \in DOMAIN deleted : deleted[i] = a
      <4>1. DOMAIN accounts \subseteq Keyring!Ids
        BY DEF KeyringInv, Keyring!TypeOK
      <4>2. CASE a \in added
        BY <1>2, <2>1, <4>1, <4>2 DEF Chosen
      <4>3. CASE a \in watched \ stop
        <5>1. Was(a)
          BY <4>3 DEF KeyringInv, WatchedWere
        <5>2. \A i \in DOMAIN accounts : accounts[i] = a => i \in chosen
          BY <1>2, <4>3
        <5> QED  BY <2>1, <4>1, <5>1, <5>2 DEF Was, Chosen
      <4> QED  BY <4>2, <4>3
    <3> QED  BY <3>1, <3>2 DEF Matches
  <2>3. Matches((watched \ requests[c].stop) \cup requests[c].addresses)'
    <3>1. requests'[c].stop = stop /\ requests'[c].addresses = added
      BY <1>4, <1>p
    <3> QED  BY <1>1, <2>2, <3>1 DEF Matches, Chosen
  <2>4. \A d \in Calls : Selecting(d)' => d = c
    BY <1>4, <2>1 DEF Selecting
  <2>5. requests'[c].pc = "watch"
    BY <1>4, <1>p
  <2> QED  BY <1>1, <2>1, <2>3, <2>4, <2>5 DEF AloneHolds, Selecting
<1> QED  BY <1>1, <1>5, <1>6, <1>7 DEF KeyringInv, IdsOnce, WatchedWere, Was, Keyring!SignedAsAsked

LEMMA WatchStep ==
    ASSUME Keyring!SolanaKeyringAssumption, KeyringInv, NEW c \in Calls, Keyring!Watch(c)
    PROVE  KeyringInv'
<1>1. /\ requests[c].pc = "watch" /\ Keyring!Goto(c, Keyring!Idle)
      /\ watched' = (watched \ requests[c].stop) \cup requests[c].addresses /\ owned' = owned \cup requests[c].start
      /\ UNCHANGED <<accounts, wanted, drawn, deleted, signed>>
  BY DEF Keyring!Watch, Keyring!Finish
<1>2. requests[c] \in Stops
  BY <1>1, TypeFacts, CallStates
<1>3. DOMAIN requests' = Calls /\ requests'[c] = Keyring!Idle /\ \A d \in Calls : d # c => requests'[d] = requests[d]
  BY <1>1, GotoFacts
<1>4. Keyring!Idle.pc = "idle" /\ Keyring!Idle \in Keyring!Call
  BY DEF Keyring!Idle, Keyring!Call
<1>5. Keyring!TypeOK'
  BY <1>1, <1>2, <1>3, <1>4 DEF KeyringInv, Keyring!TypeOK, Stops
<1>6. \A d \in Calls : Holds(requests[d])'
  <2> SUFFICES ASSUME NEW d \in Calls PROVE Holds(requests[d])'
    OBVIOUS
  <2>1. requests'[d] = Keyring!Idle \/ requests'[d] = requests[d]
    BY <1>3
  <2> QED  BY <1>1, <1>4, <2>1 DEF Holds, Was, KeyringInv
<1>7. WatchedWere'
  <2>1. Holds(requests[c]) /\ WatchedWere
    BY DEF KeyringInv
  <2> QED  BY <1>1, <2>1 DEF WatchedWere, Holds, Was
<1>8. AloneHolds'
  <2> SUFFICES ASSUME wanted'.alone PROVE AloneHolds'
    BY DEF AloneHolds
  <2>1. /\ Keyring!Unmixed(accounts) /\ wanted.ids \subseteq 1..drawn /\ \A d \in Calls : Selecting(d) => d = c
        /\ Matches((watched \ requests[c].stop) \cup requests[c].addresses)
    BY <1>1 DEF KeyringInv, AloneHolds, Selecting
  <2>2. \A d \in Calls : ~Selecting(d)'
    BY <1>3, <1>4, <2>1 DEF Selecting
  <2>3. Matches(watched)'
    BY <1>1, <2>1 DEF Matches, Chosen
  <2> QED  BY <1>1, <2>1, <2>2, <2>3 DEF AloneHolds, Selecting
<1> QED  BY <1>1, <1>5, <1>6, <1>7, <1>8 DEF KeyringInv, IdsOnce, Keyring!SignedAsAsked

------------------------------------------------------------------------------
\* Signing

LEMMA AskSteps ==
    ASSUME Keyring!SolanaKeyringAssumption, KeyringInv, NEW c \in Calls,
           \/ \E m \in Methods, a \in Keyring!Addresses : Keyring!resolveAccountAddress(c, m, a)
           \/ \E id \in Keyring!Ids, m \in Methods, a \in Keyring!Addresses : Keyring!submitRequest(c, id, m, a)
           \/ Keyring!SubmitRouted(c)
    PROVE  KeyringInv'
<1>0. requests[c] \in Keyring!Call /\ Holds(requests[c])
  BY TypeFacts DEF KeyringInv
<1>1. UNCHANGED <<accounts, owned, watched, wanted, drawn, deleted, signed>> /\ ~Selecting(c)
  <2>1. UNCHANGED <<accounts, owned, watched, wanted, drawn, deleted, signed>>
    BY DEF Keyring!resolveAccountAddress, Keyring!submitRequest, Keyring!SubmitRouted
  <2>2. requests[c] = Keyring!Idle \/ requests[c].pc = "resolved"
    BY DEF Keyring!resolveAccountAddress, Keyring!submitRequest, Keyring!SubmitRouted
  <2> QED  BY <2>1, <2>2 DEF Selecting, Keyring!Idle
<1>2. signed' \subseteq Keyring!Signature /\ Keyring!SignedAsAsked'
  BY <1>1 DEF KeyringInv, Keyring!TypeOK, Keyring!SignedAsAsked
<1>3. ASSUME NEW m \in Methods, NEW a \in Keyring!Addresses, Keyring!resolveAccountAddress(c, m, a) PROVE KeyringInv'
  <2>1. PICK id \in DOMAIN accounts :
          accounts[id] = a /\ Keyring!Goto(c, [pc |-> "resolved", method |-> m, id |-> id, asked |-> a])
    BY <1>3 DEF Keyring!resolveAccountAddress
  <2> DEFINE s == [pc |-> "resolved", method |-> m, id |-> id, asked |-> a]
  <2>2. id \in 1..drawn /\ id \in Keyring!Ids
    BY TypeFacts DEF KeyringInv, Keyring!TypeOK
  <2>3. s \in Keyring!Call /\ Holds(s) /\ s.pc = "resolved"
    BY <2>1, <2>2 DEF Keyring!Call, Holds
  <2> HIDE DEF s
  <2> QED  BY <1>1, <1>2, <2>1, <2>3, CallMoves DEF s
<1>4. ASSUME NEW id \in DOMAIN accounts, NEW m \in Methods, NEW a \in Keyring!Addresses, NEW routed \in BOOLEAN,
             routed => accounts[id] = a, Keyring!AskFor(c, id, m, a, routed)
      PROVE  KeyringInv'
  <2> DEFINE s == [pc |-> "confirm", method |-> m, id |-> id, account |-> accounts[id], asked |-> a, routed |-> routed]
  <2>1. Keyring!Goto(c, s)
    BY <1>4 DEF Keyring!AskFor
  <2>2. accounts[id] \in Keyring!Addresses /\ id \in Keyring!Ids
    BY TypeFacts DEF KeyringInv, Keyring!TypeOK
  <2>3. s \in Asks /\ s.pc = "confirm" /\ s.routed = routed /\ s.account = accounts[id] /\ s.asked = a
    BY <2>2 DEF Asks
  <2> HIDE DEF s
  <2>4. s \in Keyring!Call /\ Holds(s)
    BY <1>0, <1>4, <2>3, CallStates DEF Holds
  <2> QED  BY <1>1, <1>2, <2>1, <2>3, <2>4, CallMoves
<1>5. ASSUME NEW id \in Keyring!Ids, NEW m \in Methods, NEW a \in Keyring!Addresses, Keyring!submitRequest(c, id, m, a)
      PROVE  KeyringInv'
  BY <1>4, <1>5 DEF Keyring!submitRequest
<1>6. CASE Keyring!SubmitRouted(c)
  <2>1. requests[c].pc = "resolved" /\ requests[c] \in Routes
    BY <1>0, <1>6, CallStates DEF Keyring!SubmitRouted
  <2>2. CASE requests[c].id \in DOMAIN accounts
    <3>1. accounts[requests[c].id] = requests[c].asked
      BY <1>0, <2>1, <2>2 DEF Holds
    <3>2. Keyring!AskFor(c, requests[c].id, requests[c].method, requests[c].asked, TRUE)
      BY <1>6, <2>2 DEF Keyring!SubmitRouted
    <3>3. requests[c].method \in Methods /\ requests[c].asked \in Keyring!Addresses /\ TRUE \in BOOLEAN
      BY <2>1 DEF Routes
    <3> QED  BY <1>4, <2>2, <3>1, <3>2, <3>3
  <2>3. CASE requests[c].id \notin DOMAIN accounts
    <3>1. Keyring!Goto(c, Keyring!Idle)
      BY <1>6, <2>3 DEF Keyring!SubmitRouted, Keyring!Finish
    <3>2. Keyring!Idle \in Keyring!Call /\ Holds(Keyring!Idle) /\ Keyring!Idle.pc = "idle"
      BY <1>0, CallStates DEF Keyring!Idle, Holds
    <3> QED  BY <1>1, <1>2, <3>1, <3>2, CallMoves
  <2> QED  BY <2>2, <2>3
<1> QED  BY <1>3, <1>5, <1>6

LEMMA SignStep ==
    ASSUME Keyring!SolanaKeyringAssumption, KeyringInv, NEW c \in Calls, Keyring!Sign(c)
    PROVE  KeyringInv'
<1>1. /\ requests[c].pc = "sign" /\ Keyring!Goto(c, Keyring!Idle) /\ ~Selecting(c)
      /\ UNCHANGED <<accounts, owned, watched, wanted, drawn, deleted>>
  BY DEF Keyring!Sign, Keyring!Finish, Selecting
<1>2. requests[c] \in Asks /\ Holds(requests[c])
  BY <1>1, TypeFacts, CallStates DEF KeyringInv
<1>3. Keyring!Idle \in Keyring!Call /\ Holds(Keyring!Idle) /\ Keyring!Idle.pc = "idle"
  BY DEF Keyring!Idle, Holds, Keyring!Call
<1> DEFINE s == [method |-> requests[c].method, asked |-> requests[c].asked, account |-> requests[c].account,
                 key |-> requests[c].account, agreed |-> TRUE, routed |-> requests[c].routed]
<1>4. s \in Keyring!Signature
  BY <1>2 DEF Asks, Keyring!Signature
<1>5. signed' = signed \/ (Keyring!validateAccountAddress(requests[c]) /\ signed' = {s})
  BY DEF Keyring!Sign, Keyring!deriveSolanaKeypair
<1>6. signed' \subseteq Keyring!Signature
  <2> HIDE DEF s
  <2> QED  BY <1>4, <1>5 DEF KeyringInv, Keyring!TypeOK
<1>7. Keyring!SignedAsAsked'
  <2>1. CASE signed' = signed
    BY <2>1 DEF KeyringInv, Keyring!SignedAsAsked
  <2>2. CASE Keyring!validateAccountAddress(requests[c]) /\ signed' = {s}
    <3>1. /\ s.key = s.account /\ s.agreed
          /\ s.routed => s.account = s.asked
          /\ s.method \in {"signTransaction", "signMessage"} => s.asked = s.account
      BY <1>1, <1>2, <2>2 DEF Holds, Keyring!validateAccountAddress
    <3> HIDE DEF s
    <3> QED  BY <2>2, <3>1 DEF Keyring!SignedAsAsked
  <2> QED  BY <1>5, <2>1, <2>2
<1> QED  BY <1>1, <1>3, <1>6, <1>7, CallMoves

LEMMA ExportStep ==
    ASSUME Keyring!SolanaKeyringAssumption, KeyringInv, NEW id \in Keyring!Ids, Keyring!exportAccount(id)
    PROVE  KeyringInv'
<1> DEFINE s == [method |-> "exportAccount", asked |-> accounts[id], account |-> accounts[id],
                 key |-> accounts[id], agreed |-> FALSE, routed |-> FALSE]
<1>1. /\ id \in DOMAIN accounts /\ signed' = {s}
      /\ UNCHANGED <<accounts, owned, watched, wanted, drawn, deleted, requests>>
  BY DEF Keyring!exportAccount, Keyring!deriveSolanaKeypair
<1>2. s \in Keyring!Signature
  BY <1>1, TypeFacts DEF Keyring!Signature
<1>3. Keyring!SignedAsAsked'
  BY <1>1, KeyringConstants DEF Keyring!SignedAsAsked
<1> HIDE DEF s
<1>4. Keyring!TypeOK'
  BY <1>1, <1>2 DEF KeyringInv, Keyring!TypeOK
<1>5. AloneHolds'
  BY <1>1 DEF KeyringInv, AloneHolds, Matches, Chosen, Selecting
<1>6. \A c \in Calls : Holds(requests[c])'
  BY <1>1 DEF KeyringInv, Holds, Was
<1> QED  BY <1>1, <1>3, <1>4, <1>5, <1>6 DEF KeyringInv, IdsOnce, WatchedWere, Was

LEMMA KeyringStep ==
    ASSUME Keyring!SolanaKeyringAssumption, KeyringInv, [Keyring!Next]_(Keyring!keyringVars) PROVE KeyringInv'
<1>1. CASE UNCHANGED Keyring!keyringVars
  <2>1. UNCHANGED <<accounts, owned, watched, wanted, drawn, deleted, requests, signed>>
    BY <1>1 DEF Keyring!keyringVars
  <2>2. Keyring!TypeOK' /\ IdsOnce' /\ WatchedWere' /\ Keyring!SignedAsAsked'
    BY <2>1 DEF KeyringInv, Keyring!TypeOK, IdsOnce, WatchedWere, Was, Keyring!SignedAsAsked
  <2>3. AloneHolds'
    BY <2>1 DEF KeyringInv, AloneHolds, Matches, Chosen, Selecting
  <2>4. \A c \in Calls : Holds(requests[c])'
    BY <2>1 DEF KeyringInv, Holds, Was
  <2> QED  BY <2>2, <2>3, <2>4 DEF KeyringInv
<1>2. ASSUME NEW c \in Calls, Keyring!Creating(c) PROVE KeyringInv'
  BY <1>2, ListStep, PcSteps, SaveStep DEF Keyring!Creating
<1>3. ASSUME NEW c \in Calls, Keyring!Watching(c) PROVE KeyringInv'
  BY <1>3, SelectStep, MonitorStep, WatchStep DEF Keyring!Watching
<1>4. ASSUME NEW c \in Calls, Keyring!Signing(c) PROVE KeyringInv'
  BY <1>4, AskSteps, PcSteps, SignStep DEF Keyring!Signing
<1> QED  BY <1>1, <1>2, <1>3, <1>4, DeleteStep, ExportStep DEF Keyring!Next

LEMMA KeyringCorrect == ASSUME Keyring!SolanaKeyringAssumption PROVE Keyring!Spec => []KeyringInv
<1>1. Keyring!Init => KeyringInv
  BY KeyringInitInv
<1>2. KeyringInv /\ [Keyring!Next]_(Keyring!keyringVars) => KeyringInv'
  BY KeyringStep
<1> QED  BY <1>1, <1>2, PTL DEF Keyring!Spec

\* An account leaves the state by deletion only, and what createAccounts answers exists unless it was deleted, however
\* the calls that create accounts overlap with each other and with deletions (createAccounts, setKeyWith, deleteAccount).
THEOREM AccountsStayed ==
    ASSUME Keyring!SolanaKeyringAssumption PROVE Keyring!Spec => [](Keyring!TypeOK /\ Keyring!AccountsStay)
<1>1. KeyringInv => Keyring!TypeOK /\ Keyring!AccountsStay
  BY DEF KeyringInv, IdsOnce, Holds, Keyring!AccountsStay
<1> QED  BY <1>1, KeyringCorrect, PTL

\* A selection that nothing overlapped ends with exactly the accounts it names being watched, among those that exist
\* (setSelectedAccounts, setMonitoredAccounts).
THEOREM SelectionHeld == ASSUME Keyring!SolanaKeyringAssumption PROVE Keyring!Spec => []Keyring!SelectionHolds
<1>1. KeyringInv => Keyring!SelectionHolds
  <2> SUFFICES ASSUME KeyringInv, wanted.alone, \A c \in Calls : requests[c].pc \notin {"select", "watch"}
               PROVE  /\ Keyring!AddressesOf(wanted.ids) \subseteq watched
                      /\ watched \subseteq Keyring!AddressesOf(wanted.ids) \cup Keyring!Range(deleted)
    BY DEF Keyring!SelectionHolds
  <2>1. Matches(watched)
    BY DEF KeyringInv, AloneHolds, Selecting
  <2>2. DOMAIN accounts \subseteq Keyring!Ids
    BY DEF KeyringInv, Keyring!TypeOK
  <2> QED  BY <2>1, <2>2 DEF Matches, Chosen, Keyring!AddressesOf, Keyring!Range
<1> QED  BY <1>1, KeyringCorrect, PTL

\* Transactions and messages are signed by the key of the address the request names, that of the account the user was
\* shown, and so is whatever was resolved for the address it names (submitRequest, resolveAccountAddress).
THEOREM SignedForAsked == ASSUME Keyring!SolanaKeyringAssumption PROVE Keyring!Spec => []Keyring!SignedAsAsked
<1>1. KeyringInv => Keyring!SignedAsAsked
  BY DEF KeyringInv
<1> QED  BY <1>1, KeyringCorrect, PTL

==============================================================================
