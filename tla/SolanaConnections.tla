--------------------------- MODULE SolanaConnections ---------------------------
\* The web sockets of the Solana snap (WebSocketConnectionService).
\*
\* The client keeps the sockets; the snap asks for them to be opened when the
\* client becomes active, leaves them open for a grace period when it becomes
\* inactive, through a background event that the next activation cancels, and
\* reopens one that broke, after a growing delay and at most MaxAttempts times
\* in a row. The handlers of the client's events are asynchronous: at every
\* await another one may run, unless the client waits for one to return before
\* it calls the next (Isolated). Events of the sockets come at any time.
EXTENDS Naturals, FiniteSets

CONSTANTS
    Networks,       \* the active networks, one socket each
    Handlers,       \* calls of the snap that may be in progress
    EventIds,       \* ids of background events
    NoEvent,        \* the id where there is none
    MaxAttempts,    \* maxReconnectAttempts
    Isolated,       \* lifecycle handlers and the close job never overlap
    MaxRestarts,    \* bound on restarts of the extension
    MaxPending      \* bound on reconnections in progress when an event comes

ASSUME ConnectionAssumption ==
    /\ NoEvent \notin EventIds
    /\ MaxAttempts \in Nat /\ MaxRestarts \in Nat /\ MaxPending \in Nat
    /\ Isolated \in BOOLEAN

VARIABLES
    active,     \* the client is open
    up,         \* the network can be reached
    restarts,   \* extension restarts so far
    scheduled,  \* background events the client has yet to fire
    stored,     \* state: closeWebSocketConnectionsBackgroundEventId
    open,       \* the networks with an open socket
    retry,      \* #retryAttempts of each network
    opening,    \* calls of openConnection an activation made, in progress
    broken,     \* close events not handled yet
    timers,     \* reconnections waiting for their delay
    welcome,    \* networks whose socket's open event is not handled yet
    pc,         \* what each handler does next
    next,       \* where each handler goes once the old event is cancelled
    held,       \* the event id each handler read or was given
    list        \* the sockets each handler has yet to close

client  == <<active, up, restarts>>
job     == <<scheduled, stored>>
sockets == <<open, retry, opening, broken, timers, welcome>>
calls   == <<pc, next, held, list>>
vars    == <<client, job, sockets, calls>>

Steps == {"idle", "read", "cancel", "forget", "schedule", "store",
          "status", "open", "list", "close", "clear"}

Init ==
    /\ active = FALSE /\ up = TRUE /\ restarts = 0
    /\ scheduled = {} /\ stored = NoEvent
    /\ open = {} /\ welcome = {}
    /\ retry   = [n \in Networks |-> 0]
    /\ opening = [n \in Networks |-> 0]
    /\ broken  = [n \in Networks |-> 0]
    /\ timers  = [n \in Networks |-> 0]
    /\ pc   = [h \in Handlers |-> "idle"]
    /\ next = [h \in Handlers |-> "idle"]
    /\ held = [h \in Handlers |-> NoEvent]
    /\ list = [h \in Handlers |-> {}]

Plus(f, n)  == [f EXCEPT ![n] = @ + 1]
Minus(f, n) == [f EXCEPT ![n] = @ - 1]

Goto(h, step) == pc' = [pc EXCEPT ![h] = step]

Quiet == \A h \in Handlers : pc[h] = "idle"

\* The client can call the snap: some call is free, and under Isolated all are.
Free(h) == pc[h] = "idle" /\ (Isolated => Quiet)

\* Few enough reconnections are under way.
Room == \A n \in Networks : opening[n] + broken[n] + timers[n] < MaxPending

-----------------------------------------------------------------------------

\* The user opens the client: onActive.
Activate(h) ==
    /\ ~active /\ Free(h) /\ Room
    /\ active' = TRUE
    /\ Goto(h, "read")
    /\ next' = [next EXCEPT ![h] = "open"]
    /\ UNCHANGED <<up, restarts, job, sockets, held, list>>

\* The user closes the client: onInactive.
Deactivate(h) ==
    /\ active /\ Free(h) /\ Room
    /\ active' = FALSE
    /\ Goto(h, "read")
    /\ next' = [next EXCEPT ![h] = "schedule"]
    /\ UNCHANGED <<up, restarts, job, sockets, held, list>>

\* The client fires the event: closeWebSocketConnections runs. The grace period
\* outlasts the calls of openConnection that came before it.
JobFires(h) ==
    /\ Free(h)
    /\ \A n \in Networks : opening[n] = 0
    /\ \E e \in scheduled : scheduled' = scheduled \ {e}
    /\ Goto(h, "list")
    /\ UNCHANGED <<client, stored, sockets, next, held, list>>

\* The extension restarts, with the client open or not, and calls onStart. The
\* sockets, the running calls and the snap's memory are lost; its state and the
\* background events are not.
Restart(h) ==
    /\ restarts < MaxRestarts
    /\ restarts' = restarts + 1
    /\ active' \in BOOLEAN
    /\ open' = {} /\ welcome' = {}
    /\ retry'   = [n \in Networks |-> 0]
    /\ opening' = [n \in Networks |-> 0]
    /\ broken'  = [n \in Networks |-> 0]
    /\ timers'  = [n \in Networks |-> 0]
    /\ pc'   = [g \in Handlers |-> IF g = h THEN "status" ELSE "idle"]
    /\ next' = [g \in Handlers |-> "idle"]
    /\ held' = [g \in Handlers |-> NoEvent]
    /\ list' = [g \in Handlers |-> {}]
    /\ UNCHANGED <<up, job>>

-----------------------------------------------------------------------------

\* #cancelCloseConnectionsBackgroundEvent reads the stored id; without one it
\* still goes through its finally block.
ReadEvent(h) ==
    /\ pc[h] = "read"
    /\ held' = [held EXCEPT ![h] = stored]
    /\ Goto(h, IF stored = NoEvent THEN "forget" ELSE "cancel")
    /\ UNCHANGED <<client, job, sockets, next, list>>

\* Faulty variant: the event is left to fire.
CancelNothing(h) ==
    /\ pc[h] = "cancel"
    /\ held' = [held EXCEPT ![h] = NoEvent]
    /\ Goto(h, "forget")
    /\ UNCHANGED <<client, job, sockets, next, list>>

\* snap_cancelBackgroundEvent; an event that has fired already is no longer
\* there, and the error is caught.
CancelEvent(h) ==
    /\ pc[h] = "cancel"
    /\ scheduled' = scheduled \ {held[h]}
    /\ held' = [held EXCEPT ![h] = NoEvent]
    /\ Goto(h, "forget")
    /\ UNCHANGED <<client, stored, sockets, next, list>>

\* The finally block.
ForgetEvent(h) ==
    /\ pc[h] = "forget"
    /\ stored' = NoEvent
    /\ Goto(h, next[h])
    /\ next' = [next EXCEPT ![h] = "idle"]
    /\ UNCHANGED <<client, scheduled, sockets, held, list>>

\* #handleOnInactive asks for the background event ...
Schedule(h) ==
    /\ pc[h] = "schedule"
    /\ \E e \in EventIds \ scheduled :
        /\ e # stored /\ \A g \in Handlers : e # held[g]
        /\ scheduled' = scheduled \cup {e}
        /\ held' = [held EXCEPT ![h] = e]
    /\ Goto(h, "store")
    /\ UNCHANGED <<client, stored, sockets, next, list>>

\* Faulty variant: the id is not stored.
StoreEventNowhere(h) ==
    /\ pc[h] = "store"
    /\ held' = [held EXCEPT ![h] = NoEvent]
    /\ Goto(h, "idle")
    /\ UNCHANGED <<client, job, sockets, next, list>>

\* ... and stores its id.
StoreEvent(h) ==
    /\ pc[h] = "store"
    /\ stored' = held[h]
    /\ held' = [held EXCEPT ![h] = NoEvent]
    /\ Goto(h, "idle")
    /\ UNCHANGED <<client, scheduled, sockets, next, list>>

\* #setupConnections asks the client whether it is open.
Setup(h) ==
    /\ pc[h] = "status"
    /\ Goto(h, IF active THEN "open" ELSE "list")
    /\ UNCHANGED <<client, job, sockets, next, held, list>>

\* #openConnectionsForActiveNetworks starts over with the attempts and calls
\* openConnection for every network.
OpenAll(h) ==
    /\ pc[h] = "open"
    /\ retry' = [n \in Networks |-> 0]
    /\ opening' = [n \in Networks |-> opening[n] + 1]
    /\ Goto(h, "idle")
    /\ UNCHANGED <<client, job, open, broken, timers, welcome, next, held, list>>

\* closeAllConnections lists the sockets,
ListSockets(h) ==
    /\ pc[h] = "list"
    /\ list' = [list EXCEPT ![h] = open]
    /\ Goto(h, "close")
    /\ UNCHANGED <<client, job, sockets, next, held>>

\* closes each of them, if it is still there,
CloseSocket(h) ==
    /\ pc[h] = "close"
    /\ \E n \in list[h] :
        /\ list' = [list EXCEPT ![h] = @ \ {n}]
        /\ open' = open \ {n}
        /\ welcome' = welcome \ {n}
    /\ UNCHANGED <<client, job, retry, opening, broken, timers, pc, next, held>>

\* and clears the stored id.
ClearEvent(h) ==
    \/ /\ pc[h] = "close" /\ list[h] = {}
       /\ Goto(h, "clear")
       /\ UNCHANGED <<client, job, sockets, next, held, list>>
    \/ /\ pc[h] = "clear"
       /\ stored' = NoEvent
       /\ Goto(h, "idle")
       /\ UNCHANGED <<client, scheduled, sockets, next, held, list>>

-----------------------------------------------------------------------------

\* openConnection: nothing to do with a socket already there; else the client
\* opens one and reports it open, or fails and reports it closed. Reading the
\* sockets and opening one are two requests, but the client refuses a second
\* socket to one URL, so a socket opened in between makes the call do nothing.
Connect(n) ==
    IF n \in open THEN UNCHANGED <<open, welcome, broken>>
    ELSE IF up
    THEN open' = open \cup {n} /\ welcome' = welcome \cup {n} /\ UNCHANGED broken
    ELSE UNCHANGED <<open, welcome>> /\ broken' = Plus(broken, n)

\* A call an activation made.
OpenConnection(n) ==
    /\ opening[n] > 0
    /\ opening' = Minus(opening, n)
    /\ Connect(n)
    /\ UNCHANGED <<client, job, retry, timers, calls>>

\* #handleConnected: the attempts start over.
Connected(n) ==
    /\ n \in welcome
    /\ welcome' = welcome \ {n}
    /\ retry' = [retry EXCEPT ![n] = 0]
    /\ UNCHANGED <<client, job, open, opening, broken, timers, calls>>

\* Faulty variant: the count goes on past the limit, and so do the attempts.
DisconnectedUncapped(n) ==
    /\ broken[n] > 0
    /\ broken' = Minus(broken, n)
    /\ retry' = Plus(retry, n)
    /\ timers' = IF retry[n] <= MaxAttempts THEN Plus(timers, n) ELSE timers
    /\ UNCHANGED <<client, job, open, opening, welcome, calls>>

\* Faulty variant: the number of attempts is not looked at.
DisconnectedAlways(n) ==
    /\ broken[n] > 0
    /\ broken' = Minus(broken, n)
    /\ retry' = [retry EXCEPT ![n] = IF @ > MaxAttempts THEN @ ELSE @ + 1]
    /\ timers' = Plus(timers, n)
    /\ UNCHANGED <<client, job, open, opening, welcome, calls>>

\* Faulty variant: gives up one attempt early.
DisconnectedEarly(n) ==
    /\ broken[n] > 0
    /\ broken' = Minus(broken, n)
    /\ retry' = [retry EXCEPT ![n] = IF @ > MaxAttempts THEN @ ELSE @ + 1]
    /\ timers' = IF retry[n] + 1 >= MaxAttempts THEN timers ELSE Plus(timers, n)
    /\ UNCHANGED <<client, job, open, opening, welcome, calls>>

\* #handleDisconnected, for a close that was not clean, up to the delay of
\* #attemptReconnect; past MaxAttempts the count no longer matters.
Disconnected(n) ==
    /\ broken[n] > 0
    /\ broken' = Minus(broken, n)
    /\ retry' = [retry EXCEPT ![n] = IF @ > MaxAttempts THEN @ ELSE @ + 1]
    /\ timers' = IF retry[n] < MaxAttempts THEN Plus(timers, n) ELSE timers
    /\ UNCHANGED <<client, job, open, opening, welcome, calls>>

\* The delay is over: openConnection is called, whether or not the client is
\* still open.
TimerFires(n) ==
    /\ timers[n] > 0
    /\ timers' = Minus(timers, n)
    /\ Connect(n)
    /\ UNCHANGED <<client, job, retry, opening, calls>>

\* A socket breaks. Its open event, if still on the way, will find no socket.
Drop(n) ==
    /\ n \in open
    /\ open' = open \ {n}
    /\ welcome' = welcome \ {n}
    /\ broken' = Plus(broken, n)
    /\ UNCHANGED <<client, job, retry, opening, timers, calls>>

\* The network goes down or comes back.
Reach ==
    /\ up' = ~up
    /\ UNCHANGED <<active, restarts, job, sockets, calls>>

-----------------------------------------------------------------------------

HandlerStep(h) ==
    \/ ReadEvent(h) \/ CancelEvent(h) \/ ForgetEvent(h)
    \/ Schedule(h) \/ StoreEvent(h)
    \/ Setup(h) \/ OpenAll(h)
    \/ ListSockets(h) \/ CloseSocket(h) \/ ClearEvent(h)

SocketStep(n) == OpenConnection(n) \/ Connected(n) \/ Disconnected(n) \/ TimerFires(n)

ClientStep(h) == Activate(h) \/ Deactivate(h) \/ Restart(h)

Next ==
    \/ \E h \in Handlers : HandlerStep(h) \/ ClientStep(h) \/ JobFires(h)
    \/ \E n \in Networks : SocketStep(n) \/ Drop(n)
    \/ Reach

Spec == Init /\ [][Next]_vars

-----------------------------------------------------------------------------

TypeOK ==
    /\ active \in BOOLEAN /\ up \in BOOLEAN /\ restarts \in 0 .. MaxRestarts
    /\ scheduled \in SUBSET EventIds
    /\ stored \in EventIds \cup {NoEvent}
    /\ open \in SUBSET Networks /\ welcome \in SUBSET open
    /\ retry \in [Networks -> 0 .. MaxAttempts + 1]
    /\ opening \in [Networks -> Nat]
    /\ broken \in [Networks -> Nat]
    /\ timers \in [Networks -> Nat]
    /\ pc \in [Handlers -> Steps]
    /\ next \in [Handlers -> {"idle", "open", "schedule"}]
    /\ held \in [Handlers -> EventIds \cup {NoEvent}]
    /\ list \in [Handlers -> SUBSET Networks]

\* The snap never closes a socket under the user's eyes,
\* neither by a job left over from an earlier inactivity nor by one that was
\* overtaken. (A broken socket is reported; one the snap closes is not reopened.)
KeptWhileActive ==
    [][\A n \in open \ open' :
          active => broken'[n] > broken[n] \/ restarts' > restarts]_vars

\* "... so that we can cancel it if the extension becomes active again": once the
\* calls have returned, no close job is ahead of an open client.
JobCancelled == Quiet /\ active => scheduled = {}

------------------------------------------------------------------------------
\* Calls, timers and events of sockets go on, and a scheduled job fires.
Fire == \E h \in Handlers : JobFires(h)

FairSpec ==
    /\ Spec
    /\ WF_vars(Fire)
    /\ \A h \in Handlers : WF_vars(HandlerStep(h))
    /\ \A n \in Networks : WF_vars(SocketStep(n))

\* The user, the network and the extension do nothing, and no open socket breaks.
CalmStep ==
    /\ UNCHANGED client
    /\ \A n \in open : broken'[n] = broken[n]

CalmsDown == <>[][CalmStep]_vars

\* "Attempts reconnection" until it works: an open client on a good network gets
\* its socket, unless it had used up its attempts before the network came back,
\* or a close job from before a restart of the extension is there to close it.
EventuallyConnected ==
    CalmsDown => <>[](active /\ up /\ restarts = 0 =>
                          \A n \in Networks : n \in open \/ retry[n] > MaxAttempts)

\* "Giving up": without a network the snap stops trying, also after a
\* restart of the extension.
EventuallyQuiet ==
    CalmsDown => <>[](~up => Quiet /\ \A n \in Networks : timers[n] = 0 /\ broken[n] = 0)
=============================================================================
