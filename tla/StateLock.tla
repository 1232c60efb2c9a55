------------------------------ MODULE StateLock ------------------------------
(***************************************************************************)
(* The persisted state of a snap and the lock around it: class State and   *)
(* class StateLock of snap-networks-utils.  Path operations (get, getKey,  *)
(* setKey, setKeyWith) may overlap each other; a blob operation (update,   *)
(* deleteKeys) has the state to itself.  Each step below ends where the    *)
(* code awaits; anything may run in between.                               *)
(***************************************************************************)
EXTENDS Naturals, FiniteSets

CONSTANTS
    Keys,
    Paths,
    Ops,
    NoOp,           \* "nobody": the owner of a free mutex
    IsolatedTurns   \* whether no other operation can complete while one is
                    \* between the isLocked() test and its registration

ASSUME PathsAssumption   == Paths \subseteq SUBSET Keys
ASSUME OpsAssumption     == IsFiniteSet(Ops) /\ NoOp \notin Ops
ASSUME TurnsAssumption   == IsolatedTurns \in BOOLEAN

VARIABLES
    store,          \* what snap_getState returns
    pc,             \* pc[o]: the await the call is at
    call,           \* call[o]: what was asked
    local,          \* local[o]: what the call has read
    admission,      \* owner of #operationAdmissionMutex
    writer,         \* owner of #regularStateWriteMutex
    locked,         \* #regularStateUpdateMutex.isLocked()
    releaser,       \* #releaseRegularStateUpdateMutex is not null
    pending         \* #pendingRegularStateUpdates

lockVars == <<admission, writer, locked, releaser, pending>>
vars     == <<store, pc, call, local, lockVars>>

\* The abstract state machine, and how this one's state maps to it: a call
\* counts as committed from the request that made it take effect.
Phase ==
    [o \in Ops |->
        CASE pc[o] = "idle" -> "idle"
          [] pc[o] \in {"wrote", "done"} -> "committed"
          [] pc[o] \in {"failed", "aborted"} -> "aborted"
          [] OTHER -> "pending"]
Seen == [o \in Ops |-> IF pc[o] \in {"wrote", "done"}
                       THEN local[o] ELSE [k \in Keys |-> {}]]

Abs == INSTANCE AtomicState WITH phase <- Phase, seen <- Seen

IsPath(o)   == call[o].kind \in Abs!PathKinds
IsBlob(o)   == call[o].kind \in Abs!BlobKinds
IsReader(o) == call[o].kind \in Abs!Readers
IsWriter(o) == call[o].kind \in {"setKey", "setKeyWith"}

Move(o, from, to) ==
    /\ pc[o] = from
    /\ pc' = [pc EXCEPT ![o] = to]

Init ==
    /\ store = [k \in Keys |-> {}]
    /\ pc = [o \in Ops |-> "idle"]
    /\ call = [o \in Ops |-> Abs!NoCall]
    /\ local = [o \in Ops |-> Abs!Unread]
    /\ admission = NoOp
    /\ writer = NoOp
    /\ locked = FALSE
    /\ releaser = FALSE
    /\ pending = 0

\* A caller invokes a method of State: path writes queue for the write
\* mutex, everything else for the admission mutex.
Invoke(o) ==
    /\ \E c \in Abs!Calls :
          /\ call' = [call EXCEPT ![o] = c]
          /\ Move(o, "idle", IF c.kind \in {"setKey", "setKeyWith"}
                             THEN "queueWrite" ELSE "queueAdmission")
    /\ UNCHANGED <<store, local, lockVars>>

\* Faulty variant: path writes that do not exclude each other.
LockWritesShared(o) ==
    /\ Move(o, "queueWrite", "queueAdmission")
    /\ writer' = o
    /\ UNCHANGED <<store, call, local, admission, locked, releaser, pending>>

\* wrapRegularStateWriteOperation: #regularStateWriteMutex is acquired first.
LockWrites(o) ==
    /\ Move(o, "queueWrite", "queueAdmission")
    /\ writer = NoOp
    /\ writer' = o
    /\ UNCHANGED <<store, call, local, admission, locked, releaser, pending>>

\* wrapRegularStateOperation, admitted: #acquireRegularStateUpdateMutex tests
\* isLocked() and takes the mutex if it was free; the await that follows
\* ends the step.
AdmitPath(o) ==
    /\ IsPath(o)
    /\ admission = NoOp
    /\ admission' = o
    /\ Move(o, "queueAdmission", IF locked THEN "sawLocked" ELSE "acquired")
    /\ locked' = TRUE
    /\ UNCHANGED <<store, call, local, writer, releaser, pending>>

\* Faulty variant: only the operation that takes the update mutex is counted.
RegisterFirstOnly(o) ==
    /\ pc[o] \in {"sawLocked", "acquired"}
    /\ pc' = [pc EXCEPT ![o] = IF call[o].kind = "setKey" THEN "write" ELSE "read"]
    /\ pending' = IF pc[o] = "acquired" THEN pending + 1 ELSE pending
    /\ releaser' = (releaser \/ pc[o] = "acquired")
    /\ admission' = NoOp
    /\ UNCHANGED <<store, call, local, writer, locked>>

\* The rest of the admission callback: the operation is counted, a mutex it
\* took gets its releaser, and the admission mutex is handed on.
Register(o) ==
    /\ pc[o] \in {"sawLocked", "acquired"}
    /\ pc' = [pc EXCEPT ![o] = IF call[o].kind = "setKey" THEN "write" ELSE "read"]
    /\ pending' = pending + 1
    /\ releaser' = (releaser \/ pc[o] = "acquired")
    /\ admission' = NoOp
    /\ UNCHANGED <<store, call, local, writer, locked>>

\* wrapManageStateOperation: admitted, and kept so for its whole duration.
AdmitBlob(o) ==
    /\ IsBlob(o)
    /\ admission = NoOp
    /\ admission' = o
    /\ Move(o, "queueAdmission", "drain")
    /\ UNCHANGED <<store, call, local, writer, locked, releaser, pending>>

\* Faulty variant: a blob operation that does not wait for path operations.
DrainedWithoutWait(o) ==
    /\ Move(o, "drain", "read")
    /\ UNCHANGED <<store, call, local, lockVars>>

\* #regularStateUpdateMutex.waitForUnlock() resolves.
Drained(o) ==
    /\ Move(o, "drain", "read")
    /\ ~locked
    /\ UNCHANGED <<store, call, local, lockVars>>

\* snap_getState is answered.  A plain read has then taken effect.
Read(o) ==
    /\ Move(o, "read", IF IsReader(o) THEN "wrote" ELSE "write")
    /\ local' = [local EXCEPT ![o] = Abs!View(call[o], store)]
    /\ UNCHANGED <<store, call, lockVars>>

\* Faulty variant: the path write sends back everything it has read.
WritePathWhole(o) ==
    /\ IsWriter(o)
    /\ Move(o, "write", "wrote")
    /\ store' = Abs!Apply(call[o], o, local[o])
    /\ UNCHANGED <<call, local, lockVars>>

\* snap_setState replaces the leaves under the path, with values computed
\* from what was read; the others keep the values they have now.
WritePath(o) ==
    /\ IsWriter(o)
    /\ Move(o, "write", "wrote")
    /\ store' = [k \in Keys |-> IF k \in call[o].keys
                                THEN Abs!NewValue(call[o], o, local[o][k])
                                ELSE store[k]]
    /\ UNCHANGED <<call, local, lockVars>>

\* snap_manageState replaces the whole state by the updated copy of what
\* was read.
WriteBlob(o) ==
    /\ IsBlob(o)
    /\ Move(o, "write", "wrote")
    /\ store' = Abs!Apply(call[o], o, local[o])
    /\ UNCHANGED <<call, local, lockVars>>

\* The request is rejected, or the updater throws: nothing is stored.
RequestFails(o) ==
    /\ pc[o] \in {"read", "write"}
    /\ pc' = [pc EXCEPT ![o] = "failed"]
    /\ UNCHANGED <<store, call, local, lockVars>>

\* Faulty variant: the clean-up written after the await instead of in a
\* finally block, so a rejected request skips it.
FinishUnlessFailed(o) ==
    /\ pc[o] \in {"wrote", "failed"}
    /\ pc' = [pc EXCEPT ![o] = IF pc[o] = "wrote" THEN "done" ELSE "aborted"]
    /\ IF IsBlob(o)
       THEN /\ admission' = NoOp
            /\ UNCHANGED <<locked, releaser, pending, writer>>
       ELSE /\ pending' = IF pc[o] = "wrote" THEN pending - 1 ELSE pending
            /\ LET last == pc[o] = "wrote" /\ pending = 1 /\ releaser
               IN  /\ locked' = (locked /\ ~last)
                   /\ releaser' = (releaser /\ ~last)
            /\ writer' = IF writer = o THEN NoOp ELSE writer
            /\ UNCHANGED admission
    /\ UNCHANGED <<store, call, local>>

\* The finally block and the release of the outer mutexes.
Finish(o) ==
    /\ pc[o] \in {"wrote", "failed"}
    /\ pc' = [pc EXCEPT ![o] = IF pc[o] = "wrote" THEN "done" ELSE "aborted"]
    /\ IF IsBlob(o)
       THEN /\ admission' = NoOp
            /\ UNCHANGED <<locked, releaser, pending, writer>>
       ELSE /\ IsolatedTurns => \A p \in Ops : pc[p] \notin {"sawLocked", "acquired"}
            /\ pending' = pending - 1
            /\ LET last == pending = 1 /\ releaser
               IN  /\ locked' = (locked /\ ~last)
                   /\ releaser' = (releaser /\ ~last)
            /\ writer' = IF writer = o THEN NoOp ELSE writer
            /\ UNCHANGED admission
    /\ UNCHANGED <<store, call, local>>

\* The client stops the snap: calls and locks live in memory, the state does not.
Stop ==
    /\ pc' = [o \in Ops |-> CASE pc[o] = "wrote" -> "done"
                              [] pc[o] \in {"idle", "done"} -> pc[o]
                              [] OTHER -> "aborted"]
    /\ admission' = NoOp
    /\ writer' = NoOp
    /\ locked' = FALSE
    /\ releaser' = FALSE
    /\ pending' = 0
    /\ UNCHANGED <<store, call, local>>

Step(o) ==
    \/ LockWrites(o) \/ AdmitPath(o) \/ Register(o) \/ AdmitBlob(o) \/ Drained(o)
    \/ Read(o) \/ WritePath(o) \/ WriteBlob(o) \/ RequestFails(o) \/ Finish(o)

Next == (\E o \in Ops : Invoke(o) \/ Step(o)) \/ Stop

Spec == Init /\ [][Next]_vars
\* Every request is answered or rejected, and mutexes are handed on: the
\* running snap takes each step it can take.  Callers need not call, and the
\* client need not stop the snap.
FairSpec == Spec /\ \A o \in Ops : WF_vars(Step(o))

------------------------------------------------------------------------------

\* The calls counted by pending, and those whose requests may be at the client.
InFlight(o) == pc[o] \in {"read", "write", "wrote", "failed"}

\* The variables stay in their ranges; in particular the counter of pending
\* path operations never goes below zero.
TypeOK ==
    /\ store \in Abs!State
    /\ pc \in [Ops -> {"idle", "queueWrite", "queueAdmission", "sawLocked", "acquired",
                       "drain", "read", "write", "wrote", "failed", "done", "aborted"}]
    /\ call \in [Ops -> Abs!Calls \cup {Abs!NoCall}]
    /\ local \in [Ops -> Abs!State]
    /\ admission \in Ops \cup {NoOp}
    /\ writer \in Ops \cup {NoOp}
    /\ locked \in BOOLEAN
    /\ releaser \in BOOLEAN
    /\ pending \in Nat

\* State.ts: "A blob (snap_manageState) operation waits for in-flight path
\* operations to finish and blocks new ones from starting until it completes",
\* so nothing overlaps a blob operation's read and write.
BlobExclusive ==
    \A b \in Ops : IsBlob(b) /\ InFlight(b) =>
        \A o \in Ops \ {b} : ~InFlight(o)

\* Two blob operations never overlap, nor do two path writes, whatever the
\* turns: read-modify-write pairs of the same sort cannot interleave.
SameSortExclusive ==
    \A o, p \in Ops : o # p /\ InFlight(o) /\ InFlight(p) =>
        /\ ~(IsBlob(o) /\ IsBlob(p))
        /\ ~(IsWriter(o) /\ IsWriter(p))

\* The counter that decides when the update mutex is released equals the
\* number of path operations in flight, also after failures and restarts.
CountExact ==
    pending = Cardinality({o \in Ops : IsPath(o) /\ InFlight(o)})

\* Operations on the state are atomic: the lock implements AtomicState.
Atomic == Abs!AtomicSpec

\* No call waits for ever on the three mutexes: every call returns or is
\* ended with the snap, in any mix of reads, writes, updates and failures. (A
\* call is made once, so from some time on none is under way.)
EveryCallReturns ==
    <>[](\A o \in Ops : pc[o] \in {"idle", "done", "aborted"})
==============================================================================
