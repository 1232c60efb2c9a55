----------------------------- MODULE AtomicState -----------------------------
(***************************************************************************)
(* What callers of the persisted snap state rely on: every operation of    *)
(* IStateManager takes effect at one instant between its call and its      *)
(* return, and what it read is the state at that instant.  An operation    *)
(* that fails, or whose snap is stopped, may leave no effect.              *)
(***************************************************************************)

CONSTANTS
    Keys,       \* the leaves of the persisted JSON state
    Paths,      \* the JSON paths in use, each as the set of leaves under it
    Ops         \* the calls made, each issued at most once

VARIABLES
    store,      \* store[k]: the writers whose effect the value of k carries
    phase,      \* phase[o]: how far the call is
    call,       \* call[o]: what was asked
    seen        \* seen[o]: what the call read, once it has taken effect

avars == <<store, phase, call, seen>>

Readers   == {"get", "getKey"}
PathKinds == {"get", "getKey", "setKey", "setKeyWith"}
BlobKinds == {"update", "deleteKeys"}
Kinds     == PathKinds \cup BlobKinds

\* A value is the set of calls it was computed from, so an overwritten
\* update is visible as a missing member.
Value     == SUBSET Ops
State     == [Keys -> Value]
NoCall    == [kind |-> "none", keys |-> {}]
Calls     == {c \in [kind : Kinds, keys : Paths] : c.kind = "get" => c.keys = Keys}
Unread    == [k \in Keys |-> {}]

\* The value a call stores for a leaf whose current value is v.
NewValue(c, o, v) ==
    CASE c.kind = "setKey"     -> {o}
      [] c.kind = "setKeyWith" -> v \cup {o}
      [] c.kind = "update"     -> v \cup {o}
      [] c.kind = "deleteKeys" -> {}
      [] OTHER                 -> v

\* The part of state s a call looks at; setKey writes without reading.
View(c, s) ==
    [k \in Keys |-> IF c.kind # "setKey" /\ (k \in c.keys \/ c.kind \in BlobKinds)
                    THEN s[k] ELSE {}]

\* The state after a call has replaced the leaves under its path.
Apply(c, o, s) ==
    [k \in Keys |-> IF k \in c.keys THEN NewValue(c, o, s[k]) ELSE s[k]]

AInit ==
    /\ store = [k \in Keys |-> {}]
    /\ phase = [o \in Ops |-> "idle"]
    /\ call = [o \in Ops |-> NoCall]
    /\ seen = [o \in Ops |-> Unread]

Begin(o) ==
    /\ phase[o] = "idle"
    /\ \E c \in Calls : call' = [call EXCEPT ![o] = c]
    /\ phase' = [phase EXCEPT ![o] = "pending"]
    /\ UNCHANGED <<store, seen>>

Commit(o) ==
    /\ phase[o] = "pending"
    /\ phase' = [phase EXCEPT ![o] = "committed"]
    /\ seen' = [seen EXCEPT ![o] = View(call[o], store)]
    /\ store' = Apply(call[o], o, store)
    /\ UNCHANGED call

\* Calls that had no effect yet end without one: one whose request failed,
\* or all of them when the snap is stopped.
Abort ==
    /\ \E S \in SUBSET {o \in Ops : phase[o] = "pending"} :
          phase' = [o \in Ops |-> IF o \in S THEN "aborted" ELSE phase[o]]
    /\ UNCHANGED <<store, call, seen>>

ANext == (\E o \in Ops : Begin(o) \/ Commit(o)) \/ Abort

AtomicSpec == AInit /\ [][ANext]_avars
==============================================================================
