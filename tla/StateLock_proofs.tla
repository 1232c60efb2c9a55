-------------------------- MODULE StateLock_proofs ---------------------------
(***************************************************************************)
(* Proofs about StateLock, for any number of calls, leaves and paths: the  *)
(* mutexes separate operations of the same sort under every schedule, and  *)
(* under IsolatedTurns blob operations are alone and State is atomic.      *)
(***************************************************************************)
EXTENDS StateLock, FiniteSetTheorems, TLAPS

Waiting  == {"sawLocked", "acquired"}

\* A call in progress has been given its arguments, and only the kinds that
\* can reach an await are at it.
CallsMatch ==
    \A o \in Ops :
        /\ pc[o] # "idle" => call[o] \in Abs!Calls
        /\ pc[o] \in Waiting => IsPath(o)
        /\ pc[o] = "drain" => IsBlob(o)
        /\ pc[o] = "queueWrite" => IsWriter(o)
        /\ pc[o] = "write" => ~IsReader(o)

\* Whoever is inside the admission callback owns the admission mutex; for a
\* blob operation that includes its requests.
AdmissionOwned ==
    \A o \in Ops : (pc[o] \in Waiting \cup {"drain"} \/ (IsBlob(o) /\ InFlight(o)))
                   <=> admission = o

\* A path write owns the write mutex from its acquisition to its end.
WriterOwned ==
    \A o \in Ops : (IsWriter(o) /\ (pc[o] \in Waiting \cup {"queueAdmission"} \/ InFlight(o)))
                   <=> writer = o

\* The path operations in flight; CountExact says how many there are.
Counted == {o \in Ops : IsPath(o) /\ InFlight(o)}

OwnerInv == TypeOK /\ CallsMatch /\ AdmissionOwned /\ WriterOwned /\ CountExact

LEMMA KindFacts ==
    /\ \A o \in Ops : ~(IsPath(o) /\ IsBlob(o))
    /\ \A o \in Ops : IsWriter(o) => IsPath(o)
    /\ \A o \in Ops : IsReader(o) => IsPath(o)
    /\ \A o \in Ops : IsReader(o) => ~IsWriter(o)
    /\ \A o \in Ops : call[o] \in Abs!Calls => (IsPath(o) \/ IsBlob(o))
  BY DEF IsPath, IsBlob, IsWriter, IsReader, Abs!PathKinds, Abs!BlobKinds,
         Abs!Readers, Abs!Calls, Abs!Kinds

\* What a call reads is a state, and so is what it stores.
LEMMA StateFacts ==
    ASSUME NEW o \in Ops, NEW c, NEW s \in Abs!State
    PROVE  /\ Abs!View(c, s) \in Abs!State
           /\ Abs!Apply(c, o, s) \in Abs!State
           /\ \A k \in Keys : Abs!NewValue(c, o, s[k]) \in Abs!Value
<1>1. Abs!View(c, s) \in Abs!State
  BY DEF Abs!View, Abs!State, Abs!Value
<1>2. \A v \in Abs!Value : Abs!NewValue(c, o, v) \in Abs!Value
  BY DEF Abs!NewValue, Abs!Value
<1>3. \A k \in Keys : s[k] \in Abs!Value
  BY DEF Abs!State
<1>4. Abs!Apply(c, o, s) \in Abs!State
  BY <1>2, <1>3 DEF Abs!Apply, Abs!State
<1>5. QED
  BY <1>1, <1>2, <1>3, <1>4

\* Ranges survive a step that moves one call and counts it in or out.
LEMMA CountFacts ==
    ASSUME TypeOK, CountExact
    PROVE  /\ IsFiniteSet(Counted)
           /\ pending = Cardinality(Counted)
           /\ \A o \in Counted : pending > 0 /\ pending - 1 = Cardinality(Counted \ {o})
           /\ \A o \in Ops \ Counted : pending + 1 = Cardinality(Counted \cup {o})
           /\ pending = 0 => Counted = {}
<1>1. IsFiniteSet(Counted)
  BY FS_Subset, OpsAssumption DEF Counted
<1>2. pending = Cardinality(Counted)
  BY DEF CountExact, Counted
<1>3. Cardinality(Counted) \in Nat
  BY <1>1, FS_CardinalityType
<1>4. ASSUME NEW o \in Counted
      PROVE  pending > 0 /\ pending - 1 = Cardinality(Counted \ {o})
  <2>1. Cardinality(Counted \ {o}) = Cardinality(Counted) - 1
    BY <1>1, FS_RemoveElement
  <2>2. Cardinality(Counted) # 0
    BY <1>1, FS_EmptySet
  <2>3. QED
    BY <1>2, <1>3, <2>1, <2>2
<1>5. ASSUME NEW o \in Ops \ Counted
      PROVE  pending + 1 = Cardinality(Counted \cup {o})
  BY <1>1, <1>2, FS_AddElement
<1>6. pending = 0 => Counted = {}
  BY <1>1, <1>2, FS_EmptySet
<1>7. QED
  BY <1>1, <1>2, <1>4, <1>5, <1>6

LEMMA OwnerInit == Init => OwnerInv
<1> SUFFICES ASSUME Init PROVE OwnerInv
  OBVIOUS
<1>1. TypeOK
  BY DEF Init, TypeOK, Abs!State, Abs!Value, Abs!Unread
<1>2. CallsMatch
  BY DEF Init, CallsMatch, Waiting
<1>3. AdmissionOwned /\ WriterOwned
  BY OpsAssumption DEF Init, AdmissionOwned, WriterOwned, Waiting, InFlight
<1>4. CountExact
  <2>1. {o \in Ops : IsPath(o) /\ InFlight(o)} = {}
    BY DEF Init, InFlight
  <2>2. QED
    BY <2>1, FS_EmptySet DEF Init, CountExact
<1>5. QED
  BY <1>1, <1>2, <1>3, <1>4 DEF OwnerInv

\* A step of one call that neither counts it in nor out leaves the count.
LEMMA CountKept ==
    ASSUME TypeOK, CountExact, NEW o \in Ops, pending' = pending, call' = call,
           NEW to, pc' = [pc EXCEPT ![o] = to],
           InFlight(o) <=> to \in {"read", "write", "wrote", "failed"}
    PROVE  CountExact'
<1>1. \A p \in Ops : InFlight(p)' <=> InFlight(p)
  BY DEF InFlight, TypeOK
<1>2. {p \in Ops : IsPath(p)' /\ InFlight(p)'} = {p \in Ops : IsPath(p) /\ InFlight(p)}
  BY <1>1 DEF IsPath
<1>3. QED
  BY <1>2 DEF CountExact

LEMMA OwnerStep == OwnerInv /\ [Next]_vars => OwnerInv'
<1> SUFFICES ASSUME OwnerInv, [Next]_vars PROVE OwnerInv'
  OBVIOUS
<1> USE DEF OwnerInv
<1>1. ASSUME NEW o \in Ops, Invoke(o) PROVE OwnerInv'
  <2> PICK c \in Abs!Calls :
        /\ call' = [call EXCEPT ![o] = c]
        /\ Move(o, "idle", IF c.kind \in {"setKey", "setKeyWith"}
                           THEN "queueWrite" ELSE "queueAdmission")
    BY <1>1 DEF Invoke
  <2> USE DEF Move
  <2>1. UNCHANGED <<store, local, lockVars>>
    BY <1>1 DEF Invoke
  <2>2. TypeOK'
    BY <2>1 DEF TypeOK, lockVars
  <2>3. call[o]' = c /\ \A p \in Ops \ {o} : call[p]' = call[p] /\ pc[p]' = pc[p]
    BY DEF TypeOK
  <2>4. pc[o]' \in {"queueWrite", "queueAdmission"} /\ (pc[o]' = "queueWrite" <=> IsWriter(o)')
    BY <2>3 DEF TypeOK, IsWriter
  <2>5. CallsMatch'
    BY <2>3, <2>4 DEF CallsMatch, Waiting, IsPath, IsBlob, IsWriter, IsReader
  <2>6. AdmissionOwned'
    BY <2>1, <2>3, <2>4 DEF AdmissionOwned, Waiting, InFlight, IsBlob, lockVars
  <2>7. WriterOwned'
    BY <2>1, <2>3, <2>4 DEF WriterOwned, Waiting, InFlight, IsWriter, lockVars
  <2>8. {p \in Ops : IsPath(p)' /\ InFlight(p)'} = {p \in Ops : IsPath(p) /\ InFlight(p)}
    BY <2>3, <2>4 DEF InFlight, IsPath
  <2>9. CountExact'
    BY <2>1, <2>8 DEF CountExact, lockVars
  <2>10. QED
    BY <2>2, <2>5, <2>6, <2>7, <2>9
<1>2. ASSUME NEW o \in Ops, LockWrites(o) PROVE OwnerInv'
  <2>1. TypeOK'
    BY <1>2 DEF LockWrites, Move, TypeOK
  <2>2. CallsMatch' /\ AdmissionOwned' /\ WriterOwned'
    BY <1>2, OpsAssumption DEF LockWrites, Move, TypeOK, CallsMatch, AdmissionOwned, WriterOwned,
              Waiting, InFlight, IsPath, IsBlob, IsWriter, IsReader
  <2>3. CountExact'
    BY <1>2, CountKept DEF LockWrites, Move, InFlight
  <2>4. QED
    BY <2>1, <2>2, <2>3
<1>3. ASSUME NEW o \in Ops, AdmitPath(o) PROVE OwnerInv'
  <2>1. TypeOK'
    BY <1>3 DEF AdmitPath, Move, TypeOK
  <2>2. CallsMatch' /\ AdmissionOwned' /\ WriterOwned'
    BY <1>3, KindFacts, OpsAssumption DEF AdmitPath, Move, TypeOK, CallsMatch, AdmissionOwned, WriterOwned,
              Waiting, InFlight, IsPath, IsBlob, IsWriter, IsReader
  <2>3. CountExact'
    BY <1>3, CountKept DEF AdmitPath, Move, InFlight
  <2>4. QED
    BY <2>1, <2>2, <2>3
<1>4. ASSUME NEW o \in Ops, Register(o) PROVE OwnerInv'
  <2>1. TypeOK'
    BY <1>4 DEF Register, TypeOK
  <2>2. CallsMatch' /\ AdmissionOwned' /\ WriterOwned'
    BY <1>4, KindFacts, OpsAssumption DEF Register, TypeOK, CallsMatch, AdmissionOwned, WriterOwned,
              Waiting, InFlight, IsPath, IsBlob, IsWriter, IsReader, Abs!Readers
  <2>3. o \in Ops \ Counted /\ IsPath(o)
    BY <1>4 DEF Register, Counted, InFlight, CallsMatch, Waiting
  <2>4. {p \in Ops : IsPath(p)' /\ InFlight(p)'} = Counted \cup {o}
    BY <1>4, <2>3 DEF Register, TypeOK, Counted, InFlight, IsPath
  <2>5. CountExact'
    BY <1>4, <2>3, <2>4, CountFacts DEF CountExact, Register
  <2>6. QED
    BY <2>1, <2>2, <2>5
<1>5. ASSUME NEW o \in Ops, AdmitBlob(o) PROVE OwnerInv'
  <2>1. TypeOK'
    BY <1>5 DEF AdmitBlob, Move, TypeOK
  <2>2. CallsMatch' /\ AdmissionOwned' /\ WriterOwned'
    BY <1>5, KindFacts, OpsAssumption DEF AdmitBlob, Move, TypeOK, CallsMatch, AdmissionOwned, WriterOwned,
              Waiting, InFlight, IsPath, IsBlob, IsWriter, IsReader
  <2>3. CountExact'
    BY <1>5, CountKept DEF AdmitBlob, Move, InFlight
  <2>4. QED
    BY <2>1, <2>2, <2>3
<1>6. ASSUME NEW o \in Ops, Drained(o) PROVE OwnerInv'
  <2>1. TypeOK'
    BY <1>6 DEF Drained, Move, TypeOK, lockVars
  <2>2. CallsMatch' /\ AdmissionOwned' /\ WriterOwned'
    BY <1>6, KindFacts DEF Drained, Move, TypeOK, CallsMatch, AdmissionOwned, WriterOwned,
              Waiting, InFlight, IsPath, IsBlob, IsWriter, IsReader, lockVars
  <2>3. {p \in Ops : IsPath(p)' /\ InFlight(p)'} = {p \in Ops : IsPath(p) /\ InFlight(p)}
    BY <1>6, KindFacts DEF Drained, Move, TypeOK, CallsMatch, InFlight, IsPath
  <2>4. CountExact'
    BY <1>6, <2>3 DEF CountExact, Drained, lockVars
  <2>5. QED
    BY <2>1, <2>2, <2>4
<1>7. ASSUME NEW o \in Ops, Read(o) PROVE OwnerInv'
  <2>1. TypeOK'
    BY <1>7, StateFacts DEF Read, Move, TypeOK, lockVars
  <2>2. CallsMatch' /\ AdmissionOwned' /\ WriterOwned'
    BY <1>7, KindFacts DEF Read, Move, TypeOK, CallsMatch, AdmissionOwned, WriterOwned,
              Waiting, InFlight, IsPath, IsBlob, IsWriter, IsReader, lockVars
  <2>3. CountExact'
    BY <1>7, CountKept DEF Read, Move, InFlight, lockVars
  <2>4. QED
    BY <2>1, <2>2, <2>3
<1>8. ASSUME NEW o \in Ops, WritePath(o) \/ WriteBlob(o) PROVE OwnerInv'
  <2>1. store' \in Abs!State
    <3>1. \A k \in Keys : store[k] \in Abs!Value
      BY DEF TypeOK, Abs!State
    <3>2. local[o] \in Abs!State
      BY DEF TypeOK
    <3>3. QED
      BY <1>8, <3>1, <3>2, StateFacts DEF WritePath, WriteBlob, Abs!State
  <2>2. /\ pc[o] = "write" /\ pc' = [pc EXCEPT ![o] = "wrote"]
        /\ UNCHANGED <<call, local, lockVars>>
    BY <1>8 DEF WritePath, WriteBlob, Move
  <2>3. TypeOK'
    BY <2>1, <2>2 DEF TypeOK, lockVars
  <2>4. CallsMatch' /\ AdmissionOwned' /\ WriterOwned'
    BY <2>2 DEF TypeOK, CallsMatch, AdmissionOwned, WriterOwned,
              Waiting, InFlight, IsPath, IsBlob, IsWriter, IsReader, lockVars
  <2>5. CountExact'
    BY <2>2, CountKept DEF InFlight, lockVars
  <2>6. QED
    BY <2>3, <2>4, <2>5
<1>9. ASSUME NEW o \in Ops, RequestFails(o) PROVE OwnerInv'
  <2>1. TypeOK'
    BY <1>9 DEF RequestFails, TypeOK, lockVars
  <2>2. CallsMatch' /\ AdmissionOwned' /\ WriterOwned'
    BY <1>9 DEF RequestFails, TypeOK, CallsMatch, AdmissionOwned, WriterOwned,
              Waiting, InFlight, IsPath, IsBlob, IsWriter, IsReader, lockVars
  <2>3. CountExact'
    BY <1>9, CountKept DEF RequestFails, InFlight, lockVars
  <2>4. QED
    BY <2>1, <2>2, <2>3
<1>10. ASSUME NEW o \in Ops, Finish(o) PROVE OwnerInv'
  <2>1. /\ pc[o] \in {"wrote", "failed"} /\ call[o] \in Abs!Calls
        /\ \E to \in {"done", "aborted"} : pc' = [pc EXCEPT ![o] = to]
        /\ UNCHANGED <<store, call, local>>
    BY <1>10 DEF Finish, CallsMatch
  <2>2. CASE IsBlob(o)
    <3>1. admission' = NoOp /\ UNCHANGED <<locked, releaser, pending, writer>>
      BY <1>10, <2>2 DEF Finish
    <3>2. TypeOK'
      BY <2>1, <3>1 DEF TypeOK
    <3>3. CallsMatch' /\ AdmissionOwned' /\ WriterOwned'
      BY <2>1, <2>2, <3>1, KindFacts, OpsAssumption DEF TypeOK, CallsMatch, AdmissionOwned, WriterOwned,
              Waiting, InFlight, IsPath, IsBlob, IsWriter, IsReader
    <3>4. {p \in Ops : IsPath(p)' /\ InFlight(p)'} = {p \in Ops : IsPath(p) /\ InFlight(p)}
      BY <2>1, <2>2, KindFacts DEF TypeOK, InFlight, IsPath
    <3>5. CountExact'
      BY <3>1, <3>4 DEF CountExact
    <3>6. QED
      BY <3>2, <3>3, <3>5
  <2>3. CASE ~IsBlob(o)
    <3>1. /\ pending' = pending - 1
          /\ locked' \in BOOLEAN /\ releaser' \in BOOLEAN
          /\ writer' = IF writer = o THEN NoOp ELSE writer
          /\ admission' = admission
      BY <1>10, <2>3 DEF Finish, TypeOK
    <3>2. o \in Counted
      BY <2>1, <2>3, KindFacts DEF Counted, InFlight
    <3>3. TypeOK'
      BY <2>1, <3>1, <3>2, CountFacts DEF TypeOK
    <3>4. CallsMatch' /\ AdmissionOwned' /\ WriterOwned'
      BY <2>1, <2>3, <3>1, KindFacts, OpsAssumption DEF TypeOK, CallsMatch, AdmissionOwned, WriterOwned,
              Waiting, InFlight, IsPath, IsBlob, IsWriter, IsReader
    <3>5. {p \in Ops : IsPath(p)' /\ InFlight(p)'} = Counted \ {o}
      BY <2>1, <2>3, KindFacts DEF TypeOK, Counted, InFlight, IsPath
    <3>6. CountExact'
      BY <3>1, <3>2, <3>5, CountFacts DEF CountExact
    <3>7. QED
      BY <3>3, <3>4, <3>6
  <2>4. QED
    BY <2>2, <2>3
<1>11. ASSUME Stop PROVE OwnerInv'
  <2>1. \A o \in Ops : pc[o]' \in {"idle", "done", "aborted"}
    BY <1>11 DEF Stop, TypeOK
  <2>2. TypeOK'
    BY <1>11 DEF Stop, TypeOK
  <2>3. CallsMatch'
    BY <1>11, <2>1 DEF Stop, TypeOK, CallsMatch, Waiting
  <2>4. AdmissionOwned' /\ WriterOwned'
    BY <1>11, <2>1, OpsAssumption DEF Stop, AdmissionOwned, WriterOwned, Waiting, InFlight
  <2>5. {o \in Ops : IsPath(o)' /\ InFlight(o)'} = {}
    BY <2>1 DEF InFlight
  <2>6. CountExact'
    BY <1>11, <2>5, FS_EmptySet DEF CountExact, Stop
  <2>7. QED
    BY <2>2, <2>3, <2>4, <2>6
<1>12. ASSUME UNCHANGED vars PROVE OwnerInv'
  BY <1>12 DEF vars, lockVars, TypeOK, CallsMatch, AdmissionOwned, WriterOwned, CountExact,
               Waiting, InFlight, IsPath, IsBlob, IsWriter, IsReader
<1>13. QED
  BY <1>1, <1>2, <1>3, <1>4, <1>5, <1>6, <1>7, <1>8, <1>9, <1>10, <1>11, <1>12 DEF Next, Step

\* The ranges of the variables, and a counter that never goes below zero,
\* under every schedule, failure and restart.
THEOREM TypeCorrect == Spec => []TypeOK
<1>1. OwnerInv => TypeOK
  BY DEF OwnerInv
<1>2. QED
  BY OwnerInit, OwnerStep, <1>1, PTL DEF Spec

\* The counter of pending path operations is exact under every schedule: the
\* release of the update mutex never counts a failed or stopped call.
THEOREM CountCorrect == Spec => []CountExact
<1>1. OwnerInv => CountExact
  BY DEF OwnerInv
<1>2. QED
  BY OwnerInit, OwnerStep, <1>1, PTL DEF Spec

\* Two blob operations, or two path writes, never overlap: no schedule lets
\* read-modify-write operations of one sort interleave.
THEOREM SameSortSeparated == Spec => []SameSortExclusive
<1>1. OwnerInv => SameSortExclusive
  BY DEF OwnerInv, SameSortExclusive, AdmissionOwned, WriterOwned
<1>2. QED
  BY OwnerInit, OwnerStep, <1>1, PTL DEF Spec

------------------------------------------------------------------------------

\* What the update mutex means when no operation completes between the
\* isLocked() test and the registration of another: it is held exactly while
\* path operations are in flight or one is being registered, it can always be
\* released, and no blob operation is past its wait.
LockInv ==
    /\ releaser <=> pending > 0
    /\ locked <=> (pending > 0 \/ \E o \in Ops : pc[o] = "acquired")
    /\ \A o \in Ops : pc[o] = "acquired" => pending = 0
    /\ \A o \in Ops : pc[o] = "sawLocked" => pending > 0
    /\ \A o \in Ops : IsBlob(o) /\ InFlight(o) => ~locked

\* What an operation is about to store is computed from the present state.
Fresh ==
    \A o \in Ops :
        /\ pc[o] \in {"idle", "queueWrite", "queueAdmission", "sawLocked", "acquired",
                      "drain", "read"} => local[o] = Abs!Unread
        /\ pc[o] = "read" => call[o].kind # "setKey"
        /\ pc[o] = "write" => local[o] = Abs!View(call[o], store)

LEMMA BlobAlone == OwnerInv /\ LockInv => BlobExclusive
<1> SUFFICES ASSUME OwnerInv, LockInv, NEW b \in Ops, IsBlob(b), InFlight(b),
                    NEW o \in Ops \ {b}, InFlight(o)
             PROVE  FALSE
  BY DEF BlobExclusive
<1> USE DEF OwnerInv
<1>1. pending = 0
  BY DEF LockInv, TypeOK
<1>2. IsBlob(o)
  <2>1. o \notin Counted
    BY <1>1, CountFacts
  <2>2. call[o] \in Abs!Calls
    BY DEF CallsMatch, InFlight
  <2>3. QED
    BY <2>1, <2>2, KindFacts DEF Counted
<1>3. QED
  BY <1>2 DEF AdmissionOwned

LEMMA LockInit == Init => LockInv /\ Fresh
  BY DEF Init, LockInv, Fresh, InFlight

LEMMA LockStep ==
    ASSUME IsolatedTurns = TRUE, OwnerInv, LockInv, [Next]_vars
    PROVE  LockInv'
<1> USE DEF OwnerInv
<1>1. ASSUME NEW o \in Ops, Invoke(o) PROVE LockInv'
  <2>1. /\ \A p \in Ops : pc[p]' # pc[p] => pc[p] = "idle" /\ pc[p]' \in {"queueWrite", "queueAdmission"}
        /\ \A p \in Ops : call[p]' # call[p] => pc[p]' \in {"queueWrite", "queueAdmission"}
        /\ UNCHANGED lockVars
    BY <1>1 DEF Invoke, Move, TypeOK
  <2>2. QED
    BY <2>1 DEF LockInv, lockVars, InFlight, IsBlob
<1>2. ASSUME NEW o \in Ops, LockWrites(o) PROVE LockInv'
  BY <1>2 DEF LockWrites, Move, TypeOK, LockInv, InFlight, IsBlob
<1>3. ASSUME NEW o \in Ops, AdmitPath(o) PROVE LockInv'
  <2>1. \A p \in Ops : pc[p] \notin Waiting /\ ~(IsBlob(p) /\ InFlight(p))
    BY <1>3, OpsAssumption DEF AdmitPath, AdmissionOwned
  <2>2. locked <=> pending > 0
    BY <2>1 DEF LockInv, Waiting
  <2>3. /\ pc[o]' = IF locked THEN "sawLocked" ELSE "acquired"
        /\ \A p \in Ops \ {o} : pc[p]' = pc[p]
        /\ locked' = TRUE
        /\ UNCHANGED <<call, releaser, pending>>
    BY <1>3 DEF AdmitPath, Move, TypeOK
  <2>4. \A p \in Ops : ~(IsBlob(p)' /\ InFlight(p)')
    BY <2>1, <2>3 DEF InFlight, IsBlob
  <2>5. \A p \in Ops : pc[p]' = "acquired" => pending = 0
    BY <2>1, <2>2, <2>3 DEF TypeOK, Waiting
  <2>6. \A p \in Ops : pc[p]' = "sawLocked" => pending > 0
    BY <2>1, <2>2, <2>3 DEF Waiting
  <2>7. pending > 0 \/ \E p \in Ops : pc[p]' = "acquired"
    BY <2>2, <2>3
  <2>8. QED
    BY <2>3, <2>4, <2>5, <2>6, <2>7 DEF LockInv
<1>4. ASSUME NEW o \in Ops, Register(o) PROVE LockInv'
  <2>1. admission = o /\ \A p \in Ops : p # o => pc[p] \notin Waiting /\ ~(IsBlob(p) /\ InFlight(p))
    BY <1>4 DEF Register, AdmissionOwned, Waiting
  <2>2. /\ pc[o]' \in {"read", "write"} /\ ~IsBlob(o)
        /\ \A p \in Ops \ {o} : pc[p]' = pc[p]
        /\ pending' = pending + 1 /\ locked' = locked /\ call' = call
        /\ releaser' = (releaser \/ pc[o] = "acquired")
    BY <1>4, KindFacts DEF Register, TypeOK, CallsMatch, Waiting
  <2>3. locked /\ releaser'
    BY <1>4, <2>2 DEF LockInv, Register
  <2>4. QED
    BY <2>1, <2>2, <2>3 DEF LockInv, TypeOK, InFlight, IsBlob, Waiting
<1>5. ASSUME NEW o \in Ops, AdmitBlob(o) PROVE LockInv'
  BY <1>5 DEF AdmitBlob, Move, TypeOK, LockInv, InFlight, IsBlob
<1>6. ASSUME NEW o \in Ops, Drained(o) PROVE LockInv'
  BY <1>6 DEF Drained, Move, TypeOK, LockInv, InFlight, IsBlob, lockVars
<1>7. ASSUME NEW o \in Ops, Read(o) \/ WritePath(o) \/ WriteBlob(o) \/ RequestFails(o)
      PROVE  LockInv'
  <2>1. /\ InFlight(o) /\ pc[o]' \in {"read", "write", "wrote", "failed"}
        /\ \A p \in Ops \ {o} : pc[p]' = pc[p]
        /\ UNCHANGED <<call, lockVars>>
    BY <1>7 DEF Read, WritePath, WriteBlob, RequestFails, Move, TypeOK, InFlight
  <2>2. QED
    BY <2>1 DEF LockInv, InFlight, IsBlob, lockVars
<1>8. ASSUME NEW o \in Ops, Finish(o) PROVE LockInv'
  <2>1. /\ pc[o] \in {"wrote", "failed"} /\ pc[o]' \in {"done", "aborted"}
        /\ \A p \in Ops \ {o} : pc[p]' = pc[p]
        /\ call' = call
    BY <1>8 DEF Finish, TypeOK
  <2>2. CASE IsBlob(o)
    <3>1. UNCHANGED <<locked, releaser, pending>>
      BY <1>8, <2>2 DEF Finish
    <3>2. QED
      BY <2>1, <3>1 DEF LockInv, InFlight, IsBlob
  <2>3. CASE ~IsBlob(o)
    <3>1. /\ \A p \in Ops : pc[p] \notin {"sawLocked", "acquired"}
          /\ pending' = pending - 1
          /\ locked' = (locked /\ ~(pending = 1 /\ releaser))
          /\ releaser' = (releaser /\ ~(pending = 1 /\ releaser))
      BY <1>8, <2>3 DEF Finish
    <3>2. pending > 0
      <4>1. o \in Counted
        BY <2>1, <2>3, KindFacts DEF Counted, InFlight, CallsMatch
      <4>2. QED
        BY <4>1, CountFacts
    <3>3. releaser /\ locked
      BY <3>2 DEF LockInv
    <3>4. /\ releaser' <=> pending' > 0
          /\ locked' <=> pending' > 0
      <4>1. pending' > 0 <=> pending # 1
        BY <3>1, <3>2 DEF TypeOK
      <4>2. QED
        BY <3>1, <3>3, <4>1, Zenon
    <3>5. \A p \in Ops : pc[p]' \notin {"sawLocked", "acquired"}
      BY <2>1, <3>1
    <3>6. \A p \in Ops : ~(IsBlob(p)' /\ InFlight(p)')
      BY <2>1, <3>3 DEF LockInv, InFlight, IsBlob
    <3>7. QED
      BY <3>4, <3>5, <3>6 DEF LockInv
  <2>4. QED
    BY <2>2, <2>3
<1>9. ASSUME Stop PROVE LockInv'
  <2>1. \A o \in Ops : pc[o]' \in {"idle", "done", "aborted"}
    BY <1>9 DEF Stop, TypeOK
  <2>2. QED
    BY <1>9, <2>1 DEF Stop, LockInv, InFlight
<1>10. ASSUME UNCHANGED vars PROVE LockInv'
  BY <1>10 DEF vars, lockVars, LockInv, InFlight, IsBlob
<1>11. QED
  BY <1>1, <1>2, <1>3, <1>4, <1>5, <1>6, <1>7, <1>8, <1>9, <1>10 DEF Next, Step

\* Writes happen to a state no one else writes to: of two calls about to
\* write or writing, neither can change what the other has read.
LEMMA WritersAlone ==
    ASSUME OwnerInv, LockInv, NEW o \in Ops, NEW p \in Ops, o # p,
           pc[o] = "write", pc[p] = "write"
    PROVE  FALSE
<1> USE DEF OwnerInv
<1>1. InFlight(o) /\ InFlight(p)
  BY DEF InFlight
<1>2. ~IsBlob(o) /\ ~IsBlob(p)
  BY <1>1, BlobAlone DEF BlobExclusive
<1>3. /\ call[o].kind \in {"setKey", "setKeyWith"}
      /\ call[p].kind \in {"setKey", "setKeyWith"}
  BY <1>2 DEF CallsMatch, IsReader, IsBlob, Abs!Calls, Abs!Kinds, Abs!PathKinds, Abs!BlobKinds, Abs!Readers
<1>4. QED
  BY <1>1, <1>3 DEF WriterOwned, IsWriter

LEMMA FreshStep ==
    ASSUME OwnerInv, LockInv, Fresh, [Next]_vars
    PROVE  Fresh'
<1> USE DEF OwnerInv
<1>1. ASSUME NEW o \in Ops, Invoke(o) PROVE Fresh'
  <2>1. /\ pc[o] = "idle" /\ pc[o]' \in {"queueWrite", "queueAdmission"}
        /\ \A p \in Ops \ {o} : pc[p]' = pc[p] /\ call[p]' = call[p]
        /\ UNCHANGED <<store, local>>
    BY <1>1 DEF Invoke, Move, TypeOK
  <2>2. QED
    BY <2>1 DEF Fresh
<1>2. ASSUME NEW o \in Ops, LockWrites(o) \/ AdmitPath(o) \/ AdmitBlob(o) PROVE Fresh'
  <2>1. /\ pc[o] \in {"queueWrite", "queueAdmission"}
        /\ pc[o]' \in {"queueAdmission", "sawLocked", "acquired", "drain"}
        /\ \A p \in Ops \ {o} : pc[p]' = pc[p]
        /\ UNCHANGED <<store, call, local>>
    BY <1>2 DEF LockWrites, AdmitPath, AdmitBlob, Move, TypeOK
  <2>2. QED
    BY <2>1 DEF Fresh
<1>3. ASSUME NEW o \in Ops, Register(o) PROVE Fresh'
  <2>1. /\ pc[o] \in {"sawLocked", "acquired"}
        /\ pc[o]' = IF call[o].kind = "setKey" THEN "write" ELSE "read"
        /\ \A p \in Ops \ {o} : pc[p]' = pc[p]
        /\ UNCHANGED <<store, call, local>>
    BY <1>3 DEF Register, TypeOK
  <2>2. call[o].kind = "setKey" => Abs!View(call[o], store) = Abs!Unread
    BY DEF Abs!View, Abs!Unread
  <2>3. QED
    BY <2>1, <2>2 DEF Fresh
<1>4. ASSUME NEW o \in Ops, Drained(o) PROVE Fresh'
  <2>1. /\ pc[o] = "drain" /\ pc[o]' = "read" /\ IsBlob(o)
        /\ \A p \in Ops \ {o} : pc[p]' = pc[p]
        /\ UNCHANGED <<store, call, local>>
    BY <1>4 DEF Drained, Move, TypeOK, CallsMatch
  <2>2. QED
    BY <2>1 DEF Fresh, IsBlob, Abs!BlobKinds
<1>5. ASSUME NEW o \in Ops, Read(o) PROVE Fresh'
  <2>1. /\ pc[o]' \in {"wrote", "write"} /\ local[o]' = Abs!View(call[o], store)
        /\ \A p \in Ops \ {o} : pc[p]' = pc[p] /\ local[p]' = local[p]
        /\ UNCHANGED <<store, call>>
    BY <1>5 DEF Read, Move, TypeOK
  <2>2. QED
    BY <2>1 DEF Fresh
<1>6. ASSUME NEW o \in Ops, WritePath(o) \/ WriteBlob(o) PROVE Fresh'
  <2>1. /\ pc[o] = "write" /\ pc[o]' = "wrote"
        /\ \A p \in Ops \ {o} : pc[p]' = pc[p]
        /\ UNCHANGED <<call, local>>
    BY <1>6 DEF WritePath, WriteBlob, Move, TypeOK
  <2>2. \A p \in Ops : pc[p]' # "write"
    BY <2>1, WritersAlone
  <2>3. QED
    BY <2>1, <2>2 DEF Fresh
<1>7. ASSUME NEW o \in Ops, RequestFails(o) \/ Finish(o) PROVE Fresh'
  <2>1. /\ pc[o]' \in {"failed", "done", "aborted"}
        /\ \A p \in Ops \ {o} : pc[p]' = pc[p]
        /\ UNCHANGED <<store, call, local>>
    BY <1>7 DEF RequestFails, Finish, TypeOK
  <2>2. QED
    BY <2>1 DEF Fresh
<1>8. ASSUME Stop PROVE Fresh'
  <2>1. /\ \A o \in Ops : pc[o]' \in {"idle", "done", "aborted"} /\ (pc[o]' = "idle" => pc[o] = "idle")
        /\ UNCHANGED <<store, call, local>>
    BY <1>8 DEF Stop, TypeOK
  <2>2. QED
    BY <2>1 DEF Fresh
<1>9. ASSUME UNCHANGED vars PROVE Fresh'
  BY <1>9 DEF vars, Fresh
<1>10. QED
  BY <1>1, <1>2, <1>3, <1>4, <1>5, <1>6, <1>7, <1>8, <1>9 DEF Next, Step

AtomicInv == OwnerInv /\ LockInv /\ Fresh

LEMMA AtomicInvHolds == IsolatedTurns = TRUE => (Spec => []AtomicInv)
<1> SUFFICES ASSUME IsolatedTurns = TRUE PROVE Spec => []AtomicInv
  OBVIOUS
<1>1. Init => AtomicInv
  BY OwnerInit, LockInit DEF AtomicInv
<1>2. AtomicInv /\ [Next]_vars => AtomicInv'
  BY OwnerStep, LockStep, FreshStep DEF AtomicInv
<1>3. QED
  BY <1>1, <1>2, PTL DEF Spec

\* "A blob operation waits for in-flight path operations to finish and blocks
\* new ones from starting until it completes" (State.ts:32), provided no
\* operation completes while another is being registered.
THEOREM BlobSeparated == IsolatedTurns = TRUE => (Spec => []BlobExclusive)
<1>1. AtomicInv => BlobExclusive
  BY BlobAlone DEF AtomicInv
<1>2. QED
  BY AtomicInvHolds, <1>1, PTL

------------------------------------------------------------------------------

LEMMA AtomicInit == Init => Abs!AInit
  BY DEF Init, Abs!AInit, Phase, Seen, Abs!Unread

\* A step that keeps the store and the calls, and ends calls that had no
\* effect yet or none at all, is an abstract Abort.
LEMMA AbortStep ==
    ASSUME TypeOK, UNCHANGED <<store, call, local>>,
           \A o \in Ops : Phase'[o] # Phase[o] => Phase[o] = "pending" /\ Phase'[o] = "aborted",
           \A o \in Ops : pc[o]' \in {"wrote", "done"} <=> pc[o] \in {"wrote", "done"}
    PROVE  Abs!Abort
<1> DEFINE S == {o \in Ops : Phase'[o] # Phase[o]}
<1>1. S \in SUBSET {o \in Ops : Phase[o] = "pending"}
  OBVIOUS
<1>2. Phase' = [o \in Ops |-> IF o \in S THEN "aborted" ELSE Phase[o]]
  BY DEF Phase
<1>3. Seen' = Seen
  BY DEF Seen
<1>4. QED
  BY <1>1, <1>2, <1>3 DEF Abs!Abort

\* The step that makes a call take effect is an abstract Commit.
LEMMA CommitStep ==
    ASSUME TypeOK, NEW o \in Ops, Phase[o] = "pending",
           pc' = [pc EXCEPT ![o] = "wrote"],
           local' = [local EXCEPT ![o] = Abs!View(call[o], store)],
           store' = Abs!Apply(call[o], o, store), call' = call
    PROVE  Abs!Commit(o)
<1>1. Phase' = [Phase EXCEPT ![o] = "committed"]
  BY DEF Phase, TypeOK
<1>2. Seen' = [Seen EXCEPT ![o] = Abs!View(call[o], store)]
  BY DEF Seen, TypeOK
<1>3. QED
  BY <1>1, <1>2 DEF Abs!Commit

\* A step between two awaits with no effect of its own is a stutter.
LEMMA StutterStep ==
    ASSUME TypeOK, UNCHANGED <<store, call>>, NEW o \in Ops,
           \A p \in Ops \ {o} : pc[p]' = pc[p] /\ local[p]' = local[p],
           Phase[o]' = Phase[o], Seen[o]' = Seen[o]
    PROVE  UNCHANGED Abs!avars
<1>1. Phase' = Phase
  BY DEF Phase
<1>2. Seen' = Seen
  BY DEF Seen
<1>3. QED
  BY <1>1, <1>2 DEF Abs!avars

LEMMA AtomicStep ==
    ASSUME AtomicInv, AtomicInv', [Next]_vars
    PROVE  [Abs!ANext]_(Abs!avars)
<1> USE DEF AtomicInv, OwnerInv
<1> SUFFICES Abs!ANext \/ UNCHANGED Abs!avars
  OBVIOUS
<1>1. ASSUME NEW o \in Ops, Invoke(o) PROVE Abs!Begin(o)
  <2>1. /\ pc[o] = "idle" /\ pc[o]' \in {"queueWrite", "queueAdmission"}
        /\ \A p \in Ops \ {o} : pc[p]' = pc[p]
        /\ \E c \in Abs!Calls : call' = [call EXCEPT ![o] = c]
        /\ UNCHANGED <<store, local>>
    BY <1>1 DEF Invoke, Move, TypeOK
  <2>2. Phase' = [Phase EXCEPT ![o] = "pending"] /\ Phase[o] = "idle"
    BY <2>1 DEF Phase
  <2>3. Seen' = Seen
    BY <2>1 DEF Seen
  <2>4. QED
    BY <2>1, <2>2, <2>3 DEF Abs!Begin
<1>2. ASSUME NEW o \in Ops,
             LockWrites(o) \/ AdmitPath(o) \/ Register(o) \/ AdmitBlob(o) \/ Drained(o)
      PROVE  UNCHANGED Abs!avars
  <2>1. /\ pc[o] \in {"queueWrite", "queueAdmission", "sawLocked", "acquired", "drain"}
        /\ pc[o]' \in {"queueAdmission", "sawLocked", "acquired", "drain", "read", "write"}
        /\ \A p \in Ops \ {o} : pc[p]' = pc[p]
        /\ UNCHANGED <<store, call, local>>
    BY <1>2 DEF LockWrites, AdmitPath, Register, AdmitBlob, Drained, Move, TypeOK
  <2>2. Phase[o]' = Phase[o] /\ Seen[o]' = Seen[o]
    BY <2>1 DEF Phase, Seen
  <2>3. QED
    BY <2>1, <2>2, StutterStep
<1>3. ASSUME NEW o \in Ops, Read(o), IsReader(o) PROVE Abs!Commit(o)
  <2>1. Phase[o] = "pending"
    BY <1>3 DEF Read, Move, Phase
  <2>2. Abs!Apply(call[o], o, store) = store
    <3>1. \A k \in Keys : Abs!NewValue(call[o], o, store[k]) = store[k]
      BY <1>3 DEF IsReader, Abs!Readers, Abs!NewValue
    <3>2. QED
      BY <3>1 DEF Abs!Apply, TypeOK, Abs!State
  <2>3. QED
    BY <1>3, <2>1, <2>2, CommitStep DEF Read, Move
<1>4. ASSUME NEW o \in Ops, Read(o), ~IsReader(o) PROVE UNCHANGED Abs!avars
  <2>1. /\ pc[o] = "read" /\ pc[o]' = "write"
        /\ \A p \in Ops \ {o} : pc[p]' = pc[p] /\ local[p]' = local[p]
        /\ UNCHANGED <<store, call>>
    BY <1>4 DEF Read, Move, TypeOK
  <2>2. Phase[o]' = Phase[o] /\ Seen[o]' = Seen[o]
    BY <2>1 DEF Phase, Seen
  <2>3. QED
    BY <2>1, <2>2, StutterStep
<1>5. ASSUME NEW o \in Ops, WritePath(o) \/ WriteBlob(o) PROVE Abs!Commit(o)
  <2>1. pc[o] = "write" /\ Phase[o] = "pending" /\ local[o] = Abs!View(call[o], store)
    BY <1>5 DEF WritePath, WriteBlob, Move, Phase, Fresh
  <2>2. local' = [local EXCEPT ![o] = Abs!View(call[o], store)]
    BY <1>5, <2>1 DEF WritePath, WriteBlob, TypeOK
  <2>3. CASE WritePath(o)
    <3>1. \A k \in call[o].keys \cap Keys :
             Abs!NewValue(call[o], o, local[o][k]) = Abs!NewValue(call[o], o, store[k])
      BY <2>1, <2>3 DEF WritePath, IsWriter, Abs!View, Abs!NewValue
    <3>2. store' = Abs!Apply(call[o], o, store)
      BY <2>3, <3>1 DEF WritePath, Abs!Apply
    <3>3. QED
      BY <2>1, <2>2, <2>3, <3>2, CommitStep DEF WritePath, Move
  <2>4. CASE WriteBlob(o)
    <3>1. local[o] = store
      BY <2>1, <2>4 DEF WriteBlob, IsBlob, Abs!View, Abs!BlobKinds, TypeOK, Abs!State
    <3>2. store' = Abs!Apply(call[o], o, store)
      BY <2>4, <3>1 DEF WriteBlob
    <3>3. QED
      BY <2>1, <2>2, <2>4, <3>2, CommitStep DEF WriteBlob, Move
  <2>5. QED
    BY <1>5, <2>3, <2>4
<1>6. ASSUME NEW o \in Ops, RequestFails(o) PROVE Abs!Abort
  <2>1. /\ pc[o] \in {"read", "write"} /\ pc[o]' = "failed"
        /\ \A p \in Ops \ {o} : pc[p]' = pc[p]
        /\ UNCHANGED <<store, call, local>>
    BY <1>6 DEF RequestFails, TypeOK, lockVars
  <2>2. QED
    BY <2>1, AbortStep DEF Phase
<1>7. ASSUME NEW o \in Ops, Finish(o) PROVE UNCHANGED Abs!avars
  <2>1. /\ \/ pc[o] = "wrote" /\ pc[o]' = "done"
           \/ pc[o] = "failed" /\ pc[o]' = "aborted"
        /\ \A p \in Ops \ {o} : pc[p]' = pc[p]
        /\ UNCHANGED <<store, call, local>>
    BY <1>7 DEF Finish, TypeOK
  <2>2. Phase[o]' = Phase[o] /\ Seen[o]' = Seen[o]
    BY <2>1 DEF Phase, Seen
  <2>3. QED
    BY <2>1, <2>2, StutterStep
<1>8. ASSUME Stop PROVE Abs!Abort
  <2>1. /\ \A o \in Ops : pc[o]' = CASE pc[o] = "wrote" -> "done"
                                     [] pc[o] \in {"idle", "done"} -> pc[o]
                                     [] OTHER -> "aborted"
        /\ UNCHANGED <<store, call, local>>
    BY <1>8 DEF Stop
  <2>2. QED
    BY <2>1, AbortStep DEF Phase
<1>9. ASSUME UNCHANGED vars PROVE UNCHANGED Abs!avars
  BY <1>9 DEF vars, lockVars, Abs!avars, Phase, Seen
<1>10. QED
  BY <1>1, <1>2, <1>3, <1>4, <1>5, <1>6, <1>7, <1>8, <1>9 DEF Next, Step, Abs!ANext

\* State implements AtomicState: every operation of a running snap takes
\* effect at one instant between its call and its return, provided no
\* operation completes while another is being registered.
THEOREM AtomicCorrect == IsolatedTurns = TRUE => (Spec => Atomic)
<1>1. IsolatedTurns = TRUE => (Spec => []AtomicInv)
  BY AtomicInvHolds
<1>2. AtomicInv /\ AtomicInv' /\ [Next]_vars => [Abs!ANext]_(Abs!avars)
  BY AtomicStep
<1>3. QED
  BY <1>1, <1>2, AtomicInit, PTL DEF Spec, Atomic, Abs!AtomicSpec
=============================================================================
