---------------------- MODULE StructuralPipelineProofs ----------------------
(* What TLAPS proves of StructuralPipeline, for every set of events,       *)
(* provenances and threads and every bound on crashes and errors.          *)
EXTENDS StructuralPipeline, SequenceTheorems, TLAPS

(* Who may be where: request threads run only in a service that is up, the *)
(* opener only while it opens; a suffix read by sync() ends inside order.  *)
Control ==
  /\ \A t \in Threads : pc[t] # "idle" => phase = "up"
  /\ pc[Opener] # "idle" => phase = "opening"
  /\ pc[Opener] \notin {"payload", "row", "fsync"}
  /\ \A a \in Actors :
       /\ pc[a] \in {"payload", "row", "fsync"} => env[a] \in Envelopes
       /\ pc[a] \in {"observe", "save", "point"} => upto[a] <= Len(order)

ControlInv == TypeOK /\ Control /\ CursorStaysValid

(* The actions one by one: each theorem below has one step for each.       *)
LEMMA NextActions ==
  ASSUME Next
  PROVE  \/ \E t \in Threads :
              \/ \E e \in Envelopes : AppendDuplicate(t, e)
              \/ \E e \in Envelopes : AppendConflict(t, e)
              \/ \E e \in Envelopes : AppendNew(t, e)
              \/ StorePayload(t) \/ StorePayloadFails(t)
              \/ WriteRow(t) \/ WriteRowFails(t)
              \/ FsyncRow(t) \/ FsyncRowFails(t)
         \/ \E a \in Actors :
              \/ SyncNothing(a) \/ SyncBegin(a)
              \/ Observe(a) \/ ObserveRaises(a) \/ SuffixDone(a)
              \/ SaveState(a) \/ ReplacePointer(a) \/ CheckpointFails(a)
         \/ Open \/ LoadLine \/ LoadLineRaises
         \/ LoadRuntime \/ LoadRuntimeRaises \/ Restart
         \/ Kill \/ PowerLoss
BY DEF Next, AppendSteps, SyncSteps, StartupSteps

LEMMA InitControl == Init => ControlInv
BY DistinguishedValues, ParameterKinds
   DEF Init, ControlInv, TypeOK, Control, CursorStaysValid, CursorValid, Actors,
       EmptyRuntime, RuntimeStates, Phases, Pcs

LEMMA StepControl == ControlInv /\ [Next]_vars => ControlInv'
<1> SUFFICES ASSUME ControlInv, [Next]_vars PROVE ControlInv'
  OBVIOUS
<1> USE DistinguishedValues, ParameterKinds
    DEF ControlInv, TypeOK, Control, CursorStaysValid, Actors, Pcs, Phases
<1>1. ASSUME NEW t \in Threads, NEW e \in Envelopes, AppendDuplicate(t, e)
      PROVE  ControlInv'
  BY <1>1 DEF AppendDuplicate, Goto, disk, CursorValid
<1>2. ASSUME NEW t \in Threads, NEW e \in Envelopes, AppendConflict(t, e)
      PROVE  ControlInv'
  BY <1>2 DEF AppendConflict, disk, memory, CursorValid
<1>3. ASSUME NEW t \in Threads, NEW e \in Envelopes, AppendNew(t, e)
      PROVE  ControlInv'
  BY <1>3 DEF AppendNew, Goto, disk, CursorValid
<1>4. ASSUME NEW t \in Threads, StorePayload(t) PROVE ControlInv'
  BY <1>4 DEF StorePayload, Goto, CursorValid
<1>5. ASSUME NEW t \in Threads, StorePayloadFails(t) PROVE ControlInv'
  BY <1>5 DEF StorePayloadFails, Leave, Goto, IOError, CursorValid
<1>6. ASSUME NEW t \in Threads, WriteRow(t) PROVE ControlInv'
  BY <1>6 DEF WriteRow, WriteLine, Goto, CursorValid
<1>7. ASSUME NEW t \in Threads, WriteRowFails(t) PROVE ControlInv'
  BY <1>7, SMTT(20) DEF WriteRowFails, WriteLine, Leave, Goto, IOError, CursorValid
<1>8. ASSUME NEW t \in Threads, FsyncRow(t) PROVE ControlInv'
  BY <1>8, SMTT(30) DEF FsyncRow, Goto, CursorValid, RuntimeStates
<1>9. ASSUME NEW t \in Threads, FsyncRowFails(t) PROVE ControlInv'
  BY <1>9 DEF FsyncRowFails, Leave, Goto, IOError, disk, CursorValid
<1>10. ASSUME NEW a \in Actors, SyncNothing(a) PROVE ControlInv'
  BY <1>10 DEF SyncNothing, MaySync, Leave, Goto, disk, CursorValid
<1>11. ASSUME NEW a \in Actors, SyncBegin(a) PROVE ControlInv'
  BY <1>11 DEF SyncBegin, MaySync, Goto, disk, CursorValid
<1>12. ASSUME NEW a \in Actors, Observe(a) PROVE ControlInv'
  <2> HIDE DEF ControlInv, Control, TypeOK, CursorStaysValid
  <2>0. /\ pc[a] = "observe" /\ rt.count < upto[a]
        /\ rt.count \in Nat /\ rt.field \in Seq(Envelopes)
        /\ upto[a] \in Nat /\ order \in Seq(Envelopes)
    BY <1>12 DEF Observe, ControlInv, TypeOK, RuntimeStates
  <2>1. phase \in {"opening", "up"} /\ upto[a] <= Len(order)
    BY <2>0 DEF ControlInv, Control
  <2>2. rt.count + 1 \in 1..Len(order)
    BY <2>0, <2>1
  <2>3. NextRow \in Envelopes /\ NextRow.event \in Events
    <3>1. NextRow \in Envelopes
      BY <2>0, <2>2, ElementOfSeq DEF NextRow
    <3> QED
      BY <3>1 DEF Envelopes
  <2>4. rt' \in RuntimeStates
    BY <1>12, <2>0, <2>3 DEF Observe, RuntimeStates
  <2>5. CursorValid(rt', order)
    BY <1>12, <2>0, <2>2 DEF Observe, NextRow, CursorValid
  <2> QED
    BY <1>12, <2>4, <2>5 DEF Observe, disk, ControlInv, TypeOK, Control, CursorStaysValid
<1>13. ASSUME NEW a \in Actors, ObserveRaises(a) PROVE ControlInv'
  BY <1>13 DEF ObserveRaises, Leave, Goto, disk, CursorValid
<1>14. ASSUME NEW a \in Actors, SuffixDone(a) PROVE ControlInv'
  BY <1>14 DEF SuffixDone, Goto, disk, CursorValid
<1>15. ASSUME NEW a \in Actors, SaveState(a) PROVE ControlInv'
  BY <1>15 DEF SaveState, Goto, CursorValid
<1>16. ASSUME NEW a \in Actors, ReplacePointer(a) PROVE ControlInv'
  BY <1>16 DEF ReplacePointer, Leave, Goto, CursorValid
<1>17. ASSUME NEW a \in Actors, CheckpointFails(a) PROVE ControlInv'
  BY <1>17 DEF CheckpointFails, Leave, Goto, IOError, disk, CursorValid
<1>18. CASE Open
  BY <1>18 DEF Open, disk
<1>19. CASE LoadLine
  BY <1>19, SMTT(30) DEF LoadLine, LineAccepted, NextLine, disk
<1>20. CASE LoadLineRaises
  BY <1>20 DEF LoadLineRaises, disk
<1>21. CASE LoadRuntime
  BY <1>21 DEF LoadRuntime, SavedRuntime, EmptyRuntime, RuntimeStates, Goto, disk
<1>22. CASE LoadRuntimeRaises
  BY <1>22 DEF LoadRuntimeRaises, disk
<1>23. CASE Restart
  BY <1>23 DEF Restart, MemoryLost, EmptyRuntime, RuntimeStates, disk
<1>24. CASE Kill
  BY <1>24, SMTT(30) DEF Kill, Stop, MemoryLost, EmptyRuntime, RuntimeStates
<1>25. CASE PowerLoss
  <2> HIDE DEF ControlInv, Control, TypeOK, CursorStaysValid
  <2>1. /\ file \in Seq(Envelopes \cup {Torn}) /\ synced \in Nat
    BY DEF ControlInv, TypeOK
  <2>2. PICK n \in synced..Len(file) :
          \/ file' = SubSeq(file, 1, n) /\ synced' = n
          \/ file' = Append(SubSeq(file, 1, n), Torn) /\ synced' = n + 1
    BY <1>25 DEF PowerLoss
  <2>3. SubSeq(file, 1, n) \in Seq(Envelopes \cup {Torn})
    BY <2>1, <2>2
  <2>4. file' \in Seq(Envelopes \cup {Torn}) /\ synced' \in Nat
    <3>1. n \in Nat
      BY <2>1, <2>2
    <3>2. Append(SubSeq(file, 1, n), Torn) \in Seq(Envelopes \cup {Torn})
      BY <2>3, AppendProperties
    <3>3. CASE file' = SubSeq(file, 1, n) /\ synced' = n
      BY <2>3, <3>1, <3>3, Zenon
    <3>4. CASE file' = Append(SubSeq(file, 1, n), Torn) /\ synced' = n + 1
      <4>1. n + 1 \in Nat
        BY <3>1
      <4> QED
        BY <3>2, <3>4, <4>1, Zenon
    <3> QED
      BY <2>2, <3>3, <3>4, Zenon
  <2>5. Stop("power")
    BY <1>25 DEF PowerLoss
  <2>6. TypeOK'
    <3>1. /\ order' \in Seq(Envelopes) /\ rt' \in RuntimeStates
          /\ phase' \in Phases /\ line' \in Nat
          /\ pc' \in [Actors -> Pcs] /\ env' \in [Actors -> Envelopes \cup {None}]
          /\ upto' \in [Actors -> Nat]
      BY <2>5 DEF Stop, MemoryLost, EmptyRuntime, RuntimeStates
    <3>2. /\ payloads' \subseteq Envelopes /\ states' \subseteq RuntimeStates
          /\ pointer' \in RuntimeStates \cup {None}
          /\ acked' \subseteq Envelopes /\ refused' \subseteq Envelopes
          /\ crashes' \in 0..MaxCrashes /\ errors' \in 0..MaxErrors
      <4> HIDE DEF Actors, Pcs, Phases
      <4> QED
        BY <2>5 DEF Stop, ControlInv, TypeOK
    <3> QED
      BY <2>4, <3>1, <3>2, Zenon DEF TypeOK
  <2>7. Control' /\ CursorStaysValid'
    BY <2>5 DEF Stop, MemoryLost, Control, CursorStaysValid
  <2> QED
    BY <2>6, <2>7 DEF ControlInv
<1>26. CASE UNCHANGED vars
  BY <1>26 DEF vars, disk, memory, CursorValid
<1> QED
  BY <1>1, <1>2, <1>3, <1>4, <1>5, <1>6, <1>7, <1>8, <1>9, <1>10, <1>11, <1>12, <1>13,
     <1>14, <1>15, <1>16, <1>17, <1>18, <1>19, <1>20, <1>21, <1>22, <1>23, <1>24, <1>25,
     <1>26, NextActions

(* The variables keep their types in every behaviour, whatever fails.      *)
THEOREM PipelineTypeOK == Spec => []TypeOK
<1>1. Spec => []ControlInv
  BY InitControl, StepControl, PTL DEF Spec
<1>2. ControlInv => TypeOK
  BY DEF ControlInv
<1> QED
  BY <1>1, <1>2, PTL

(* Once a service runs, its cursor names a prefix of the raw rows it holds *)
(* for as long as it runs, whatever failed before and whatever fails now.  *)
THEOREM PipelineCursorStaysValid == Spec => []CursorStaysValid
<1>1. Spec => []ControlInv
  BY InitControl, StepControl, PTL DEF Spec
<1>2. ControlInv => CursorStaysValid
  BY DEF ControlInv
<1> QED
  BY <1>1, <1>2, PTL

-----------------------------------------------------------------------------
(* A row is written only after its payload, so every line of the index     *)
(* that parses can be read back, whatever fails.                           *)
PayloadInv ==
  /\ RowsHavePayload
  /\ \A a \in Actors : pc[a] \in {"row", "fsync"} => env[a] \in payloads

LEMMA StepPayload == ControlInv /\ PayloadInv /\ [Next]_vars => PayloadInv'
<1> SUFFICES ASSUME ControlInv, PayloadInv, [Next]_vars PROVE PayloadInv'
  OBVIOUS
<1> USE DistinguishedValues, ParameterKinds DEF PayloadInv, RowsHavePayload, Actors
<1>0. TypeOK /\ file \in Seq(Envelopes \cup {Torn})
  BY DEF ControlInv, TypeOK
<1>1. ASSUME file' = file, payloads \subseteq payloads',
             \A a \in Actors : pc'[a] \in {"row", "fsync"}
               => pc[a] \in {"row", "fsync"} /\ env'[a] = env[a]
      PROVE  PayloadInv'
  BY <1>1
<1>2. ASSUME NEW t \in Threads, StorePayload(t) PROVE PayloadInv'
  BY <1>0, <1>2 DEF StorePayload, Goto, TypeOK
<1>3. ASSUME NEW t \in Threads, WriteRow(t) PROVE PayloadInv'
  BY <1>0, <1>3 DEF WriteRow, WriteLine, Goto, TypeOK
<1>4. ASSUME NEW t \in Threads, WriteRowFails(t) PROVE PayloadInv'
  BY <1>0, <1>4 DEF WriteRowFails, WriteLine, Leave, Goto, TypeOK
<1>5. CASE PowerLoss
  <2>1. PICK n \in synced..Len(file) :
           file' = SubSeq(file, 1, n) \/ file' = Append(SubSeq(file, 1, n), Torn)
    BY <1>5 DEF PowerLoss
  <2>2. n \in 0..Len(file)
    BY <1>0, <2>1 DEF TypeOK
  <2>3. \A i \in 1..n : SubSeq(file, 1, n)[i] = file[i]
    BY <1>0, <2>2
  <2>4. SubSeq(file, 1, n) \in Seq(Envelopes \cup {Torn}) /\ Len(SubSeq(file, 1, n)) = n
    BY <1>0, <2>2
  <2>5. \A i \in 1..Len(file') : file'[i] # Torn => i \in 1..Len(file) /\ file'[i] = file[i]
    BY <1>0, <2>1, <2>2, <2>3, <2>4, SMTT(30)
  <2>6. RowsHavePayload'
    BY <1>5, <2>5 DEF PowerLoss, Stop
  <2> QED
    BY <1>5, <2>6 DEF PowerLoss, Stop, MemoryLost
<1>6. ASSUME NEW t \in Threads, NEW e \in Envelopes,
             AppendDuplicate(t, e) \/ AppendConflict(t, e) \/ AppendNew(t, e)
      PROVE  PayloadInv'
  <2> HIDE DEF PayloadInv
  <2> QED
    BY <1>0, <1>1, <1>6
       DEF AppendDuplicate, AppendConflict, AppendNew, Goto, disk, memory, TypeOK
<1>7. ASSUME NEW t \in Threads, StorePayloadFails(t) \/ FsyncRow(t) \/ FsyncRowFails(t)
      PROVE  PayloadInv'
  <2> HIDE DEF PayloadInv
  <2> QED
    BY <1>0, <1>1, <1>7 DEF StorePayloadFails, FsyncRow, FsyncRowFails, Leave, Goto, disk, TypeOK
<1>8. ASSUME NEW a \in Actors,
             \/ SyncNothing(a) \/ SyncBegin(a)
             \/ Observe(a) \/ ObserveRaises(a) \/ SuffixDone(a)
             \/ SaveState(a) \/ ReplacePointer(a) \/ CheckpointFails(a)
      PROVE  PayloadInv'
  <2> HIDE DEF PayloadInv
  <2> QED
    BY <1>0, <1>1, <1>8
       DEF SyncNothing, SyncBegin, Observe, ObserveRaises, SuffixDone, SaveState,
           ReplacePointer, CheckpointFails, Leave, Goto, disk, TypeOK
<1>9. CASE Open \/ LoadLine \/ LoadLineRaises \/ LoadRuntime \/ LoadRuntimeRaises
           \/ Restart \/ Kill
  <2> HIDE DEF PayloadInv
  <2> QED
    BY <1>0, <1>1, <1>9
       DEF Open, LoadLine, LoadLineRaises, LoadRuntime, LoadRuntimeRaises, Restart, Kill,
           Stop, MemoryLost, Goto, disk, TypeOK
<1>10. CASE UNCHANGED vars
  <2> HIDE DEF PayloadInv
  <2> QED
    BY <1>1, <1>10 DEF vars, disk, memory
<1> QED
  BY <1>2, <1>3, <1>4, <1>5, <1>6, <1>7, <1>8, <1>9, <1>10, NextActions

(* Every index row that parses has its payload in the store: append()      *)
(* stores the payload before it writes the row, and nothing deletes one.   *)
THEOREM PipelineRowsHavePayload == Spec => []RowsHavePayload
<1>1. Init => PayloadInv
  BY DEF Init, PayloadInv, RowsHavePayload, Actors
<1>2. Spec => [](ControlInv /\ PayloadInv)
  BY <1>1, InitControl, StepControl, StepPayload, PTL DEF Spec
<1>3. PayloadInv => RowsHavePayload
  BY DEF PayloadInv
<1> QED
  BY <1>2, <1>3, PTL

-----------------------------------------------------------------------------
(* What holds of StructuralPipeline when an index write that raises leaves  *)
(* nothing behind: acknowledgements survive, a start accepts what it finds, *)
(* and derived state is the fold of a durable prefix.                       *)
(* No write that raises leaves a row, no row is torn, and kills and power   *)
(* losses do not mix (a kill leaves a row in the kernel's cache that the    *)
(* next start serves and a later power loss would take away).               *)
CleanWrites ==
  /\ ErrorLeaves \subseteq {"nothing"}
  /\ ~CrashTears
  /\ "power" \notin Stops \/ "kill" \notin Stops

StoreLabels == {"payload", "row", "fsync"}

\* The index holds envelopes, one row per event.
IndexInv ==
  /\ \A i \in 1..Len(file) : file[i] \in Envelopes
  /\ \A i, j \in 1..Len(file) : file[i].event = file[j].event => i = j
  /\ synced <= Len(file)

\* The memory is a durable prefix of it: all of it, but for the row that
\* the holder of the store's lock has written and not yet fsynced.
OrderInv ==
  /\ Len(order) <= Kept
  /\ \A i \in 1..Len(order) : order[i] = file[i]
  /\ phase # "up" => Kept = Len(file)
  /\ phase = "down" => order = <<>> /\ line = 0
  /\ phase = "loading" => Len(order) = line /\ line <= Len(file)
  /\ phase = "opening" => Len(order) = Len(file)
  /\ phase = "up" /\ (\A a \in Actors : pc[a] # "fsync") => Len(file) = Len(order)

\* The store's lock excludes, and its holder appends an unknown event.
LockInv ==
  /\ \A a, b \in Actors : pc[a] \in StoreLabels /\ pc[b] \in StoreLabels => a = b
  /\ \A a \in Actors : pc[a] \in {"payload", "row"} =>
       \A i \in 1..Len(order) : order[i].event # env[a].event
  /\ \A a \in Actors : pc[a] = "fsync" =>
       Len(file) = Len(order) + 1 /\ file[Len(file)] = env[a]

\* Answers agree with the durable rows.
AnswerInv ==
  /\ \A e \in acked : \E i \in 1..Kept : file[i] = e
  /\ \A e \in refused : \E i \in 1..Kept : file[i].event = e.event /\ file[i] # e

StoreInv == IndexInv /\ OrderInv /\ LockInv /\ AnswerInv

LEMMA InitStore == Init => StoreInv
BY DEF Init, StoreInv, IndexInv, OrderInv, LockInv, AnswerInv, Kept, StoreLabels, Actors

(* A step that leaves the index, the memory of it and the answers alone and *)
(* lets no actor enter the store's critical section or leave its last step. *)
LEMMA QuietStep ==
  ASSUME ControlInv, StoreInv,
         UNCHANGED <<file, synced, order, acked, refused>>,
         \/ phase' = phase /\ line' = line
         \/ phase = "opening" /\ phase' \in {"up", "broken", "refused"},
         \A a \in Actors : pc'[a] \in StoreLabels => pc[a] = pc'[a] /\ env'[a] = env[a],
         \A a \in Actors : pc[a] = "fsync" => pc'[a] = "fsync"
  PROVE  StoreInv'
<1>1. Kept' = Kept
  BY DEF Kept
<1>2. IndexInv' /\ AnswerInv'
  BY <1>1 DEF StoreInv, IndexInv, AnswerInv
<1>3. OrderInv'
  BY <1>1 DEF StoreInv, OrderInv
<1>4. LockInv'
  BY DEF StoreInv, LockInv, StoreLabels
<1> QED
  BY <1>2, <1>3, <1>4 DEF StoreInv

LEMMA StepStore ==
  ASSUME CleanWrites, ControlInv, StoreInv, [Next]_vars
  PROVE  StoreInv'
<1> USE DistinguishedValues
<1>0. /\ file \in Seq(Envelopes \cup {Torn}) /\ order \in Seq(Envelopes)
      /\ synced \in Nat /\ line \in Nat /\ Opener \in Actors /\ Opener \notin Threads
      /\ Threads \subseteq Actors /\ Torn \notin Envelopes
      /\ pc \in [Actors -> Pcs] /\ env \in [Actors -> Envelopes \cup {None}]
      /\ \A t \in Threads : pc[t] # "idle" => phase = "up"
      /\ pc[Opener] # "idle" => phase = "opening" /\ pc[Opener] \notin StoreLabels
      /\ phase = "up" => \A t \in Actors \ Threads : pc[t] = "idle"
      /\ \A t \in Actors : pc[t] \in StoreLabels => env[t] \in Envelopes /\ phase = "up"
  BY DEF ControlInv, TypeOK, Control, Actors, StoreLabels, Envelopes
<1>1. ASSUME NEW t \in Threads, NEW e \in Envelopes, AppendDuplicate(t, e)
      PROVE  StoreInv'
  <2>1. PICK i \in 1..Len(order) : order[i] = e
    BY <1>1 DEF AppendDuplicate, Stored
  <2>2. i \in 1..Kept /\ file[i] = e
    BY <1>0, <2>1 DEF StoreInv, OrderInv, Kept
  <2>3. Kept' = Kept
    BY <1>1 DEF AppendDuplicate, disk, Kept
  <2>4. IndexInv' /\ AnswerInv'
    BY <1>1, <2>2, <2>3 DEF AppendDuplicate, disk, StoreInv, IndexInv, AnswerInv
  <2>5. OrderInv' /\ LockInv'
    BY <1>0, <1>1, <2>3
       DEF AppendDuplicate, Goto, disk, StoreInv, OrderInv, LockInv, StoreLabels
  <2> QED
    BY <2>4, <2>5 DEF StoreInv
<1>2. ASSUME NEW t \in Threads, NEW e \in Envelopes, AppendConflict(t, e)
      PROVE  StoreInv'
  <2>1. PICK i \in 1..Len(order) : order[i].event = e.event /\ order[i] # e
    BY <1>2 DEF AppendConflict, Stored, Known
  <2>2. i \in 1..Kept /\ file[i].event = e.event /\ file[i] # e
    BY <1>0, <2>1 DEF StoreInv, OrderInv, Kept
  <2>3. Kept' = Kept
    BY <1>2 DEF AppendConflict, disk, Kept
  <2>4. IndexInv' /\ AnswerInv'
    BY <1>2, <2>2, <2>3 DEF AppendConflict, disk, StoreInv, IndexInv, AnswerInv
  <2>5. OrderInv' /\ LockInv'
    BY <1>0, <1>2, <2>3
       DEF AppendConflict, disk, memory, StoreInv, OrderInv, LockInv, StoreLabels
  <2> QED
    BY <2>4, <2>5 DEF StoreInv
<1>3. ASSUME NEW t \in Threads, NEW e \in Envelopes, AppendNew(t, e)
      PROVE  StoreInv'
  <2>1. Kept' = Kept
    BY <1>3 DEF AppendNew, disk, Kept
  <2>2. IndexInv' /\ AnswerInv'
    BY <1>3, <2>1 DEF AppendNew, disk, StoreInv, IndexInv, AnswerInv
  <2>3. OrderInv' /\ LockInv'
    BY <1>0, <1>3, <2>1
       DEF AppendNew, Goto, Known, StoreLocked, disk, StoreInv, OrderInv, LockInv, StoreLabels
  <2> QED
    BY <2>2, <2>3 DEF StoreInv
<1>4. ASSUME NEW t \in Threads, StorePayload(t) PROVE StoreInv'
  <2>1. Kept' = Kept
    BY <1>4 DEF StorePayload, Kept
  <2>2. IndexInv' /\ AnswerInv'
    BY <1>4, <2>1 DEF StorePayload, StoreInv, IndexInv, AnswerInv
  <2>3. OrderInv' /\ LockInv'
    BY <1>0, <1>4, <2>1
       DEF StorePayload, Goto, StoreInv, OrderInv, LockInv, StoreLabels
  <2> QED
    BY <2>2, <2>3 DEF StoreInv
<1>5. ASSUME NEW t \in Threads, StorePayloadFails(t) PROVE StoreInv'
  BY <1>0, <1>5, QuietStep DEF StorePayloadFails, Leave, Goto, StoreLabels
<1>6. ASSUME NEW t \in Threads, WriteRow(t) PROVE StoreInv'
  <2>1. /\ pc[t] = "row" /\ phase = "up" /\ env[t] \in Envelopes
        /\ Len(file) = Len(order)
        /\ \A a \in Actors : a # t => pc[a] \notin StoreLabels
    BY <1>0, <1>6 DEF WriteRow, StoreInv, OrderInv, LockInv, StoreLabels
  <2>2. file' = Append(file, env[t])
    BY <1>0, <1>6 DEF WriteRow, WriteLine, StoreInv, IndexInv
  <2>3. /\ Len(file') = Len(file) + 1 /\ file'[Len(file')] = env[t]
        /\ \A i \in 1..Len(file) : file'[i] = file[i]
    BY <1>0, <2>1, <2>2
  <2>4. \A i \in 1..Len(file) : file[i].event # env[t].event
    BY <1>0, <2>1 DEF StoreInv, OrderInv, LockInv, Kept
  <2>5. IndexInv'
    <3>1. \A i \in 1..Len(file') : i \in 1..Len(file) \/ i = Len(file')
      BY <1>0, <2>3
    <3>2. \A i \in 1..Len(file') : file'[i] \in Envelopes
      BY <2>1, <2>3, <3>1 DEF StoreInv, IndexInv
    <3>3. \A i, j \in 1..Len(file') : file'[i].event = file'[j].event => i = j
      BY <2>3, <2>4, <3>1 DEF StoreInv, IndexInv
    <3>4. synced' <= Len(file')
      BY <1>0, <1>6, <2>3 DEF WriteRow, StoreInv, IndexInv
    <3> QED
      BY <3>2, <3>3, <3>4 DEF IndexInv
  <2>6. Kept' \in Kept..(Kept + 1) /\ Kept \in 0..Len(file) /\ Kept' <= Len(file')
    BY <1>0, <1>6, <2>3 DEF WriteRow, Kept, StoreInv, IndexInv
  <2>7. AnswerInv'
    <3>1. \A i \in 1..Kept : i \in 1..Kept' /\ file'[i] = file[i]
      BY <1>0, <2>3, <2>6
    <3> QED
      BY <1>6, <3>1 DEF WriteRow, StoreInv, AnswerInv
  <2>8. OrderInv'
    BY <1>0, <1>6, <2>1, <2>3, <2>6 DEF WriteRow, Goto, StoreInv, OrderInv
  <2>9. LockInv'
    BY <1>0, <1>6, <2>1, <2>3 DEF WriteRow, Goto, StoreInv, LockInv, StoreLabels
  <2> QED
    BY <2>5, <2>7, <2>8, <2>9 DEF StoreInv
<1>7. ASSUME NEW t \in Threads, WriteRowFails(t) PROVE StoreInv'
  <2>1. file' = file
    BY <1>7 DEF WriteRowFails, CleanWrites
  <2> QED
    BY <1>0, <1>7, <2>1, QuietStep DEF WriteRowFails, Leave, Goto, StoreLabels
<1>8. ASSUME NEW t \in Threads, FsyncRow(t) PROVE StoreInv'
  <2>1. /\ pc[t] = "fsync" /\ phase = "up" /\ env[t] \in Envelopes
        /\ Len(file) = Len(order) + 1 /\ file[Len(file)] = env[t]
        /\ \A a \in Actors : a # t => pc[a] \notin StoreLabels
    BY <1>0, <1>8 DEF FsyncRow, StoreInv, OrderInv, LockInv, StoreLabels
  <2>2. /\ Kept \in 0..Len(file) /\ Kept' = Len(file)
        /\ file' = file /\ synced' = Len(file)
    BY <1>0, <1>8 DEF FsyncRow, Kept, StoreInv, IndexInv
  <2>3. /\ Len(order') = Len(order) + 1 /\ order'[Len(order')] = env[t]
        /\ \A i \in 1..Len(order) : order'[i] = order[i]
    BY <1>0, <1>8, <2>1 DEF FsyncRow
  <2>4. IndexInv'
    BY <1>0, <2>2 DEF StoreInv, IndexInv
  <2>5. AnswerInv'
    BY <1>0, <1>8, <2>1, <2>2 DEF FsyncRow, StoreInv, AnswerInv
  <2>6. OrderInv'
    BY <1>0, <1>8, <2>1, <2>2, <2>3 DEF FsyncRow, Goto, StoreInv, OrderInv
  <2>7. LockInv'
    BY <1>0, <1>8, <2>1, <2>2, <2>3 DEF FsyncRow, Goto, StoreInv, LockInv, StoreLabels
  <2> QED
    BY <2>4, <2>5, <2>6, <2>7 DEF StoreInv
<1>9. ASSUME NEW t \in Threads, FsyncRowFails(t) PROVE StoreInv'
  BY <1>9 DEF FsyncRowFails, CleanWrites
<1>10. ASSUME NEW a \in Actors,
              \/ SyncNothing(a) \/ ObserveRaises(a) \/ ReplacePointer(a) \/ CheckpointFails(a)
       PROVE  StoreInv'
  <2>1. a # Opener \/ phase = "opening"
    BY <1>0, <1>10
       DEF SyncNothing, MaySync, ObserveRaises, ReplacePointer, CheckpointFails, StoreLabels
  <2> QED
    BY <1>0, <1>10, <2>1, QuietStep
       DEF SyncNothing, MaySync, ObserveRaises, ReplacePointer, CheckpointFails,
           Leave, Goto, disk, StoreLabels
<1>11. ASSUME NEW a \in Actors,
              SyncBegin(a) \/ Observe(a) \/ SuffixDone(a) \/ SaveState(a)
       PROVE  StoreInv'
  BY <1>0, <1>11, QuietStep
     DEF SyncBegin, MaySync, Observe, SuffixDone, SaveState, Goto, disk, StoreLabels
<1>12. CASE Open \/ LoadLineRaises \/ LoadRuntimeRaises
  <2>1. Kept' = Kept
    BY <1>12 DEF Open, LoadLineRaises, LoadRuntimeRaises, disk, Kept
  <2> QED
    BY <1>0, <1>12, <2>1
       DEF Open, LoadLineRaises, LoadRuntimeRaises, disk, StoreInv, IndexInv, OrderInv,
           LockInv, AnswerInv, StoreLabels
<1>13. CASE LoadLine
  <2>1. /\ phase = "loading" /\ line < Len(file) /\ Len(order) = line
        /\ NextLine \in Envelopes /\ Kept' = Kept /\ Kept = Len(file)
    BY <1>0, <1>13 DEF LoadLine, NextLine, StoreInv, IndexInv, OrderInv, disk, Kept
  <2>2. ~Known(NextLine.event)
    BY <1>0, <2>1 DEF Known, NextLine, StoreInv, IndexInv, OrderInv
  <2>3. order' = Append(order, NextLine)
    BY <1>13, <2>2 DEF LoadLine
  <2>4. /\ Len(order') = line + 1 /\ order'[line + 1] = file[line + 1]
        /\ \A i \in 1..Len(order) : order'[i] = order[i]
    BY <1>0, <2>1, <2>3 DEF NextLine
  <2>5. IndexInv' /\ AnswerInv'
    BY <1>13, <2>1 DEF LoadLine, disk, StoreInv, IndexInv, AnswerInv
  <2>6. OrderInv'
    BY <1>0, <1>13, <2>1, <2>4 DEF LoadLine, disk, StoreInv, OrderInv
  <2>7. LockInv'
    BY <1>0, <1>13, <2>1 DEF LoadLine, disk, StoreInv, LockInv, StoreLabels
  <2> QED
    BY <2>5, <2>6, <2>7 DEF StoreInv
<1>14. CASE LoadRuntime
  <2>1. Kept' = Kept
    BY <1>14 DEF LoadRuntime, disk, Kept
  <2> QED
    BY <1>0, <1>14, <2>1
       DEF LoadRuntime, Goto, disk, StoreInv, IndexInv, OrderInv,
           LockInv, AnswerInv, StoreLabels
<1>15. CASE Restart
  <2>1. Kept' = Kept /\ Kept = Len(file)
    BY <1>15 DEF Restart, disk, Kept, StoreInv, OrderInv
  <2> QED
    BY <1>0, <1>15, <2>1
       DEF Restart, MemoryLost, disk, StoreInv, IndexInv, OrderInv,
           LockInv, AnswerInv, StoreLabels
<1>16. CASE Kill
  <2>1. Kept' = Kept /\ Kept = Len(file)
    BY <1>16 DEF Kill, Stop, CleanWrites, Kept
  <2> QED
    BY <1>0, <1>16, <2>1
       DEF Kill, Stop, MemoryLost, StoreInv, IndexInv, OrderInv,
           LockInv, AnswerInv, StoreLabels
<1>17. CASE PowerLoss
  <2>1. PICK n \in synced..Len(file) : file' = SubSeq(file, 1, n) /\ synced' = n
    BY <1>17 DEF PowerLoss, CleanWrites
  <2>2. Kept = synced /\ n \in 0..Len(file)
    BY <1>0, <1>17, <2>1 DEF PowerLoss, Stop, Kept
  <2>3. /\ Len(file') = n /\ Kept' = n
        /\ \A i \in 1..n : file'[i] = file[i]
    BY <1>0, <2>1, <2>2 DEF Kept
  <2>4. IndexInv' /\ AnswerInv'
    <3>1. \A i \in 1..Kept : i \in 1..Kept' /\ file'[i] = file[i]
      BY <1>0, <2>1, <2>2, <2>3
    <3>2. AnswerInv'
      BY <1>17, <3>1 DEF PowerLoss, Stop, StoreInv, AnswerInv
    <3>3. n \in Nat /\ \A i \in 1..n : i \in 1..Len(file)
      BY <1>0, <2>2
    <3>4. IndexInv'
      BY <2>1, <2>3, <3>3 DEF StoreInv, IndexInv
    <3> QED
      BY <3>2, <3>4
  <2>5. OrderInv' /\ LockInv'
    BY <1>0, <1>17, <2>2, <2>3
       DEF PowerLoss, Stop, MemoryLost, StoreInv, OrderInv, LockInv, StoreLabels
  <2> QED
    BY <2>4, <2>5 DEF StoreInv
<1>18. CASE UNCHANGED vars
  BY <1>18, QuietStep DEF vars, disk, memory
<1> QED
  BY <1>1, <1>2, <1>3, <1>4, <1>5, <1>6, <1>7, <1>8, <1>9, <1>10, <1>11, <1>12, <1>13,
     <1>14, <1>15, <1>16, <1>17, <1>18, NextActions

(* An acknowledged observation is durable, with its payload: whatever stops *)
(* the service, the next start reads it back.                               *)
THEOREM AcknowledgedSurvives == ASSUME CleanWrites PROVE Spec => []AckedSurvive
<1>1. Init => PayloadInv
  BY DEF Init, PayloadInv, RowsHavePayload, Actors
<1>2. ControlInv /\ StoreInv /\ [Next]_vars => StoreInv'
  BY CleanWrites, StepStore
<1>3. Spec => [](ControlInv /\ PayloadInv /\ StoreInv)
  BY <1>1, <1>2, InitControl, StepControl, StepPayload, InitStore, PTL DEF Spec
<1>4. ControlInv /\ PayloadInv /\ StoreInv => AckedSurvive
  <2> SUFFICES ASSUME ControlInv, PayloadInv, StoreInv, NEW e \in acked
               PROVE  e \in Durable /\ e \in payloads
    BY DEF AckedSurvive
  <2>1. PICK i \in 1..Kept : file[i] = e
    BY DEF StoreInv, AnswerInv
  <2>2. i \in 1..Len(file)
    BY DEF Kept, ControlInv, TypeOK, StoreInv, IndexInv
  <2>3. e \in Envelopes /\ e # Torn
    BY <2>1, <2>2, DistinguishedValues DEF StoreInv, IndexInv, Envelopes
  <2>4. e \in payloads
    BY <2>1, <2>2, <2>3 DEF PayloadInv, RowsHavePayload
  <2> QED
    BY <2>1, <2>4 DEF Durable
<1> QED
  BY <1>3, <1>4, PTL

(* A provenance refused for an event is never durable, then or later.       *)
THEOREM RefusalIsFinal == ASSUME CleanWrites PROVE Spec => []RefusedNeverStored
<1>1. ControlInv /\ StoreInv /\ [Next]_vars => StoreInv'
  BY CleanWrites, StepStore
<1>2. Spec => [](ControlInv /\ StoreInv)
  BY <1>1, InitControl, StepControl, InitStore, PTL DEF Spec
<1>3. ControlInv /\ StoreInv => RefusedNeverStored
  <2> SUFFICES ASSUME ControlInv, StoreInv, NEW e \in refused, e \in Durable PROVE FALSE
    BY DEF RefusedNeverStored
  <2>1. PICK i \in 1..Kept : file[i].event = e.event /\ file[i] # e
    BY DEF StoreInv, AnswerInv
  <2>2. PICK j \in 1..Kept : file[j] = e
    BY DEF Durable
  <2>3. i \in 1..Len(file) /\ j \in 1..Len(file)
    BY DEF Kept, ControlInv, TypeOK, StoreInv, IndexInv
  <2> QED
    BY <2>1, <2>2, <2>3 DEF StoreInv, IndexInv
<1> QED
  BY <1>2, <1>3, PTL

-----------------------------------------------------------------------------
(* The derived runtime.                                                     *)

RuntimeLabels == {"observe", "save", "point"}

\* A runtime state is the fold of a prefix of a log of rows.
FoldOf(r, log) ==
  /\ r.count <= Len(log)
  /\ Len(r.field) = r.count
  /\ \A i \in 1..r.count : r.field[i] = log[i]
  /\ IF r.count = 0 THEN r.last = None ELSE r.last = log[r.count].event

\* The runtime folds a prefix of order; the checkpoint is a stored state
\* that folds a durable prefix of the index; sync() excludes itself.
RuntimeInv ==
  /\ FoldOf(rt, order)
  /\ pointer # None =>
       pointer \in states /\ pointer.count <= Kept /\ FoldOf(pointer, file)
  /\ \A a, b \in Actors : pc[a] \in RuntimeLabels /\ pc[b] \in RuntimeLabels => a = b
  /\ \A a \in Actors : pc[a] = "point" => rt \in states

LEMMA FoldExtends ==
  ASSUME NEW r \in RuntimeStates, NEW log, NEW longer, NEW n \in Nat,
         Len(log) \in Nat, Len(longer) \in Nat, FoldOf(r, log), r.count <= n, n <= Len(longer),
         \A i \in 1..n : longer[i] = log[i]
  PROVE  FoldOf(r, longer)
BY DEF FoldOf, RuntimeStates

LEMMA QuietRuntime ==
  ASSUME ControlInv, StoreInv, RuntimeInv, UNCHANGED <<rt, pointer, states>>,
         Len(order') \in Nat, Len(file') \in Nat, Kept' \in Nat,
         Len(order) <= Len(order'), \A i \in 1..Len(order) : order'[i] = order[i],
         Kept <= Kept', Kept' <= Len(file'), \A i \in 1..Kept : file'[i] = file[i],
         \A a \in Actors : pc'[a] \in RuntimeLabels => pc'[a] = pc[a]
  PROVE  RuntimeInv'
<1>0. /\ rt \in RuntimeStates /\ pointer \in RuntimeStates \cup {None}
      /\ Len(order) \in Nat /\ Len(file) \in Nat /\ Kept \in Nat /\ Kept <= Len(file)
  BY DEF ControlInv, TypeOK, Kept, StoreInv, IndexInv
<1>1. FoldOf(rt, order')
  <2>1. FoldOf(rt, order) /\ rt.count <= Len(order)
    BY DEF RuntimeInv, FoldOf
  <2> QED
    BY <1>0, <2>1, FoldExtends
<1>2. ASSUME pointer # None
      PROVE  pointer \in states /\ pointer.count <= Kept' /\ FoldOf(pointer, file')
  <2>1. /\ pointer \in states /\ pointer.count <= Kept /\ FoldOf(pointer, file)
        /\ pointer \in RuntimeStates /\ pointer.count \in Nat
    BY <1>0, <1>2 DEF RuntimeInv, RuntimeStates
  <2>2. FoldOf(pointer, file')
    BY <1>0, <2>1, FoldExtends
  <2> QED
    BY <1>0, <2>1, <2>2
<1>3. FoldOf(rt, order)' /\ (pointer # None => FoldOf(pointer, file))'
  BY <1>1, <1>2 DEF FoldOf
<1>4. /\ \A a, b \in Actors : pc'[a] \in RuntimeLabels /\ pc'[b] \in RuntimeLabels => a = b
      /\ \A a \in Actors : pc'[a] = "point" => rt \in states
  BY DEF RuntimeInv, RuntimeLabels
<1> QED
  BY <1>2, <1>3, <1>4 DEF RuntimeInv

LEMMA InitRuntime == Init => RuntimeInv
BY DEF Init, RuntimeInv, FoldOf, EmptyRuntime, RuntimeLabels, Actors

LEMMA StepRuntime ==
  ASSUME CleanWrites, ControlInv, StoreInv, StoreInv', RuntimeInv, [Next]_vars
  PROVE  RuntimeInv'
<1> USE DistinguishedValues
<1>0. /\ file \in Seq(Envelopes \cup {Torn}) /\ order \in Seq(Envelopes)
      /\ Len(order) \in Nat /\ Len(file) \in Nat
      /\ synced \in Nat /\ Kept \in Nat /\ Kept <= Len(file) /\ Len(order) <= Kept
      /\ rt \in RuntimeStates /\ pointer \in RuntimeStates \cup {None}
      /\ Threads \subseteq Actors /\ Opener \in Actors
      /\ pc \in [Actors -> Pcs]
  BY DEF ControlInv, TypeOK, Kept, StoreInv, IndexInv, OrderInv, Actors
<1>1. ASSUME NEW t \in Threads, NEW e \in Envelopes,
             AppendDuplicate(t, e) \/ AppendConflict(t, e) \/ AppendNew(t, e)
      PROVE  RuntimeInv'
  <2>1. Kept' = Kept
    BY <1>1 DEF AppendDuplicate, AppendConflict, AppendNew, disk, Kept
  <2> QED
    BY <1>0, <1>1, <2>1, QuietRuntime
       DEF AppendDuplicate, AppendConflict, AppendNew, Goto, disk, memory, RuntimeLabels
<1>2. ASSUME NEW t \in Threads,
             StorePayload(t) \/ StorePayloadFails(t) \/ WriteRowFails(t) \/ FsyncRowFails(t)
      PROVE  RuntimeInv'
  <2>1. UNCHANGED <<file, synced, order, rt, pointer, states>>
    BY <1>2 DEF StorePayload, StorePayloadFails, WriteRowFails, FsyncRowFails, CleanWrites, disk
  <2>2. Kept' = Kept
    BY <2>1 DEF Kept
  <2>3. \A a \in Actors : pc'[a] \in RuntimeLabels => pc'[a] = pc[a]
    BY <1>0, <1>2
       DEF StorePayload, StorePayloadFails, WriteRowFails, FsyncRowFails, Leave, Goto, RuntimeLabels
  <2> QED
    BY <1>0, <2>1, <2>2, <2>3, QuietRuntime
<1>3. ASSUME NEW t \in Threads, WriteRow(t) PROVE RuntimeInv'
  <2>1. file' = Append(file, env[t]) /\ env[t] \in Envelopes
    BY <1>0, <1>3 DEF WriteRow, WriteLine, StoreInv, IndexInv, ControlInv, Control, Envelopes
  <2>2. Len(file') = Len(file) + 1 /\ \A i \in 1..Len(file) : file'[i] = file[i]
    BY <1>0, <2>1
  <2>3. Kept' \in Nat /\ Kept <= Kept' /\ Kept' <= Len(file')
    BY <1>0, <1>3, <2>2 DEF WriteRow, Kept
  <2>4. \A a \in Actors : pc'[a] \in RuntimeLabels => pc'[a] = pc[a]
    BY <1>0, <1>3 DEF WriteRow, Goto, RuntimeLabels
  <2>5. \A i \in 1..Kept : file'[i] = file[i]
    BY <1>0, <2>2
  <2>6. UNCHANGED <<order, rt, pointer, states>>
    BY <1>3 DEF WriteRow
  <2> QED
    BY <1>0, <2>2, <2>3, <2>4, <2>5, <2>6, QuietRuntime
<1>4. ASSUME NEW t \in Threads, FsyncRow(t) PROVE RuntimeInv'
  <2>1. order' = Append(order, env[t]) /\ env[t] \in Envelopes
    BY <1>4 DEF FsyncRow, ControlInv, Control, Actors
  <2>2. Len(order') = Len(order) + 1 /\ \A i \in 1..Len(order) : order'[i] = order[i]
    BY <1>0, <2>1
  <2>3. file' = file /\ Kept' \in Nat /\ Kept <= Kept' /\ Kept' <= Len(file')
    BY <1>0, <1>4 DEF FsyncRow, Kept
  <2>4. \A a \in Actors : pc'[a] \in RuntimeLabels => pc'[a] = pc[a]
    BY <1>0, <1>4 DEF FsyncRow, Goto, RuntimeLabels
  <2>5. UNCHANGED <<rt, pointer, states>>
    BY <1>4 DEF FsyncRow
  <2> QED
    BY <1>0, <2>2, <2>3, <2>4, <2>5, QuietRuntime
<1>5. ASSUME NEW a \in Actors, SyncNothing(a) \/ ObserveRaises(a) \/ CheckpointFails(a)
      PROVE  RuntimeInv'
  <2>1. UNCHANGED <<file, synced, order, rt, pointer, states>>
    BY <1>5 DEF SyncNothing, ObserveRaises, CheckpointFails, disk
  <2>2. Kept' = Kept
    BY <2>1 DEF Kept
  <2>3. \A b \in Actors : pc'[b] \in RuntimeLabels => pc'[b] = pc[b]
    BY <1>0, <1>5 DEF SyncNothing, ObserveRaises, CheckpointFails, Leave, Goto, RuntimeLabels
  <2> QED
    BY <1>0, <2>1, <2>2, <2>3, QuietRuntime
<1>6. ASSUME NEW a \in Actors, SyncBegin(a) PROVE RuntimeInv'
  <2>1. UNCHANGED <<file, synced, order, rt, pointer, states>> /\ Kept' = Kept
    BY <1>6 DEF SyncBegin, disk, Kept
  <2>2. /\ \A b \in Actors : pc[b] \notin RuntimeLabels
        /\ pc' = [pc EXCEPT ![a] = "observe"]
    BY <1>6 DEF SyncBegin, MaySync, RuntimeLocked, RuntimeLabels, Goto
  <2>3. /\ \A b, c \in Actors : pc'[b] \in RuntimeLabels /\ pc'[c] \in RuntimeLabels => b = c
        /\ \A b \in Actors : pc'[b] = "point" => FALSE
    BY <1>0, <2>2 DEF RuntimeLabels
  <2> QED
    BY <2>1, <2>3 DEF RuntimeInv, FoldOf
<1>7. ASSUME NEW a \in Actors, Observe(a) PROVE RuntimeInv'
  <2>1. /\ pc[a] = "observe" /\ rt.count \in Nat /\ rt.count + 1 <= Len(order)
        /\ rt.field \in Seq(Envelopes) /\ upto[a] \in Nat
    BY <1>0, <1>7 DEF Observe, ControlInv, Control, TypeOK, RuntimeStates
  <2>2. NextRow = order[rt.count + 1] /\ NextRow \in Envelopes
    BY <1>0, <2>1, ElementOfSeq DEF NextRow
  <2>3. /\ Len(rt'.field) = rt.count + 1 /\ rt'.field[rt.count + 1] = NextRow
        /\ \A i \in 1..rt.count : rt'.field[i] = rt.field[i]
        /\ rt'.count = rt.count + 1 /\ rt'.last = NextRow.event
    BY <1>7, <2>1, <2>2 DEF Observe, RuntimeInv, FoldOf
  <2>4. FoldOf(rt', order)
    BY <2>1, <2>2, <2>3 DEF RuntimeInv, FoldOf
  <2>5. UNCHANGED <<file, synced, order, pointer, states, pc>> /\ Kept' = Kept
    BY <1>7 DEF Observe, disk, Kept
  <2>6. \A b \in Actors : pc'[b] = "point" => FALSE
    BY <2>1, <2>5 DEF RuntimeInv, RuntimeLabels
  <2> QED
    BY <2>4, <2>5, <2>6 DEF RuntimeInv, FoldOf
<1>8. ASSUME NEW a \in Actors, SuffixDone(a) PROVE RuntimeInv'
  <2>1. UNCHANGED <<file, synced, order, rt, pointer, states>> /\ Kept' = Kept
    BY <1>8 DEF SuffixDone, disk, Kept
  <2>2. /\ \A b, c \in Actors : pc'[b] \in RuntimeLabels /\ pc'[c] \in RuntimeLabels => b = c
        /\ \A b \in Actors : pc'[b] = "point" => pc[b] = "point"
    BY <1>0, <1>8 DEF SuffixDone, Goto, RuntimeLabels, RuntimeInv
  <2> QED
    BY <2>1, <2>2 DEF RuntimeInv, FoldOf
<1>9. ASSUME NEW a \in Actors, SaveState(a) PROVE RuntimeInv'
  <2>1. UNCHANGED <<file, synced, order, rt, pointer>> /\ Kept' = Kept
        /\ states' = states \cup {rt}
    BY <1>9 DEF SaveState, Kept
  <2>2. \A b, c \in Actors : pc'[b] \in RuntimeLabels /\ pc'[c] \in RuntimeLabels => b = c
    BY <1>0, <1>9 DEF SaveState, Goto, RuntimeLabels, RuntimeInv
  <2> QED
    BY <2>1, <2>2 DEF RuntimeInv, FoldOf
<1>10. ASSUME NEW a \in Actors, ReplacePointer(a) PROVE RuntimeInv'
  <2>1. UNCHANGED <<file, synced, order, rt, states>> /\ Kept' = Kept /\ pointer' = rt
    BY <1>10 DEF ReplacePointer, Kept
  <2>2. rt \in states /\ rt.count <= Len(order) /\ rt.count \in Nat
    BY <1>0, <1>10 DEF ReplacePointer, RuntimeInv, FoldOf, RuntimeStates
  <2>3. FoldOf(rt, file) /\ rt.count <= Kept
    <3>1. \A i \in 1..Len(order) : file[i] = order[i]
      BY DEF StoreInv, OrderInv
    <3>2. FoldOf(rt, order)
      BY DEF RuntimeInv
    <3>3. FoldOf(rt, file)
      BY <1>0, <2>2, <3>1, <3>2, FoldExtends
    <3> QED
      BY <1>0, <2>2, <3>3
  <2>4. /\ \A b, c \in Actors : pc'[b] \in RuntimeLabels /\ pc'[c] \in RuntimeLabels => b = c
        /\ \A b \in Actors : pc'[b] = "point" => FALSE
    BY <1>0, <1>10 DEF ReplacePointer, Leave, Goto, RuntimeLabels, RuntimeInv
  <2> QED
    BY <2>1, <2>2, <2>3, <2>4 DEF RuntimeInv, FoldOf
<1>11. CASE Open \/ LoadLineRaises \/ LoadRuntimeRaises
  <2>1. UNCHANGED <<file, synced, order, rt, pointer, states, pc>>
    BY <1>11 DEF Open, LoadLineRaises, LoadRuntimeRaises, disk
  <2>2. Kept' = Kept
    BY <2>1 DEF Kept
  <2> QED
    BY <1>0, <2>1, <2>2, QuietRuntime
<1>12. CASE LoadLine
  <2>1. UNCHANGED <<file, synced, rt, pointer, states, pc>> /\ Kept' = Kept
    BY <1>12 DEF LoadLine, disk, Kept
  <2>2. Len(order') \in Nat /\ Len(order) <= Len(order')
        /\ \A i \in 1..Len(order) : order'[i] = order[i]
    BY <1>0, <1>12 DEF LoadLine
  <2> QED
    BY <1>0, <2>1, <2>2, QuietRuntime
<1>13. CASE LoadRuntime
  <2>1. UNCHANGED <<file, synced, order, pointer, states>> /\ Kept' = Kept
        /\ rt' = SavedRuntime /\ Len(order) = Len(file)
    BY <1>0, <1>13 DEF LoadRuntime, disk, Kept, StoreInv, OrderInv
  <2>2. FoldOf(SavedRuntime, order)
    <3>1. CASE pointer = None
      BY <1>0, <3>1 DEF SavedRuntime, EmptyRuntime, FoldOf
    <3>2. CASE pointer # None
      <4>1. pointer \in RuntimeStates /\ FoldOf(pointer, file) /\ pointer.count <= Len(order)
        BY <1>0, <2>1, <3>2 DEF RuntimeInv, FoldOf
      <4>2. \A i \in 1..Len(order) : order[i] = file[i]
        BY DEF StoreInv, OrderInv
      <4> QED
        BY <1>0, <3>2, <4>1, <4>2, FoldExtends DEF SavedRuntime
    <3> QED
      BY <3>1, <3>2
  <2>3. \A a \in Actors : pc'[a] \notin RuntimeLabels
    BY <1>0, <1>13 DEF LoadRuntime, Goto, RuntimeLabels, ControlInv, Control, Actors
  <2> QED
    BY <2>1, <2>2, <2>3 DEF RuntimeInv, FoldOf, RuntimeLabels
<1>14. CASE Restart \/ Kill
  <2>1. UNCHANGED <<file, synced, pointer, states>> /\ MemoryLost
    BY <1>14 DEF Restart, Kill, Stop, disk
  <2>2. Kept' = Kept
    BY <2>1 DEF Kept
  <2> QED
    BY <2>1, <2>2 DEF MemoryLost, RuntimeInv, FoldOf, EmptyRuntime, RuntimeLabels
<1>15. CASE PowerLoss
  <2>1. PICK n \in synced..Len(file) : file' = SubSeq(file, 1, n) /\ synced' = n
    BY <1>15 DEF PowerLoss, CleanWrites
  <2>2. Kept = synced /\ n \in 0..Len(file) /\ n \in Nat
    BY <1>0, <1>15, <2>1 DEF PowerLoss, Stop, Kept
  <2>3. /\ Len(file') = n /\ Kept' = n /\ Kept <= n
        /\ \A i \in 1..n : file'[i] = file[i]
    BY <1>0, <2>1, <2>2 DEF Kept
  <2>4. MemoryLost /\ UNCHANGED <<pointer, states>>
    BY <1>15 DEF PowerLoss, Stop
  <2>5. ASSUME pointer # None
        PROVE  pointer \in states /\ pointer.count <= Kept' /\ FoldOf(pointer, file')
    <3>1. /\ pointer \in states /\ pointer.count <= Kept /\ FoldOf(pointer, file)
          /\ pointer \in RuntimeStates /\ pointer.count \in Nat
      BY <1>0, <2>5 DEF RuntimeInv, RuntimeStates
    <3>2. pointer.count <= n /\ n <= Len(file')
      BY <1>0, <2>2, <2>3, <3>1
    <3>3. FoldOf(pointer, file')
      BY <1>0, <2>2, <2>3, <3>1, <3>2, FoldExtends
    <3> QED
      BY <2>3, <3>1, <3>2, <3>3
  <2> QED
    BY <2>4, <2>5 DEF MemoryLost, RuntimeInv, FoldOf, EmptyRuntime, RuntimeLabels
<1>16. CASE UNCHANGED vars
  <2>1. UNCHANGED <<file, synced, order, rt, pointer, states, pc>>
    BY <1>16 DEF vars, disk, memory
  <2>2. Kept' = Kept
    BY <2>1 DEF Kept
  <2> QED
    BY <1>0, <2>1, <2>2, QuietRuntime
<1> QED
  BY <1>1, <1>2, <1>3, <1>4, <1>5, <1>6, <1>7, <1>8, <1>9, <1>10, <1>11, <1>12, <1>13,
     <1>14, <1>15, <1>16, NextActions

LEMMA PipelineInvariant ==
  ASSUME CleanWrites
  PROVE  Spec => [](ControlInv /\ PayloadInv /\ StoreInv /\ RuntimeInv)
<1>1. Init => ControlInv /\ PayloadInv /\ StoreInv /\ RuntimeInv
  BY InitControl, InitStore, InitRuntime
     DEF Init, PayloadInv, RowsHavePayload, Actors
<1>2. /\ ControlInv /\ PayloadInv /\ StoreInv /\ RuntimeInv
      /\ [Next]_vars
      => (ControlInv /\ PayloadInv /\ StoreInv /\ RuntimeInv)'
  BY CleanWrites, StepControl, StepPayload, StepStore, StepRuntime
<1> QED
  BY <1>1, <1>2, PTL DEF Spec

(* The field in memory is the fold of exactly the rows its cursor passed,   *)
(* in the order of the raw store, through failed syncs and restarts.        *)
THEOREM DerivedFieldIsFold == ASSUME CleanWrites PROVE Spec => []FieldIsFold
<1>1. ControlInv /\ RuntimeInv => FieldIsFold
  <2> SUFFICES ASSUME ControlInv, RuntimeInv PROVE rt.field = SubSeq(order, 1, rt.count)
    BY DEF FieldIsFold
  <2>1. /\ rt.count \in Nat /\ rt.field \in Seq(Envelopes) /\ order \in Seq(Envelopes)
        /\ rt.count <= Len(order) /\ Len(rt.field) = rt.count
        /\ \A i \in 1..rt.count : rt.field[i] = order[i]
    BY DEF ControlInv, TypeOK, RuntimeStates, RuntimeInv, FoldOf
  <2>2. /\ SubSeq(order, 1, rt.count) \in Seq(Envelopes)
        /\ Len(SubSeq(order, 1, rt.count)) = rt.count
        /\ \A i \in 1..rt.count : SubSeq(order, 1, rt.count)[i] = order[i]
    BY <2>1
  <2> QED
    BY <2>1, <2>2, SeqEqual
<1> QED
  BY <1>1, PipelineInvariant, PTL

(* The checkpoint on disk is a stored state and the fold of a prefix of the *)
(* rows that survive any stop.                                              *)
THEOREM CheckpointIsFold == ASSUME CleanWrites PROVE Spec => []CheckpointIsDurablePrefix
<1>1. ControlInv /\ StoreInv /\ RuntimeInv => CheckpointIsDurablePrefix
  <2> SUFFICES ASSUME ControlInv, StoreInv, RuntimeInv, pointer # None
               PROVE  /\ pointer \in states /\ pointer.count <= Kept
                      /\ pointer.field = SubSeq(DurableRows, 1, pointer.count)
    BY DEF CheckpointIsDurablePrefix
  <2>1. /\ pointer \in states /\ pointer.count <= Kept /\ pointer.count \in Nat
        /\ pointer.field \in Seq(Envelopes) /\ Len(pointer.field) = pointer.count
        /\ \A i \in 1..pointer.count : pointer.field[i] = file[i]
    BY DEF ControlInv, TypeOK, RuntimeStates, RuntimeInv, FoldOf
  <2>2. file \in Seq(Envelopes \cup {Torn}) /\ Kept \in 0..Len(file)
    BY DEF ControlInv, TypeOK, StoreInv, IndexInv, Kept
  <2>3. /\ DurableRows \in Seq(Envelopes \cup {Torn}) /\ Len(DurableRows) = Kept
        /\ \A i \in 1..Kept : DurableRows[i] = file[i]
    BY <2>2 DEF DurableRows
  <2>4. /\ SubSeq(DurableRows, 1, pointer.count) \in Seq(Envelopes \cup {Torn})
        /\ Len(SubSeq(DurableRows, 1, pointer.count)) = pointer.count
        /\ \A i \in 1..pointer.count : SubSeq(DurableRows, 1, pointer.count)[i] = file[i]
    BY <2>1, <2>2, <2>3
  <2>5. pointer.field \in Seq(Envelopes \cup {Torn})
    BY <2>1
  <2> QED
    BY <2>1, <2>4, <2>5, SeqEqual
<1> QED
  BY <1>1, PipelineInvariant, PTL

-----------------------------------------------------------------------------
(* A start that accepts what it finds.                                      *)

\* The derived layer takes every row: no event it refuses is ever stored.
RowsFoldable == \A e \in Envelopes : ~Rejects(e)

LEMMA StepAccepts ==
  ASSUME CleanWrites, RowsFoldable, ControlInv, StoreInv, RuntimeInv, StartupAccepts,
         [Next]_vars
  PROVE  StartupAccepts'
<1> USE DistinguishedValues DEF StartupAccepts
<1>0. /\ file \in Seq(Envelopes \cup {Torn}) /\ order \in Seq(Envelopes) /\ line \in Nat
      /\ Len(file) \in Nat /\ Len(order) \in Nat /\ Torn \notin Envelopes
      /\ rt \in RuntimeStates /\ rt.count \in Nat /\ upto \in [Actors -> Nat]
  BY DEF ControlInv, TypeOK, RuntimeStates, Envelopes
<1>1. ASSUME NEW a \in Actors PROVE ~ObserveRaises(a)
  <2> SUFFICES ASSUME ObserveRaises(a) PROVE FALSE
    OBVIOUS
  <2>1. rt.count + 1 \in 1..Len(order)
    BY <1>0 DEF ObserveRaises, ControlInv, Control
  <2>2. NextRow \in Envelopes
    BY <1>0, <2>1, ElementOfSeq DEF NextRow
  <2> QED
    BY <2>2 DEF ObserveRaises, RowsFoldable
<1>2. ~LoadLineRaises
  <2> SUFFICES ASSUME LoadLineRaises PROVE FALSE
    OBVIOUS
  <2>1. /\ Len(order) = line /\ line + 1 \in 1..Len(file)
        /\ \A i \in 1..Len(order) : order[i] = file[i] /\ i \in 1..Len(file) /\ i # line + 1
    BY <1>0 DEF LoadLineRaises, StoreInv, OrderInv
  <2>2. NextLine \in Envelopes /\ ~Known(NextLine.event)
    BY <2>1 DEF NextLine, Known, StoreInv, IndexInv
  <2> QED
    BY <1>0, <2>2 DEF LoadLineRaises, LineAccepted
<1>3. ~LoadRuntimeRaises
  <2> SUFFICES ASSUME LoadRuntimeRaises PROVE FALSE
    OBVIOUS
  <2>1. Len(order) = Len(file) /\ \A i \in 1..Len(order) : order[i] = file[i]
    BY <1>0 DEF LoadRuntimeRaises, StoreInv, OrderInv
  <2>2. CASE pointer = None
    BY <1>0, <2>2 DEF LoadRuntimeRaises, SavedRuntime, EmptyRuntime, CursorValid
  <2>3. CASE pointer # None
    <3>1. FoldOf(pointer, file) /\ pointer.count \in Nat
      BY <2>3 DEF RuntimeInv, ControlInv, TypeOK, RuntimeStates
    <3>2. pointer.count = 0 \/ pointer.count \in 1..Len(order)
      BY <1>0, <2>1, <3>1 DEF FoldOf
    <3> QED
      BY <2>1, <2>3, <3>1, <3>2 DEF LoadRuntimeRaises, SavedRuntime, CursorValid, FoldOf
  <2> QED
    BY <2>2, <2>3
<1>4. ASSUME NEW t \in Threads,
             \/ \E e \in Envelopes :
                  AppendDuplicate(t, e) \/ AppendConflict(t, e) \/ AppendNew(t, e)
             \/ StorePayload(t) \/ StorePayloadFails(t) \/ WriteRow(t) \/ WriteRowFails(t)
             \/ FsyncRow(t) \/ FsyncRowFails(t)
      PROVE  StartupAccepts'
  BY <1>4 DEF AppendDuplicate, AppendConflict, AppendNew, StorePayload, StorePayloadFails,
              WriteRow, WriteRowFails, FsyncRow, FsyncRowFails, Leave, memory
<1>5. ASSUME NEW a \in Actors,
             \/ SyncNothing(a) \/ SyncBegin(a) \/ Observe(a) \/ SuffixDone(a)
             \/ SaveState(a) \/ ReplacePointer(a) \/ CheckpointFails(a)
      PROVE  StartupAccepts'
  BY <1>5 DEF SyncNothing, SyncBegin, Observe, SuffixDone, SaveState, ReplacePointer,
              CheckpointFails, Leave
<1>6. CASE Open \/ LoadLine \/ LoadRuntime \/ Restart \/ Kill \/ PowerLoss
  BY <1>6 DEF Open, LoadLine, LoadRuntime, Restart, Kill, PowerLoss, Stop, MemoryLost
<1>7. CASE UNCHANGED vars
  BY <1>7 DEF vars, memory
<1> QED
  BY <1>1, <1>2, <1>3, <1>4, <1>5, <1>6, <1>7, NextActions

(* A start never refuses what the service itself has written: every line of *)
(* the index loads, the checkpoint names a prefix of the rows, and the      *)
(* derived layer takes the suffix it replays.                               *)
THEOREM StartupAlwaysAccepts ==
  ASSUME CleanWrites, RowsFoldable PROVE Spec => []StartupAccepts
<1>1. Init => StartupAccepts
  BY DEF Init, StartupAccepts
<1>2. ControlInv /\ StoreInv /\ RuntimeInv /\ StartupAccepts /\ [Next]_vars => StartupAccepts'
  BY CleanWrites, RowsFoldable, StepAccepts
<1> QED
  BY <1>1, <1>2, PipelineInvariant, PTL DEF Spec

-----------------------------------------------------------------------------
(* Nothing moves back.                                                      *)

\* A service that runs has folded at least what its checkpoint holds.
AheadInv ==
  phase \in {"opening", "up"} /\ pointer # None => pointer.count <= rt.count

\* What a step may do to the order, the cursor and the checkpoint.
Forward ==
  /\ phase = "up" /\ phase' = "up" =>
       SubSeq(order', 1, Len(order)) = order /\ rt'.count >= rt.count
  /\ pointer # None => pointer' # None /\ pointer'.count >= pointer.count

LEMMA PrefixOfItself ==
  ASSUME NEW S, NEW s \in Seq(S) PROVE SubSeq(s, 1, Len(s)) = s
OBVIOUS

LEMMA PrefixOfLonger ==
  ASSUME NEW S, NEW s \in Seq(S), NEW e \in S PROVE SubSeq(Append(s, e), 1, Len(s)) = s
<1>1. /\ SubSeq(Append(s, e), 1, Len(s)) \in Seq(S)
      /\ Len(SubSeq(Append(s, e), 1, Len(s))) = Len(s)
      /\ \A i \in 1..Len(s) : SubSeq(Append(s, e), 1, Len(s))[i] = s[i]
  OBVIOUS
<1> QED
  BY <1>1, SeqEqual

LEMMA StepForward ==
  ASSUME ControlInv, AheadInv, [Next]_vars
  PROVE  AheadInv' /\ Forward
<1> USE DistinguishedValues, NoneIsNoState DEF AheadInv, Forward
<1>0. /\ order \in Seq(Envelopes) /\ rt \in RuntimeStates /\ rt.count \in Nat
      /\ pointer \in RuntimeStates \cup {None} /\ SubSeq(order, 1, Len(order)) = order
      /\ pointer # None => pointer.count \in Nat
      /\ \A a \in Actors : pc[a] # "idle" => phase \in {"opening", "up"}
  BY PrefixOfItself DEF ControlInv, TypeOK, RuntimeStates, Control, Actors
<1>1. ASSUME NEW t \in Threads,
             \/ \E e \in Envelopes :
                  AppendDuplicate(t, e) \/ AppendConflict(t, e) \/ AppendNew(t, e)
             \/ StorePayload(t) \/ StorePayloadFails(t) \/ WriteRow(t) \/ WriteRowFails(t)
             \/ FsyncRowFails(t)
      PROVE  AheadInv' /\ Forward
  <2>1. UNCHANGED <<order, rt, pointer>> /\ (t # Opener => phase' = phase)
    BY <1>1 DEF AppendDuplicate, AppendConflict, AppendNew, StorePayload, StorePayloadFails,
                WriteRow, WriteRowFails, FsyncRowFails, Leave, disk, memory
  <2> QED
    BY <1>0, <2>1
<1>2. ASSUME NEW t \in Threads, FsyncRow(t) PROVE AheadInv' /\ Forward
  <2>1. UNCHANGED <<rt, pointer, phase>> /\ order' = Append(order, env[t]) /\ env[t] \in Envelopes
    BY <1>2 DEF FsyncRow, ControlInv, Control, Actors
  <2> QED
    BY <1>0, <2>1, PrefixOfLonger
<1>3. ASSUME NEW a \in Actors,
             \/ SyncNothing(a) \/ SyncBegin(a) \/ ObserveRaises(a) \/ SuffixDone(a)
             \/ SaveState(a) \/ CheckpointFails(a)
      PROVE  AheadInv' /\ Forward
  <2>1. /\ UNCHANGED <<order, rt, pointer>> /\ phase \in {"opening", "up"}
    BY <1>0, <1>3 DEF SyncNothing, MaySync, SyncBegin, ObserveRaises, SuffixDone, SaveState,
                CheckpointFails, disk
  <2> QED
    BY <1>0, <2>1
<1>4. ASSUME NEW a \in Actors, Observe(a) PROVE AheadInv' /\ Forward
  <2>1. UNCHANGED <<order, pointer, phase>> /\ rt'.count = rt.count + 1
    BY <1>4 DEF Observe, disk
  <2> QED
    BY <1>0, <2>1
<1>5. ASSUME NEW a \in Actors, ReplacePointer(a) PROVE AheadInv' /\ Forward
  <2>1. /\ UNCHANGED <<order, rt>> /\ pointer' = rt /\ phase \in {"opening", "up"}
        /\ rt # None
    BY <1>0, <1>5 DEF ReplacePointer
  <2> QED
    BY <1>0, <2>1
<1>6. CASE Open \/ LoadLine \/ LoadLineRaises \/ LoadRuntimeRaises
  BY <1>0, <1>6 DEF Open, LoadLine, LoadLineRaises, LoadRuntimeRaises, disk
<1>7. CASE LoadRuntime
  BY <1>0, <1>7 DEF LoadRuntime, SavedRuntime, disk
<1>8. CASE Restart \/ Kill \/ PowerLoss
  BY <1>0, <1>8 DEF Restart, Kill, PowerLoss, Stop, MemoryLost, disk
<1>9. CASE UNCHANGED vars
  BY <1>0, <1>9 DEF vars, disk, memory
<1> QED
  BY <1>1, <1>2, <1>3, <1>4, <1>5, <1>6, <1>7, <1>8, <1>9, NextActions

(* Within a process the raw order only grows and the cursor only moves      *)
(* forward; the checkpoint never moves back, over any failure, kill, power  *)
(* loss or torn row.                                                        *)
THEOREM PipelineOnlyForward == Spec => OnlyForward
<1>1. Init => AheadInv
  BY DEF Init, AheadInv
<1>2. ControlInv /\ AheadInv /\ [Next]_vars => AheadInv' /\ Forward
  BY StepForward
<1>3. Spec => [](ControlInv /\ AheadInv)
  BY <1>1, <1>2, InitControl, StepControl, PTL DEF Spec
<1>4. ControlInv /\ AheadInv /\ [Next]_vars => [Forward]_vars
  BY <1>2
<1> QED
  BY <1>3, <1>4, PTL DEF Spec, OnlyForward, Forward

-----------------------------------------------------------------------------
(* The pipeline implements the observation log.                             *)

\* The rows that survive a stop are the first ones of the index.
DurableIsPrefix ==
  /\ Kept \in 0..Len(file) /\ Len(file) \in Nat
  /\ DurableRows \in Seq(Envelopes) /\ Len(DurableRows) = Kept
  /\ \A i \in 1..Kept : DurableRows[i] = file[i] /\ i \in 1..Len(file)

LEMMA DurableTyped == ControlInv /\ StoreInv => DurableIsPrefix
<1> SUFFICES ASSUME ControlInv, StoreInv PROVE DurableIsPrefix
  OBVIOUS
<1>1. file \in Seq(Envelopes \cup {Torn}) /\ Kept \in 0..Len(file)
  BY DEF ControlInv, TypeOK, StoreInv, IndexInv, Kept
<1>2. \A i \in 1..Len(file) : file[i] \in Envelopes
  BY DEF StoreInv, IndexInv
<1>3. /\ DurableRows \in Seq(Envelopes \cup {Torn}) /\ Len(DurableRows) = Kept
      /\ \A i \in 1..Kept : DurableRows[i] = file[i] /\ i \in 1..Len(file)
  BY <1>1 DEF DurableRows
<1>4. DurableRows \in Seq(Envelopes)
  BY <1>1, <1>2, <1>3, IsASeq DEF DurableRows
<1> QED
  BY <1>1, <1>3, <1>4 DEF DurableIsPrefix

\* What is durable stays durable: the same rows, or one more.
LEMMA DurableSame ==
  ASSUME ControlInv, StoreInv, ControlInv', StoreInv', Kept' = Kept,
         \A i \in 1..Kept : file'[i] = file[i]
  PROVE  DurableRows' = DurableRows
<1>1. DurableIsPrefix /\ DurableIsPrefix'
  BY DurableTyped, PTL
<1>2. DurableRows \in Seq(Envelopes) /\ DurableRows' \in Seq(Envelopes)
  BY <1>1 DEF DurableIsPrefix
<1>3. Len(DurableRows') = Len(DurableRows)
      /\ \A i \in 1..Len(DurableRows) : DurableRows'[i] = DurableRows[i]
  BY <1>1 DEF DurableIsPrefix
<1> QED
  BY <1>2, <1>3, SeqEqual

LEMMA DurableGrows ==
  ASSUME ControlInv, StoreInv, ControlInv', StoreInv', Kept' = Kept + 1,
         \A i \in 1..Kept : file'[i] = file[i]
  PROVE  LET e == file'[Kept + 1]
         IN  /\ e \in Envelopes /\ e.event \notin Log!LoggedEvents
             /\ DurableRows' = Append(DurableRows, e)
<1> DEFINE e == file'[Kept + 1]
<1>1. DurableIsPrefix /\ DurableIsPrefix'
  BY DurableTyped, PTL
<1>2. /\ Kept \in Nat /\ Kept + 1 \in 1..Len(file') /\ DurableRows'[Kept + 1] = e
      /\ \A i \in 1..Kept : i \in 1..Len(file') /\ i # Kept + 1
  BY <1>1 DEF DurableIsPrefix
<1>3. e \in Envelopes /\ \A i \in 1..Kept : file'[i].event # e.event
  BY <1>2 DEF StoreInv, IndexInv
<1>4. e.event \notin Log!LoggedEvents
  <2>1. \A row \in Log!Logged : \E i \in 1..Kept : row = file[i]
    BY <1>1 DEF DurableIsPrefix, Log!Logged
  <2>2. \A i \in 1..Kept : file[i].event # e.event
    BY <1>3
  <2> HIDE DEF e
  <2> QED
    BY <2>1, <2>2 DEF Log!LoggedEvents
<1>5. DurableRows' = Append(DurableRows, e)
  <2>1. /\ DurableRows \in Seq(Envelopes) /\ DurableRows' \in Seq(Envelopes)
        /\ Len(DurableRows) = Kept /\ Len(DurableRows') = Kept + 1
        /\ \A i \in 1..Kept : DurableRows'[i] = DurableRows[i]
    BY <1>1 DEF DurableIsPrefix
  <2>2. /\ Append(DurableRows, e) \in Seq(Envelopes)
        /\ Len(Append(DurableRows, e)) = Kept + 1
        /\ \A i \in 1..Kept : Append(DurableRows, e)[i] = DurableRows[i]
        /\ Append(DurableRows, e)[Kept + 1] = e
    BY <1>3, <2>1
  <2>3. \A i \in 1..Kept + 1 : DurableRows'[i] = Append(DurableRows, e)[i]
    BY <1>2, <2>1, <2>2
  <2> QED
    BY <2>1, <2>2, <2>3, SeqEqual
<1> QED
  BY <1>3, <1>4, <1>5

\* What the log sees: its rows, the answers, and what the checkpoint covers.
Covered == IF pointer = None THEN 0 ELSE pointer.count

LEMMA StepLog ==
  ASSUME CleanWrites, ControlInv, StoreInv, RuntimeInv, AheadInv,
         ControlInv', StoreInv', RuntimeInv', [Next]_vars
  PROVE  [Log!Next]_Log!logVars
<1> USE DistinguishedValues
<1>0. /\ DurableIsPrefix /\ DurableIsPrefix'
      /\ \A i \in 1..Len(order) : i \in 1..Kept /\ file[i] = order[i]
  <2>1. DurableIsPrefix /\ DurableIsPrefix'
    BY DurableTyped, PTL
  <2>2. order \in Seq(Envelopes)
    BY DEF ControlInv, TypeOK
  <2> QED
    BY <2>1, <2>2 DEF DurableIsPrefix, StoreInv, OrderInv
<1>1. ASSUME NEW i \in 1..Kept
      PROVE  file[i] \in Envelopes /\ file[i] \in Log!Logged /\ file[i].event \in Log!LoggedEvents
  <2>1. file[i] \in Log!Logged
    BY <1>0, <1>1 DEF DurableIsPrefix, Log!Logged
  <2>2. file[i] \in Envelopes
    BY <1>0, <1>1 DEF DurableIsPrefix, StoreInv, IndexInv
  <2> QED
    BY <2>1, <2>2 DEF Log!LoggedEvents
\* A step that leaves the rows, the answers and the checkpoint alone, or adds a
\* row, is a stutter or a row stored.
<1>2. ASSUME UNCHANGED <<acked, refused, pointer>>, Kept' \in {Kept, Kept + 1},
             \A i \in 1..Kept : file'[i] = file[i]
      PROVE  [Log!Next]_Log!logVars
  <2>1. CASE Kept' = Kept
    BY <1>2, <2>1, DurableSame DEF Log!logVars
  <2>2. CASE Kept' = Kept + 1
    BY <1>2, <2>2, DurableGrows DEF Log!Next, Log!Store
  <2> QED
    BY <1>2, <2>1, <2>2
<1>3. ASSUME NEW t \in Threads, NEW e \in Envelopes, AppendDuplicate(t, e)
      PROVE  [Log!Next]_Log!logVars
  <2>1. PICK i \in 1..Len(order) : order[i] = e
    BY <1>3 DEF AppendDuplicate, Stored
  <2>2. e \in Log!Logged
    BY <1>0, <1>1, <2>1
  <2>3. /\ UNCHANGED <<DurableRows, refused, pointer>> /\ acked' = acked \cup {e}
    BY <1>3 DEF AppendDuplicate, disk, DurableRows, Kept
  <2> QED
    BY <2>2, <2>3 DEF Log!Next, Log!Confirm
<1>4. ASSUME NEW t \in Threads, NEW e \in Envelopes, AppendConflict(t, e)
      PROVE  [Log!Next]_Log!logVars
  <2>1. PICK i \in 1..Len(order) : order[i].event = e.event /\ order[i] # e
    BY <1>4 DEF AppendConflict, Stored, Known
  <2>2. i \in 1..Kept /\ file[i].event = e.event /\ file[i] # e
    BY <1>0, <2>1
  <2>3. e.event \in Log!LoggedEvents
    BY <1>1, <2>2
  <2>4. e \notin Log!Logged
    <3> SUFFICES ASSUME NEW j \in 1..Kept, file[j] = e PROVE FALSE
      BY <1>0 DEF Log!Logged, DurableIsPrefix
    <3> QED
      BY <1>0, <2>2 DEF DurableIsPrefix, StoreInv, IndexInv
  <2>5. UNCHANGED <<DurableRows, acked, pointer>> /\ refused' = refused \cup {e}
    BY <1>4 DEF AppendConflict, disk, DurableRows, Kept
  <2> QED
    BY <2>3, <2>4, <2>5 DEF Log!Next, Log!Refuse
<1>5. ASSUME NEW t \in Threads, NEW e \in Envelopes, AppendNew(t, e)
      PROVE  [Log!Next]_Log!logVars
  BY <1>2, <1>5 DEF AppendNew, disk, Kept
<1>6. ASSUME NEW t \in Threads,
             StorePayload(t) \/ StorePayloadFails(t) \/ WriteRowFails(t) \/ FsyncRowFails(t)
      PROVE  [Log!Next]_Log!logVars
  BY <1>2, <1>6
     DEF StorePayload, StorePayloadFails, WriteRowFails, FsyncRowFails, CleanWrites, disk, Kept
<1>7. ASSUME NEW t \in Threads, WriteRow(t) PROVE [Log!Next]_Log!logVars
  <2>1. file' = Append(file, env[t]) /\ file \in Seq(Envelopes \cup {Torn})
        /\ env[t] \in Envelopes
    <3>1. /\ file \in Seq(Envelopes \cup {Torn}) /\ env[t] \in Envelopes
          /\ \A i \in 1..Len(file) : file[i] \in Envelopes
      BY <1>7 DEF WriteRow, ControlInv, TypeOK, Control, Actors, StoreInv, IndexInv
    <3>2. file = <<>> \/ file[Len(file)] # Torn
      BY <3>1 DEF Envelopes
    <3> QED
      BY <1>7, <3>1, <3>2 DEF WriteRow, WriteLine
  <2>2. Len(file') = Len(file) + 1 /\ \A i \in 1..Kept : file'[i] = file[i]
    BY <1>0, <2>1 DEF DurableIsPrefix
  <2>3. Kept' \in {Kept, Kept + 1}
    BY <1>7, <2>2 DEF WriteRow, Kept
  <2> QED
    BY <1>2, <1>7, <2>2, <2>3 DEF WriteRow
<1>8. ASSUME NEW t \in Threads, FsyncRow(t) PROVE [Log!Next]_Log!logVars
  <2>1. /\ Len(file) = Len(order) + 1 /\ file[Len(file)] = env[t] /\ env[t] \in Envelopes
        /\ file' = file /\ synced' = Len(file) /\ UNCHANGED <<refused, pointer>>
        /\ acked' = acked \cup {env[t]} /\ Len(order) \in Nat
        /\ Len(order) <= Kept /\ Kept \in Nat /\ Kept <= Len(file)
    BY <1>0, <1>8 DEF FsyncRow, ControlInv, TypeOK, Control, Actors, StoreInv, LockInv, OrderInv,
                      DurableIsPrefix
  <2>2. Kept' = Len(file)
    BY <2>1 DEF Kept
  <2>3. CASE Kept = Len(file)
    <3>1. Len(file) \in 1..Kept /\ DurableRows' = DurableRows
      BY <2>1, <2>2, <2>3, DurableSame
    <3>2. env[t] \in Log!Logged
      BY <1>1, <2>1, <3>1
    <3> QED
      BY <2>1, <3>1, <3>2 DEF Log!Next, Log!Confirm
  <2>4. CASE Kept + 1 = Len(file)
    <3>1. /\ env[t].event \notin Log!LoggedEvents
          /\ DurableRows' = Append(DurableRows, env[t])
      BY <2>1, <2>2, <2>4, DurableGrows
    <3> QED
      BY <2>1, <3>1 DEF Log!Next, Log!Store
  <2> QED
    BY <2>1, <2>3, <2>4
<1>9. ASSUME NEW a \in Actors,
             \/ SyncNothing(a) \/ SyncBegin(a) \/ Observe(a) \/ ObserveRaises(a)
             \/ SuffixDone(a) \/ SaveState(a) \/ CheckpointFails(a)
      PROVE  [Log!Next]_Log!logVars
  BY <1>2, <1>9
     DEF SyncNothing, SyncBegin, Observe, ObserveRaises, SuffixDone, SaveState,
         CheckpointFails, disk, Kept
<1>10. ASSUME NEW a \in Actors, ReplacePointer(a) PROVE [Log!Next]_Log!logVars
  <2>1. /\ pointer' = rt /\ rt \in RuntimeStates /\ rt # None
        /\ UNCHANGED <<DurableRows, acked, refused>> /\ phase \in {"opening", "up"}
    BY <1>10, NoneIsNoState
       DEF ReplacePointer, DurableRows, Kept, ControlInv, TypeOK, Control, Actors
  <2>2. rt.count \in Nat /\ rt.count <= Kept /\ Covered <= rt.count
    <3>1. rt.count \in Nat /\ Covered <= rt.count
      BY <2>1 DEF RuntimeStates, AheadInv, Covered
    <3>2. /\ rt.count <= Len(order) /\ Len(order) <= Kept
          /\ Len(order) \in Nat /\ Kept \in Nat
      BY <1>0 DEF RuntimeInv, FoldOf, StoreInv, OrderInv, DurableIsPrefix, ControlInv, TypeOK
    <3> QED
      BY <3>1, <3>2
  <2>3. Covered \in Nat
    BY DEF Covered, ControlInv, TypeOK, RuntimeStates
  <2>4. rt.count \in Covered..Len(DurableRows) /\ rt.count \in 0..Len(DurableRows)
        /\ Covered' = rt.count
    BY <1>0, <2>1, <2>2, <2>3 DEF DurableIsPrefix, Covered
  <2> QED
    BY <2>1, <2>4 DEF Log!Next, Log!Cover, Covered
<1>11. CASE Open \/ LoadLine \/ LoadLineRaises \/ LoadRuntime \/ LoadRuntimeRaises \/ Restart
            \/ Kill
  BY <1>2, <1>11
     DEF Open, LoadLine, LoadLineRaises, LoadRuntime, LoadRuntimeRaises, Restart, Kill, Stop,
         MemoryLost, disk, Kept
<1>12. CASE PowerLoss
  <2>1. PICK n \in synced..Len(file) : file' = SubSeq(file, 1, n) /\ synced' = n
    BY <1>12 DEF PowerLoss, CleanWrites
  <2>2. /\ Kept = synced /\ Kept' = n /\ Kept \in Nat /\ n \in Nat /\ n <= Len(file)
        /\ UNCHANGED <<acked, refused, pointer>>
    BY <1>0, <1>12, <2>1 DEF PowerLoss, Stop, Kept, DurableIsPrefix
  <2>3. \A i \in 1..Kept : file'[i] = file[i]
    <3>1. file \in Seq(Envelopes \cup {Torn}) /\ n \in 0..Len(file)
      BY <2>2 DEF ControlInv, TypeOK
    <3>2. \A i \in 1..n : SubSeq(file, 1, n)[i] = file[i]
      BY <3>1
    <3>3. Kept <= n
      BY <2>1, <2>2 DEF ControlInv, TypeOK
    <3> QED
      BY <2>1, <2>2, <3>2, <3>3
  <2>4. Len(file) <= Kept + 1
    <3>1. CASE phase # "up"
      BY <2>2, <3>1 DEF StoreInv, OrderInv
    <3>2. CASE phase = "up" /\ \A a \in Actors : pc[a] # "fsync"
      BY <2>2, <3>2 DEF StoreInv, OrderInv, ControlInv, TypeOK
    <3>3. CASE \E a \in Actors : pc[a] = "fsync"
      <4>1. Len(file) = Len(order) + 1 /\ Len(order) <= Kept /\ Len(order) \in Nat
        BY <3>3 DEF StoreInv, OrderInv, LockInv, ControlInv, TypeOK
      <4> QED
        BY <2>2, <4>1
    <3> QED
      BY <3>1, <3>2, <3>3
  <2> QED
    BY <1>2, <2>1, <2>2, <2>3, <2>4
<1>13. CASE UNCHANGED vars
  BY <1>2, <1>13 DEF vars, disk, Kept
<1> QED
  BY <1>3, <1>4, <1>5, <1>6, <1>7, <1>8, <1>9, <1>10, <1>11, <1>12, <1>13, NextActions

(* Whatever stops the service, and whatever it cannot write, callers see an *)
(* append-only log with one envelope per event, answers that agree with it  *)
(* for ever and a derived view that covers a prefix of it.                  *)
THEOREM PipelineImplementsLog == ASSUME CleanWrites PROVE Spec => ImplementsLog
<1>1. Init => Log!Init
  BY DEF Init, Log!Init, DurableRows, Kept
<1>2. Init => AheadInv
  BY DEF Init, AheadInv
<1>3. ControlInv /\ AheadInv /\ [Next]_vars => AheadInv'
  BY StepForward
<1>4. Spec => [](ControlInv /\ AheadInv)
  BY <1>2, <1>3, InitControl, StepControl, PTL DEF Spec
<1>5. /\ ControlInv /\ StoreInv /\ RuntimeInv /\ AheadInv
      /\ (ControlInv /\ StoreInv /\ RuntimeInv)'
      /\ [Next]_vars
      => [Log!Next]_Log!logVars
  BY CleanWrites, StepLog
<1> QED
  BY <1>1, <1>4, <1>5, PipelineInvariant, PTL DEF Spec, ImplementsLog, Log!Spec
=============================================================================
