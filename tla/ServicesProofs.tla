--------------------------- MODULE ServicesProofs ---------------------------
(***************************************************************************)
(* Proofs about the services beside the pipeline, each for every value of  *)
(* its constants: the incremental episode stores and their mirror, backup  *)
(* and restore, the files of the administrator, learning admissions, the   *)
(* leases of native runtimes, and the graph of evidence.                   *)
(*                                                                         *)
(* Each part states its inductive invariant, then one lemma for the steps  *)
(* that need one of their own, and its theorem last.                       *)
(***************************************************************************)
EXTENDS EpisodeMirror, BackupRestore, AdminFiles, EpistemicAdmission, NativeLeases,
        EvidenceCore, FiniteSetTheorems, SequenceTheorems, TLAPS

-----------------------------------------------------------------------------
(* The stores of episodes.  CoreIsJournal speaks of the instants between   *)
(* two observations; CoreKept says what holds inside one, Unsure why the   *)
(* sequence number of a batch that was not confirmed is still free when a  *)
(* kill finds it written.                                                  *)

\* One row for each identity, and the index of them.
OneRowEach ==
    /\ RowsIn(journal) = index
    /\ \A i, j \in 1..Len(journal) : journal[i].key = journal[j].key => i = j

\* An observation in progress belongs to a process that is not poisoned, names
\* a row that is not stored until it is durable, and in a migration the next row.
OpInv ==
    /\ life = "down" => op = Nothing
    /\ op # Nothing => ~poisoned
    /\ op # Nothing /\ ~op.durable => ~Stored(op.row)
    /\ op # Nothing /\ op.durable => op.row \in index
    /\ op # Nothing /\ life = "migrating" => Migrating /\ op.row = NextLegacy

\* The core is behind the durable rows by the row of the operation, if any.
CoreKept ==
    life # "down" /\ ~poisoned =>
      IF op # Nothing /\ op.durable
      THEN journal = Append(core, op.row) /\ count = Len(core)
      ELSE core = journal /\ count = Len(journal)

\* Legacy rows are taken over in their order.
TakenOver ==
    /\ backend = "bdr" => legacy = <<>> /\ life # "migrating"
    /\ life = "migrating" => \A i \in 1..migrated : legacy[i] \in index
    /\ LegacyTakenOver

\* A batch that was not confirmed belongs to a poisoned process, its sequence
\* number follows the durable rows and its identity is new.
Unsure ==
    unconfirmed # Nothing =>
      /\ life = "serving" /\ poisoned
      /\ unconfirmed.at = Len(journal) + 1 /\ ~Stored(unconfirmed.row)

EpisodeInv == EpisodeTypeOK /\ OneRowEach /\ OpInv /\ CoreKept /\ TakenOver /\ Unsure

-----------------------------------------------------------------------------
(* A row that joins the durable rows.                                      *)

\* A batch under the next sequence number appends its row.
LEMMA PutIsAppend ==
  ASSUME NEW s \in Seq(EpisodeRows), NEW row \in EpisodeRows
  PROVE  Put(s, Len(s) + 1, row) = Append(s, row)
<1> DEFINE n == Len(s)
           new == Put(s, n + 1, row)
<1>1. n \in Nat
  OBVIOUS
<1>2. new = [j \in 1..n + 1 |-> IF j = n + 1 THEN row ELSE s[j]]
  BY <1>1 DEF Put
<1>3. new \in Seq(EpisodeRows) /\ Len(new) = n + 1
  <2>1. \A j \in 1..n + 1 : (IF j = n + 1 THEN row ELSE s[j]) \in EpisodeRows
    <3> SUFFICES ASSUME NEW j \in 1..n + 1, j # n + 1 PROVE s[j] \in EpisodeRows
      OBVIOUS
    <3>1. j \in 1..n
      BY <1>1
    <3> QED BY <3>1
  <2> HIDE DEF new
  <2>2. new \in [1..n + 1 -> EpisodeRows]
    BY <1>2, <2>1
  <2> QED BY <1>1, <2>2, n + 1 \in Nat
<1>4. /\ Append(s, row) \in Seq(EpisodeRows) /\ Len(Append(s, row)) = n + 1
      /\ \A i \in 1..n : Append(s, row)[i] = s[i]
      /\ Append(s, row)[n + 1] = row
  BY AppendProperties
<1>5. \A i \in 1..n + 1 : new[i] = Append(s, row)[i]
  <2> SUFFICES ASSUME NEW i \in 1..n + 1 PROVE new[i] = Append(s, row)[i]
    OBVIOUS
  <2>1. new[i] = IF i = n + 1 THEN row ELSE s[i]
    BY <1>2
  <2> HIDE DEF new
  <2>2. i = n + 1 \/ i \in 1..n
    BY <1>1
  <2> QED BY <1>4, <2>1, <2>2
<1> HIDE DEF new, n
<1>6. new = Append(s, row)
  BY <1>3, <1>4, <1>5, SeqEqual
<1> QED BY <1>6 DEF new, n

LEMMA CommitKeeps ==
  ASSUME journal \in Seq(EpisodeRows), OneRowEach,
         NEW row \in EpisodeRows, ~Stored(row),
         journal' = Append(journal, row), index' = index \cup {row}
  PROVE  journal' \in Seq(EpisodeRows) /\ OneRowEach'
<1> DEFINE n == Len(journal)
<1>1. n \in Nat
  OBVIOUS
<1>2. /\ journal' \in Seq(EpisodeRows) /\ Len(journal') = n + 1
      /\ \A i \in 1..n : journal'[i] = journal[i]
      /\ journal'[n + 1] = row
  BY AppendProperties
<1>3. \A i \in 1..n : journal[i].key # row.key
  BY DEF OneRowEach, RowsIn, Stored
<1> HIDE DEF n
<1>4. RowsIn(journal') = index'
  <2>1. RowsIn(journal) = {journal[i] : i \in 1..n} /\ RowsIn(journal) = index
    BY DEF RowsIn, OneRowEach, n
  <2>2. ASSUME NEW r \in index' PROVE \E i \in 1..n + 1 : r = journal'[i]
    <3>1. CASE r = row
      BY <1>1, <1>2, <3>1
    <3>2. CASE r \in index
      <4>1. PICK i \in 1..n : r = journal[i]
        BY <2>1, <3>2
      <4> QED BY <1>1, <1>2, <4>1
    <3> QED BY <3>1, <3>2
  <2>3. ASSUME NEW i \in 1..n + 1 PROVE journal'[i] \in index'
    <3>1. i = n + 1 \/ i \in 1..n
      BY <1>1
    <3> QED BY <1>2, <2>1, <3>1
  <2>4. RowsIn(journal') = {journal'[i] : i \in 1..n + 1}
    BY <1>2 DEF RowsIn
  <2>5. \A r : r \in RowsIn(journal') <=> r \in index'
    <3>1. \A r : r \in RowsIn(journal') <=> \E i \in 1..n + 1 : r = journal'[i]
      BY <2>4
    <3>2. ASSUME NEW r, r \in RowsIn(journal') PROVE r \in index'
      <4>1. PICK i \in 1..n + 1 : r = journal'[i]
        BY <3>1, <3>2
      <4> QED BY <2>3, <4>1
    <3>3. ASSUME NEW r, r \in index' PROVE r \in RowsIn(journal')
      BY <2>2, <3>1, <3>3
    <3> QED BY <3>2, <3>3
  <2> QED BY <2>5
<1>5. \A i, j \in 1..n + 1 : journal'[i].key = journal'[j].key => i = j
  <2> SUFFICES ASSUME NEW i \in 1..n + 1, NEW j \in 1..n + 1,
                      journal'[i].key = journal'[j].key
               PROVE  i = j
    OBVIOUS
  <2>1. (i = n + 1 \/ i \in 1..n) /\ (j = n + 1 \/ j \in 1..n)
    BY <1>1
  <2>2. \A a, b \in 1..n : journal[a].key = journal[b].key => a = b
    BY DEF OneRowEach, n
  <2> QED BY <1>2, <1>3, <2>1, <2>2
<1> QED BY <1>2, <1>4, <1>5 DEF OneRowEach

\* What a write leaves of the parts that speak of the journal.
LEMMA CommittedInv ==
  ASSUME EpisodeInv, MakeDurable
  PROVE  /\ journal' = Append(journal, op.row) /\ op.row \in EpisodeRows
         /\ journal' \in Seq(EpisodeRows) /\ OneRowEach'
         /\ op' = [op EXCEPT !.durable = TRUE] /\ op.row \in index'
         /\ core = journal /\ count = Len(journal) /\ ~poisoned /\ life # "down"
<1>1. /\ op \in [row : EpisodeRows, durable : BOOLEAN] /\ op # Nothing /\ ~op.durable
      /\ life # "down" /\ ~poisoned
      /\ journal \in Seq(EpisodeRows)
  BY DEF MakeDurable, EpisodeInv, EpisodeTypeOK, OpInv
<1>2. op.row \in EpisodeRows /\ ~Stored(op.row)
  BY <1>1 DEF EpisodeInv, OpInv
<1>3. core = journal /\ count = Len(journal)
  BY <1>1 DEF EpisodeInv, CoreKept
<1>4. journal' = Append(journal, op.row)
  BY <1>1, <1>2, <1>3, PutIsAppend DEF MakeDurable
<1>5. index' = index \cup {op.row} /\ op' = [op EXCEPT !.durable = TRUE]
  BY DEF MakeDurable
<1>6. journal' \in Seq(EpisodeRows) /\ OneRowEach'
  BY <1>1, <1>2, <1>4, <1>5, CommitKeeps DEF EpisodeInv
<1> QED BY <1>1, <1>2, <1>3, <1>4, <1>5, <1>6

LEMMA FoundInv ==
  ASSUME EpisodeInv, unconfirmed # Nothing,
         journal' = Put(journal, unconfirmed.at, unconfirmed.row),
         index' = index \cup {unconfirmed.row}
  PROVE  /\ unconfirmed.row \in EpisodeRows
         /\ journal' = Append(journal, unconfirmed.row)
         /\ journal' \in Seq(EpisodeRows) /\ OneRowEach'
<1>1. /\ unconfirmed.row \in EpisodeRows /\ ~Stored(unconfirmed.row)
      /\ unconfirmed.at = Len(journal) + 1
      /\ journal \in Seq(EpisodeRows)
  BY DEF EpisodeInv, EpisodeTypeOK, Unsure
<1>2. journal' = Append(journal, unconfirmed.row)
  BY <1>1, PutIsAppend
<1> QED BY <1>1, <1>2, CommitKeeps DEF EpisodeInv

-----------------------------------------------------------------------------
(* One lemma for each operation.                                           *)

LEMMA StartKeeps == ASSUME EpisodeInv, Start PROVE EpisodeInv'
<1> USE DEF Start, EpisodeInv, durableVars
<1>1. EpisodeTypeOK'
  <2>1. Len(legacy) \in Nat
    BY DEF EpisodeTypeOK
  <2>2. migrated' \in 0..Len(legacy') /\ count' \in Nat /\ core' \in Seq(EpisodeRows)
    BY <2>1 DEF EpisodeTypeOK
  <2>3. life' \in {"down", "migrating", "serving"} /\ poisoned' \in BOOLEAN
    OBVIOUS
  <2> QED BY <2>2, <2>3 DEF EpisodeTypeOK
<1>2. OneRowEach' /\ Unsure'
  BY DEF OneRowEach, Unsure, Stored
<1>3. op = Nothing /\ OpInv'
  BY DEF OpInv, Stored, Migrating, NextLegacy
<1>4. CoreKept'
  BY <1>3 DEF CoreKept
<1>5. TakenOver'
  BY DEF TakenOver, LegacyTakenOver, RowsIn, EpisodeTypeOK
<1> QED BY <1>1, <1>2, <1>3, <1>4, <1>5

LEMMA StopKeeps == ASSUME EpisodeInv, Stop PROVE EpisodeInv'
<1> USE DEF Forget
<1>1. journal' \in Seq(EpisodeRows) /\ OneRowEach' /\ index' \subseteq EpisodeRows
  <2>1. CASE UNCHANGED <<journal, index>>
    BY <2>1 DEF EpisodeInv, EpisodeTypeOK, OneRowEach
  <2>2. CASE /\ unconfirmed # Nothing
             /\ journal' = Put(journal, unconfirmed.at, unconfirmed.row)
             /\ index' = index \cup {unconfirmed.row}
    BY <2>2, FoundInv DEF EpisodeInv, EpisodeTypeOK
  <2> QED BY <2>1, <2>2 DEF Stop
<1>2. EpisodeTypeOK'
  <2>1. stops' \in 0..MaxStops
    BY EpisodeAssumptions DEF Stop, EpisodeInv, EpisodeTypeOK
  <2>2. core' \in Seq(EpisodeRows) /\ count' \in Nat /\ op' = Nothing
    BY DEF Stop
  <2>3. poisoned' \in BOOLEAN
    BY DEF Stop
  <2>4. /\ life' \in {"down", "migrating", "serving"} /\ unconfirmed' = Nothing
        /\ UNCHANGED <<backend, legacy, migrated, answers, faults>>
    BY DEF Stop
  <2> QED BY <1>1, <2>1, <2>2, <2>3, <2>4 DEF EpisodeInv, EpisodeTypeOK
<1>3. OpInv' /\ CoreKept' /\ Unsure' /\ TakenOver'
  BY DEF Stop, EpisodeInv, OpInv, CoreKept, Unsure, TakenOver, LegacyTakenOver
<1> QED BY <1>1, <1>2, <1>3 DEF EpisodeInv
LEMMA ObserveNewKeeps ==
  ASSUME EpisodeInv, NEW row \in EpisodeRows, ObserveNew(row)
  PROVE  EpisodeInv'
<1> USE DEF Ready, durableVars
<1>1. op' = [row |-> row, durable |-> FALSE] /\ op = Nothing /\ ~poisoned
  BY DEF ObserveNew
<1>2. op' \in [row : EpisodeRows, durable : BOOLEAN] /\ op'.row = row /\ ~op'.durable
  BY <1>1
<1>3. EpisodeTypeOK'
  BY <1>2 DEF ObserveNew, EpisodeInv, EpisodeTypeOK
<1>4. OneRowEach'
  BY DEF ObserveNew, EpisodeInv, OneRowEach
<1>5. Unsure'
  BY DEF ObserveNew, EpisodeInv, Unsure, Stored
<1>6. OpInv'
  BY <1>1, <1>2 DEF ObserveNew, EpisodeInv, OpInv, Stored, Migrating, NextLegacy
<1>7. CoreKept'
  BY <1>1, <1>2 DEF ObserveNew, EpisodeInv, CoreKept
<1>8. TakenOver'
  BY DEF ObserveNew, EpisodeInv, TakenOver, LegacyTakenOver
<1> QED BY <1>3, <1>4, <1>5, <1>6, <1>7, <1>8 DEF EpisodeInv

LEMMA MakeDurableKeeps == ASSUME EpisodeInv, MakeDurable PROVE EpisodeInv'
<1>1. /\ journal' = Append(journal, op.row) /\ op.row \in EpisodeRows
      /\ journal' \in Seq(EpisodeRows) /\ OneRowEach'
      /\ op' = [op EXCEPT !.durable = TRUE] /\ op.row \in index'
      /\ core = journal /\ count = Len(journal) /\ ~poisoned /\ life # "down"
  BY CommittedInv
<1>2. op \in [row : EpisodeRows, durable : BOOLEAN] /\ op # Nothing
  BY DEF MakeDurable, EpisodeInv, EpisodeTypeOK
<1>3. op' \in [row : EpisodeRows, durable : BOOLEAN] /\ op'.row = op.row /\ op'.durable
  BY <1>1, <1>2
<1>4. op' # Nothing
  BY <1>3, EpisodeAssumptions
<1>5. index' \subseteq EpisodeRows /\ index \subseteq index'
  BY <1>1 DEF MakeDurable, EpisodeInv, EpisodeTypeOK
<1>6. EpisodeTypeOK'
  BY <1>1, <1>3, <1>5 DEF MakeDurable, EpisodeInv, EpisodeTypeOK
<1>7. Unsure'
  BY <1>1 DEF MakeDurable, EpisodeInv, Unsure
<1>8. OpInv'
  BY <1>1, <1>2, <1>3 DEF MakeDurable, EpisodeInv, OpInv, Migrating, NextLegacy
<1>9. CoreKept'
  BY <1>1, <1>3, <1>4 DEF MakeDurable, CoreKept
<1>10. TakenOver'
  BY <1>5 DEF MakeDurable, EpisodeInv, TakenOver, LegacyTakenOver
<1> QED BY <1>1, <1>6, <1>7, <1>8, <1>9, <1>10 DEF EpisodeInv

\* A failing step ends the operation and, while migrating, the process.
LEMMA FaultKeeps ==
  ASSUME EpisodeInv, op # Nothing, NEW poison \in BOOLEAN, Fault, AfterFault(poison),
         op.durable => poison,
         UNCHANGED <<durableVars, migrated, answers, stops>>,
         \/ unconfirmed' = Nothing
         \/ /\ unconfirmed' = [row |-> op.row, at |-> count + 1]
            /\ backend = "bdr" /\ ~op.durable /\ poison
  PROVE  EpisodeInv'
<1> USE DEF durableVars
<1>1. /\ op \in [row : EpisodeRows, durable : BOOLEAN] /\ ~poisoned
      /\ life \in {"migrating", "serving"}
  BY DEF EpisodeInv, EpisodeTypeOK, OpInv
<1>2. op' = Nothing
  BY DEF AfterFault
<1>3. /\ life = "serving" => life' = "serving" /\ core' = core /\ count' = count
      /\ life = "serving" => (poisoned' <=> poison)
      /\ life = "migrating" => life' = "down" /\ core' = <<>> /\ count' = 0 /\ ~poisoned'
      /\ poisoned' \in BOOLEAN
  BY <1>1 DEF AfterFault, Survives
<1>4. EpisodeTypeOK'
  <2>1. core' \in Seq(EpisodeRows) /\ count' \in Nat /\ life' \in {"down", "migrating", "serving"}
    <3>1. core \in Seq(EpisodeRows) /\ count \in Nat
      BY DEF EpisodeInv, EpisodeTypeOK
    <3>2. CASE life = "serving"
      BY <1>3, <3>1, <3>2
    <3>3. CASE life = "migrating"
      BY <1>3, <3>3
    <3> QED BY <1>1, <3>2, <3>3
  <2>2. faults' \in 0..MaxFaults
    BY EpisodeAssumptions DEF Fault, EpisodeInv, EpisodeTypeOK
  <2>3. unconfirmed' = Nothing \/ unconfirmed' \in [row : EpisodeRows, at : Nat]
    BY <1>1 DEF EpisodeInv, EpisodeTypeOK
  <2> QED BY <1>2, <1>3, <2>1, <2>2, <2>3 DEF EpisodeInv, EpisodeTypeOK
<1>5. OneRowEach'
  BY DEF EpisodeInv, OneRowEach
<1>6. OpInv'
  BY <1>2 DEF OpInv
<1>7. CoreKept'
  BY <1>1, <1>2, <1>3 DEF EpisodeInv, CoreKept
<1>8. TakenOver'
  BY <1>1, <1>3 DEF EpisodeInv, TakenOver, LegacyTakenOver
<1>9. Unsure'
  <2> SUFFICES ASSUME unconfirmed' # Nothing PROVE Unsure'
    BY DEF Unsure
  <2>1. /\ unconfirmed'.row = op.row /\ unconfirmed'.at = count + 1
        /\ backend = "bdr" /\ ~op.durable /\ poison
    OBVIOUS
  <2>2. life = "serving"
    BY <1>1, <2>1 DEF EpisodeInv, TakenOver
  <2>3. count = Len(journal) /\ ~Stored(op.row)
    BY <1>1, <2>1, <2>2 DEF EpisodeInv, CoreKept, OpInv
  <2> QED BY <1>3, <2>1, <2>2, <2>3 DEF Unsure, Stored
<1> QED BY <1>4, <1>5, <1>6, <1>7, <1>8, <1>9 DEF EpisodeInv

LEMMA FailuresKeep ==
  ASSUME EpisodeInv, MakeDurableFails \/ ProjectFails
  PROVE  EpisodeInv'
<1>1. CASE MakeDurableFails
  <2>1. (backend = "bdr") \in BOOLEAN
    OBVIOUS
  <2>2. \/ unconfirmed' = Nothing
        \/ /\ unconfirmed' = [row |-> op.row, at |-> count + 1]
           /\ backend = "bdr" /\ ~op.durable /\ (backend = "bdr")
    BY <1>1 DEF MakeDurableFails
  <2>3. /\ op # Nothing /\ ~op.durable /\ Fault /\ AfterFault(backend = "bdr")
        /\ UNCHANGED <<durableVars, migrated, answers, stops>>
    BY <1>1 DEF MakeDurableFails
  <2> QED BY <2>1, <2>2, <2>3, FaultKeeps
<1>2. CASE ProjectFails
  <2>1. unconfirmed' = Nothing
    BY <1>2 DEF ProjectFails, EpisodeInv, OpInv, Unsure
  <2>2. /\ op # Nothing /\ Fault /\ AfterFault(TRUE)
        /\ UNCHANGED <<durableVars, migrated, answers, stops>>
    BY <1>2 DEF ProjectFails
  <2> QED BY <2>1, <2>2, FaultKeeps
<1> QED BY <1>1, <1>2
LEMMA AnswerTyped ==
  ASSUME answers \subseteq [row : EpisodeRows, stored : BOOLEAN],
         NEW row \in EpisodeRows, NEW stored \in BOOLEAN, Answer(row, stored)
  PROVE  answers' \subseteq [row : EpisodeRows, stored : BOOLEAN]
<1>1. [row |-> row, stored |-> stored] \in [row : EpisodeRows, stored : BOOLEAN]
  OBVIOUS
<1> QED BY <1>1 DEF Answer

LEMMA ProjectKeeps == ASSUME EpisodeInv, Project PROVE EpisodeInv'
<1> USE DEF durableVars
<1>1. /\ op \in [row : EpisodeRows, durable : BOOLEAN] /\ op # Nothing /\ op.durable
      /\ life # "down" /\ ~poisoned /\ op.row \in EpisodeRows
  BY DEF Project, EpisodeInv, EpisodeTypeOK, OpInv
<1>2. core \in Seq(EpisodeRows) /\ journal = Append(core, op.row) /\ count = Len(core)
  BY <1>1 DEF EpisodeInv, EpisodeTypeOK, CoreKept
<1>3. core' = journal /\ count' = Len(journal) /\ core' \in Seq(EpisodeRows) /\ count' \in Nat
  BY <1>1, <1>2 DEF Project
<1>4. op' = Nothing /\ life' = life /\ poisoned' = poisoned /\ unconfirmed' = unconfirmed
      /\ UNCHANGED <<backend, legacy, journal, index, faults, stops>>
  BY DEF Project
<1>5. answers' \subseteq [row : EpisodeRows, stored : BOOLEAN]
  <2>1. answers \subseteq [row : EpisodeRows, stored : BOOLEAN]
    BY DEF EpisodeInv, EpisodeTypeOK
  <2>2. CASE life = "serving"
    <3>1. Answer(op.row, TRUE)
      BY <2>2 DEF Project
    <3> QED BY <1>1, <2>1, <3>1, TRUE \in BOOLEAN, AnswerTyped
  <2>3. CASE life # "serving"
    BY <2>1, <2>3 DEF Project
  <2> QED BY <2>2, <2>3
<1>6. CASE life = "serving"
  <2>1. migrated' = migrated
    BY <1>6 DEF Project
  <2>2. EpisodeTypeOK'
    BY <1>3, <1>4, <1>5, <2>1 DEF EpisodeInv, EpisodeTypeOK
  <2>3. TakenOver'
    BY <1>4, <1>6 DEF EpisodeInv, TakenOver, LegacyTakenOver
  <2> QED BY <1>3, <1>4, <2>2, <2>3
          DEF EpisodeInv, OneRowEach, OpInv, CoreKept, Unsure, Stored
<1>7. CASE life = "migrating"
  <2>1. migrated' = migrated + 1
    BY <1>7 DEF Project
  <2>2. /\ migrated < Len(legacy) /\ op.row = legacy[migrated + 1] /\ op.row \in index
        /\ migrated \in Nat /\ Len(legacy) \in Nat
    BY <1>1, <1>7 DEF EpisodeInv, EpisodeTypeOK, OpInv, Migrating, NextLegacy
  <2>3. migrated' \in 0..Len(legacy)
    BY <2>1, <2>2
  <2>4. EpisodeTypeOK'
    BY <1>3, <1>4, <1>5, <2>3 DEF EpisodeInv, EpisodeTypeOK
  <2>5. \A i \in 1..migrated' : legacy[i] \in index
    <3> SUFFICES ASSUME NEW i \in 1..migrated + 1 PROVE legacy[i] \in index
      BY <2>1
    <3>1. i \in 1..migrated \/ i = migrated + 1
      BY <2>2
    <3> QED BY <1>7, <2>2, <3>1 DEF EpisodeInv, TakenOver
  <2>6. TakenOver'
    BY <1>4, <1>7, <2>5 DEF EpisodeInv, TakenOver, LegacyTakenOver
  <2> QED BY <1>3, <1>4, <2>4, <2>6
          DEF EpisodeInv, OneRowEach, OpInv, CoreKept, Unsure, Stored
<1> QED BY <1>1, <1>6, <1>7 DEF EpisodeInv, EpisodeTypeOK

\* The durable rows and the operation stay; an answer may be given again.
LEMMA ObserveAgainKeeps ==
  ASSUME EpisodeInv, NEW row \in EpisodeRows, ObserveAgain(row)
  PROVE  EpisodeInv'
<1> USE DEF durableVars, ObserveAgain
<1>1. answers' \subseteq [row : EpisodeRows, stored : BOOLEAN]
  <2>1. answers \subseteq [row : EpisodeRows, stored : BOOLEAN] /\ Answer(row, FALSE)
    BY DEF EpisodeInv, EpisodeTypeOK
  <2> QED BY <2>1, FALSE \in BOOLEAN, AnswerTyped
<1>2. EpisodeTypeOK'
  BY <1>1 DEF EpisodeInv, EpisodeTypeOK
<1> QED BY <1>2 DEF EpisodeInv, OneRowEach, OpInv, CoreKept, TakenOver, LegacyTakenOver,
                    Unsure, Stored, Migrating, NextLegacy

LEMMA MigrateAgainKeeps == ASSUME EpisodeInv, MigrateAgain PROVE EpisodeInv'
<1> USE DEF durableVars, MigrateAgain, Ready, Migrating, NextLegacy
<1>1. migrated \in Nat /\ Len(legacy) \in Nat /\ migrated < Len(legacy) /\ op = Nothing
  BY DEF EpisodeInv, EpisodeTypeOK
<1>2. EpisodeTypeOK'
  BY <1>1 DEF EpisodeInv, EpisodeTypeOK
<1>3. \A i \in 1..migrated' : legacy[i] \in index
  <2> SUFFICES ASSUME NEW i \in 1..migrated + 1 PROVE legacy[i] \in index
    OBVIOUS
  <2>1. i \in 1..migrated \/ i = migrated + 1
    BY <1>1
  <2> QED BY <2>1 DEF EpisodeInv, TakenOver
<1>4. TakenOver'
  BY <1>3 DEF EpisodeInv, TakenOver, LegacyTakenOver
<1> QED BY <1>1, <1>2, <1>4 DEF EpisodeInv, OneRowEach, OpInv, CoreKept, Unsure, Stored

LEMMA MigrateRefusesKeeps == ASSUME EpisodeInv, MigrateRefuses PROVE EpisodeInv'
<1> USE DEF durableVars, MigrateRefuses, Forget
<1>1. core' \in Seq(EpisodeRows) /\ count' \in Nat
  OBVIOUS
<1>2. poisoned' \in BOOLEAN /\ op' = Nothing /\ life' = "down"
  OBVIOUS
<1>3. EpisodeTypeOK'
  BY <1>1, <1>2 DEF EpisodeInv, EpisodeTypeOK
<1> QED BY <1>2, <1>3 DEF EpisodeInv, OneRowEach, OpInv, CoreKept, TakenOver, LegacyTakenOver,
                    Unsure, Stored, Migrating

LEMMA ServeKeeps == ASSUME EpisodeInv, Serve PROVE EpisodeInv'
<1> USE DEF durableVars, Serve
<1>1. EpisodeTypeOK'
  BY DEF EpisodeInv, EpisodeTypeOK
<1>2. LegacyTakenOver'
  BY DEF EpisodeInv, TakenOver, LegacyTakenOver, RowsIn
<1> QED BY <1>1, <1>2 DEF EpisodeInv, OneRowEach, OpInv, CoreKept, TakenOver, Unsure, Stored

LEMMA EpisodeInvIsInductive ==
  ASSUME EpisodeInv, [EpisodeNext]_episodeVars
  PROVE  EpisodeInv'
<1>1. ASSUME NEW row \in EpisodeRows, ObserveAgain(row) \/ ObserveNew(row)
      PROVE  EpisodeInv'
  BY <1>1, ObserveAgainKeeps, ObserveNewKeeps
<1>2. CASE MakeDurable \/ MakeDurableFails \/ Project \/ ProjectFails
  BY <1>2, MakeDurableKeeps, ProjectKeeps, FailuresKeep
<1>3. CASE Start \/ Stop \/ Serve \/ MigrateAgain \/ MigrateRefuses
  BY <1>3, StartKeeps, StopKeeps, ServeKeeps, MigrateAgainKeeps, MigrateRefusesKeeps
<1>4. CASE UNCHANGED episodeVars
  BY <1>4 DEF episodeVars, EpisodeInv, EpisodeTypeOK, OneRowEach, OpInv, CoreKept, TakenOver,
              LegacyTakenOver, Unsure, Stored, Migrating, NextLegacy
<1> QED BY <1>1, <1>2, <1>3, <1>4 DEF EpisodeNext

LEMMA InitEpisodes == EpisodeInit => EpisodeInv
<1> SUFFICES ASSUME EpisodeInit PROVE EpisodeInv
  OBVIOUS
<1> USE DEF EpisodeInit
<1>1. legacy \in Seq(EpisodeRows \cup {Foreign}) /\ backend \in {"sqlite", "bdr"}
  <2>1. CASE backend = "sqlite"
    BY <2>1, EpisodeAssumptions
  <2>2. CASE backend # "sqlite"
    <3>1. legacy = <<>>
      BY <2>2
    <3> QED BY <3>1
  <2> QED BY <2>1, <2>2
<1>2. EpisodeTypeOK
  <2>1. Len(legacy) \in Nat /\ 0 \in 0..Len(legacy)
    BY <1>1
  <2>2. 0 \in 0..MaxFaults /\ 0 \in 0..MaxStops
    BY EpisodeAssumptions
  <2>3. /\ journal \in Seq(EpisodeRows) /\ core \in Seq(EpisodeRows)
        /\ index \subseteq EpisodeRows /\ count \in Nat
        /\ answers \subseteq [row : EpisodeRows, stored : BOOLEAN]
    OBVIOUS
  <2>4. poisoned \in BOOLEAN /\ life \in {"down", "migrating", "serving"}
    OBVIOUS
  <2> QED BY <1>1, <2>1, <2>2, <2>3, <2>4 DEF EpisodeTypeOK
<1>3. OneRowEach
  BY DEF OneRowEach, RowsIn
<1>4. OpInv /\ CoreKept /\ Unsure /\ TakenOver
  BY DEF OpInv, CoreKept, Unsure, TakenOver, LegacyTakenOver
<1> QED BY <1>2, <1>3, <1>4 DEF EpisodeInv

LEMMA EpisodeInvGives == ASSUME EpisodeInv PROVE EpisodesProjected
<1>1. CoreIsJournal
  BY DEF EpisodeInv, OneRowEach, CoreKept, CoreIsJournal, Ready
<1> QED BY <1>1 DEF EpisodeInv, TakenOver, EpisodesProjected

\* Whatever fails between a commit and its projection, and whenever the process
\* is killed, a process that answers has the durable rows in its core under the
\* sequence numbers they have on disk, and every legacy row before it serves
\* (external_episode_incremental.py, external_episode_bdr_candidate.py).
THEOREM ProjectedAlways == EpisodeSpec => []EpisodesProjected
<1>1. EpisodeInv /\ [EpisodeNext]_episodeVars => EpisodeInv'
  BY EpisodeInvIsInductive
<1> QED BY <1>1, InitEpisodes, EpisodeInvGives, PTL DEF EpisodeSpec

-----------------------------------------------------------------------------
(* The promise of the evidence service.                                    *)

\* A row that joins the others is a commit of the ledger.
LEMMA JoiningCommits ==
  ASSUME EpisodeInv, NEW row \in EpisodeRows, OneRowEach',
         journal' = Append(journal, row), answers' = answers
  PROVE  Ledger!Commit
<1> DEFINE n == Len(journal)
<1>1. journal \in Seq(EpisodeRows) /\ n \in Nat
  BY DEF EpisodeInv, EpisodeTypeOK
<1>2. /\ journal' \in Seq(EpisodeRows) /\ Len(journal') = n + 1
      /\ \A i \in 1..n : journal'[i] = journal[i]
  BY <1>1, AppendProperties
<1>3. journal' # journal /\ Len(journal') >= n
  BY <1>1, <1>2
<1>4. SubSeq(journal', 1, n) = journal
  <2>1. /\ SubSeq(journal', 1, n) \in Seq(EpisodeRows) /\ Len(SubSeq(journal', 1, n)) = n
        /\ \A i \in 1..n : SubSeq(journal', 1, n)[i] = journal'[i]
    BY <1>1, <1>2
  <2> QED BY <1>1, <1>2, <2>1, SeqEqual
<1>5. Ledger!KeysUnique(journal')
  BY DEF OneRowEach, Ledger!KeysUnique, KeyOf
<1>6. UNCHANGED Answered
  BY DEF Answered
<1> QED BY <1>2, <1>3, <1>4, <1>5, <1>6 DEF Ledger!Commit

\* An answer names a stored row.
LEMMA AnsweringAnswers ==
  ASSUME EpisodeInv, NEW row \in index, NEW stored \in BOOLEAN, Answer(row, stored),
         journal' = journal
  PROVE  Ledger!Answer
<1>1. row \in Ledger!RowsOf(journal)
  BY DEF EpisodeInv, OneRowEach, RowsIn, Ledger!RowsOf
<1>2. Answered' = Answered \cup {row}
  <2> DEFINE new == [row |-> row, stored |-> stored]
  <2>1. answers' = answers \cup {new} /\ new.row = row
    BY DEF Answer
  <2> HIDE DEF new
  <2>2. \A r : r \in Answered' <=> r \in Answered \/ r = row
    <3> TAKE r
    <3>1. r \in Answered' <=> \E a \in answers' : r = a.row
      BY DEF Answered
    <3>2. r \in Answered <=> \E a \in answers : r = a.row
      BY DEF Answered
    <3> QED BY <2>1, <3>1, <3>2
  <2> QED BY <2>2
<1> QED BY <1>1, <1>2 DEF Ledger!Answer

LEMMA StepsKeepLedger ==
  ASSUME EpisodeInv, EpisodeInv', [EpisodeNext]_episodeVars
  PROVE  [Ledger!Next]_<<journal, Answered>>
<1>1. OneRowEach'
  BY DEF EpisodeInv
<1>2. ASSUME UNCHANGED <<journal, answers>> PROVE UNCHANGED <<journal, Answered>>
  BY <1>2 DEF Answered
<1>3. ASSUME NEW row \in EpisodeRows, ObserveAgain(row) PROVE Ledger!Next
  <2>1. row \in index /\ Answer(row, FALSE) /\ journal' = journal
    BY <1>3 DEF ObserveAgain, durableVars
  <2>2. Ledger!Answer
    BY <2>1, FALSE \in BOOLEAN, AnsweringAnswers
  <2> QED BY <2>2 DEF Ledger!Next
<1>4. CASE MakeDurable
  <2>1. journal' = Append(journal, op.row) /\ op.row \in EpisodeRows
    BY <1>4, CommittedInv
  <2>2. answers' = answers
    BY <1>4 DEF MakeDurable
  <2>3. Ledger!Commit
    BY <1>1, <2>1, <2>2, JoiningCommits
  <2> QED BY <2>3 DEF Ledger!Next
<1>5. CASE Stop
  <2>1. CASE UNCHANGED <<journal, index>>
    <3>1. UNCHANGED <<journal, answers>>
      BY <1>5, <2>1 DEF Stop
    <3> QED BY <1>2, <3>1
  <2>2. CASE /\ unconfirmed # Nothing
             /\ journal' = Put(journal, unconfirmed.at, unconfirmed.row)
             /\ index' = index \cup {unconfirmed.row}
    <3>1. unconfirmed.row \in EpisodeRows /\ journal' = Append(journal, unconfirmed.row)
      BY <2>2, FoundInv
    <3>2. answers' = answers
      BY <1>5 DEF Stop
    <3>3. Ledger!Commit
      BY <1>1, <3>1, <3>2, JoiningCommits
    <3> QED BY <3>3 DEF Ledger!Next
  <2> QED BY <1>5, <2>1, <2>2 DEF Stop
<1>6. CASE Project
  <2>1. op # Nothing /\ op.durable /\ journal' = journal
    BY <1>6 DEF Project, durableVars
  <2>2. op.row \in index
    BY <2>1 DEF EpisodeInv, OpInv
  <2>3. CASE life = "serving"
    <3>1. Answer(op.row, TRUE)
      BY <1>6, <2>3 DEF Project
    <3>2. Ledger!Answer
      BY <2>1, <2>2, <3>1, TRUE \in BOOLEAN, AnsweringAnswers
    <3> QED BY <3>2 DEF Ledger!Next
  <2>4. CASE life # "serving"
    <3>1. UNCHANGED <<journal, answers>>
      BY <1>6, <2>1, <2>4 DEF Project
    <3> QED BY <1>2, <3>1
  <2> QED BY <2>3, <2>4
<1>7. CASE \/ Start \/ Serve \/ MakeDurableFails \/ ProjectFails \/ MigrateAgain \/ MigrateRefuses
           \/ (\E row \in EpisodeRows : ObserveNew(row)) \/ UNCHANGED episodeVars
  <2>1. UNCHANGED <<journal, answers>>
    BY <1>7 DEF Start, Serve, MakeDurableFails, ProjectFails, MigrateAgain, MigrateRefuses,
                ObserveNew, episodeVars, durableVars
  <2> QED BY <1>2, <2>1
<1> QED BY <1>3, <1>4, <1>5, <1>6, <1>7 DEF EpisodeNext

\* The incremental stores keep the promise the evidence service makes: rows only
\* join, one at a time and one for each identity, also those a kill finds in an
\* unconfirmed batch, and an answer names a row that is durable already.
THEOREM EpisodesKeepLedger == EpisodeSpec => KeepsLedger
<1>1. EpisodeInit => Ledger!Init
  BY DEF EpisodeInit, Ledger!Init, Answered
<1>2. EpisodeInv /\ EpisodeInv' /\ [EpisodeNext]_episodeVars
        => [Ledger!Next]_<<journal, Answered>>
  BY StepsKeepLedger
<1>3. EpisodeInv /\ [EpisodeNext]_episodeVars => EpisodeInv'
  BY EpisodeInvIsInductive
<1> QED BY <1>1, <1>2, <1>3, InitEpisodes, PTL DEF EpisodeSpec, KeepsLedger, Ledger!Spec

-----------------------------------------------------------------------------
(* The mirror beside the store that keeps serving.                         *)

Marks == EpisodeRows \cup {Nothing}
Places == {"checkpoint", "snapshot", "watermark", "import", "reopen", "done", "failed"}
MirrorRecords ==
    [at : Places, watermark : Marks, snapshot : Seq(EpisodeRows), copied : Seq(EpisodeRows),
     inserted : Nat,
     report : {Nothing} \cup [rows : Seq(EpisodeRows), watermark : Marks, unchanged : BOOLEAN]]

\* s is what journal was at some time.
Before(s) == Len(s) <= Len(journal) /\ s = SubSeq(journal, 1, Len(s))

MirrorInv ==
    /\ EpisodeInv
    /\ Answered \subseteq RowsIn(journal)
    /\ checkpoint \in Marks /\ Has(checkpoint, journal)
    /\ mirror \in MirrorRecords
    /\ Has(mirror.watermark, journal)
    /\ Before(mirror.snapshot)
    /\ mirror.at \in {"watermark", "import", "reopen", "done"} =>
         Has(mirror.watermark, mirror.snapshot)
    /\ mirror.at = "reopen" => mirror.copied = mirror.snapshot
    /\ mirror.report # Nothing =>
         Before(mirror.report.rows) /\ Has(mirror.report.watermark, mirror.report.rows)

\* A step of the store only adds to the journal.
LEMMA JournalOnlyGrows ==
  ASSUME EpisodeInv, EpisodeInv', [EpisodeNext]_episodeVars
  PROVE  Len(journal) <= Len(journal') /\ SubSeq(journal', 1, Len(journal)) = journal
<1>1. journal \in Seq(EpisodeRows) /\ journal' \in Seq(EpisodeRows)
  BY DEF EpisodeInv, EpisodeTypeOK
<1>2. [Ledger!Next]_<<journal, Answered>>
  BY StepsKeepLedger
<1>3. CASE journal' = journal
  BY <1>1, <1>3
<1>4. CASE Ledger!Commit
  BY <1>1, <1>4 DEF Ledger!Commit
<1> QED BY <1>2, <1>3, <1>4 DEF Ledger!Next, Ledger!Answer

\* What was a beginning of the journal is one of the longer journal.
LEMMA BeforeStays ==
  ASSUME EpisodeInv, EpisodeInv', [EpisodeNext]_episodeVars, NEW s \in Seq(EpisodeRows), Before(s)
  PROVE  Len(s) <= Len(journal') /\ s = SubSeq(journal', 1, Len(s))
<1>1. journal \in Seq(EpisodeRows) /\ journal' \in Seq(EpisodeRows)
  BY DEF EpisodeInv, EpisodeTypeOK
<1>2. Len(journal) <= Len(journal') /\ SubSeq(journal', 1, Len(journal)) = journal
  BY JournalOnlyGrows
<1>3. SubSeq(SubSeq(journal', 1, Len(journal)), 1, Len(s)) = SubSeq(journal', 1, Len(s))
  <2>1. Len(journal) \in 0..Len(journal') /\ Len(s) \in 0..Len(journal)
    BY <1>1, <1>2 DEF Before
  <2> QED BY <1>1, <2>1
<1> QED BY <1>1, <1>2, <1>3 DEF Before

LEMMA RowsStay ==
  ASSUME EpisodeInv, EpisodeInv', [EpisodeNext]_episodeVars
  PROVE  RowsIn(journal) \subseteq RowsIn(journal')
<1>1. journal \in Seq(EpisodeRows) /\ journal' \in Seq(EpisodeRows)
  BY DEF EpisodeInv, EpisodeTypeOK
<1>2. Len(journal) <= Len(journal') /\ SubSeq(journal', 1, Len(journal)) = journal
  BY JournalOnlyGrows
<1>3. \A i \in 1..Len(journal) : journal[i] = journal'[i] /\ i \in 1..Len(journal')
  BY <1>1, <1>2
<1> QED BY <1>3 DEF RowsIn

\* The store moves: the mirror, its snapshot and its report stay true.
LEMMA StoreKeepsMirror ==
  ASSUME MirrorInv, [EpisodeNext]_episodeVars, UNCHANGED mirrorVars
  PROVE  MirrorInv'
<1>1. EpisodeInv'
  BY EpisodeInvIsInductive DEF MirrorInv
<1>2. RowsIn(journal) \subseteq RowsIn(journal')
  BY <1>1, RowsStay DEF MirrorInv
<1>3. Answered' \subseteq RowsIn(journal')
  <2>1. [Ledger!Next]_<<journal, Answered>>
    BY <1>1, StepsKeepLedger DEF MirrorInv
  <2>2. CASE Ledger!Answer
    BY <1>2, <2>2 DEF MirrorInv, Ledger!Answer, Ledger!RowsOf, RowsIn
  <2> QED BY <1>2, <2>1, <2>2 DEF MirrorInv, Ledger!Next, Ledger!Commit
<1>4. mirror' = mirror /\ checkpoint' = checkpoint
  BY DEF mirrorVars
<1>5. mirror.snapshot \in Seq(EpisodeRows)
  BY DEF MirrorInv, MirrorRecords
<1>6. mirror.report # Nothing => mirror.report.rows \in Seq(EpisodeRows)
  BY DEF MirrorInv, MirrorRecords
<1>7. \A s \in Seq(EpisodeRows) : Before(s) => (Before(s))'
  BY <1>1, BeforeStays DEF MirrorInv, Before
<1>8. \A row : Has(row, journal) => Has(row, journal')
  BY <1>2 DEF Has
<1> QED BY <1>1, <1>3, <1>4, <1>5, <1>6, <1>7, <1>8 DEF MirrorInv, Before, Has

\* The mirror or its client moves.
LEMMA MirrorMoves ==
  ASSUME MirrorInv, \/ ClientCheckpoint \/ ReadCheckpoint \/ TakeSnapshot \/ CheckWatermark
                    \/ ImportRow \/ CompareImported \/ WriteReport \/ MirrorFails
  PROVE  MirrorInv'
<1>1. UNCHANGED episodeVars
  BY DEF ClientCheckpoint, ReadCheckpoint, TakeSnapshot, CheckWatermark, ImportRow,
     CompareImported, WriteReport, MirrorFails, MirrorStep
<1>2. /\ EpisodeInv' /\ (Answered \subseteq RowsIn(journal))' /\ journal' = journal
      /\ \A s : (Before(s))' <=> Before(s)
  <2>1. EpisodeInv'
    BY <1>1, EpisodeInvIsInductive DEF MirrorInv
  <2> QED BY <1>1, <2>1 DEF MirrorInv, episodeVars, Answered, Before
<1> USE DEF MirrorInv
<1>3. journal \in Seq(EpisodeRows)
  BY DEF EpisodeInv, EpisodeTypeOK
<1>4. CASE ClientCheckpoint
  <2>1. checkpoint' \in RowsIn(journal) /\ mirror' = mirror
    BY <1>4 DEF ClientCheckpoint
  <2>2. checkpoint' \in EpisodeRows
    BY <1>3, <2>1 DEF RowsIn
  <2> QED BY <1>2, <2>1, <2>2 DEF Marks, Has
<1> USE DEF MirrorStep
<1>5. CASE ReadCheckpoint
  BY <1>2, <1>5 DEF ReadCheckpoint, MirrorRecords, Places
<1>6. CASE TakeSnapshot
  <2>1. mirror' = [mirror EXCEPT !.at = "watermark", !.snapshot = journal] /\ checkpoint' = checkpoint
    BY <1>6 DEF TakeSnapshot
  <2>2. Before(journal)
    BY <1>3 DEF Before
  <2>3. /\ mirror' \in MirrorRecords /\ mirror'.snapshot = journal /\ mirror'.at = "watermark"
        /\ mirror'.watermark = mirror.watermark /\ mirror'.report = mirror.report
    BY <1>3, <2>1 DEF MirrorRecords, Places
  <2> QED BY <1>2, <2>1, <2>2, <2>3
<1>7. CASE CheckWatermark
  BY <1>2, <1>7 DEF CheckWatermark, To, MirrorRecords, Places
<1>8. CASE ImportRow
  <2> DEFINE row == mirror.snapshot[mirror.inserted + 1]
  <2>1. row \in EpisodeRows
    BY <1>8 DEF ImportRow, MirrorRecords
  <2>2. Copy(mirror.copied, row) \in Seq(EpisodeRows)
    BY <2>1 DEF Copy, MirrorRecords
  <2> HIDE DEF row
  <2>3. /\ mirror' = [mirror EXCEPT !.inserted = mirror.inserted + 1, !.copied = Copy(mirror.copied, row)]
        /\ mirror.at = "import" /\ checkpoint' = checkpoint
    BY <1>8 DEF ImportRow, row
  <2>4. /\ mirror' \in MirrorRecords /\ mirror'.snapshot = mirror.snapshot /\ mirror'.at = "import"
        /\ mirror'.watermark = mirror.watermark /\ mirror'.report = mirror.report
    <3> DEFINE copied == Copy(mirror.copied, row)
               inserted == mirror.inserted + 1
    <3>1. copied \in Seq(EpisodeRows) /\ inserted \in Nat
      BY <2>2 DEF MirrorRecords
    <3>2. mirror' = [mirror EXCEPT !.inserted = inserted, !.copied = copied]
      BY <2>3
    <3> HIDE DEF copied, inserted, EpisodeInv
    <3> QED BY <2>3, <3>1, <3>2 DEF MirrorRecords
  <2> QED BY <1>2, <2>3, <2>4
<1>9. CASE CompareImported
  BY <1>2, <1>9 DEF CompareImported, To, MirrorRecords, Places
<1>10. CASE WriteReport
  <2> DEFINE new == [rows |-> mirror.copied, watermark |-> mirror.watermark,
                     unchanged |-> mirror.watermark = checkpoint]
  <2>1. new \in [rows : Seq(EpisodeRows), watermark : Marks, unchanged : BOOLEAN]
    BY DEF MirrorRecords
  <2>2. Before(new.rows) /\ Has(new.watermark, new.rows)
    BY <1>10 DEF WriteReport
  <2> HIDE DEF new
  <2>3. mirror' = [mirror EXCEPT !.at = "done", !.report = new] /\ mirror.at = "reopen" /\ checkpoint' = checkpoint
    BY <1>10 DEF WriteReport, new
  <2> QED BY <1>2, <2>1, <2>2, <2>3 DEF MirrorRecords, Places
<1>11. CASE MirrorFails
  BY <1>2, <1>11 DEF MirrorFails, To, MirrorRecords, Places
<1> QED BY <1>4, <1>5, <1>6, <1>7, <1>8, <1>9, <1>10, <1>11

\* external_episode_bdr_mirror.py: the watermark test refuses no healthy store,
\* and a report describes a beginning of the live rows that holds the watermark,
\* for any number of rows, faults, stops and acknowledgements while it runs.
THEOREM MirrorAlwaysProves == MirrorSpec => []MirrorProves
<1>1. MirrorInit => MirrorInv
  <2> SUFFICES ASSUME MirrorInit PROVE MirrorInv
    OBVIOUS
  <2>1. EpisodeInv
    BY InitEpisodes DEF MirrorInit
  <2>2. Fresh \in MirrorRecords
    BY EmptySeq DEF Fresh, MirrorRecords, Places, Marks
  <2>3. journal = <<>> /\ answers = {} /\ checkpoint = Nothing /\ mirror = Fresh
    BY DEF MirrorInit, EpisodeInit
  <2> QED BY <2>1, <2>2, <2>3 DEF MirrorInv, Answered, Has, Before, Fresh, Marks
<1>2. MirrorInv /\ [MirrorNext]_<<episodeVars, mirrorVars>> => MirrorInv'
  BY StoreKeepsMirror, MirrorMoves DEF MirrorNext
<1>3. MirrorInv => MirrorProves
  BY DEF MirrorInv, MirrorProves, Before
<1> QED BY <1>1, <1>2, <1>3, PTL DEF MirrorSpec

-----------------------------------------------------------------------------
(* Backup and restore.                                                     *)

Versions == 0..MaxVersions
\* A receipt names the version it was written for.
Manifests == {Manifest(v, r) : v \in Versions, r \in {Absent} \cup Versions}
Receipted(m) == m.receipt # Absent => m.receipt = m.version

BackupTyped ==
    /\ site \in [Sites -> [snapshot : Versions \cup {Absent}, manifest : Manifests \cup {Absent},
                           store : SUBSET Versions]]
    /\ version \in Versions \cup {Absent} /\ made \in Versions
    /\ save \in {"idle", "snapshot", "manifest", "store", "receipt"}
    /\ backup \in [at : {"idle", "snapshot", "manifest"}, snapshot : Versions \cup {Absent}]
    /\ archive = Absent
         \/ archive \in [snapshot : Versions, manifest : Manifests, settled : BOOLEAN]
    /\ restore \in [at : {"idle", "snapshot", "manifest"}, site : Sites]

\* What the home site and the archive name, the backend of the home site holds.
HomeInv ==
    /\ save # "idle" => version # Absent
    /\ save \in {"manifest", "store", "receipt"} => site["home"].snapshot # Absent
    /\ save = "receipt" => version \in site["home"].store
    /\ site["home"].manifest # Absent =>
         /\ site["home"].snapshot # Absent
         /\ Receipted(site["home"].manifest)
         /\ site["home"].manifest.receipt # Absent =>
              site["home"].manifest.receipt \in site["home"].store

ArchiveInv ==
    /\ backup.at # "idle" => site["home"].manifest # Absent
    /\ backup.at = "manifest" => backup.snapshot # Absent
    /\ restore.at # "idle" =>
         /\ archive # Absent /\ backup.at = "idle"
         /\ restore.site = "home" => version = Absent
    /\ archive # Absent =>
         /\ site["home"].manifest # Absent
         /\ Receipted(archive.manifest)
         /\ archive.manifest.receipt # Absent => archive.manifest.receipt \in site["home"].store
         /\ archive.settled => archive.manifest.receipt = archive.snapshot

BackupInv == BackupTyped /\ HomeInv /\ ArchiveInv

LEMMA ManifestFields ==
  ASSUME BackupParameters
  PROVE  /\ Absent \notin Manifests /\ Absent \notin Versions
         /\ \A m \in Manifests : m.version \in Versions /\ m.receipt \in Versions \cup {Absent}
         /\ \A v \in Versions, r \in {Absent} \cup Versions :
              /\ Manifest(v, r) \in Manifests
              /\ Manifest(v, r).version = v /\ Manifest(v, r).receipt = r
<1>1. Manifests \subseteq [version : Versions, receipt : Versions \cup {Absent}]
  BY DEF Manifests, Manifest
<1>2. \A v \in Versions, r \in {Absent} \cup Versions :
        /\ Manifest(v, r) \in Manifests
        /\ Manifest(v, r).version = v /\ Manifest(v, r).receipt = r
  BY DEF Manifests, Manifest
<1> QED BY <1>1, <1>2 DEF BackupParameters, Versions

LEMMA BackupStep == BackupParameters /\ BackupInv /\ [BackupNext]_backupVars => BackupInv'
<1> SUFFICES ASSUME BackupParameters, BackupInv, [BackupNext]_backupVars PROVE BackupInv'
  OBVIOUS
<1> USE ManifestFields DEF BackupInv, BackupTyped, HomeInv, ArchiveInv, Receipted, Sites
<1> HIDE DEF BackupParameters
<1>1. CASE Change
  <2>1. version' \in Versions /\ made' \in Versions /\ version' # Absent
    BY <1>1 DEF Change, Versions, BackupParameters
  <2> QED BY <1>1, <2>1 DEF Change
<1>2. ASSUME NEW at, NEW next, NEW new, SaveStep(at, next, new), at # "idle",
             next \in {"idle", "manifest", "store", "receipt"},
             new \in [snapshot : Versions \cup {Absent}, manifest : Manifests \cup {Absent},
                      store : SUBSET Versions],
             site["home"].store \subseteq new.store,
             site["home"].manifest # Absent => new.manifest # Absent,
             next \in {"manifest", "store", "receipt"} => new.snapshot # Absent,
             next = "receipt" => version \in new.store,
             new.manifest # Absent =>
               /\ new.snapshot # Absent /\ Receipted(new.manifest)
               /\ new.manifest.receipt # Absent => new.manifest.receipt \in new.store
      PROVE  BackupInv'
  <2>1. /\ site' = [site EXCEPT !["home"] = new] /\ save = at /\ save' = next
        /\ UNCHANGED <<version, made, backup, archive, restore>>
    BY <1>2 DEF SaveStep
  <2>2. site'["home"] = new /\ site' \in [Sites -> [snapshot : Versions \cup {Absent},
          manifest : Manifests \cup {Absent}, store : SUBSET Versions]]
    BY <1>2, <2>1
  <2>3. BackupTyped'
    BY <1>2, <2>1, <2>2
  <2>4. HomeInv'
    BY <1>2, <2>1, <2>2
  <2>5. ArchiveInv'
    BY <1>2, <2>1, <2>2
  <2> QED BY <2>3, <2>4, <2>5
<1> DEFINE home == site["home"]
<1>0. /\ home \in [snapshot : Versions \cup {Absent}, manifest : Manifests \cup {Absent}, store : SUBSET Versions]
      /\ save # "idle" => version \in Versions
  OBVIOUS
<1>3. CASE ReplaceSnapshot
  BY <1>0, <1>2, <1>3 DEF ReplaceSnapshot, SaveStep
<1>4. CASE ReplaceManifest
  <2>1. save = "manifest" /\ version \in Versions /\ Manifest(version, Absent) \in Manifests
    BY <1>0, <1>4 DEF ReplaceManifest, SaveStep
  <2> QED BY <1>0, <1>2, <1>4, <2>1 DEF ReplaceManifest
<1>5. CASE StoreSnapshot
  <2> DEFINE new == [home EXCEPT !.store = @ \cup {version}]
  <2>1. save = "store" /\ version \in Versions /\ SaveStep("store", "receipt", new)
    BY <1>0, <1>5 DEF StoreSnapshot, SaveStep
  <2>2. /\ new \in [snapshot : Versions \cup {Absent}, manifest : Manifests \cup {Absent}, store : SUBSET Versions]
        /\ new.store = home.store \cup {version} /\ new.manifest = home.manifest /\ new.snapshot = home.snapshot
    BY <1>0, <2>1
  <2> HIDE DEF new
  <2> QED BY <1>2, <2>1, <2>2
<1>6. CASE WriteReceipt
  <2>1. save = "receipt" /\ version \in Versions /\ Manifest(version, version) \in Manifests
    BY <1>0, <1>6 DEF WriteReceipt, SaveStep
  <2> QED BY <1>0, <1>2, <1>6, <2>1 DEF WriteReceipt
<1>7. CASE StopService
  BY <1>7 DEF StopService
<1>8. CASE StartService
  <2>1. version' \in Versions
    BY <1>8 DEF StartService, LoadSite, Versions, BackupParameters
  <2> QED BY <1>8, <2>1 DEF StartService
<1>9. CASE BeginBackup
  BY <1>9 DEF BeginBackup, NoRead
<1>10. CASE ReadSnapshot
  BY <1>10 DEF ReadSnapshot
<1>11. CASE WriteArchive
  <2>1. archive' \in [snapshot : Versions, manifest : Manifests, settled : BOOLEAN]
    BY <1>11 DEF WriteArchive
  <2> QED BY <1>11, <2>1 DEF WriteArchive, NoRead, Settled
<1>12. ASSUME NEW s \in Sites, BeginRestore(s) PROVE BackupInv'
  BY <1>12 DEF BeginRestore
<1>13. CASE RestoreSnapshot
  BY <1>13 DEF RestoreSnapshot
<1>14. CASE RestoreManifest
  BY <1>14 DEF RestoreManifest, AtRest
<1>15. CASE KillRestore
  BY <1>15 DEF KillRestore, AtRest
<1>16. CASE UNCHANGED backupVars
  BY <1>16 DEF backupVars
<1> QED
  BY <1>1, <1>3, <1>4, <1>5, <1>6, <1>7, <1>8, <1>9, <1>10, <1>11, <1>12, <1>13, <1>14, <1>15,
     <1>16 DEF BackupNext

LEMMA BackupStart == BackupParameters /\ BackupInit => BackupInv
  BY ManifestFields DEF BackupInit, BackupInv, BackupTyped, HomeInv, ArchiveInv, Sites, Empty,
     NoRead, AtRest, Versions, BackupParameters

LEMMA BackupInvGives == BackupParameters /\ BackupInv => BackupRestores
<1> SUFFICES ASSUME BackupParameters, BackupInv, archive # Absent, archive.settled
             PROVE  /\ \A s \in Sites : Restored(s) = Pair(archive.manifest.version)
                    /\ restore.at = "manifest" /\ restore.site = "home"
                         /\ site["home"].manifest.receipt # Absent =>
                         LoadSite(site["home"]) \in {Pair(v) : v \in Versions}
  BY DEF BackupRestores, Versions
<1> USE ManifestFields DEF BackupInv, BackupTyped, HomeInv, ArchiveInv, Receipted, Sites
<1>1. /\ archive.snapshot \in Versions /\ archive.manifest \in Manifests
      /\ archive.manifest.receipt = archive.snapshot /\ archive.manifest.version = archive.snapshot
  OBVIOUS
<1>2. ASSUME NEW s \in Sites PROVE Restored(s) = Pair(archive.manifest.version)
  <2> DEFINE new == [site[s] EXCEPT !.snapshot = archive.snapshot, !.manifest = archive.manifest]
  <2>1. new.snapshot = archive.snapshot /\ new.manifest = archive.manifest
    OBVIOUS
  <2> HIDE DEF new
  <2>2. LoadSite(new) = <<archive.manifest.receipt, archive.manifest.version>>
    BY <1>1, <2>1 DEF LoadSite
  <2> QED BY <1>1, <2>2 DEF Restored, Pair, new
<1>3. ASSUME site["home"].manifest.receipt # Absent
      PROVE  LoadSite(site["home"]) \in {Pair(v) : v \in Versions}
  <2>1. /\ site["home"].manifest \in Manifests
        /\ site["home"].manifest.receipt \in site["home"].store
        /\ site["home"].manifest.receipt = site["home"].manifest.version
    BY <1>3
  <2>2. LoadSite(site["home"]) = Pair(site["home"].manifest.version)
    BY <1>3, <2>1 DEF LoadSite, Pair
  <2> QED BY <2>1, <2>2
<1> QED BY <1>2, <1>3

\* product_backup.py beside the save of product_service.py: an archive taken as
\* documented restores on both sites the memory it was taken from, whatever saves,
\* kills and restores went before, and a restore killed between its two files
\* leaves one whole memory on a home site whose last save had ended.
THEOREM BackupAlwaysRestores ==
  ASSUME BackupParameters PROVE BackupSpec => []BackupRestores
<1>1. BackupInit => BackupInv
  BY BackupStart
<1>2. BackupInv /\ [BackupNext]_backupVars => BackupInv'
  BY BackupStep
<1>3. BackupInv => BackupRestores
  BY BackupInvGives
<1> QED BY <1>1, <1>2, <1>3, PTL DEF BackupSpec

-----------------------------------------------------------------------------
(* The files of the administrator.                                         *)

Registries == UNION {[A -> [token : Nat, enabled : BOOLEAN]] : A \in SUBSET Apps}
Secrets == UNION {[P -> ApiKeys] : P \in SUBSET Providers}
Settings == [llm : Providers \cup {Unset}, license : Nat \cup {Unset}]

AdminTyped ==
    /\ credentials \in Registries /\ requests \in Nat /\ up \in BOOLEAN
    /\ disk \in [registry : Registries, config : Settings, secrets : Secrets]
    /\ answered \in [tokens : SUBSET (Apps \X Nat), revoked : SUBSET Apps,
                     license : Nat \cup {Unset}]

\* What is still to write of a request, and what is already true of the disk.
RegistryPending(w) ==
    w = <<[registry |-> credentials]>> \/ (w = <<>> /\ disk.registry = credentials)

SecretWrites(provider, key) ==
    IF key = Unset THEN <<>>
    ELSE IF key = Blank THEN <<[raise |-> Unset]>>
    ELSE <<[secrets |-> With(disk.secrets, provider, key)]>>

ConfigurePending(provider, key, w) ==
    \/ w = <<[config |-> [disk.config EXCEPT !.llm = provider]]>> \o SecretWrites(provider, key)
    \/ w = SecretWrites(provider, key) /\ disk.config.llm = provider
    \/ w = <<>> /\ disk.config.llm = provider /\ (key # Unset => disk.secrets[provider] = key)

LicensePending(license, w) ==
    \/ w = <<[config |-> [disk.config EXCEPT !.license = license]]>>
    \/ w = <<>> /\ disk.config.license = license

Creating(app, w) ==
    /\ request = [kind |-> "create", app |-> app, writes |-> w]
    /\ app \in DOMAIN credentials /\ RegistryPending(w)
Revoking(app, w) ==
    /\ request = [kind |-> "revoke", app |-> app, writes |-> w]
    /\ app \in DOMAIN credentials /\ ~credentials[app].enabled /\ RegistryPending(w)
Configuring(provider, key, w) ==
    /\ request = [kind |-> "configure", provider |-> provider, key |-> key, writes |-> w]
    /\ configured = Unset /\ ConfigurePending(provider, key, w)
Licensing(license, w) ==
    /\ request = [kind |-> "license", license |-> license, writes |-> w]
    /\ answered.license = Unset /\ LicensePending(license, w)

RequestInv ==
    \/ request = Quiet
    \/ up /\ \E app \in Apps : \E w : Creating(app, w) \/ Revoking(app, w)
    \/ up /\ \E provider \in Providers, key \in ApiKeys \cup {Unset} : \E w :
         Configuring(provider, key, w)
    \/ up /\ \E license \in Nat : \E w : Licensing(license, w)

\* The registry in memory is at or ahead of the file: it may know more
\* applications and more revocations.
MemoryAhead ==
    up => \A app \in DOMAIN disk.registry :
            /\ app \in DOMAIN credentials
            /\ credentials[app].token = disk.registry[app].token
            /\ credentials[app].enabled => disk.registry[app].enabled

AnswersKept ==
    /\ \A app \in answered.revoked : app \in DOMAIN disk.registry /\ ~disk.registry[app].enabled
    /\ \A pair \in answered.tokens :
         pair[1] \in DOMAIN disk.registry /\ disk.registry[pair[1]].token = pair[2]
    /\ answered.license # Unset => disk.config.license = answered.license
    /\ configured # Unset =>
         /\ disk.config.llm = configured.provider
         /\ configured.key # Unset => disk.secrets[configured.provider] = configured.key

AdminInv == AdminTyped /\ RequestInv /\ MemoryAhead /\ AnswersKept

-----------------------------------------------------------------------------
LEMMA RegistryIs ==
  ASSUME NEW r PROVE r \in Registries <=> /\ DOMAIN r \subseteq Apps
                                           /\ r \in [DOMAIN r -> [token : Nat, enabled : BOOLEAN]]
  BY DEF Registries

LEMMA SecretsIs ==
  ASSUME NEW r PROVE r \in Secrets <=> /\ DOMAIN r \subseteq Providers
                                        /\ r \in [DOMAIN r -> ApiKeys]
  BY DEF Secrets

\* A write replaces its file and no other.
LEMMA WriteOne ==
  ASSUME AdminTyped, NEW v
  PROVE  /\ Written([registry |-> v]) = [disk EXCEPT !.registry = v]
         /\ Written([config |-> v]) = [disk EXCEPT !.config = v]
         /\ Written([secrets |-> v]) = [disk EXCEPT !.secrets = v]
<1>1. DOMAIN disk = {"registry", "config", "secrets"}
  BY DEF AdminTyped
<1>2. disk = [x \in DOMAIN disk |-> disk[x]]
  BY DEF AdminTyped
<1> QED BY <1>1, <1>2 DEF Written

LEMMA OneWrite ==
  ASSUME NEW x
  PROVE  /\ Head(<<x>>) = x /\ Tail(<<x>>) = <<>> /\ <<x>> \o <<>> = <<x>>
         /\ \A y : Head(<<x>> \o <<y>>) = x /\ Tail(<<x>> \o <<y>>) = <<y>>
<1>1. <<x>> \in Seq({x}) /\ Head(<<x>>) = x
  OBVIOUS
<1>2. Tail(<<x>>) = <<>> /\ <<x>> \o <<>> = <<x>>
  BY <1>1, ConcatEmptySeq, EmptySeq, LenProperties
<1>3. ASSUME NEW y PROVE Head(<<x>> \o <<y>>) = x /\ Tail(<<x>> \o <<y>>) = <<y>>
  <2>1. <<x>> \in Seq({x, y}) /\ <<y>> \in Seq({x, y}) /\ <<x>> # <<>>
    OBVIOUS
  <2>2. <<x>> \o <<y>> = Append(<<x>>, y) /\ Append(<<>>, y) = <<y>>
    BY <2>1, AppendIsConcat
  <2>3. Head(Append(<<x>>, y)) = Head(<<x>>) /\ Tail(Append(<<x>>, y)) = Append(Tail(<<x>>), y)
    BY <2>1, HeadTailAppend
  <2> QED BY <1>1, <1>2, <2>2, <2>3
<1> QED BY <1>1, <1>2, <1>3

LEMMA RequestIs ==
  ASSUME AdminInv, request # Quiet PROVE up
  BY DEF AdminInv, RequestInv

\* One file of the request is written.
LEMMA ReplaceKeeps == AdminInv /\ Replace => AdminInv'
<1> SUFFICES ASSUME AdminInv, Replace PROVE AdminInv'
  OBVIOUS
<1> USE DEF AdminInv
<1>1. /\ request.writes # <<>> /\ "raise" \notin DOMAIN Head(request.writes)
      /\ disk' = Written(Head(request.writes))
      /\ request' = [request EXCEPT !.writes = Tail(@)]
      /\ UNCHANGED <<credentials, up, answered, configured, requests>>
  BY DEF Replace, NextWrite
<1>2. request # Quiet /\ up
  BY <1>1, RequestIs DEF Quiet
<1>3. ASSUME NEW app \in Apps, NEW w, Creating(app, w) \/ Revoking(app, w) PROVE AdminInv'
  <2>1. w = <<[registry |-> credentials]>> /\ request.writes = w
    BY <1>1, <1>3 DEF Creating, Revoking, RegistryPending
  <2>2. disk' = [disk EXCEPT !.registry = credentials]
    <3>1. Head(<<[registry |-> credentials]>>) = [registry |-> credentials]
      BY OneWrite
    <3>2. Written([registry |-> credentials]) = [disk EXCEPT !.registry = credentials]
      BY WriteOne
    <3>3. disk' = Written([registry |-> credentials])
      BY <1>1, <2>1, <3>1
    <3> QED BY <3>2, <3>3
  <2>3. /\ disk'.registry = credentials /\ disk'.config = disk.config /\ disk'.secrets = disk.secrets
        /\ AdminTyped'
    BY <1>1, <2>2 DEF AdminTyped
  <2>4. request' = [request EXCEPT !.writes = <<>>]
    BY <1>1, <2>1
  <2>5. RequestInv'
    <3>1. Creating(app, <<>>)' \/ Revoking(app, <<>>)'
      BY <1>1, <1>3, <2>3, <2>4 DEF Creating, Revoking, RegistryPending
    <3> QED BY <1>1, <1>2, <3>1 DEF RequestInv
  <2>6. MemoryAhead' /\ AnswersKept'
    <3>1. credentials \in Registries /\ disk.registry \in Registries
      BY DEF AdminTyped
    <3> QED BY <1>1, <1>2, <2>3, <3>1, RegistryIs DEF MemoryAhead, AnswersKept
  <2> QED BY <2>3, <2>5, <2>6
<1>4. ASSUME NEW provider \in Providers, NEW key \in ApiKeys \cup {Unset}, NEW w,
             Configuring(provider, key, w)
      PROVE  AdminInv'
  <2> DEFINE new == [disk.config EXCEPT !.llm = provider]
             S == SecretWrites(provider, key)
  <2>0. disk.config \in Settings /\ new \in Settings /\ new.llm = provider /\ new.license = disk.config.license
    BY DEF AdminTyped, Settings
  <2>1. CASE w = <<[config |-> new]>> \o S
    <3>1. Head(w) = [config |-> new] /\ Tail(w) = S
      BY <2>1, OneWrite DEF SecretWrites
    <3>2. disk' = [disk EXCEPT !.config = new] /\ request.writes = w
      BY <1>1, <1>4, <3>1, WriteOne DEF Configuring
    <3>3. disk'.registry = disk.registry /\ disk'.config = new /\ disk'.secrets = disk.secrets /\ AdminTyped'
      BY <1>1, <2>0, <3>2 DEF AdminTyped
    <3>4. SecretWrites(provider, key)' = S
      BY <3>3 DEF SecretWrites
    <3>5. Configuring(provider, key, S)'
      BY <1>1, <1>4, <2>0, <3>1, <3>2, <3>3, <3>4 DEF Configuring, ConfigurePending
    <3>6. RequestInv'
      BY <1>1, <1>2, <3>5 DEF RequestInv
    <3>7. MemoryAhead' /\ configured' = Unset
      BY <1>1, <1>4, <3>3 DEF MemoryAhead, Configuring
    <3>8. AnswersKept'
      BY <1>1, <2>0, <3>3, <3>7 DEF AnswersKept
    <3> QED BY <3>3, <3>6, <3>7, <3>8
  <2>2. CASE w = S /\ disk.config.llm = provider
    <3>0. request.writes = w
      BY <1>4 DEF Configuring
    <3>1. key # Unset /\ w = <<[secrets |-> With(disk.secrets, provider, key)]>>
      BY <1>1, <2>2, <3>0 DEF SecretWrites
    <3> DEFINE kept == With(disk.secrets, provider, key)
    <3>2. kept \in Secrets /\ kept[provider] = key
      <4>1. disk.secrets \in Secrets /\ key \in ApiKeys
        BY <3>1 DEF AdminTyped
      <4> QED BY <4>1, SecretsIs DEF With
    <3> HIDE DEF kept
    <3>3. disk' = [disk EXCEPT !.secrets = kept] /\ Tail(w) = <<>>
      <4>1. Head(<<[secrets |-> kept]>>) = [secrets |-> kept] /\ Tail(<<[secrets |-> kept]>>) = <<>>
        BY OneWrite
      <4>2. w = <<[secrets |-> kept]>>
        BY <3>1 DEF kept
      <4> QED BY <1>1, <3>0, <4>1, <4>2, WriteOne
    <3>4. disk'.registry = disk.registry /\ disk'.config = disk.config /\ disk'.secrets = kept /\ AdminTyped'
      BY <1>1, <3>2, <3>3 DEF AdminTyped
    <3>5. Configuring(provider, key, <<>>)'
      BY <1>1, <1>4, <2>2, <3>0, <3>2, <3>3, <3>4 DEF Configuring, ConfigurePending
    <3>6. RequestInv'
      BY <1>1, <1>2, <3>5 DEF RequestInv
    <3>7. MemoryAhead' /\ AnswersKept'
      BY <1>1, <1>4, <3>4 DEF MemoryAhead, AnswersKept, Configuring
    <3> QED BY <3>4, <3>6, <3>7
  <2>3. w # <<>>
    BY <1>1, <1>4 DEF Configuring
  <2> QED BY <1>4, <2>1, <2>2, <2>3 DEF Configuring, ConfigurePending
<1>5. ASSUME NEW license \in Nat, NEW w, Licensing(license, w) PROVE AdminInv'
  <2> DEFINE new == [disk.config EXCEPT !.license = license]
  <2>0. disk.config \in Settings /\ new \in Settings /\ new.llm = disk.config.llm /\ new.license = license
    BY DEF AdminTyped, Settings
  <2>1. w = <<[config |-> new]>> /\ request.writes = w
    BY <1>1, <1>5 DEF Licensing, LicensePending
  <2>2. disk' = [disk EXCEPT !.config = new] /\ Tail(w) = <<>>
    <3>1. Head(<<[config |-> new]>>) = [config |-> new] /\ Tail(<<[config |-> new]>>) = <<>>
      BY OneWrite
    <3>2. Written([config |-> new]) = [disk EXCEPT !.config = new]
      BY WriteOne
    <3>3. disk' = Written([config |-> new]) /\ Tail(w) = <<>>
      BY <1>1, <2>1, <3>1
    <3> QED BY <3>2, <3>3
  <2>3. disk'.registry = disk.registry /\ disk'.config = new /\ disk'.secrets = disk.secrets /\ AdminTyped'
    BY <1>1, <2>0, <2>2 DEF AdminTyped
  <2>4. Licensing(license, <<>>)'
    BY <1>1, <1>5, <2>0, <2>1, <2>2, <2>3 DEF Licensing, LicensePending
  <2>5. RequestInv'
    BY <1>1, <1>2, <2>4 DEF RequestInv
  <2>6. MemoryAhead' /\ answered'.license = Unset
    BY <1>1, <1>5, <2>3 DEF MemoryAhead, Licensing
  <2>7. AnswersKept'
    BY <1>1, <2>0, <2>3, <2>6 DEF AnswersKept
  <2> QED BY <2>3, <2>5, <2>6, <2>7
<1> QED BY <1>2, <1>3, <1>4, <1>5 DEF RequestInv

\* The answer: what the request wrote is on the disk.
LEMMA AnswerKeeps == AdminInv /\ AnswerRequest => AdminInv'
<1> SUFFICES ASSUME AdminInv, AnswerRequest PROVE AdminInv'
  OBVIOUS
<1> USE DEF AdminInv
<1>1. /\ request # Quiet /\ request.writes = <<>> /\ request' = Quiet
      /\ UNCHANGED <<credentials, disk, up, requests>>
  BY DEF AnswerRequest
<1>2. RequestInv' /\ MemoryAhead' /\ up
  BY <1>1, RequestIs DEF RequestInv, MemoryAhead
<1>3. ASSUME NEW app \in Apps, NEW w, Creating(app, w) PROVE AdminInv'
  <2>1. /\ request.kind = "create" /\ request.app = app /\ disk.registry = credentials
        /\ app \in DOMAIN credentials
    BY <1>1, <1>3 DEF Creating, RegistryPending
  <2>2. /\ answered' = [answered EXCEPT !.tokens = @ \cup {<<app, credentials[app].token>>}]
        /\ configured' = configured
    BY <2>1 DEF AnswerRequest
  <2>3. credentials[app].token \in Nat
    BY <2>1, RegistryIs DEF AdminTyped
  <2>4. AdminTyped'
    BY <1>1, <2>2, <2>3 DEF AdminTyped
  <2>5. AnswersKept'
    BY <1>1, <2>1, <2>2 DEF AnswersKept, AdminTyped
  <2> QED BY <1>2, <2>4, <2>5
<1>4. ASSUME NEW app \in Apps, NEW w, Revoking(app, w) PROVE AdminInv'
  <2>1. /\ request.kind = "revoke" /\ request.app = app /\ disk.registry = credentials
        /\ app \in DOMAIN credentials /\ ~credentials[app].enabled
    BY <1>1, <1>4 DEF Revoking, RegistryPending
  <2>2. /\ answered' = [answered EXCEPT !.revoked = @ \cup {app}]
        /\ configured' = configured
    BY <2>1 DEF AnswerRequest
  <2>4. AdminTyped'
    BY <1>1, <2>2 DEF AdminTyped
  <2>5. AnswersKept'
    BY <1>1, <2>1, <2>2 DEF AnswersKept, AdminTyped
  <2> QED BY <1>2, <2>4, <2>5
<1>5. ASSUME NEW provider \in Providers, NEW key \in ApiKeys \cup {Unset}, NEW w,
             Configuring(provider, key, w)
      PROVE  AdminInv'
  <2>1. /\ request.kind = "configure" /\ request.provider = provider /\ request.key = key
        /\ w = <<>> /\ ConfigurePending(provider, key, w)
    BY <1>1, <1>5 DEF Configuring
  <2>2. answered' = answered /\ configured' = [provider |-> provider, key |-> key]
    BY <2>1 DEF AnswerRequest
  <2>3. disk.config.llm = provider /\ (key # Unset => disk.secrets[provider] = key)
    BY <2>1 DEF ConfigurePending, SecretWrites
  <2>4. AdminTyped'
    BY <1>1, <2>2 DEF AdminTyped
  <2>5. AnswersKept'
    BY <1>1, <2>2, <2>3 DEF AnswersKept
  <2> QED BY <1>2, <2>4, <2>5
<1>6. ASSUME NEW license \in Nat, NEW w, Licensing(license, w) PROVE AdminInv'
  <2>1. request.kind = "license" /\ request.license = license /\ disk.config.license = license
    BY <1>1, <1>6 DEF Licensing, LicensePending
  <2>2. answered' = [answered EXCEPT !.license = license] /\ configured' = configured
    BY <2>1 DEF AnswerRequest
  <2>4. AdminTyped'
    BY <1>1, <2>2 DEF AdminTyped
  <2>5. AnswersKept'
    BY <1>1, <2>1, <2>2 DEF AnswersKept, AdminTyped
  <2> QED BY <1>2, <2>4, <2>5
<1> QED BY <1>1, <1>3, <1>4, <1>5, <1>6 DEF RequestInv

LEMMA AdminStep == AdminInv /\ [AdminNext]_adminVars => AdminInv'
<1> SUFFICES ASSUME AdminInv, [AdminNext]_adminVars PROVE AdminInv'
  OBVIOUS
<1> USE DEF AdminInv
<1>0. credentials \in Registries /\ disk.registry \in Registries
  BY DEF AdminTyped
<1>1. ASSUME NEW app \in Apps, Create(app) PROVE AdminInv'
  <2> DEFINE row == [token |-> requests + 1, enabled |-> TRUE]
  <2>1. /\ up /\ app \notin DOMAIN credentials /\ requests' = requests + 1
        /\ credentials' = With(credentials, app, row)
        /\ request' = [kind |-> "create", app |-> app, writes |-> <<[registry |-> credentials']>>]
        /\ UNCHANGED <<disk, up, answered, configured>>
    BY <1>1 DEF Create, Accept
  <2>2. row \in [token : Nat, enabled : BOOLEAN] /\ requests + 1 \in Nat
    BY DEF AdminTyped
  <2>3. /\ DOMAIN credentials' = DOMAIN credentials \cup {app}
        /\ \A a \in DOMAIN credentials : credentials'[a] = credentials[a]
        /\ credentials' \in Registries
    <3>1. credentials \in [DOMAIN credentials -> [token : Nat, enabled : BOOLEAN]]
          /\ DOMAIN credentials \subseteq Apps
      BY <1>0, RegistryIs
    <3>2. /\ DOMAIN credentials' = DOMAIN credentials \cup {app}
          /\ \A a \in DOMAIN credentials : credentials'[a] = credentials[a]
          /\ credentials' \in [DOMAIN credentials \cup {app} -> [token : Nat, enabled : BOOLEAN]]
      BY <2>1, <2>2, <3>1 DEF With
    <3> QED BY <3>1, <3>2, RegistryIs
  <2>4. AdminTyped'
    BY <2>1, <2>2, <2>3 DEF AdminTyped
  <2>5. Creating(app, <<[registry |-> credentials]>>)'
    BY <2>1, <2>3 DEF Creating, RegistryPending
  <2>6. RequestInv'
    BY <2>1, <2>5 DEF RequestInv
  <2>7. MemoryAhead' /\ AnswersKept'
    BY <2>1, <2>3 DEF MemoryAhead, AnswersKept
  <2> QED BY <2>4, <2>6, <2>7
<1>2. ASSUME NEW app \in Apps, Revoke(app) PROVE AdminInv'
  <2>1. /\ up /\ app \in DOMAIN credentials /\ requests' = requests + 1
        /\ credentials' = [credentials EXCEPT ![app].enabled = FALSE]
        /\ request' = [kind |-> "revoke", app |-> app, writes |-> <<[registry |-> credentials']>>]
        /\ UNCHANGED <<disk, up, answered, configured>>
    BY <1>2 DEF Revoke, Accept
  <2>2. credentials \in [DOMAIN credentials -> [token : Nat, enabled : BOOLEAN]]
        /\ DOMAIN credentials \subseteq Apps
    BY <1>0, RegistryIs
  <2>3. /\ DOMAIN credentials' = DOMAIN credentials
        /\ credentials' \in [DOMAIN credentials -> [token : Nat, enabled : BOOLEAN]]
        /\ \A a \in DOMAIN credentials :
             /\ credentials'[a].token = credentials[a].token
             /\ credentials'[a].enabled => credentials[a].enabled
        /\ credentials'[app].enabled = FALSE
    BY <2>1, <2>2
  <2>4. AdminTyped'
    <3>1. credentials' \in Registries
      BY <2>2, <2>3, RegistryIs
    <3> QED BY <2>1, <3>1 DEF AdminTyped
  <2>5. Revoking(app, <<[registry |-> credentials]>>)'
    BY <2>1, <2>3 DEF Revoking, RegistryPending
  <2>6. RequestInv'
    BY <2>1, <2>5 DEF RequestInv
  <2>7. MemoryAhead' /\ AnswersKept'
    BY <2>1, <2>3 DEF MemoryAhead, AnswersKept
  <2> QED BY <2>4, <2>6, <2>7
<1>3. ASSUME NEW provider \in Providers, NEW key \in ApiKeys \cup {Unset}, Configure(provider, key)
      PROVE  AdminInv'
  <2>1. /\ up /\ requests' = requests + 1 /\ configured' = Unset
        /\ UNCHANGED <<credentials, disk, up, answered>>
    BY <1>3 DEF Configure, Accept
  <2> DEFINE w == <<[config |-> [disk.config EXCEPT !.llm = provider]]>> \o SecretWrites(provider, key)
  <2>2. request' = [kind |-> "configure", provider |-> provider, key |-> key, writes |-> w]
    BY <1>3 DEF Configure, SecretWrites
  <2>3. (w = <<[config |-> [disk.config EXCEPT !.llm = provider]]>> \o SecretWrites(provider, key))'
        => ConfigurePending(provider, key, w)'
    BY DEF ConfigurePending
  <2>4. Configuring(provider, key, w)'
    BY <2>1, <2>2 DEF Configuring, ConfigurePending, SecretWrites
  <2>5. RequestInv'
    BY <2>1, <2>4 DEF RequestInv
  <2>6. AdminTyped' /\ MemoryAhead' /\ AnswersKept'
    BY <2>1 DEF AdminTyped, MemoryAhead, AnswersKept
  <2> QED BY <2>5, <2>6
<1>4. CASE License
  <2>1. /\ up /\ requests' = requests + 1
        /\ answered' = [answered EXCEPT !.license = Unset]
        /\ request' = [kind |-> "license", license |-> requests',
                       writes |-> <<[config |-> [disk.config EXCEPT !.license = requests']]>>]
        /\ UNCHANGED <<credentials, disk, up, configured>>
    BY <1>4 DEF License, Accept
  <2>2. AdminTyped' /\ requests + 1 \in Nat
    BY <2>1 DEF AdminTyped
  <2>3. Licensing(requests, <<[config |-> [disk.config EXCEPT !.license = requests]]>>)'
    <3>1. answered'.license = Unset
      BY <2>1 DEF AdminTyped
    <3> QED BY <2>1, <3>1 DEF Licensing, LicensePending
  <2>4. RequestInv'
    BY <2>1, <2>2, <2>3 DEF RequestInv
  <2>5. MemoryAhead' /\ AnswersKept'
    BY <2>1 DEF MemoryAhead, AnswersKept, AdminTyped
  <2> QED BY <2>2, <2>4, <2>5
<1>5. CASE Replace
  BY <1>5, ReplaceKeeps
<1>6. CASE AnswerRequest
  BY <1>6, AnswerKeeps
<1>7. CASE RaiseBlank
  BY <1>7 DEF RaiseBlank, AdminTyped, RequestInv, MemoryAhead, AnswersKept
<1>8. CASE SaveFails
  BY <1>8 DEF SaveFails, AdminTyped, RequestInv, MemoryAhead, AnswersKept
<1>9. CASE Kill
  <2>1. NoApps \in Registries
    BY RegistryIs DEF NoApps
  <2> QED BY <1>9, <2>1 DEF Kill, AdminTyped, RequestInv, MemoryAhead, AnswersKept
<1>10. CASE LoadRegistry
  <2>1. request' = Quiet
    BY <1>10, RequestIs DEF LoadRegistry
  <2> QED BY <1>0, <1>10, <2>1 DEF LoadRegistry, AdminTyped, RequestInv, MemoryAhead,
      AnswersKept
<1>11. CASE UNCHANGED adminVars
  <2>1. AdminTyped' /\ MemoryAhead' /\ AnswersKept'
    BY <1>11 DEF adminVars, AdminTyped, MemoryAhead, AnswersKept
  <2>2. RequestInv'
    BY <1>11 DEF adminVars, RequestInv, Creating, Revoking, Configuring, Licensing,
       RegistryPending,
       ConfigurePending, SecretWrites, LicensePending
  <2> QED BY <2>1, <2>2
<1> QED
  BY <1>1, <1>2, <1>3, <1>4, <1>5, <1>6, <1>7, <1>8, <1>9, <1>10, <1>11 DEF AdminNext

LEMMA AdminStart == AdminInit => AdminInv
<1> SUFFICES ASSUME AdminInit PROVE AdminInv
  OBVIOUS
<1>1. NoApps \in Registries /\ NoApps \in Secrets
  BY RegistryIs, SecretsIs DEF NoApps
<1>2. DOMAIN NoApps = {}
  BY DEF NoApps
<1> QED BY <1>1, <1>2 DEF AdminInit, AdminInv, AdminTyped, RequestInv, MemoryAhead,
    AnswersKept,
     Settings

LEMMA AdminInvGives == AdminInv => AdministrationSurvives
<1> SUFFICES ASSUME AdminInv PROVE AdministrationSurvives
  OBVIOUS
<1> USE DEF AdminInv
<1>1. ConfigurationSurvives
  BY DEF ConfigurationSurvives, AnswersKept
<1>2. ASSUME NEW app \in DOMAIN credentials
      PROVE  credentials[app] = [token |-> credentials[app].token, enabled |-> credentials[app].enabled]
             /\ credentials[app].enabled \in BOOLEAN
  BY RegistryIs DEF AdminTyped
<1>3. ASSUME NEW app \in answered.revoked, up
      PROVE  ~\E token \in 1..MaxRequests : Authenticates(app, token)
  <2>1. app \in DOMAIN disk.registry /\ ~disk.registry[app].enabled
    BY DEF AnswersKept
  <2>2. ~credentials[app].enabled
    BY <1>3, <2>1 DEF MemoryAhead
  <2>3. ASSUME NEW token PROVE credentials[app] # [token |-> token, enabled |-> TRUE]
    <3>1. [token |-> token, enabled |-> TRUE].enabled = TRUE
      OBVIOUS
    <3> QED BY <2>2, <3>1
  <2> QED BY <2>3 DEF Authenticates
<1>4. ASSUME NEW pair \in answered.tokens, up, ~Authenticates(pair[1], pair[2])
      PROVE  ~credentials[pair[1]].enabled
  <2>1. pair[1] \in DOMAIN credentials /\ credentials[pair[1]].token = pair[2]
    BY <1>4 DEF AnswersKept, MemoryAhead
  <2> QED BY <1>2, <1>4, <2>1 DEF Authenticates
<1>5. CredentialsSurvive
  BY <1>3, <1>4 DEF CredentialsSurvive, AnswersKept
<1> QED BY <1>1, <1>5 DEF AdministrationSurvives

\* product_applications.py and product_config.py: whatever writes fail and
\* whenever the process is killed, a revocation that was answered holds, a
\* credential that was answered authenticates, and the settings that were
\* answered are those the files hold, for any number of requests.
THEOREM AdministrationAlwaysSurvives == AdminSpec => []AdministrationSurvives
<1>1. AdminInit => AdminInv
  BY AdminStart
<1>2. AdminInv /\ [AdminNext]_adminVars => AdminInv'
  BY AdminStep
<1>3. AdminInv => AdministrationSurvives
  BY AdminInvGives
<1> QED BY <1>1, <1>2, <1>3, PTL DEF AdminSpec

-----------------------------------------------------------------------------
(* Decisions, admissions and what is learned from them.                    *)

Decided == [claim : Claims, status : {"consistent", "competing", "unresolved", "unsupported"},
            sequence : Nat, action : Actions, evidence : BOOLEAN]
Admitted == [decision : Decided, sequence : Nat]
Records == Decided \cup Admitted

FilesTyped ==
    /\ file \in [Journals -> Seq(Records)] /\ rows \in [Journals -> Seq(Records)]
    /\ granted \in [Journals -> SUBSET Records]
    /\ tainted \subseteq Journals /\ opened \in {"open", "refused"}

\* Each record once.
Once(s) == \A i, j \in 1..Len(s) : s[i] = s[j] => i = j

FilesInv ==
    /\ \A j \in Journals :
         /\ Members(rows[j]) \subseteq Members(file[j])
         /\ granted[j] \subseteq Members(file[j])
         /\ j \notin tainted => Loads(file[j]) /\ Once(file[j])
         /\ j \notin tainted /\ opened = "open" => rows[j] = file[j]
    /\ opened = "refused" => tainted # {}
    /\ granted["decisions"] \subseteq Decided
    /\ \A item \in Members(file["admissions"]) :
         item \in Admitted /\ item.decision \in granted["decisions"] /\ Admissible(item.decision)

\* Where an item is in the index, and the callers that found it missing and
\* have yet to append it.
PlacesOf(item) == {i \in 1..Len(trajectories) : trajectories[i] = item}
Testers(item) == {c \in Callers : work[c].tested /\ Head(work[c].todo) = item}

ToApply == UNION {Members(work[c].todo) : c \in Callers}

WorkInv ==
    /\ work \in [Callers -> [todo : Seq(Records), tested : BOOLEAN]]
    /\ trajectories \in Seq(Records)
    /\ \A c \in Callers :
         /\ work[c].tested => work[c].todo # <<>>
         /\ Members(work[c].todo) \subseteq Members(rows["admissions"])
    /\ Members(trajectories) \subseteq Members(rows["admissions"])
    /\ replayed => Members(rows["admissions"]) \subseteq Members(trajectories) \cup ToApply
    /\ \A item : Cardinality(PlacesOf(item)) + Cardinality(Testers(item)) <= Cardinality(Callers)

AdmissionInv == FilesTyped /\ FilesInv /\ WorkInv

-----------------------------------------------------------------------------
LEMMA MembersAppend ==
  ASSUME NEW S, NEW s \in Seq(S), NEW x
  PROVE  Members(Append(s, x)) = Members(s) \cup {x}
<1>1. /\ Len(Append(s, x)) = Len(s) + 1 /\ Len(s) \in Nat
      /\ \A i \in 1..Len(s) : Append(s, x)[i] = s[i]
      /\ Append(s, x)[Len(s) + 1] = x
  OBVIOUS
<1> QED BY <1>1 DEF Members

LEMMA MembersHead ==
  ASSUME NEW S, NEW s \in Seq(S), s # <<>>
  PROVE  /\ Head(s) \in S /\ Tail(s) \in Seq(S)
         /\ Members(s) = {Head(s)} \cup Members(Tail(s))
<1>1. /\ Head(s) \in S /\ Tail(s) \in Seq(S) /\ Len(Tail(s)) = Len(s) - 1
      /\ \A i \in 1..Len(Tail(s)) : Tail(s)[i] = s[i + 1]
      /\ Head(s) = s[1] /\ Len(s) \in Nat /\ Len(s) >= 1
  BY HeadTailProperties
<1>2. \A i \in 1..Len(s) : i = 1 \/ (i - 1 \in 1..Len(Tail(s)) /\ s[i] = Tail(s)[i - 1])
  BY <1>1
<1>3. Members(s) \subseteq {Head(s)} \cup Members(Tail(s))
  BY <1>1, <1>2 DEF Members
<1>4. \A i \in 1..Len(Tail(s)) : i + 1 \in 1..Len(s)
  BY <1>1
<1>5. {Head(s)} \cup Members(Tail(s)) \subseteq Members(s)
  BY <1>1, <1>4 DEF Members
<1> QED BY <1>1, <1>3, <1>5

LEMMA MembersFew == Members(<<>>) = {} /\ \A x : Members(<<x>>) = {x}
  BY DEF Members

LEMMA OnceCounts ==
  ASSUME NEW S, NEW s \in Seq(S), Once(s)
  PROVE  Cardinality(Members(s)) = Len(s)
<1>1. s \in Bijection(1..Len(s), Members(s))
  BY DEF Once, Members, Bijection, Injection, Surjection, IsInjective
<1>2. ExistsBijection(1..Len(s), Members(s))
  BY <1>1 DEF ExistsBijection
<1> QED BY <1>2, FS_CountingElements

\* A record that moves neither back nor in twice.
LEMMA AppendLoads ==
  ASSUME NEW s \in Seq(Records), NEW item \in Records, Loads(s), Once(s),
         item \notin Members(s), ~Backward(s, item.sequence)
  PROVE  Loads(Append(s, item)) /\ Once(Append(s, item))
<1> DEFINE new == Append(s, item)
<1>1. /\ Len(new) = Len(s) + 1 /\ Len(s) \in Nat
      /\ \A i \in 1..Len(s) : new[i] = s[i] /\ s[i] \in Records
      /\ new[Len(s) + 1] = item
  OBVIOUS
<1>2. \A r \in Records : r.sequence \in Nat
  BY DEF Records, Decided, Admitted
<1> HIDE DEF new
<1>3. Once(new)
  BY <1>1 DEF Once, Members
<1>4. ASSUME NEW i \in 2..Len(new) PROVE new[i].sequence >= new[i - 1].sequence
  <2>1. CASE i <= Len(s)
    BY <1>1, <2>1 DEF Loads
  <2>2. CASE i = Len(s) + 1
    <3>1. s # <<>> /\ new[i] = item /\ new[i - 1] = s[Len(s)] /\ s[Len(s)] \in Records
      BY <1>1, <2>2
    <3> QED BY <1>2, <3>1 DEF Backward
  <2> QED BY <1>1, <2>1, <2>2
<1> QED BY <1>3, <1>4 DEF Loads, new

-----------------------------------------------------------------------------
LEMMA WorkIs ==
  ASSUME NEW w \in [Callers -> [todo : Seq(Records), tested : BOOLEAN]], NEW c \in Callers, NEW s
  PROVE  [w EXCEPT ![c].todo = s] = [w EXCEPT ![c] = [todo |-> s, tested |-> w[c].tested]]
<1>1. [w[c] EXCEPT !.todo = s] = [todo |-> s, tested |-> w[c].tested]
  OBVIOUS
<1>2. [w EXCEPT ![c].todo = s] = [w EXCEPT ![c] = [w[c] EXCEPT !.todo = s]]
  OBVIOUS
<1> QED BY <1>1, <1>2

LEMMA CallersCount ==
  /\ Cardinality(Callers) \in Nat /\ Cardinality({}) = 0
  /\ \A S \in SUBSET Callers : /\ IsFiniteSet(S) /\ Cardinality(S) \in Nat
                               /\ Cardinality(S) <= Cardinality(Callers)
  BY AdmissionAssumptions, FS_EmptySet, FS_Subset, FS_CardinalityType

\* What the append of a journal does: item is new to the rows or known there.
LEMMA AppendKeeps ==
  ASSUME AdmissionInv, opened = "open", NEW j \in Journals, NEW item \in Records,
         Remembered(j, item) \/ Appended(j, item) \/ AppendRaises(j, item),
         j = "admissions" => /\ item \in Admitted /\ item.decision \in granted["decisions"]
                             /\ Admissible(item.decision),
         j = "decisions" => item \in Decided,
         opened' = opened
  PROVE  /\ FilesTyped' /\ FilesInv'
         /\ Remembered(j, item) \/ Appended(j, item) =>
              Members(rows'[j]) = Members(rows[j]) \cup {item}
         /\ \A k \in Journals \ {j} : rows'[k] = rows[k]
         /\ AppendRaises(j, item) => rows' = rows
<1> USE DEF AdmissionInv
<1>0. /\ Remembered(j, item) \/ Appended(j, item) =>
           Members(rows'[j]) = Members(rows[j]) \cup {item}
      /\ \A k \in Journals \ {j} : rows'[k] = rows[k]
      /\ AppendRaises(j, item) => rows' = rows
  BY MembersAppend DEF Remembered, Appended, AppendRaises, FilesTyped
<1>1. CASE Remembered(j, item)
  BY <1>0, <1>1 DEF Remembered, Grant, FilesTyped, FilesInv
<1>2. CASE Appended(j, item)
  <2>1. /\ file' = [file EXCEPT ![j] = Append(@, item)] /\ rows' = [rows EXCEPT ![j] = Append(@, item)]
        /\ granted' = [granted EXCEPT ![j] = @ \cup {item}] /\ tainted' = tainted
        /\ item \notin Members(rows[j]) /\ ~Backward(rows[j], item.sequence)
    BY <1>2 DEF Appended, Grant
  <2>2. FilesTyped'
    BY <2>1 DEF FilesTyped
  <2>3. /\ file'[j] = Append(file[j], item) /\ rows'[j] = Append(rows[j], item)
        /\ granted'[j] = granted[j] \cup {item}
        /\ Members(file'[j]) = Members(file[j]) \cup {item}
        /\ Members(rows'[j]) = Members(rows[j]) \cup {item}
        /\ \A k \in Journals \ {j} : file'[k] = file[k] /\ rows'[k] = rows[k] /\ granted'[k] = granted[k]
    BY <2>1, MembersAppend DEF FilesTyped
  <2>4. j \notin tainted => Loads(file'[j]) /\ Once(file'[j])
    BY <2>1, <2>3, AppendLoads DEF FilesTyped, FilesInv
  <2>5. FilesInv'
    <3>1. /\ \A k \in Journals : /\ Members(rows'[k]) \subseteq Members(file'[k])
                                /\ granted'[k] \subseteq Members(file'[k])
          /\ opened' = "refused" => tainted' # {}
      BY <2>1, <2>3 DEF FilesInv
    <3>2. ASSUME NEW k \in Journals
          PROVE  /\ k \notin tainted => Loads(file'[k]) /\ Once(file'[k])
                 /\ k \notin tainted /\ opened' = "open" => rows'[k] = file'[k]
      BY <2>3, <2>4 DEF FilesInv
    <3>3. granted'["decisions"] \subseteq Decided
      BY <2>3 DEF FilesInv, Journals
    <3>4. granted["decisions"] \subseteq granted'["decisions"]
      BY <2>3 DEF Journals
    <3>5. ASSUME NEW x \in Members(file'["admissions"])
          PROVE  x \in Admitted /\ x.decision \in granted'["decisions"] /\ Admissible(x.decision)
      <4>1. x \in Members(file["admissions"]) \/ (j = "admissions" /\ x = item)
        BY <2>3 DEF Journals
      <4> QED BY <3>4, <4>1 DEF FilesInv
    <3> QED BY <2>1, <3>1, <3>2, <3>3, <3>5 DEF FilesInv
  <2> QED BY <1>0, <2>2, <2>5
<1>3. CASE AppendRaises(j, item)
  <2>1. rows' = rows /\ granted' = granted
    BY <1>3 DEF AppendRaises
  <2>2. CASE UNCHANGED <<file, tainted>>
    BY <1>0, <2>1, <2>2 DEF FilesTyped, FilesInv
  <2>3. CASE file' = [file EXCEPT ![j] = Append(@, item)] /\ tainted' = tainted \cup {j}
    <3>1. FilesTyped'
      BY <2>1, <2>3 DEF FilesTyped
    <3>2. /\ Members(file'[j]) = Members(file[j]) \cup {item}
          /\ \A k \in Journals \ {j} : file'[k] = file[k]
      BY <2>3, MembersAppend DEF FilesTyped
    <3>3. FilesInv'
      BY <2>1, <2>3, <3>2 DEF FilesInv, Journals
    <3> QED BY <1>0, <3>1, <3>3
  <2> QED BY <1>3, <2>2, <2>3 DEF AppendRaises
<1> QED BY <1>1, <1>2, <1>3

\* Nothing that the count of an item looks at moved.
LEMMA CountsStay ==
  ASSUME AdmissionInv, trajectories' = trajectories,
         \A c \in Callers : work'[c].tested = work[c].tested
                            /\ (work[c].tested => work'[c] = work[c])
  PROVE  \A item : PlacesOf(item)' = PlacesOf(item) /\ Testers(item)' = Testers(item)
  BY DEF PlacesOf, Testers

LEMMA ApplyTestKeeps ==
  ASSUME AdmissionInv, NEW c \in Callers, ApplyTest(c)
  PROVE  AdmissionInv'
<1> USE DEF AdmissionInv
<1> DEFINE head == Head(work[c].todo)
<1>1. /\ work[c].todo # <<>> /\ ~work[c].tested
      /\ work' = IF Known(head) THEN [work EXCEPT ![c].todo = Tail(@)]
                                ELSE [work EXCEPT ![c].tested = TRUE]
      /\ UNCHANGED <<file, rows, trajectories, opened, replayed, tainted, granted>>
  BY DEF ApplyTest
<1>2. FilesTyped' /\ FilesInv'
  BY <1>1 DEF FilesTyped, FilesInv
<1>3. work[c] \in [todo : Seq(Records), tested : BOOLEAN]
  BY DEF WorkInv
<1>4. /\ head \in Records /\ Tail(work[c].todo) \in Seq(Records)
      /\ Members(work[c].todo) = {head} \cup Members(Tail(work[c].todo))
  BY <1>1, <1>3, MembersHead
<1> HIDE DEF head
<1>5. CASE Known(head)
  <2>1. /\ work'[c].todo = Tail(work[c].todo) /\ ~work'[c].tested
        /\ \A d \in Callers \ {c} : work'[d] = work[d]
        /\ work' \in [Callers -> [todo : Seq(Records), tested : BOOLEAN]]
    <3>1. work' = [work EXCEPT ![c].todo = Tail(work[c].todo)]
      BY <1>1, <1>5
    <3>2. [work EXCEPT ![c].todo = Tail(work[c].todo)] =
            [work EXCEPT ![c] = [todo |-> Tail(work[c].todo), tested |-> work[c].tested]]
      BY WorkIs DEF WorkInv
    <3>3. [todo |-> Tail(work[c].todo), tested |-> work[c].tested]
            \in [todo : Seq(Records), tested : BOOLEAN]
      BY <1>3, <1>4
    <3>4. work' = [work EXCEPT ![c] = [todo |-> Tail(work[c].todo), tested |-> work[c].tested]]
      BY <3>1, <3>2
    <3> QED BY <1>1, <3>3, <3>4 DEF WorkInv
  <2>2. \A item : PlacesOf(item)' = PlacesOf(item) /\ Testers(item)' = Testers(item)
    BY <1>1, <2>1 DEF PlacesOf, Testers
  <2>3. ToApply \subseteq ToApply' \cup {head} /\ head \in Members(trajectories)
    BY <1>4, <1>5, <2>1 DEF ToApply, Known
  <2>4. WorkInv'
    BY <1>1, <1>4, <2>1, <2>2, <2>3 DEF WorkInv
  <2> QED BY <1>2, <2>4
<1>6. CASE ~Known(head)
  <2>1. /\ work'[c].todo = work[c].todo /\ work'[c].tested
        /\ \A d \in Callers \ {c} : work'[d] = work[d]
        /\ work' \in [Callers -> [todo : Seq(Records), tested : BOOLEAN]]
    BY <1>1, <1>3, <1>6 DEF WorkInv
  <2>2. ToApply' = ToApply
    <3>1. \A d \in Callers : work'[d].todo = work[d].todo
      BY <2>1
    <3> QED BY <3>1 DEF ToApply
  <2>3. ASSUME NEW item
        PROVE  Cardinality(PlacesOf(item))' + Cardinality(Testers(item))' <= Cardinality(Callers)
    <3>1. PlacesOf(item)' = PlacesOf(item)
      BY <1>1 DEF PlacesOf
    <3>2. CASE item = head
      <4>1. PlacesOf(item) = {}
        BY <1>6, <3>2 DEF Known, Members, PlacesOf
      <4>2. Testers(item)' \subseteq Callers
        BY DEF Testers
      <4>3. Cardinality(Testers(item)') <= Cardinality(Callers) /\ Cardinality(Testers(item)') \in Nat
        BY <4>2, CallersCount
      <4> QED BY <3>1, <4>1, <4>3, CallersCount
    <3>3. CASE item # head
      <4>1. Testers(item)' = Testers(item)
        BY <1>1, <2>1, <3>3 DEF Testers, head
      <4> QED BY <3>1, <4>1 DEF WorkInv
    <3> QED BY <3>2, <3>3
  <2>4. WorkInv'
    BY <1>1, <2>1, <2>2, <2>3 DEF WorkInv
  <2> QED BY <1>2, <2>4
<1> QED BY <1>5, <1>6

LEMMA ApplyAppendKeeps ==
  ASSUME AdmissionInv, NEW c \in Callers, ApplyAppend(c)
  PROVE  AdmissionInv'
<1> USE DEF AdmissionInv
<1> DEFINE head == Head(work[c].todo)
<1>1. /\ work[c].tested /\ trajectories' = Append(trajectories, head)
      /\ work' = [work EXCEPT ![c] = [todo |-> Tail(@.todo), tested |-> FALSE]]
      /\ UNCHANGED <<file, rows, opened, replayed, tainted, granted>>
  BY DEF ApplyAppend
<1>2. FilesTyped' /\ FilesInv'
  BY <1>1 DEF FilesTyped, FilesInv
<1>3. work[c] \in [todo : Seq(Records), tested : BOOLEAN] /\ work[c].todo # <<>>
  BY <1>1 DEF WorkInv
<1>4. /\ head \in Records /\ Tail(work[c].todo) \in Seq(Records)
      /\ Members(work[c].todo) = {head} \cup Members(Tail(work[c].todo))
  BY <1>3, MembersHead
<1>5. /\ trajectories \in Seq(Records) /\ trajectories' \in Seq(Records)
      /\ Members(trajectories') = Members(trajectories) \cup {head}
  BY <1>1, <1>4, MembersAppend DEF WorkInv
<1>6. /\ work'[c].todo = Tail(work[c].todo) /\ ~work'[c].tested
      /\ \A d \in Callers \ {c} : work'[d] = work[d]
      /\ work' \in [Callers -> [todo : Seq(Records), tested : BOOLEAN]]
  BY <1>1, <1>3, <1>4 DEF WorkInv
<1>7. ToApply \subseteq ToApply' \cup {head}
  <2>1. ASSUME NEW d \in Callers, NEW x \in Members(work[d].todo)
        PROVE  x = head \/ x \in Members(work'[d].todo)
    BY <1>4, <1>6
  <2> QED BY <2>1 DEF ToApply
<1>8. ASSUME NEW item
      PROVE  Cardinality(PlacesOf(item))' + Cardinality(Testers(item))' <= Cardinality(Callers)
  <2>1. /\ Len(trajectories') = Len(trajectories) + 1 /\ Len(trajectories) \in Nat
        /\ \A i \in 1..Len(trajectories) : trajectories'[i] = trajectories[i]
        /\ trajectories'[Len(trajectories) + 1] = head
    BY <1>1, <1>5
  <2>2. /\ IsFiniteSet(PlacesOf(item)) /\ IsFiniteSet(Testers(item))
        /\ Cardinality(PlacesOf(item)) \in Nat /\ Cardinality(Testers(item)) \in Nat
    <3>1. PlacesOf(item) \subseteq 1..Len(trajectories) /\ Testers(item) \subseteq Callers
      BY DEF PlacesOf, Testers
    <3>2. IsFiniteSet(1..Len(trajectories))
      <4>1. Len(trajectories) \in Int /\ 1 \in Int
        BY <2>1
      <4> QED BY <4>1, FS_Interval, Zenon
    <3> QED BY <3>1, <3>2, AdmissionAssumptions, FS_Subset, FS_CardinalityType
  <2>3. CASE item = head
    <3>1. PlacesOf(item)' = PlacesOf(item) \cup {Len(trajectories) + 1}
          /\ Len(trajectories) + 1 \notin PlacesOf(item)
      BY <2>1, <2>3 DEF PlacesOf
    <3>2. Testers(item)' = Testers(item) \ {c} /\ c \in Testers(item)
      BY <1>1, <1>6, <2>3 DEF Testers, head
    <3>3. Cardinality(PlacesOf(item)') = Cardinality(PlacesOf(item)) + 1
      BY <2>2, <3>1, FS_AddElement
    <3>4. Cardinality(Testers(item)') = Cardinality(Testers(item)) - 1
      BY <2>2, <3>2, FS_RemoveElement
    <3> QED BY <2>2, <3>3, <3>4 DEF WorkInv
  <2>4. CASE item # head
    <3>1. PlacesOf(item)' = PlacesOf(item)
      BY <2>1, <2>4 DEF PlacesOf
    <3>2. Testers(item)' = Testers(item)
      BY <1>1, <1>6, <2>4 DEF Testers, head
    <3> QED BY <3>1, <3>2 DEF WorkInv
  <2> QED BY <2>3, <2>4
<1> HIDE DEF head
<1>9. WorkInv'
  BY <1>1, <1>4, <1>5, <1>6, <1>7, <1>8 DEF WorkInv
<1> QED BY <1>2, <1>9

LEMMA AdmissionStep == AdmissionInv /\ [AdmissionNext]_admissionVars => AdmissionInv'
<1> SUFFICES ASSUME AdmissionInv, [AdmissionNext]_admissionVars PROVE AdmissionInv'
  OBVIOUS
<1> USE DEF AdmissionInv
<1>1. ASSUME NEW c \in Callers, Record(c) PROVE AdmissionInv'
  <2>1. opened = "open" /\ UNCHANGED <<trajectories, work, opened, replayed>>
    BY <1>1 DEF Record, MayCall
  <2>2. PICK claim \in Claims, context \in Contexts, sequence \in 0..MaxSequence,
             action \in Actions, evidence \in BOOLEAN :
          LET item == Decision(claim, context, sequence, action, evidence) IN
          Remembered("decisions", item) \/ Appended("decisions", item)
            \/ AppendRaises("decisions", item)
    BY <1>1 DEF Record
  <2> DEFINE item == Decision(claim, context, sequence, action, evidence)
  <2>3. item \in Records /\ item \in Decided
    BY AdmissionAssumptions DEF Decision, Validate, Records, Decided
  <2> HIDE DEF item
  <2>4. Remembered("decisions", item) \/ Appended("decisions", item)
          \/ AppendRaises("decisions", item)
    BY <2>2 DEF item
  <2>5. FilesTyped' /\ FilesInv' /\ rows'["admissions"] = rows["admissions"]
    BY <2>1, <2>3, <2>4, AppendKeeps DEF Journals
  <2>6. /\ ToApply' = ToApply
        /\ \A x : PlacesOf(x)' = PlacesOf(x) /\ Testers(x)' = Testers(x)
    BY <2>1 DEF ToApply, PlacesOf, Testers
  <2>7. WorkInv'
    BY <2>1, <2>5, <2>6 DEF WorkInv
  <2> QED BY <2>5, <2>7
<1>2. ASSUME NEW c \in Callers, Admit(c) PROVE AdmissionInv'
  <2>1. opened = "open" /\ work[c] = Done /\ UNCHANGED <<trajectories, opened, replayed>>
    BY <1>2 DEF Admit, MayCall
  <2>2. PICK decision \in granted["decisions"], sequence \in 0..MaxSequence :
          LET item == Admission(decision, sequence) IN
          /\ Admissible(decision)
          /\ \/ /\ Remembered("admissions", item) \/ Appended("admissions", item)
                /\ work' = [work EXCEPT ![c].todo = <<item>>]
             \/ AppendRaises("admissions", item) /\ UNCHANGED work
    BY <1>2 DEF Admit
  <2> DEFINE item == Admission(decision, sequence)
  <2>3. item \in Admitted /\ item \in Records /\ item.decision = decision
    BY AdmissionAssumptions DEF Admission, Records, Admitted, FilesInv
  <2> HIDE DEF item
  <2>4. /\ Admissible(decision)
        /\ \/ /\ Remembered("admissions", item) \/ Appended("admissions", item)
              /\ work' = [work EXCEPT ![c].todo = <<item>>]
           \/ AppendRaises("admissions", item) /\ UNCHANGED work
    BY <2>2 DEF item
  <2>5. /\ FilesTyped' /\ FilesInv'
        /\ Remembered("admissions", item) \/ Appended("admissions", item) =>
             Members(rows'["admissions"]) = Members(rows["admissions"]) \cup {item}
        /\ AppendRaises("admissions", item) => rows' = rows
    BY <2>1, <2>3, <2>4, AppendKeeps DEF Journals
  <2>6. CASE /\ Remembered("admissions", item) \/ Appended("admissions", item)
             /\ work' = [work EXCEPT ![c].todo = <<item>>]
    <3>1. /\ work'[c] = [todo |-> <<item>>, tested |-> FALSE] /\ Members(work'[c].todo) = {item}
          /\ \A d \in Callers \ {c} : work'[d] = work[d]
          /\ work' \in [Callers -> [todo : Seq(Records), tested : BOOLEAN]]
      <4>1. work' = [work EXCEPT ![c] = [todo |-> <<item>>, tested |-> FALSE]]
        <5>1. [work EXCEPT ![c].todo = <<item>>] =
                [work EXCEPT ![c] = [todo |-> <<item>>, tested |-> work[c].tested]]
          BY WorkIs DEF WorkInv
        <5> QED BY <2>1, <2>6, <5>1 DEF Done
      <4>2. [todo |-> <<item>>, tested |-> FALSE] \in [todo : Seq(Records), tested : BOOLEAN]
        BY <2>3
      <4> QED BY <4>1, <4>2, MembersFew DEF WorkInv
    <3>2. Members(work[c].todo) = {} /\ ~work[c].tested
      BY <2>1, MembersFew DEF Done
    <3>3. ToApply' = ToApply \cup {item}
      <4>1. \A x : x \in ToApply' <=> \E d \in Callers : x \in Members(work'[d].todo)
        BY DEF ToApply
      <4>2. \A x : x \in ToApply <=> \E d \in Callers : x \in Members(work[d].todo)
        BY DEF ToApply
      <4> QED BY <3>1, <3>2, <4>1, <4>2
    <3>4. \A x : PlacesOf(x)' = PlacesOf(x) /\ Testers(x)' = Testers(x)
      <4>1. ~work'[c].tested
        BY <3>1
      <4> QED BY <2>1, <3>1, <3>2, <4>1 DEF PlacesOf, Testers
    <3>5. WorkInv'
      BY <2>1, <2>5, <2>6, <3>1, <3>3, <3>4 DEF WorkInv
    <3> QED BY <2>5, <3>5
  <2>7. CASE AppendRaises("admissions", item) /\ UNCHANGED work
    <3>1. /\ ToApply' = ToApply
          /\ \A x : PlacesOf(x)' = PlacesOf(x) /\ Testers(x)' = Testers(x)
      BY <2>1, <2>7 DEF ToApply, PlacesOf, Testers
    <3>2. WorkInv'
      BY <2>1, <2>5, <2>7, <3>1 DEF WorkInv
    <3> QED BY <2>5, <3>2
  <2> QED BY <2>4, <2>6, <2>7
<1>3. ASSUME NEW c \in Callers, Replay(c) PROVE AdmissionInv'
  <2>1. /\ work[c] = Done /\ work' = [work EXCEPT ![c].todo = rows["admissions"]]
        /\ UNCHANGED <<file, rows, trajectories, opened, tainted, granted>>
    BY <1>3 DEF Replay, MayCall
  <2>2. FilesTyped' /\ FilesInv'
    BY <2>1 DEF FilesTyped, FilesInv
  <2>3. /\ work'[c] = [todo |-> rows["admissions"], tested |-> FALSE]
        /\ \A d \in Callers \ {c} : work'[d] = work[d]
        /\ work' \in [Callers -> [todo : Seq(Records), tested : BOOLEAN]]
    <3>1. work' = [work EXCEPT ![c] = [todo |-> rows["admissions"], tested |-> FALSE]]
      <4>0. work \in [Callers -> [todo : Seq(Records), tested : BOOLEAN]]
        BY DEF WorkInv
      <4>1. [work EXCEPT ![c].todo = rows["admissions"]] =
              [work EXCEPT ![c] = [todo |-> rows["admissions"], tested |-> work[c].tested]]
        BY <4>0, WorkIs, Zenon
      <4> QED BY <2>1, <4>1 DEF Done
    <3>2. rows["admissions"] \in Seq(Records)
      BY DEF FilesTyped, Journals
    <3> QED BY <3>1, <3>2 DEF WorkInv
  <2>4. ~work[c].tested
    BY <2>1 DEF Done
  <2>5. Members(rows["admissions"]) \subseteq ToApply'
    BY <2>3 DEF ToApply
  <2>6. \A x : PlacesOf(x)' = PlacesOf(x) /\ Testers(x)' = Testers(x)
    BY <2>1, <2>3, <2>4 DEF PlacesOf, Testers
  <2>7. WorkInv'
    BY <2>1, <2>3, <2>5, <2>6 DEF WorkInv
  <2> QED BY <2>2, <2>7
<1>4. ASSUME NEW c \in Callers, ApplyTest(c) PROVE AdmissionInv'
  BY <1>4, ApplyTestKeeps
<1>5. ASSUME NEW c \in Callers, ApplyAppend(c) PROVE AdmissionInv'
  BY <1>5, ApplyAppendKeeps
<1>6. CASE Restart
  <2>1. /\ opened' = IF \A j \in Journals : Loads(file[j]) THEN "open" ELSE "refused"
        /\ rows' = IF opened' = "open" THEN file ELSE [j \in Journals |-> <<>>]
        /\ trajectories' = <<>> /\ replayed' = (rows'["admissions"] = <<>>)
        /\ work' = [c \in Callers |-> Done]
        /\ UNCHANGED <<file, tainted, granted>>
    BY <1>6 DEF Restart
  <2>2. FilesTyped'
    BY <2>1 DEF FilesTyped
  <2>3. \A j \in Journals : Members(rows'[j]) \subseteq Members(file[j])
    BY <2>1, MembersFew
  <2>4. FilesInv'
    BY <2>1, <2>3 DEF FilesInv
  <2>5. Members(trajectories') = {} /\ \A c \in Callers : work'[c] = Done /\ Members(Done.todo) = {}
    BY <2>1, MembersFew DEF Done
  <2>6. ASSUME NEW x
        PROVE  Cardinality(PlacesOf(x))' + Cardinality(Testers(x))' <= Cardinality(Callers)
    <3>1. PlacesOf(x)' = {} /\ Testers(x)' = {}
      BY <2>1, <2>5 DEF PlacesOf, Testers, Done
    <3> QED BY <3>1, CallersCount
  <2>7. work' \in [Callers -> [todo : Seq(Records), tested : BOOLEAN]] /\ trajectories' \in Seq(Records)
        /\ \A c \in Callers : ~work'[c].tested
    BY <2>1, <2>5 DEF Done
  <2>8. replayed' => Members(rows'["admissions"]) = {}
    BY <2>1, MembersFew
  <2>9. WorkInv'
    BY <2>5, <2>6, <2>7, <2>8 DEF WorkInv
  <2> QED BY <2>2, <2>4, <2>9
<1>7. CASE UNCHANGED admissionVars
  <2>1. FilesTyped' /\ FilesInv'
    BY <1>7 DEF admissionVars, FilesTyped, FilesInv
  <2>2. WorkInv'
    BY <1>7 DEF admissionVars, WorkInv, ToApply, PlacesOf, Testers
  <2> QED BY <2>1, <2>2
<1> QED BY <1>1, <1>2, <1>3, <1>4, <1>5, <1>6, <1>7 DEF AdmissionNext

LEMMA AdmissionStart == AdmissionInit => AdmissionInv
<1> SUFFICES ASSUME AdmissionInit PROVE AdmissionInv
  OBVIOUS
<1>1. FilesTyped
  BY DEF AdmissionInit, FilesTyped
<1>2. FilesInv
  BY MembersFew DEF AdmissionInit, FilesInv, Loads, Once, Journals
<1>3. \A x : PlacesOf(x) = {} /\ Testers(x) = {}
  BY DEF AdmissionInit, PlacesOf, Testers, Done
<1>4. \A x : Cardinality(PlacesOf(x)) + Cardinality(Testers(x)) <= Cardinality(Callers)
  BY <1>3, CallersCount
<1>5. /\ Members(trajectories) = {} /\ Members(rows["admissions"]) = {}
      /\ \A c \in Callers : work[c] = Done /\ Members(Done.todo) = {} /\ ~Done.tested
      /\ work \in [Callers -> [todo : Seq(Records), tested : BOOLEAN]] /\ trajectories \in Seq(Records)
  BY MembersFew DEF AdmissionInit, Done, Journals
<1>6. WorkInv
  BY <1>4, <1>5 DEF WorkInv
<1> QED BY <1>1, <1>2, <1>6 DEF AdmissionInv

LEMMA AdmissionInvGives == AdmissionInv => AdmissionsJustified
<1> SUFFICES ASSUME AdmissionInv PROVE AdmissionsJustified
  OBVIOUS
<1> USE DEF AdmissionInv
<1>1. LearningJustified
  BY DEF LearningJustified, FilesInv, WorkInv, Journals, Admissible
<1>2. JournalsReload
  BY OnceCounts DEF JournalsReload, FilesInv, FilesTyped
<1>3. ASSUME NEW item
      PROVE  Cardinality({i \in 1..Len(trajectories) : trajectories[i] = item}) <= Cardinality(Callers)
  <2>1. Testers(item) \subseteq Callers /\ PlacesOf(item) \subseteq 1..Len(trajectories)
    BY DEF Testers, PlacesOf
  <2>2. Len(trajectories) \in Nat
    BY DEF WorkInv
  <2>3. Cardinality(Testers(item)) \in Nat /\ Cardinality(PlacesOf(item)) \in Nat
        /\ Cardinality(Callers) \in Nat
    <3>1. IsFiniteSet(1..Len(trajectories))
      BY <2>2, FS_Interval
    <3> QED BY <2>1, <3>1, CallersCount, FS_Subset, FS_CardinalityType
  <2>4. Cardinality(PlacesOf(item)) + Cardinality(Testers(item)) <= Cardinality(Callers)
    BY DEF WorkInv
  <2> QED BY <2>3, <2>4 DEF PlacesOf
<1>4. ReplayComplete
  BY <1>3 DEF ReplayComplete, WorkInv, ToApply
<1> QED BY <1>1, <1>2, <1>4 DEF AdmissionsJustified

\* learning_admission_v2.py and epistemic_response_v2.py: whatever callers overlap,
\* writes fail and restarts happen, what the index learned has a durable accepted
\* decision with evidence, journals that no raising write touched load again, and
\* a replay leaves no admission out and none in more often than there are callers.
THEOREM AdmissionsAlwaysJustified == AdmissionSpec => []AdmissionsJustified
<1>1. AdmissionInit => AdmissionInv
  BY AdmissionStart
<1>2. AdmissionInv /\ [AdmissionNext]_admissionVars => AdmissionInv'
  BY AdmissionStep
<1>3. AdmissionInv => AdmissionsJustified
  BY AdmissionInvGives
<1> QED BY <1>1, <1>2, <1>3, PTL DEF AdmissionSpec

-----------------------------------------------------------------------------
(* Leases, released by the thread that acquired them.  LeaseBacked speaks  *)
(* of leases that nobody released.  A lease whose owner marked it and did  *)
(* not reach the manager's count yet is alive as well: the entry counts    *)
(* it, and the thread that closes a runtime is the only one that holds a   *)
(* live lease of it.                                                       *)

ThreadRecords ==
    [at : {"idle", "leased", "checked", "native", "tested", "marked", "closing"},
     lease : LeaseIds \cup {None}, handle : RuntimeIds \cup {None}]

Live(l) == leases[l].status = "held" \/ Releasing(l) # {}

\* What a thread does with a lease it does with one that was issued; a release
\* is its owner's, and a call inside the library holds its runtime's lock.
ThreadInv(t) ==
    LET l == threads[t].lease
        r == leases[l].runtime
    IN  /\ ~At(t, "idle") => l \in LeaseIds /\ leases[l].status # "unissued"
        /\ At(t, "tested") => leases[l].owner = t /\ leases[l].status = "held"
        /\ At(t, "marked") \/ At(t, "closing") =>
             leases[l].owner = t /\ leases[l].status = "released"
        /\ At(t, "native") =>
             /\ runtimes[r].holder = t
             /\ threads[t].handle # None => threads[t].handle = r /\ runtimes[r].handle = "open"
        /\ At(t, "closing") => manager = t /\ entries[leases[l].key].refs <= 1

\* A lease names a key and a runtime; a live one those of an entry.
LeaseInv(l) ==
    /\ leases[l].status # "unissued" =>
         leases[l].key \in Keys /\ leases[l].runtime \in RuntimeIds
    /\ Live(l) => /\ leases[l].key \in DOMAIN entries
                  /\ entries[leases[l].key].runtime = leases[l].runtime

\* Entries and open runtimes name each other, an entry counts its live leases,
\* and its store is open with its library only.
EntryInv(k) ==
    /\ entries[k].refs = Cardinality(Counted(k))
    /\ runtimes[entries[k].runtime].handle = "open"
    /\ runtimes[entries[k].runtime].key = k
    /\ k[2] \in DOMAIN storeLibraries /\ storeLibraries[k[2]] = k[1]
RuntimeInv(r) ==
    runtimes[r].handle = "open" =>
      runtimes[r].key \in DOMAIN entries /\ entries[runtimes[r].key].runtime = r

ManagerInv ==
    /\ LeaseTypeOK
    /\ \A t \in Threads : ThreadInv(t)
    /\ \A l \in LeaseIds : LeaseInv(l)
    /\ \A k \in DOMAIN entries : EntryInv(k)
    /\ \A r \in RuntimeIds : RuntimeInv(r)

-----------------------------------------------------------------------------
(* Lemmas.                                                                 *)

LEMMA CountedFinite ==
  ASSUME NEW k
  PROVE  IsFiniteSet(Counted(k)) /\ Cardinality(Counted(k)) \in Nat
         /\ IsFiniteSet(Counted(k)') /\ Cardinality(Counted(k)') \in Nat
<1>1. Counted(k) \in SUBSET LeaseIds /\ Counted(k)' \in SUBSET LeaseIds
  BY DEF Counted
<1> QED BY <1>1, LeaseAssumptions, FS_Subset, FS_CardinalityType

LEMMA CountedIsLive ==
  /\ \A k, l : l \in Counted(k) <=> l \in LeaseIds /\ leases[l].key = k /\ Live(l)
  /\ \A k, l : l \in Counted(k)' <=> l \in LeaseIds /\ leases'[l].key = k /\ Live(l)'
BY DEF Counted, Live

\* The owner of a lease is the only thread that can be releasing it.
LEMMA OwnerReleases ==
  ASSUME \A t \in Threads : ThreadInv(t), NEW l \in LeaseIds, NEW t \in Releasing(l)
  PROVE  t \in Threads /\ leases[l].owner = t /\ leases[l].status = "released"
BY DEF ThreadInv, Releasing, At

\* Steps of a thread that neither counts a reference nor has one to give back.
LEMMA QuietManager ==
  ASSUME ManagerInv, NEW t \in Threads, NEW new,
         UNCHANGED <<entries, storeLibraries, leases, manager>>,
         threads' = [threads EXCEPT ![t] = new],
         threads[t].at \notin {"marked", "closing"}, new.at \notin {"marked", "closing"},
         \A r \in RuntimeIds : /\ runtimes'[r].handle = runtimes[r].handle
                               /\ runtimes'[r].key = runtimes[r].key
  PROVE  /\ \A l \in LeaseIds : LeaseInv(l)'
         /\ \A k \in DOMAIN entries' : EntryInv(k)'
         /\ \A r \in RuntimeIds : RuntimeInv(r)'
<1>1. threads \in [Threads -> ThreadRecords]
  BY DEF ManagerInv, LeaseTypeOK, ThreadRecords
<1>2. \A l : Releasing(l)' = Releasing(l)
  BY <1>1 DEF Releasing
<1>3. \A l : Live(l)' <=> Live(l)
  BY <1>2 DEF Live
<1>4. \A k : Counted(k)' = Counted(k)
  BY <1>2 DEF Counted
<1>5. \A l \in LeaseIds : LeaseInv(l)'
  BY <1>3 DEF ManagerInv, LeaseInv
<1>6. \A k \in DOMAIN entries' : EntryInv(k)'
  <2> SUFFICES ASSUME NEW k \in DOMAIN entries PROVE EntryInv(k)'
    OBVIOUS
  <2>1. EntryInv(k) /\ entries[k].runtime \in RuntimeIds
    BY DEF ManagerInv, LeaseTypeOK
  <2>2. Cardinality(Counted(k)') = Cardinality(Counted(k))
    BY <1>4
  <2> QED BY <2>1, <2>2 DEF EntryInv
<1>7. \A r \in RuntimeIds : RuntimeInv(r)'
  BY DEF ManagerInv, RuntimeInv
<1> QED BY <1>5, <1>6, <1>7

-----------------------------------------------------------------------------
(* One lemma for each step.                                                *)

LEMMA BeginsKeep ==
  ASSUME ManagerInv, ~SharedRelease, NEW t \in Threads, NEW l \in LeaseIds,
         BeginCall(t, l) \/ BeginRelease(t, l)
  PROVE  ManagerInv'
<1>1. PICK place \in {"leased", "tested"} :
        /\ threads' = [threads EXCEPT ![t] = [Idle EXCEPT !.at = place, !.lease = l]]
        /\ place = "tested" => leases[l].owner = t
  BY DEF BeginCall, BeginRelease
<1>2. /\ At(t, "idle") /\ leases[l].status = "held"
      /\ UNCHANGED <<entries, storeLibraries, runtimes, leases, manager>>
  BY DEF BeginCall, BeginRelease
<1>3. /\ threads \in [Threads -> ThreadRecords]
  BY DEF ManagerInv, LeaseTypeOK, ThreadRecords
<1> DEFINE new == [Idle EXCEPT !.at = place, !.lease = l]
<1>4. new.at = place /\ new.lease = l /\ new.handle = None
      /\ new \in ThreadRecords
  BY DEF Idle, ThreadRecords
<1>5. threads[t].at = "idle"
  BY <1>2 DEF At
<1>6. threads' = [threads EXCEPT ![t] = new]
  BY <1>1
<1> HIDE DEF new
<1>7. LeaseTypeOK'
  BY <1>2, <1>3, <1>4, <1>6 DEF ManagerInv, LeaseTypeOK, ThreadRecords
<1>8. \A u \in Threads : ThreadInv(u)'
  <2> SUFFICES ASSUME NEW u \in Threads PROVE ThreadInv(u)'
    OBVIOUS
  <2>1. CASE u = t
    BY <1>1, <1>2, <1>3, <1>4, <1>6, <2>1 DEF ThreadInv, At
  <2>2. CASE u # t
    BY <1>2, <1>3, <1>6, <2>2 DEF ManagerInv, ThreadInv, At
  <2> QED BY <2>1, <2>2
<1>9. /\ \A m \in LeaseIds : LeaseInv(m)'
      /\ \A k \in DOMAIN entries' : EntryInv(k)'
      /\ \A r \in RuntimeIds : RuntimeInv(r)'
  BY <1>2, <1>4, <1>5, <1>6, QuietManager
<1> QED BY <1>7, <1>8, <1>9 DEF ManagerInv

LEMMA CallsKeep ==
  ASSUME ManagerInv, NEW t \in Threads, CheckRuntime(t) \/ EnterNative(t) \/ LeaveNative(t)
  PROVE  ManagerInv'
<1> DEFINE l == threads[t].lease
           r == leases[l].runtime
<1>1. threads \in [Threads -> ThreadRecords]
  BY DEF ManagerInv, LeaseTypeOK, ThreadRecords
<1>2. threads[t].at \in {"leased", "checked", "native"}
  BY DEF CheckRuntime, EnterNative, LeaveNative, At
<1>3. l \in LeaseIds /\ r \in RuntimeIds
  BY <1>2 DEF ManagerInv, ThreadInv, LeaseInv, At
<1>4. UNCHANGED <<entries, storeLibraries, leases, manager>>
  BY DEF CheckRuntime, EnterNative, LeaveNative
<1>5. PICK new \in ThreadRecords :
        /\ threads' = [threads EXCEPT ![t] = new]
        /\ new.at \in {"idle", "checked", "native"}
        /\ new.at = "idle" \/ new.lease = l
        /\ new.at = "native" => /\ EnterNative(t)
                               /\ new.handle = IF runtimes[r].handle = "open" THEN r ELSE None
  <2>1. CASE EnterNative(t)
    <3> DEFINE new == [threads[t] EXCEPT !.at = "native",
                         !.handle = IF runtimes[r].handle = "open" THEN r ELSE None]
    <3>1. threads' = [threads EXCEPT ![t] = new]
      BY <1>1, <2>1 DEF EnterNative, RuntimeOf
    <3>2. /\ new \in ThreadRecords /\ new.at = "native" /\ new.lease = l
          /\ new.handle = IF runtimes[r].handle = "open" THEN r ELSE None
      BY <1>1, <1>3 DEF ThreadRecords
    <3> QED BY <2>1, <3>1, <3>2
  <2>2. CASE CheckRuntime(t) /\ runtimes[RuntimeOf(t)].handle # "closed"
    <3> DEFINE new == [threads[t] EXCEPT !.at = "checked"]
    <3>1. threads' = [threads EXCEPT ![t] = new]
      BY <1>1, <2>2 DEF CheckRuntime, Goto
    <3>2. new \in ThreadRecords /\ new.at = "checked" /\ new.lease = l
      BY <1>1 DEF ThreadRecords
    <3> QED BY <3>1, <3>2
  <2>3. CASE LeaveNative(t) \/ (CheckRuntime(t) /\ runtimes[RuntimeOf(t)].handle = "closed")
    <3>1. threads' = [threads EXCEPT ![t] = Idle]
      BY <2>3 DEF LeaveNative, CheckRuntime, Rest
    <3>2. Idle \in ThreadRecords /\ Idle.at = "idle"
      BY DEF Idle, ThreadRecords
    <3> QED BY <3>1, <3>2
  <2> QED BY <2>1, <2>2, <2>3
<1>6. \/ /\ runtimes' = [runtimes EXCEPT ![r].holder = t] /\ runtimes[r].holder = None
      \/ /\ runtimes' = [runtimes EXCEPT ![r].holder = None] /\ LeaveNative(t) /\ new.at = "idle"
      \/ runtimes' = runtimes
  <2>1. CASE LeaveNative(t)
    <3>1. threads'[t] = Idle /\ threads'[t] = new
      BY <1>1, <1>5, <2>1 DEF LeaveNative, Rest
    <3>2. new.at = "idle"
      BY <3>1 DEF Idle
    <3>3. runtimes' = [runtimes EXCEPT ![r].holder = None]
      BY <2>1 DEF LeaveNative, RuntimeOf
    <3> QED BY <2>1, <3>2, <3>3
  <2>2. CASE EnterNative(t)
    BY <2>2 DEF EnterNative, RuntimeOf
  <2>3. CASE CheckRuntime(t)
    BY <2>3 DEF CheckRuntime
  <2> QED BY <2>1, <2>2, <2>3
<1>7. runtimes \in [RuntimeIds -> [handle : {"unopened", "open", "closed"},
                                  key : Keys \cup {None}, holder : Threads \cup {None}]]
  BY DEF ManagerInv, LeaseTypeOK
<1>7a. ASSUME NEW h \in Threads \cup {None}, runtimes' = [runtimes EXCEPT ![r].holder = h]
       PROVE  /\ runtimes' \in [RuntimeIds -> [handle : {"unopened", "open", "closed"},
                                             key : Keys \cup {None}, holder : Threads \cup {None}]]
              /\ \A q \in RuntimeIds : /\ runtimes'[q].handle = runtimes[q].handle
                                       /\ runtimes'[q].key = runtimes[q].key
  <2>1. /\ DOMAIN runtimes' = RuntimeIds
        /\ runtimes' = [q \in RuntimeIds |-> runtimes'[q]]
    BY <1>7, <1>7a
  <2>2. ASSUME NEW q \in RuntimeIds
        PROVE  /\ runtimes'[q] \in [handle : {"unopened", "open", "closed"},
                                    key : Keys \cup {None}, holder : Threads \cup {None}]
               /\ runtimes'[q].handle = runtimes[q].handle /\ runtimes'[q].key = runtimes[q].key
    <3>1. runtimes[q] \in [handle : {"unopened", "open", "closed"},
                           key : Keys \cup {None}, holder : Threads \cup {None}]
      BY <1>7
    <3>2. runtimes'[q] = IF q = r THEN [runtimes[q] EXCEPT !.holder = h] ELSE runtimes[q]
      BY <1>7, <1>7a
    <3> QED BY <3>1, <3>2
  <2> QED BY <2>1, <2>2
<1>8. \A q \in RuntimeIds : runtimes'[q].handle = runtimes[q].handle /\ runtimes'[q].key = runtimes[q].key
  BY <1>6, <1>7a
<1>9. LeaseTypeOK'
  <2>1. runtimes' \in [RuntimeIds -> [handle : {"unopened", "open", "closed"},
                                     key : Keys \cup {None}, holder : Threads \cup {None}]]
    BY <1>6, <1>7, <1>7a
  <2>2. threads' \in [Threads -> ThreadRecords]
    BY <1>1, <1>5
  <2> QED BY <1>4, <2>1, <2>2 DEF ManagerInv, LeaseTypeOK, ThreadRecords
<1>10. ThreadInv(t)'
  <2>1. threads'[t] = new /\ ThreadInv(t)
    BY <1>1, <1>5 DEF ManagerInv
  <2>2. CASE new.at = "native"
    <3>1. runtimes'[r].holder = t
      BY <1>3, <1>5, <1>7, <2>2 DEF EnterNative, RuntimeOf
    <3> QED BY <1>2, <1>3, <1>4, <1>5, <1>8, <2>1, <2>2, <3>1 DEF ThreadInv, At
  <2>3. CASE new.at # "native"
    BY <1>2, <1>3, <1>4, <1>5, <2>1, <2>3 DEF ThreadInv, At
  <2> QED BY <2>2, <2>3
<1>11. ASSUME NEW u \in Threads, u # t PROVE ThreadInv(u)'
  <2> DEFINE m == threads[u].lease
             q == leases[m].runtime
  <2>1. ThreadInv(u) /\ threads'[u] = threads[u]
    BY <1>1, <1>5, <1>11 DEF ManagerInv
  <2>2. ASSUME At(u, "native")
        PROVE  m \in LeaseIds /\ q \in RuntimeIds /\ runtimes'[q].holder = u
               /\ runtimes'[q].handle = runtimes[q].handle
    <3>1. m \in LeaseIds /\ leases[m].status # "unissued" /\ runtimes[q].holder = u
      BY <2>1, <2>2 DEF ThreadInv, At
    <3>2. q \in RuntimeIds
      BY <3>1 DEF ManagerInv, LeaseInv
    <3>3. u # None
      BY LeaseAssumptions
    <3>4. ASSUME LeaveNative(t) PROVE q # r
      <4>1. runtimes[r].holder = t
        BY <3>4 DEF LeaveNative, ManagerInv, ThreadInv, At
      <4> QED BY <1>11, <3>1, <4>1
    <3> QED BY <1>3, <1>6, <1>7, <1>8, <3>1, <3>2, <3>3, <3>4
  <2>3. CASE At(u, "native")
    BY <1>4, <2>1, <2>2, <2>3 DEF ThreadInv, At
  <2>4. CASE ~At(u, "native")
    BY <1>4, <2>1, <2>4 DEF ThreadInv, At
  <2> QED BY <2>3, <2>4
<1>12. /\ \A m \in LeaseIds : LeaseInv(m)'
       /\ \A k \in DOMAIN entries' : EntryInv(k)'
       /\ \A q \in RuntimeIds : RuntimeInv(q)'
  <2>1. threads[t].at \notin {"marked", "closing"} /\ new.at \notin {"marked", "closing"}
    BY <1>2, <1>5
  <2> QED BY <1>4, <1>5, <1>8, <2>1, QuietManager
<1> QED BY <1>9, <1>10, <1>11, <1>12 DEF ManagerInv

\* The marked lease stays counted until its owner reaches the manager.
LEMMA MarkKeeps ==
  ASSUME ManagerInv, NEW t \in Threads, MarkReleased(t)
  PROVE  ManagerInv'
<1>0. PICK l : l = threads[t].lease
  OBVIOUS
<1>1. /\ threads \in [Threads -> ThreadRecords]
      /\ leases \in [LeaseIds -> [status : {"unissued", "held", "released"},
                                 owner : Threads \cup {None}, key : Keys \cup {None},
                                 runtime : RuntimeIds \cup {None}]]
  BY DEF ManagerInv, LeaseTypeOK, ThreadRecords
<1>2. /\ threads[t].at = "tested" /\ l \in LeaseIds
      /\ leases[l].status = "held" /\ leases[l].owner = t
  BY <1>0 DEF MarkReleased, ManagerInv, ThreadInv, At
<1>3. /\ leases' = [leases EXCEPT ![l].status = "released"]
      /\ threads' = [threads EXCEPT ![t].at = "marked"]
      /\ UNCHANGED <<entries, storeLibraries, runtimes, manager>>
  BY <1>0 DEF MarkReleased, Goto
<1>4. /\ \A m \in LeaseIds : /\ leases'[m].key = leases[m].key
                             /\ leases'[m].runtime = leases[m].runtime
                             /\ leases'[m].owner = leases[m].owner
                             /\ m # l => leases'[m].status = leases[m].status
      /\ leases'[l].status = "released"
  BY <1>1, <1>2, <1>3
<1>5. /\ threads'[t].at = "marked" /\ threads'[t].lease = l
      /\ \A u \in Threads : u # t => threads'[u] = threads[u]
  BY <1>0, <1>1, <1>3 DEF ThreadRecords
<1>6. LeaseTypeOK'
  <2>1. threads' \in [Threads -> ThreadRecords]
    BY <1>1, <1>3, SMTT(30) DEF ThreadRecords
  <2>2. leases' \in [LeaseIds -> [status : {"unissued", "held", "released"},
                                 owner : Threads \cup {None}, key : Keys \cup {None},
                                 runtime : RuntimeIds \cup {None}]]
    BY <1>1, <1>3
  <2> QED BY <1>3, <2>1, <2>2 DEF ManagerInv, LeaseTypeOK, ThreadRecords
<1>7. \A u \in Threads : ThreadInv(u)'
  <2> SUFFICES ASSUME NEW u \in Threads PROVE ThreadInv(u)'
    OBVIOUS
  <2>1. CASE u = t
    BY <1>2, <1>3, <1>4, <1>5, <2>1 DEF ThreadInv, At
  <2>2. CASE u # t
    <3>1. ThreadInv(u) /\ threads'[u] = threads[u]
      BY <1>5, <2>2 DEF ManagerInv
    <3>2. threads[u].lease = l => ~At(u, "tested") /\ ~At(u, "marked") /\ ~At(u, "closing")
      BY <1>2, <2>2, <3>1 DEF ThreadInv
    <3> QED BY <1>3, <1>4, <3>1, <3>2, ZenonT(60) DEF ThreadInv, At
  <2> QED BY <2>1, <2>2
<1>8. \A m \in LeaseIds : Live(m)' <=> Live(m)
  <2>1. Live(l) /\ t \in Releasing(l)'
    BY <1>2, <1>5 DEF Live, Releasing
  <2>2. ASSUME NEW m \in LeaseIds, m # l PROVE Releasing(m)' = Releasing(m)
    BY <1>2, <1>5, <2>2 DEF Releasing
  <2> QED BY <1>4, <2>1, <2>2 DEF Live
<1>9. \A k : Counted(k)' = Counted(k)
  BY <1>4, <1>8 DEF Counted, Live
<1>10. \A m \in LeaseIds : LeaseInv(m)'
  <2> SUFFICES ASSUME NEW m \in LeaseIds PROVE LeaseInv(m)'
    OBVIOUS
  <2>1. LeaseInv(m)
    BY DEF ManagerInv
  <2> QED BY <1>2, <1>3, <1>4, <1>8, <2>1 DEF LeaseInv
<1>11. /\ \A k \in DOMAIN entries' : EntryInv(k)'
       /\ \A r \in RuntimeIds : RuntimeInv(r)'
  BY <1>3, <1>9 DEF ManagerInv, EntryInv, RuntimeInv
<1> QED BY <1>6, <1>7, <1>10, <1>11 DEF ManagerInv

-----------------------------------------------------------------------------
(* The manager's count.                                                    *)

\* A thread that gives a reference back holds a live lease; no other thread is
\* releasing it, and its entry counts it.
LEMMA MarkedIsCounted ==
  ASSUME ManagerInv, NEW t \in Threads, At(t, "marked") \/ At(t, "closing")
  PROVE  LET l == threads[t].lease
             k == leases[l].key
         IN  /\ l \in LeaseIds /\ l \in Counted(k) /\ Releasing(l) = {t}
             /\ leases[l].status = "released" /\ leases[l].owner = t
             /\ k \in DOMAIN entries /\ entries[k].runtime = leases[l].runtime
             /\ entries[k].refs \in Nat /\ entries[k].refs = Cardinality(Counted(k))
<1> DEFINE l == threads[t].lease
           k == leases[l].key
<1>1. l \in LeaseIds /\ leases[l].owner = t /\ leases[l].status = "released"
  BY DEF ManagerInv, ThreadInv, At
<1>2. t \in Releasing(l)
  BY DEF Releasing, At
<1>3. \A u \in Releasing(l) : u = t
  BY <1>1, OwnerReleases DEF ManagerInv
<1>4. Releasing(l) = {t}
  BY <1>2, <1>3
<1>5. Live(l)
  BY <1>2 DEF Live
<1>6. l \in Counted(k)
  BY <1>1, <1>5, CountedIsLive
<1>7. k \in DOMAIN entries /\ entries[k].runtime = leases[l].runtime
  BY <1>1, <1>5 DEF ManagerInv, LeaseInv
<1>8. entries[k].refs = Cardinality(Counted(k))
  BY <1>7 DEF ManagerInv, EntryInv
<1>9. entries[k].refs \in Nat
  BY <1>8, CountedFinite
<1> QED BY <1>1, <1>4, <1>6, <1>7, <1>8, <1>9

LEMMA DropKeeps ==
  ASSUME ManagerInv, NEW t \in Threads, DropReference(t)
  PROVE  ManagerInv'
<1>0. PICK l, k : l = threads[t].lease /\ k = leases[l].key
  OBVIOUS
<1>1. /\ threads \in [Threads -> ThreadRecords]
      /\ threads[t].at = "marked" /\ manager = None
      /\ UNCHANGED <<storeLibraries, runtimes, leases>>
  BY DEF DropReference, ManagerInv, LeaseTypeOK, ThreadRecords, At
<1>2. /\ l \in LeaseIds /\ l \in Counted(k) /\ Releasing(l) = {t}
      /\ leases[l].status = "released" /\ leases[l].owner = t
      /\ k \in DOMAIN entries /\ entries[k].runtime = leases[l].runtime
      /\ entries[k].refs \in Nat /\ entries[k].refs = Cardinality(Counted(k))
  BY <1>0, MarkedIsCounted DEF DropReference
<1>3. \A u \in Threads : u # t => ThreadInv(u) /\ ~At(u, "closing")
  <2> SUFFICES ASSUME NEW u \in Threads, u # t PROVE ThreadInv(u) /\ ~At(u, "closing")
    OBVIOUS
  <2>1. ThreadInv(u)
    BY DEF ManagerInv
  <2>2. u # None
    BY LeaseAssumptions
  <2> QED BY <1>1, <2>1, <2>2 DEF ThreadInv
<1>4. CASE entries[k].refs > 1
  <2>1. /\ entries' = [entries EXCEPT ![k].refs = @ - 1]
        /\ threads' = [threads EXCEPT ![t] = Idle]
        /\ manager' = manager
    BY <1>0, <1>2, <1>4, SMTT(30) DEF DropReference, Rest
  <2>2. /\ DOMAIN entries' = DOMAIN entries
        /\ \A j \in DOMAIN entries : /\ entries'[j].runtime = entries[j].runtime
                                     /\ j # k => entries'[j] = entries[j]
        /\ entries'[k].refs = entries[k].refs - 1
        /\ \A j \in DOMAIN entries : entries'[j] \in [runtime : RuntimeIds, refs : Nat]
    <3>1. \A j \in DOMAIN entries : entries[j] \in [runtime : RuntimeIds, refs : Nat]
      BY DEF ManagerInv, LeaseTypeOK
    <3> QED BY <1>2, <1>4, <2>1, <3>1
  <2>3. /\ threads' \in [Threads -> ThreadRecords] /\ threads'[t].at = "idle"
        /\ \A u \in Threads : u # t => threads'[u] = threads[u]
    BY <1>1, <2>1 DEF Idle, ThreadRecords
  <2>4. LeaseTypeOK'
    BY <1>1, <2>1, <2>2, <2>3 DEF ManagerInv, LeaseTypeOK, ThreadRecords
  <2>5. \A u \in Threads : ThreadInv(u)'
    <3> SUFFICES ASSUME NEW u \in Threads PROVE ThreadInv(u)'
      OBVIOUS
    <3>1. CASE u = t
      BY <2>3, <3>1 DEF ThreadInv, At
    <3>2. CASE u # t
      BY <1>1, <1>3, <2>3, <3>2 DEF ThreadInv, At
    <3> QED BY <3>1, <3>2
  <2>6. Releasing(l)' = {} /\ \A m \in LeaseIds : m # l => Releasing(m)' = Releasing(m)
    <3>1. Releasing(l)' = {}
      <4> SUFFICES ASSUME NEW u \in Releasing(l)' PROVE FALSE
        OBVIOUS
      <4>1. u \in Threads /\ threads'[u].lease = l /\ threads'[u].at \in {"marked", "closing"}
        BY DEF Releasing
      <4>2. u # t
        BY <2>3, <4>1
      <4>3. u \in Releasing(l)
        BY <2>3, <4>1, <4>2 DEF Releasing
      <4> QED BY <1>2, <4>2, <4>3
    <3>2. ASSUME NEW m \in LeaseIds, m # l PROVE Releasing(m)' = Releasing(m)
      BY <1>0, <1>1, <2>3, <3>2 DEF Releasing
    <3> QED BY <3>1, <3>2
  <2>7. ~Live(l)' /\ \A m \in LeaseIds : m # l => (Live(m)' <=> Live(m))
    BY <1>1, <1>2, <2>6 DEF Live
  <2>8. Counted(k)' = Counted(k) \ {l} /\ \A j : j # k => Counted(j)' = Counted(j)
    <3>1. \A j, m : m \in Counted(j)' <=> m \in Counted(j) /\ m # l
      BY <1>1, <2>7, CountedIsLive
    <3>2. \A j : l \in Counted(j) => j = k
      BY <1>0, CountedIsLive
    <3> QED BY <3>1, <3>2
  <2>9. Cardinality(Counted(k)') = Cardinality(Counted(k)) - 1
    BY <1>2, <2>8, CountedFinite, FS_RemoveElement, ZenonT(60)
  <2>10. \A m \in LeaseIds : LeaseInv(m)'
    BY <1>1, <2>2, <2>7 DEF ManagerInv, LeaseInv
  <2>11. \A j \in DOMAIN entries' : EntryInv(j)'
    <3> SUFFICES ASSUME NEW j \in DOMAIN entries PROVE EntryInv(j)'
      BY <2>2
    <3>1. EntryInv(j)
      BY DEF ManagerInv
    <3>2. entries'[j].refs = Cardinality(Counted(j)')
      BY <1>2, <2>2, <2>8, <2>9, <3>1 DEF EntryInv
    <3> QED BY <1>1, <2>2, <3>1, <3>2 DEF EntryInv
  <2>12. \A r \in RuntimeIds : RuntimeInv(r)'
    BY <1>1, <2>2 DEF ManagerInv, RuntimeInv
  <2> QED BY <2>4, <2>5, <2>10, <2>11, <2>12 DEF ManagerInv
<1>5. CASE entries[k].refs <= 1
  <2>1. /\ entries' = entries /\ manager' = t
        /\ threads' = [threads EXCEPT ![t].at = "closing"]
    BY <1>0, <1>2, <1>5 DEF DropReference, Goto
  <2>2. /\ threads' \in [Threads -> ThreadRecords]
        /\ threads'[t].at = "closing" /\ threads'[t].lease = l
        /\ \A u \in Threads : u # t => threads'[u] = threads[u]
    BY <1>0, <1>1, <2>1 DEF ThreadRecords
  <2>3. LeaseTypeOK'
    BY <1>1, <2>1, <2>2 DEF ManagerInv, LeaseTypeOK, ThreadRecords
  <2>4. \A u \in Threads : ThreadInv(u)'
    <3> SUFFICES ASSUME NEW u \in Threads PROVE ThreadInv(u)'
      OBVIOUS
    <3>1. CASE u = t
      BY <1>0, <1>1, <1>2, <1>5, <2>1, <2>2, <3>1 DEF ThreadInv, At
    <3>2. CASE u # t
      BY <1>1, <1>3, <2>1, <2>2, <3>2 DEF ThreadInv, At
    <3> QED BY <3>1, <3>2
  <2>5. \A m \in LeaseIds : Releasing(m)' = Releasing(m)
    BY <1>0, <1>1, <2>2 DEF Releasing
  <2>6. \A m \in LeaseIds : Live(m)' <=> Live(m)
    BY <1>1, <2>5 DEF Live
  <2>7. \A j : Counted(j)' = Counted(j)
    BY <1>1, <2>5 DEF Counted
  <2>8. /\ \A m \in LeaseIds : LeaseInv(m)'
        /\ \A r \in RuntimeIds : RuntimeInv(r)'
    BY <1>1, <2>1, <2>6 DEF ManagerInv, LeaseInv, RuntimeInv
  <2>9. \A j \in DOMAIN entries' : EntryInv(j)'
    BY <1>1, <2>1, <2>7 DEF ManagerInv, EntryInv
  <2> QED BY <2>3, <2>4, <2>8, <2>9 DEF ManagerInv
<1> QED BY <1>2, <1>4, <1>5

\* The lease of the thread that closes is the only live one of its runtime, and
\* no call is inside the library with it.
LEMMA CloseKeeps ==
  ASSUME ManagerInv, NEW t \in Threads, CloseRuntime(t)
  PROVE  ManagerInv'
<1>0. PICK l, k, r : l = threads[t].lease /\ k = leases[l].key /\ r = entries[k].runtime
  OBVIOUS
<1>1. /\ threads \in [Threads -> ThreadRecords]
      /\ threads[t].at = "closing" /\ runtimes[r].holder = None
      /\ runtimes' = [runtimes EXCEPT ![r].handle = "closed"]
      /\ entries' = [j \in DOMAIN entries \ {k} |-> entries[j]]
      /\ storeLibraries' = [s \in DOMAIN storeLibraries \ {k[2]} |-> storeLibraries[s]]
      /\ manager' = None /\ threads' = [threads EXCEPT ![t] = Idle]
      /\ leases' = leases
  BY <1>0 DEF CloseRuntime, MayClose, Rest, ManagerInv, LeaseTypeOK, ThreadRecords, At
<1>2. /\ l \in LeaseIds /\ l \in Counted(k) /\ Releasing(l) = {t}
      /\ leases[l].status = "released" /\ leases[l].owner = t
      /\ k \in DOMAIN entries /\ r = leases[l].runtime
      /\ entries[k].refs \in Nat /\ entries[k].refs = Cardinality(Counted(k))
  BY <1>0, MarkedIsCounted DEF CloseRuntime
<1>3. manager = t /\ entries[k].refs <= 1
  BY <1>0, <1>1 DEF ManagerInv, ThreadInv, At
<1>4. r \in RuntimeIds /\ k \in Keys /\ EntryInv(k)
  BY <1>0, <1>2 DEF ManagerInv, LeaseTypeOK
<1>5. Counted(k) = {l}
  <2>1. Cardinality(Counted(k)) # 0
    BY <1>2, CountedFinite, FS_EmptySet
  <2>2. Cardinality(Counted(k)) = 1
    BY <1>2, <1>3, <2>1
  <2>3. \E m : Counted(k) = {m}
    BY <2>2, CountedFinite, FS_Singleton
  <2> QED BY <1>2, <2>3
<1>6. runtimes \in [RuntimeIds -> [handle : {"unopened", "open", "closed"},
                                  key : Keys \cup {None}, holder : Threads \cup {None}]]
  BY DEF ManagerInv, LeaseTypeOK
<1>7. /\ runtimes' \in [RuntimeIds -> [handle : {"unopened", "open", "closed"},
                                     key : Keys \cup {None}, holder : Threads \cup {None}]]
      /\ \A q \in RuntimeIds : /\ runtimes'[q].key = runtimes[q].key
                               /\ runtimes'[q].holder = runtimes[q].holder
                               /\ q # r => runtimes'[q].handle = runtimes[q].handle
      /\ runtimes'[r].handle = "closed"
  BY <1>1, <1>4, <1>6
<1>8. /\ threads' \in [Threads -> ThreadRecords] /\ threads'[t].at = "idle"
      /\ \A u \in Threads : u # t => threads'[u] = threads[u]
  BY <1>1 DEF Idle, ThreadRecords
<1>9. /\ DOMAIN entries' = DOMAIN entries \ {k}
      /\ \A j \in DOMAIN entries' : entries'[j] = entries[j]
      /\ DOMAIN storeLibraries' = DOMAIN storeLibraries \ {k[2]}
      /\ \A s \in DOMAIN storeLibraries' : storeLibraries'[s] = storeLibraries[s]
  BY <1>1
<1>10. LeaseTypeOK'
  <2>1. /\ DOMAIN entries \subseteq Keys
        /\ \A j \in DOMAIN entries : entries[j] \in [runtime : RuntimeIds, refs : Nat]
        /\ DOMAIN storeLibraries \subseteq Stores
        /\ \A s \in DOMAIN storeLibraries : storeLibraries[s] \in Libraries
    BY DEF ManagerInv, LeaseTypeOK
  <2>2. /\ DOMAIN entries' \subseteq Keys
        /\ \A j \in DOMAIN entries' : entries'[j] \in [runtime : RuntimeIds, refs : Nat]
        /\ DOMAIN storeLibraries' \subseteq Stores
        /\ \A s \in DOMAIN storeLibraries' : storeLibraries'[s] \in Libraries
    BY <1>9, <2>1
  <2> QED BY <1>1, <1>7, <1>8, <2>2 DEF ManagerInv, LeaseTypeOK, ThreadRecords
<1>11. ~Live(l)' /\ \A m \in LeaseIds : m # l => (Live(m)' <=> Live(m))
  <2>1. Releasing(l)' = {}
    <3> SUFFICES ASSUME NEW u \in Releasing(l)' PROVE FALSE
      OBVIOUS
    <3>1. u \in Threads /\ threads'[u].lease = l /\ threads'[u].at \in {"marked", "closing"}
      BY DEF Releasing
    <3>2. u # t
      BY <1>8, <3>1
    <3>3. u \in Releasing(l)
      BY <1>8, <3>1, <3>2 DEF Releasing
    <3> QED BY <1>2, <3>2, <3>3
  <2>2. ASSUME NEW m \in LeaseIds, m # l PROVE Releasing(m)' = Releasing(m)
    BY <1>0, <1>1, <1>8, <2>2 DEF Releasing
  <2> QED BY <1>1, <1>2, <2>1, <2>2 DEF Live
<1>12. \A j : j # k => Counted(j)' = Counted(j)
  <2>1. \A j, m : m \in Counted(j)' <=> m \in Counted(j) /\ m # l
    BY <1>1, <1>11, CountedIsLive
  <2>2. \A j : l \in Counted(j) => j = k
    BY <1>0, CountedIsLive
  <2> QED BY <2>1, <2>2
<1>13. \A m \in LeaseIds : LeaseInv(m)'
  <2> SUFFICES ASSUME NEW m \in LeaseIds PROVE LeaseInv(m)'
    OBVIOUS
  <2>1. LeaseInv(m)
    BY DEF ManagerInv
  <2>2. Live(m)' => Live(m) /\ leases[m].key # k
    <3> SUFFICES ASSUME Live(m)' PROVE Live(m) /\ leases[m].key # k
      OBVIOUS
    <3>1. m # l /\ Live(m)
      BY <1>11
    <3>2. m \in Counted(leases[m].key)
      BY <3>1, CountedIsLive
    <3> QED BY <1>5, <3>1, <3>2
  <2> QED BY <1>1, <1>9, <2>1, <2>2 DEF LeaseInv
<1>14. \A j \in DOMAIN entries' : EntryInv(j)'
  <2> SUFFICES ASSUME NEW j \in DOMAIN entries, j # k PROVE EntryInv(j)'
    BY <1>9
  <2>1. EntryInv(j) /\ entries[j].runtime \in RuntimeIds /\ j \in Keys
    BY DEF ManagerInv, LeaseTypeOK
  <2>2. entries'[j] = entries[j] /\ Counted(j)' = Counted(j)
    BY <1>9, <1>12
  <2>3. entries[j].runtime # r
    BY <1>0, <1>4, <2>1 DEF EntryInv
  <2>4. j[2] # k[2]
    BY <1>4, <2>1 DEF EntryInv, Keys
  <2> QED BY <1>7, <1>9, <2>1, <2>2, <2>3, <2>4 DEF EntryInv
<1>15. \A q \in RuntimeIds : RuntimeInv(q)'
  <2> SUFFICES ASSUME NEW q \in RuntimeIds, runtimes'[q].handle = "open" PROVE RuntimeInv(q)'
    BY DEF RuntimeInv
  <2>1. q # r /\ runtimes[q].handle = "open" /\ runtimes'[q].key = runtimes[q].key
    BY <1>7
  <2>2. runtimes[q].key \in DOMAIN entries /\ entries[runtimes[q].key].runtime = q
    BY <2>1 DEF ManagerInv, RuntimeInv
  <2>3. runtimes[q].key # k
    BY <1>0, <2>1, <2>2
  <2> QED BY <1>9, <2>1, <2>2, <2>3 DEF RuntimeInv
<1>16. \A u \in Threads : ThreadInv(u)'
  <2> SUFFICES ASSUME NEW u \in Threads PROVE ThreadInv(u)'
    OBVIOUS
  <2>1. CASE u = t
    BY <1>8, <2>1 DEF ThreadInv, At
  <2>2. CASE u # t
    <3>1. ThreadInv(u) /\ threads'[u] = threads[u] /\ ~At(u, "closing")
      BY <1>3, <1>8, <2>2 DEF ManagerInv, ThreadInv
    <3>2. CASE At(u, "native")
      <4>1. /\ threads[u].lease \in LeaseIds /\ leases[threads[u].lease].status # "unissued"
            /\ runtimes[leases[threads[u].lease].runtime].holder = u
        BY <3>1, <3>2 DEF ThreadInv, At
      <4>2. leases[threads[u].lease].runtime \in RuntimeIds
        BY <4>1 DEF ManagerInv, LeaseInv
      <4>3. leases[threads[u].lease].runtime # r
        BY <1>1, <4>1, LeaseAssumptions
      <4> QED BY <1>1, <1>7, <3>1, <3>2, <4>1, <4>2, <4>3 DEF ThreadInv, At
    <3>3. CASE ~At(u, "native")
      BY <1>1, <3>1, <3>3 DEF ThreadInv, At
    <3> QED BY <3>2, <3>3
  <2> QED BY <2>1, <2>2
<1> QED BY <1>10, <1>13, <1>14, <1>15, <1>16 DEF ManagerInv

-----------------------------------------------------------------------------
(* acquire().                                                              *)

LEMMA AcquireKeeps ==
  ASSUME ManagerInv, NEW t \in Threads, NEW l \in LeaseIds, NEW key \in Keys,
         Acquire(t, l, key)
  PROVE  ManagerInv'
<1>1. /\ manager = None /\ leases[l].status = "unissued"
      /\ key[2] \in DOMAIN storeLibraries => storeLibraries[key[2]] = key[1]
      /\ UNCHANGED <<manager, threads>>
  BY DEF Acquire
<1>2. PICK r \in RuntimeIds :
        /\ leases' = [leases EXCEPT ![l] = [status |-> "held", owner |-> t,
                                           key |-> key, runtime |-> r]]
        /\ \/ /\ key \in DOMAIN entries /\ r = entries[key].runtime
              /\ entries' = [entries EXCEPT ![key].refs = @ + 1]
              /\ UNCHANGED <<storeLibraries, runtimes>>
           \/ /\ key \notin DOMAIN entries /\ runtimes[r].handle = "unopened"
              /\ runtimes' = [runtimes EXCEPT ![r].handle = "open", ![r].key = key]
              /\ entries' = [k \in DOMAIN entries \cup {key} |->
                               IF k = key THEN [runtime |-> r, refs |-> 1] ELSE entries[k]]
              /\ storeLibraries' = [s \in DOMAIN storeLibraries \cup {key[2]} |->
                                      IF s = key[2] THEN key[1] ELSE storeLibraries[s]]
  <2>1. CASE Share(t, l, key)
    <3>1. key \in DOMAIN entries /\ entries[key].runtime \in RuntimeIds
      BY <2>1 DEF Share, ManagerInv, LeaseTypeOK
    <3> QED BY <2>1, <3>1 DEF Share, Issue
  <2>2. CASE Open(t, l, key)
    BY <2>2 DEF Open, Issue
  <2> QED BY <2>1, <2>2 DEF Acquire
<1>3. /\ leases \in [LeaseIds -> [status : {"unissued", "held", "released"},
                                 owner : Threads \cup {None}, key : Keys \cup {None},
                                 runtime : RuntimeIds \cup {None}]]
      /\ runtimes \in [RuntimeIds -> [handle : {"unopened", "open", "closed"},
                                  key : Keys \cup {None}, holder : Threads \cup {None}]]
      /\ DOMAIN entries \subseteq Keys
      /\ \A k \in DOMAIN entries : entries[k] \in [runtime : RuntimeIds, refs : Nat]
      /\ DOMAIN storeLibraries \subseteq Stores
      /\ \A s \in DOMAIN storeLibraries : storeLibraries[s] \in Libraries
  BY DEF ManagerInv, LeaseTypeOK
<1>4. /\ leases' \in [LeaseIds -> [status : {"unissued", "held", "released"},
                                 owner : Threads \cup {None}, key : Keys \cup {None},
                                 runtime : RuntimeIds \cup {None}]]
      /\ leases'[l].status = "held" /\ leases'[l].key = key /\ leases'[l].runtime = r
      /\ \A m \in LeaseIds : m # l => leases'[m] = leases[m]
  BY <1>2, <1>3
<1>5. /\ DOMAIN entries' = DOMAIN entries \cup {key}
      /\ \A k \in DOMAIN entries : k # key => entries'[k] = entries[k]
      /\ entries'[key].runtime = r
      /\ key \in DOMAIN entries => entries[key].runtime = r /\ entries'[key].refs = entries[key].refs + 1
      /\ key \notin DOMAIN entries => entries'[key].refs = 1
      /\ \A k \in DOMAIN entries' : entries'[k] \in [runtime : RuntimeIds, refs : Nat]
  <2>1. CASE key \in DOMAIN entries
    <3>1. entries[key].runtime = r /\ entries' = [entries EXCEPT ![key].refs = @ + 1]
      BY <1>2, <2>1
    <3>2. entries[key] \in [runtime : RuntimeIds, refs : Nat] /\ entries[key].refs + 1 \in Nat
      BY <1>3, <2>1
    <3>3. /\ DOMAIN entries' = DOMAIN entries
          /\ \A k \in DOMAIN entries : k # key => entries'[k] = entries[k]
          /\ entries'[key] = [entries[key] EXCEPT !.refs = @ + 1]
      BY <2>1, <3>1
    <3>4. entries'[key] \in [runtime : RuntimeIds, refs : Nat] /\ entries'[key].runtime = r
          /\ entries'[key].refs = entries[key].refs + 1
      <4>1. PICK a : a = entries[key]
        OBVIOUS
      <4>2. entries'[key] = [a EXCEPT !.refs = @ + 1] /\ a.runtime = r
            /\ a \in [runtime : RuntimeIds, refs : Nat] /\ a.refs + 1 \in Nat
        BY <3>1, <3>2, <3>3, <4>1
      <4> QED BY <4>1, <4>2
    <3>5. \A k \in DOMAIN entries' : entries'[k] \in [runtime : RuntimeIds, refs : Nat]
      <4> SUFFICES ASSUME NEW k \in DOMAIN entries
                   PROVE  entries'[k] \in [runtime : RuntimeIds, refs : Nat]
        BY <3>3
      <4>1. CASE k = key
        BY <3>4, <4>1
      <4>2. CASE k # key
        BY <1>3, <3>3, <4>2
      <4> QED BY <4>1, <4>2
    <3>6. DOMAIN entries' = DOMAIN entries \cup {key}
      BY <2>1, <3>3
    <3> QED BY <2>1, <3>1, <3>3, <3>4, <3>5, <3>6
  <2>2. CASE key \notin DOMAIN entries
    <3>1. entries' = [k \in DOMAIN entries \cup {key} |->
                        IF k = key THEN [runtime |-> r, refs |-> 1] ELSE entries[k]]
      BY <1>2, <2>2
    <3>2. /\ DOMAIN entries' = DOMAIN entries \cup {key}
          /\ \A k \in DOMAIN entries : k # key => entries'[k] = entries[k]
          /\ entries'[key] = [runtime |-> r, refs |-> 1]
      BY <3>1
    <3> QED BY <1>3, <2>2, <3>2
  <2> QED BY <2>1, <2>2
<1>6. /\ runtimes' \in [RuntimeIds -> [handle : {"unopened", "open", "closed"},
                                  key : Keys \cup {None}, holder : Threads \cup {None}]]
      /\ runtimes'[r].handle = "open" /\ runtimes'[r].key = key
      /\ \A q \in RuntimeIds : /\ runtimes'[q].holder = runtimes[q].holder
                               /\ q # r => runtimes'[q] = runtimes[q]
      /\ key \notin DOMAIN entries => runtimes[r].handle = "unopened"
  <2>1. CASE key \in DOMAIN entries
    <3>1. EntryInv(key)
      BY <2>1 DEF ManagerInv
    <3> QED BY <1>2, <1>3, <2>1, <3>1 DEF EntryInv
  <2>2. CASE key \notin DOMAIN entries
    <3>1. /\ runtimes[r].handle = "unopened"
          /\ runtimes' = [runtimes EXCEPT ![r].handle = "open", ![r].key = key]
      BY <1>2, <2>2
    <3>2. /\ DOMAIN runtimes' = RuntimeIds
          /\ \A q \in RuntimeIds : q # r => runtimes'[q] = runtimes[q]
          /\ runtimes'[r] = [[runtimes[r] EXCEPT !.handle = "open"] EXCEPT !.key = key]
      BY <1>3, <3>1
    <3>3. /\ runtimes'[r] \in [handle : {"unopened", "open", "closed"},
                               key : Keys \cup {None}, holder : Threads \cup {None}]
          /\ runtimes'[r].handle = "open" /\ runtimes'[r].key = key
          /\ runtimes'[r].holder = runtimes[r].holder
      <4>1. PICK a : a = runtimes[r]
        OBVIOUS
      <4>2. a \in [handle : {"unopened", "open", "closed"},
                  key : Keys \cup {None}, holder : Threads \cup {None}]
        BY <1>3, <4>1
      <4>3. runtimes'[r] = [[a EXCEPT !.handle = "open"] EXCEPT !.key = key]
        BY <3>2, <4>1
      <4> QED BY <4>1, <4>2, <4>3
    <3>4. runtimes' \in [RuntimeIds -> [handle : {"unopened", "open", "closed"},
                                  key : Keys \cup {None}, holder : Threads \cup {None}]]
      <4>1. runtimes' = [q \in RuntimeIds |-> runtimes'[q]]
        BY <1>3, <3>1
      <4>2. \A q \in RuntimeIds :
              runtimes'[q] \in [handle : {"unopened", "open", "closed"},
                                key : Keys \cup {None}, holder : Threads \cup {None}]
        BY <1>3, <3>2, <3>3
      <4> QED BY <4>1, <4>2
    <3> QED BY <2>2, <3>1, <3>2, <3>3, <3>4
  <2> QED BY <2>1, <2>2
<1>7. /\ DOMAIN storeLibraries \subseteq DOMAIN storeLibraries'
      /\ \A s \in DOMAIN storeLibraries : storeLibraries'[s] = storeLibraries[s]
      /\ key[2] \in DOMAIN storeLibraries' /\ storeLibraries'[key[2]] = key[1]
      /\ DOMAIN storeLibraries' \subseteq Stores
      /\ \A s \in DOMAIN storeLibraries' : storeLibraries'[s] \in Libraries
  <2>1. key[1] \in Libraries /\ key[2] \in Stores
    BY DEF Keys
  <2>2. CASE key \in DOMAIN entries
    <3>1. EntryInv(key)
      BY <2>2 DEF ManagerInv
    <3> QED BY <1>2, <1>3, <2>2, <3>1 DEF EntryInv
  <2>3. CASE key \notin DOMAIN entries
    BY <1>1, <1>2, <1>3, <2>1, <2>3
  <2> QED BY <2>2, <2>3
<1>8. LeaseTypeOK'
  BY <1>1, <1>3, <1>4, <1>5, <1>6, <1>7 DEF ManagerInv, LeaseTypeOK
<1>9. /\ \A m : Releasing(m)' = Releasing(m)
      /\ ~Live(l) /\ Live(l)'
      /\ \A m \in LeaseIds : m # l => (Live(m)' <=> Live(m))
  <2>1. \A m : Releasing(m)' = Releasing(m)
    BY <1>1 DEF Releasing
  <2>2. Releasing(l) = {}
    BY <1>1, OwnerReleases DEF ManagerInv
  <2> QED BY <1>1, <1>4, <2>1, <2>2 DEF Live
<1>10. Counted(key)' = Counted(key) \cup {l} /\ l \notin Counted(key)
       /\ \A k : k # key => Counted(k)' = Counted(k)
  <2>1. \A k, m : m \in Counted(k)' <=> m \in Counted(k) \/ (m = l /\ k = key)
    BY <1>4, <1>9, CountedIsLive
  <2>2. \A k : l \notin Counted(k)
    BY <1>9, CountedIsLive
  <2> QED BY <2>1, <2>2
<1>11. Cardinality(Counted(key)') = Cardinality(Counted(key)) + 1
  BY <1>10, CountedFinite, FS_AddElement
<1>12. key \notin DOMAIN entries => Cardinality(Counted(key)) = 0
  <2> SUFFICES ASSUME key \notin DOMAIN entries PROVE Cardinality(Counted(key)) = 0
    OBVIOUS
  <2>1. \A m : m \notin Counted(key)
    BY CountedIsLive DEF ManagerInv, LeaseInv
  <2>2. Counted(key) = {}
    BY <2>1
  <2> QED BY <2>2, FS_EmptySet
<1>13. \A m \in LeaseIds : LeaseInv(m)'
  <2> SUFFICES ASSUME NEW m \in LeaseIds PROVE LeaseInv(m)'
    OBVIOUS
  <2>1. CASE m = l
    BY <1>4, <1>5, <2>1 DEF LeaseInv
  <2>2. CASE m # l
    <3>1. LeaseInv(m) /\ leases'[m] = leases[m]
      BY <1>4, <2>2 DEF ManagerInv
    <3>2. Live(m)' => Live(m)
      BY <1>9, <2>2
    <3> QED BY <1>5, <3>1, <3>2 DEF LeaseInv
  <2> QED BY <2>1, <2>2
<1>14. \A k \in DOMAIN entries' : EntryInv(k)'
  <2> SUFFICES ASSUME NEW k \in DOMAIN entries' PROVE EntryInv(k)'
    OBVIOUS
  <2>1. CASE k = key
    <3>1. entries'[key].refs = Cardinality(Counted(key)')
      BY <1>5, <1>11, <1>12, CountedFinite DEF ManagerInv, EntryInv
    <3> QED BY <1>5, <1>6, <1>7, <2>1, <3>1 DEF EntryInv
  <2>2. CASE k # key
    <3>1. k \in DOMAIN entries /\ entries'[k] = entries[k] /\ Counted(k)' = Counted(k)
      BY <1>5, <1>10, <2>2
    <3>2. EntryInv(k) /\ entries[k].runtime \in RuntimeIds
      BY <1>3, <3>1 DEF ManagerInv
    <3>3. entries[k].runtime # r
      <4>1. CASE key \in DOMAIN entries
        <5>1. EntryInv(key) /\ entries[key].runtime = r
          BY <1>5, <4>1 DEF ManagerInv
        <5> QED BY <2>2, <3>2, <5>1 DEF EntryInv
      <4>2. CASE key \notin DOMAIN entries
        BY <1>6, <3>2, <4>2 DEF EntryInv
      <4> QED BY <4>1, <4>2
    <3> QED BY <1>6, <1>7, <3>1, <3>2, <3>3 DEF EntryInv
  <2> QED BY <2>1, <2>2
<1>15. \A q \in RuntimeIds : RuntimeInv(q)'
  <2> SUFFICES ASSUME NEW q \in RuntimeIds, runtimes'[q].handle = "open" PROVE RuntimeInv(q)'
    BY DEF RuntimeInv
  <2>1. CASE q = r
    BY <1>5, <1>6, <2>1 DEF RuntimeInv
  <2>2. CASE q # r
    <3>1. /\ runtimes'[q] = runtimes[q] /\ runtimes[q].key \in DOMAIN entries
          /\ entries[runtimes[q].key].runtime = q
      BY <1>6, <2>2 DEF ManagerInv, RuntimeInv
    <3> QED BY <1>5, <2>2, <3>1 DEF RuntimeInv
  <2> QED BY <2>1, <2>2
<1>16. \A u \in Threads : ThreadInv(u)'
  <2> SUFFICES ASSUME NEW u \in Threads PROVE ThreadInv(u)'
    OBVIOUS
  <2>1. ThreadInv(u) /\ threads'[u] = threads[u] /\ u # None
    BY <1>1, LeaseAssumptions DEF ManagerInv
  <2>2. CASE At(u, "idle")
    BY <2>1, <2>2 DEF ThreadInv, At
  <2>3. CASE ~At(u, "idle")
    <3> DEFINE m == threads[u].lease
    <3>1. m \in LeaseIds /\ leases'[m] = leases[m] /\ leases[m].status # "unissued"
      BY <1>1, <1>4, <2>1, <2>3 DEF ThreadInv
    <3>2. leases[m].runtime \in RuntimeIds
      BY <3>1 DEF ManagerInv, LeaseInv
    <3>3. runtimes[leases[m].runtime].handle = "open" =>
            runtimes'[leases[m].runtime].handle = "open"
      BY <1>6, <3>2
    <3>4. ~At(u, "closing")
      BY <1>1, <2>1 DEF ThreadInv
    <3> QED BY <1>1, <1>6, <2>1, <3>1, <3>2, <3>3, <3>4 DEF ThreadInv, At
  <2> QED BY <2>2, <2>3
<1> QED BY <1>8, <1>13, <1>14, <1>15, <1>16 DEF ManagerInv

-----------------------------------------------------------------------------
LEMMA ManagerInvIsInductive ==
  ASSUME ManagerInv, ~SharedRelease, [LeaseNext]_leaseVars
  PROVE  ManagerInv'
<1>1. ASSUME NEW t \in Threads, NEW l \in LeaseIds, NEW key \in Keys, Acquire(t, l, key)
      PROVE  ManagerInv'
  BY <1>1, AcquireKeeps
<1>2. ASSUME NEW t \in Threads, NEW l \in LeaseIds, BeginCall(t, l) \/ BeginRelease(t, l)
      PROVE  ManagerInv'
  BY <1>2, BeginsKeep
<1>3. ASSUME NEW t \in Threads, Progress(t)
      PROVE  ManagerInv'
  BY <1>3, CallsKeep, MarkKeeps, DropKeeps, CloseKeeps DEF Progress
<1>4. CASE UNCHANGED leaseVars
  <2>1. UNCHANGED <<entries, storeLibraries, runtimes, leases, manager, threads>>
    BY <1>4 DEF leaseVars
  <2>2. LeaseTypeOK' /\ \A r \in RuntimeIds : RuntimeInv(r)'
    BY <2>1 DEF ManagerInv, LeaseTypeOK, RuntimeInv
  <2>3. \A t \in Threads : ThreadInv(t)'
    BY <2>1 DEF ManagerInv, ThreadInv, At
  <2>4. \A l \in LeaseIds : LeaseInv(l)'
    BY <2>1 DEF ManagerInv, LeaseInv, Live, Releasing
  <2>5. \A k : Counted(k)' = Counted(k)
    BY <2>1 DEF Counted, Releasing
  <2>6. \A k \in DOMAIN entries' : EntryInv(k)'
    BY <2>1, <2>5 DEF ManagerInv, EntryInv
  <2> QED BY <2>2, <2>3, <2>4, <2>6 DEF ManagerInv
<1> QED BY <1>1, <1>2, <1>3, <1>4 DEF LeaseNext

LEMMA InitManager == LeaseInit => ManagerInv
<1> SUFFICES ASSUME LeaseInit PROVE ManagerInv
  OBVIOUS
<1>1. LeaseTypeOK
  BY DEF LeaseInit, LeaseTypeOK, Idle
<1>2. \A t \in Threads : At(t, "idle")
  BY DEF LeaseInit, Idle, At
<1>3. \A t \in Threads : ThreadInv(t)
  BY <1>2 DEF ThreadInv, At
<1>4. \A l \in LeaseIds : ~Live(l)
  BY <1>2 DEF LeaseInit, Live, Releasing, At
<1>5. /\ \A l \in LeaseIds : LeaseInv(l)
      /\ \A k \in DOMAIN entries : EntryInv(k)
      /\ \A r \in RuntimeIds : RuntimeInv(r)
  BY <1>4 DEF LeaseInit, LeaseInv, RuntimeInv
<1> QED BY <1>1, <1>3, <1>5 DEF ManagerInv

LEMMA ManagerInvGives == ASSUME ManagerInv PROVE LeasesSafe
<1>1. \A k \in DOMAIN entries : entries[k].refs = Cardinality(Counted(k))
  BY DEF ManagerInv, EntryInv
<1>2. ASSUME NEW l \in LeaseIds, leases[l].status = "held"
      PROVE  /\ leases[l].key \in DOMAIN entries
             /\ entries[leases[l].key].runtime = leases[l].runtime
             /\ runtimes[leases[l].runtime].handle = "open"
  <2>1. Live(l) /\ LeaseInv(l)
    BY <1>2 DEF Live, ManagerInv
  <2>2. EntryInv(leases[l].key)
    BY <2>1 DEF LeaseInv, ManagerInv
  <2> QED BY <2>1, <2>2 DEF LeaseInv, EntryInv
<1>3. \A t \in Threads : At(t, "native") /\ threads[t].handle # None =>
        runtimes[threads[t].handle].handle = "open"
  BY DEF ManagerInv, ThreadInv
<1>4. ASSUME NEW r \in RuntimeIds, NEW q \in RuntimeIds,
             runtimes[r].handle = "open", runtimes[q].handle = "open",
             runtimes[r].key[2] = runtimes[q].key[2]
      PROVE  r = q
  <2> DEFINE j == runtimes[r].key
             k == runtimes[q].key
  <2>1. /\ j \in DOMAIN entries /\ entries[j].runtime = r
        /\ k \in DOMAIN entries /\ entries[k].runtime = q
    BY <1>4 DEF ManagerInv, RuntimeInv
  <2>2. EntryInv(j) /\ EntryInv(k) /\ j \in Keys /\ k \in Keys
    BY <2>1 DEF ManagerInv, LeaseTypeOK
  <2>3. j = k
    BY <1>4, <2>2 DEF EntryInv, Keys
  <2> QED BY <2>1, <2>3
<1> QED BY <1>1, <1>2, <1>3, <1>4 DEF LeasesSafe, LeaseBacked, HandlesSafe, ManagerInv

\* Whichever thread acquires, calls or releases when, a lease that nobody
\* released has its open runtime, its entry counts it, no call is inside the
\* library on a closed handle and no store is open twice, if a lease is released
\* by the thread that holds it (NativeRuntimeManager, NativeRuntimeLease.release).
THEOREM LeasesAreSafe ==
  ASSUME ~SharedRelease
  PROVE  LeaseSpec => []LeasesSafe
<1>1. ManagerInv /\ [LeaseNext]_leaseVars => ManagerInv'
  BY ManagerInvIsInductive
<1> QED BY <1>1, InitManager, ManagerInvGives, PTL DEF LeaseSpec

-----------------------------------------------------------------------------
(* What is read back row by row: a function over the places of a sequence, *)
(* each value from the one before.                                         *)

LEMMA MaxExists ==
  ASSUME NEW S \in SUBSET Nat, IsFiniteSet(S), S # {}
  PROVE  \E m \in S : \A j \in S : j <= m
<1> DEFINE above(n) == {j \in S : j > n}
           family == {above(n) : n \in S}
<1>1. family # {} /\ family \subseteq FiniteSubsetsOf(S)
  <2>1. \A n \in S : above(n) \in SUBSET S /\ IsFiniteSet(above(n))
    BY FS_Subset
  <2> QED BY <2>1 DEF FiniteSubsetsOf
<1>2. IsWellFoundedOn(StrictSubsetOrdering(S), FiniteSubsetsOf(S))
  BY FS_StrictSubsetOrderingWellFounded
<1> HIDE DEF family
<1>3. PICK least \in family : \A A \in family : ~(<<A, least>> \in StrictSubsetOrdering(S))
  BY <1>1, <1>2, WFMin
<1>4. PICK m \in S : least = above(m)
  BY DEF family
<1>5. ASSUME NEW j \in S, j > m PROVE FALSE
  <2>1. above(j) \in family
    BY DEF family
  <2>2. /\ j \in least /\ j \notin above(j)
        /\ \A x \in above(j) : x \in least
    <3>1. \A x \in S : x > j => x > m
      BY <1>5
    <3> QED BY <1>4, <1>5, <3>1
  <2>3. <<above(j), least>> \in StrictSubsetOrdering(S)
    BY <1>4, <2>2 DEF StrictSubsetOrdering
  <2> QED BY <1>3, <2>1, <2>3
<1> QED BY <1>5

LEMMA Upwards ==
  ASSUME NEW N \in Nat, NEW P, 0 \in P, \A n \in 0..N : n < N /\ n \in P => n + 1 \in P
  PROVE  0..N \subseteq P
<1> DEFINE good == {m \in 0..N : 0..m \subseteq P}
<1>1. good \in SUBSET Nat /\ IsFiniteSet(good) /\ 0 \in good
  <2>1. IsFiniteSet(0..N) /\ good \subseteq 0..N
    BY FS_Interval
  <2> QED BY <2>1, FS_Subset
<1> HIDE DEF good
<1>2. PICK m \in good : \A j \in good : j <= m
  BY <1>1, MaxExists
<1> USE DEF good
<1>3. ASSUME m < N PROVE FALSE
  <2>1. m + 1 \in P /\ m + 1 \in 0..N
    BY <1>3
  <2>2. \A n \in 0..m + 1 : n \in 0..m \/ n = m + 1
    OBVIOUS
  <2>3. m + 1 \in good
    BY <2>1, <2>2
  <2> QED BY <1>2, <2>3
<1> QED BY <1>3

Steps(S, N) == [S \X (1..N) -> S]
ValuesOf(S, N, start, step) ==
  {f \in [0..N -> S] : f[0] = start /\ \A n \in 1..N : f[n] = step[<<f[n - 1], n>>]}

LEMMA StepwiseExists ==
  ASSUME NEW N \in Nat, NEW S, NEW start \in S, NEW step \in Steps(S, N)
  PROVE  ValuesOf(S, N, start, step) # {}
<1> USE DEF Steps
<1> DEFINE Upto(m, f) == /\ f \in [0..m -> S]
                         /\ f[0] = start /\ \A n \in 1..m : f[n] = step[<<f[n - 1], n>>]
           P == {m \in 0..N : \E f : Upto(m, f)}
<1>1. 0 \in P
  <2> DEFINE g == [n \in 0..0 |-> start]
  <2>1. Upto(0, g)
    OBVIOUS
  <2> HIDE DEF g
  <2> QED BY <2>1
<1>2. ASSUME NEW m \in 0..N, m < N, m \in P PROVE m + 1 \in P
  <2>1. PICK f : Upto(m, f)
    BY <1>2
  <2> DEFINE g == [n \in 0..m + 1 |-> IF n <= m THEN f[n] ELSE step[<<f[m], m + 1>>]]
  <2>2. m + 1 \in 1..N /\ f[m] \in S
    BY <1>2, <2>1
  <2>3. g \in [0..m + 1 -> S]
    BY <2>1, <2>2
  <2>4. ASSUME NEW n \in 1..m + 1 PROVE g[n] = step[<<g[n - 1], n>>]
    <3>1. CASE n <= m
      <4>1. n \in 1..m /\ n \in 0..m + 1 /\ n - 1 \in 0..m + 1 /\ n - 1 <= m
        BY <3>1
      <4>2. g[n] = f[n] /\ g[n - 1] = f[n - 1]
        BY <3>1, <4>1
      <4> QED BY <2>1, <4>1, <4>2
    <3>2. CASE n = m + 1
      <4>1. g[n] = step[<<f[m], m + 1>>] /\ n - 1 = m /\ m \in 0..m + 1
        BY <3>2
      <4>2. g[n - 1] = f[m]
        BY <4>1
      <4> QED BY <3>2, <4>1, <4>2
    <3> QED BY <3>1, <3>2
  <2>6. g[0] = start
    BY <2>1
  <2> HIDE DEF g
  <2>5. Upto(m + 1, g)
    BY <2>3, <2>4, <2>6
  <2> QED BY <2>2, <2>5
<1>3. N \in P
  <2> HIDE DEF P
  <2>1. 0..N \subseteq P
    BY <1>1, <1>2, Upwards
  <2> QED BY <2>1
<1> QED BY <1>3 DEF ValuesOf

-----------------------------------------------------------------------------
(* The epochs a snapshot is read back with.                                *)

Edges ==
  [subject : Nat, predicate : Nat, object : Nat, space : Spaces, origin : Origins,
   confidence : Nat, epoch : Nat]

EpochStep(epochs, e) == [epochs EXCEPT ![e.space] = EpochAfter(@, {e.epoch})]

LEMMA EpochStepType ==
  ASSUME NEW epochs \in [Spaces -> Nat], NEW e \in Edges
  PROVE  /\ EpochStep(epochs, e) \in [Spaces -> Nat]
         /\ EpochStep(epochs, e)[e.space] > e.epoch
         /\ \A s \in Spaces : EpochStep(epochs, e)[s] >= epochs[s]
<1>1. e.space \in Spaces /\ e.epoch \in Nat
  BY DEF Edges
<1>2. Given({e.epoch}) = e.epoch
  BY DEF Given
<1>3. \A k \in Nat : EpochAfter(k, {e.epoch}) \in Nat /\ EpochAfter(k, {e.epoch}) >= k
                      /\ EpochAfter(k, {e.epoch}) > e.epoch
  BY <1>1, <1>2 DEF EpochAfter, Later
<1> QED BY <1>1, <1>3 DEF EpochStep

LEMMA EpochsUnfold ==
  ASSUME NEW told \in Seq(Edges)
  PROVE  \E f \in [0..Len(told) -> [Spaces -> Nat]] :
            /\ f[0] = [s \in Spaces |-> 0]
            /\ \A n \in 1..Len(told) : f[n] = EpochStep(f[n - 1], told[n])
            /\ EpochsOf(told) = f[Len(told)]
<1> DEFINE N == Len(told)
           S == [Spaces -> Nat]
           zero == [s \in Spaces |-> 0]
           step == [p \in S \X (1..N) |-> EpochStep(p[1], told[p[2]])]
           Is(f) == f = [n \in 0..N |-> IF n = 0 THEN zero
                           ELSE [f[n - 1] EXCEPT ![told[n].space] = EpochAfter(@, {told[n].epoch})]]
           after == CHOOSE f : Is(f)
<1>1. N \in Nat /\ zero \in S /\ \A n \in 1..N : told[n] \in Edges
  OBVIOUS
<1>2. step \in [S \X (1..N) -> S]
  BY <1>1, EpochStepType
<1>3. \A x \in S, n \in 1..N : step[<<x, n>>] = EpochStep(x, told[n])
  OBVIOUS
<1>4. \E f : Is(f)
  <2> HIDE DEF step, S, zero, N
  <2>1. PICK f \in [0..N -> S] : f[0] = zero /\ \A n \in 1..N : f[n] = step[<<f[n - 1], n>>]
    <3>1. step \in Steps(S, N)
      BY <1>2 DEF Steps
    <3>2. ValuesOf(S, N, zero, step) # {}
      BY <1>1, <3>1, StepwiseExists
    <3> QED BY <3>2 DEF ValuesOf
  <2>2. \A n \in 0..N : n # 0 => n \in 1..N /\ f[n - 1] \in S
    BY <1>1
  <2>3. \A n \in 0..N : n # 0 => f[n] = EpochStep(f[n - 1], told[n])
    BY <1>3, <2>1, <2>2
  <2>4. Is(f)
    BY <2>1, <2>3 DEF EpochStep
  <2> QED BY <2>4
<1>5. Is(after)
  BY <1>4
<1>6. EpochsOf(told) = after[N]
  BY DEF EpochsOf
<1> HIDE DEF after
<1>7. after[0] = zero /\ \A n \in 1..N : after[n] = EpochStep(after[n - 1], told[n])
  <2>1. \A n \in 0..N :
          after[n] = IF n = 0 THEN zero
                     ELSE [after[n - 1] EXCEPT ![told[n].space] = EpochAfter(@, {told[n].epoch})]
    BY <1>5
  <2> HIDE DEF zero, N
  <2>2. \A n \in 1..N : n \in 0..N /\ n # 0
    BY <1>1
  <2>3. after[0] = zero
    <3>1. 0 \in 0..N
      BY <1>1
    <3> QED BY <2>1, <3>1
  <2>4. ASSUME NEW n \in 1..N PROVE after[n] = EpochStep(after[n - 1], told[n])
    <3>1. after[n] = [after[n - 1] EXCEPT ![told[n].space] = EpochAfter(@, {told[n].epoch})]
      BY <2>1, <2>2
    <3> QED BY <3>1 DEF EpochStep
  <2> QED BY <2>3, <2>4
<1> DEFINE P == {n \in 0..N : after[n] \in S}
<1>8. 0..N \subseteq P
  <2>1. 0 \in P
    BY <1>1, <1>7
  <2>2. ASSUME NEW n \in 0..N, n < N, n \in P PROVE n + 1 \in P
    <3>1. n + 1 \in 1..N /\ (n + 1) - 1 = n
      BY <1>1, <2>2
    <3>2. after[n + 1] = EpochStep(after[n], told[n + 1])
      BY <1>7, <3>1
    <3>3. after[n + 1] \in S
      BY <1>1, <2>2, <3>1, <3>2, EpochStepType
    <3> QED BY <3>1, <3>3
  <2> HIDE DEF P
  <2> QED BY <1>1, <2>1, <2>2, Upwards
<1>9. after \in [0..N -> S]
  <2>1. after = [n \in 0..N |-> after[n]]
    BY <1>5
  <2> QED BY <1>8, <2>1
<1> QED BY <1>6, <1>7, <1>9

\* A row more is read last.
LEMMA EpochsAppend ==
  ASSUME NEW told \in Seq(Edges), NEW e \in Edges
  PROVE  EpochsOf(Append(told, e)) = EpochStep(EpochsOf(told), e)
<1> DEFINE N == Len(told)
           new == Append(told, e)
<1>1. /\ N \in Nat /\ new \in Seq(Edges) /\ Len(new) = N + 1 /\ new[N + 1] = e
      /\ \A n \in 1..N : new[n] = told[n]
  OBVIOUS
<1>2. PICK f : /\ f[0] = [s \in Spaces |-> 0]
               /\ \A n \in 1..N : f[n] = EpochStep(f[n - 1], told[n])
               /\ EpochsOf(told) = f[N]
  BY EpochsUnfold
<1>3. PICK g : /\ g[0] = [s \in Spaces |-> 0]
               /\ \A n \in 1..N + 1 : g[n] = EpochStep(g[n - 1], new[n])
               /\ EpochsOf(new) = g[N + 1]
  <2> HIDE DEF new
  <2> QED BY <1>1, EpochsUnfold
<1> HIDE DEF new
<1> DEFINE P == {n \in 0..N : f[n] = g[n]}
<1>4. 0..N \subseteq P
  <2>1. 0 \in P
    BY <1>1, <1>2, <1>3
  <2>2. ASSUME NEW n \in 0..N, n < N, n \in P PROVE n + 1 \in P
    <3>1. n + 1 \in 1..N /\ n + 1 \in 1..N + 1 /\ (n + 1) - 1 = n
      BY <1>1, <2>2
    <3>2. f[n + 1] = EpochStep(f[n], told[n + 1]) /\ g[n + 1] = EpochStep(g[n], new[n + 1])
      BY <1>2, <1>3, <3>1
    <3> QED BY <1>1, <2>2, <3>1, <3>2
  <2> HIDE DEF P
  <2> QED BY <1>1, <2>1, <2>2, Upwards
<1>5. f[N] = g[N]
  BY <1>1, <1>4
<1>6. g[N + 1] = EpochStep(g[N], new[N + 1])
  <2>1. N + 1 \in 1..N + 1 /\ (N + 1) - 1 = N
    BY <1>1
  <2> QED BY <1>3, <2>1
<1> QED BY <1>1, <1>2, <1>3, <1>5, <1>6 DEF new

-----------------------------------------------------------------------------
(* What the adjudications of a snapshot are read back as.                  *)

Counts == [Origins -> [confirmed : Nat, contradicted : Nat]]
Cores ==
  [applied : SUBSET Resolutions, refused : BOOLEAN, stats : Counts,
   trust : SUBSET (Origins \X Origins)]

LEMMA JudgedAfterType ==
  ASSUME NEW judged \in Cores, NEW r \in Adjudications(Nat)
  PROVE  JudgedAfter(judged, r) \in Cores
<1>1. /\ r.id \in Resolutions /\ r.origin \in Origins /\ r.judges \in SUBSET Origins
      /\ r.confirmed \in BOOLEAN /\ r.weight \in Nat
  BY DEF Adjudications
<1>2. /\ judged.applied \in SUBSET Resolutions /\ judged.refused \in BOOLEAN
      /\ judged.stats \in Counts /\ judged.trust \in SUBSET (Origins \X Origins)
  BY DEF Cores
<1>3. Judged(judged.stats, r) \in Counts
  BY <1>1, <1>2 DEF Judged, Counts
<1>4. judged.trust \cup Trusting(r) \in SUBSET (Origins \X Origins)
  BY <1>1, <1>2 DEF Trusting
<1>5. (judged.refused \/ ~Acceptable(judged.applied, judged.trust, r)) \in BOOLEAN
  OBVIOUS
<1> QED BY <1>1, <1>2, <1>3, <1>4, <1>5 DEF JudgedAfter, Cores

LEMMA JudgedUnfold ==
  ASSUME NEW records \in Seq(Adjudications(Nat))
  PROVE  \E f \in [0..Len(records) -> Cores] :
            /\ f[0] = NotJudged
            /\ \A n \in 1..Len(records) : f[n] = JudgedAfter(f[n - 1], records[n])
            /\ JudgedBy(records) = f[Len(records)]
<1> DEFINE N == Len(records)
           step == [p \in Cores \X (1..N) |-> JudgedAfter(p[1], records[p[2]])]
           Is(f) == f = [n \in 0..N |-> IF n = 0 THEN NotJudged
                                        ELSE JudgedAfter(f[n - 1], records[n])]
           after == CHOOSE f : Is(f)
<1>1. N \in Nat /\ \A n \in 1..N : records[n] \in Adjudications(Nat)
  OBVIOUS
<1>2. NotJudged \in Cores
  BY DEF NotJudged, Cores, Counts, Unjudged
<1>3. step \in Steps(Cores, N)
  BY <1>1, JudgedAfterType DEF Steps
<1>4. \A x \in Cores, n \in 1..N : step[<<x, n>>] = JudgedAfter(x, records[n])
  OBVIOUS
<1> HIDE DEF step, N
<1>5. PICK f \in [0..N -> Cores] :
        f[0] = NotJudged /\ \A n \in 1..N : f[n] = JudgedAfter(f[n - 1], records[n])
  <2>1. ValuesOf(Cores, N, NotJudged, step) # {}
    BY <1>1, <1>2, <1>3, StepwiseExists
  <2>2. PICK f \in [0..N -> Cores] :
          f[0] = NotJudged /\ \A n \in 1..N : f[n] = step[<<f[n - 1], n>>]
    BY <2>1 DEF ValuesOf
  <2>3. \A n \in 1..N : f[n - 1] \in Cores
    BY <1>1
  <2> QED BY <1>4, <2>2, <2>3
<1>6. Is(f)
  <2>1. \A n \in 0..N : n # 0 => n \in 1..N
    BY <1>1
  <2> QED BY <1>5, <2>1
<1>7. Is(after)
  BY <1>6
<1>8. JudgedBy(records) = after[N]
  BY DEF JudgedBy, N
<1> HIDE DEF after
<1> DEFINE P == {n \in 0..N : after[n] = f[n]}
<1>9. 0..N \subseteq P
  <2>1. 0 \in P
    <3>1. 0 \in 0..N
      BY <1>1
    <3> QED BY <1>5, <1>7, <3>1
  <2>2. ASSUME NEW n \in 0..N, n < N, n \in P PROVE n + 1 \in P
    <3>1. n + 1 \in 1..N /\ n + 1 \in 0..N /\ (n + 1) - 1 = n /\ n + 1 # 0
      BY <1>1, <2>2
    <3>2. f[n + 1] = JudgedAfter(f[n], records[n + 1])
      BY <1>5, <3>1
    <3>3. after[n + 1] = JudgedAfter(after[n], records[n + 1])
      BY <1>7, <3>1
    <3> QED BY <2>2, <3>1, <3>2, <3>3
  <2> HIDE DEF P
  <2> QED BY <1>1, <2>1, <2>2, Upwards
<1>10. JudgedBy(records) = f[N]
  BY <1>1, <1>8, <1>9
<1> QED BY <1>5, <1>10 DEF N

LEMMA JudgedAppend ==
  ASSUME NEW records \in Seq(Adjudications(Nat)), NEW r \in Adjudications(Nat)
  PROVE  JudgedBy(Append(records, r)) = JudgedAfter(JudgedBy(records), r)
<1> DEFINE N == Len(records)
           new == Append(records, r)
<1>1. /\ N \in Nat /\ new \in Seq(Adjudications(Nat)) /\ Len(new) = N + 1 /\ new[N + 1] = r
      /\ \A n \in 1..N : new[n] = records[n]
  OBVIOUS
<1>2. PICK f : /\ f[0] = NotJudged
               /\ \A n \in 1..N : f[n] = JudgedAfter(f[n - 1], records[n])
               /\ JudgedBy(records) = f[N]
  BY JudgedUnfold
<1>3. PICK g : /\ g[0] = NotJudged
               /\ \A n \in 1..N + 1 : g[n] = JudgedAfter(g[n - 1], new[n])
               /\ JudgedBy(new) = g[N + 1]
  <2> HIDE DEF new
  <2> QED BY <1>1, JudgedUnfold
<1> HIDE DEF new
<1> DEFINE P == {n \in 0..N : f[n] = g[n]}
<1>4. 0..N \subseteq P
  <2>1. 0 \in P
    BY <1>1, <1>2, <1>3
  <2>2. ASSUME NEW n \in 0..N, n < N, n \in P PROVE n + 1 \in P
    <3>1. n + 1 \in 1..N /\ n + 1 \in 1..N + 1 /\ (n + 1) - 1 = n
      BY <1>1, <2>2
    <3>2. f[n + 1] = JudgedAfter(f[n], records[n + 1]) /\ g[n + 1] = JudgedAfter(g[n], new[n + 1])
      BY <1>2, <1>3, <3>1
    <3> QED BY <1>1, <2>2, <3>1, <3>2
  <2> HIDE DEF P
  <2> QED BY <1>1, <2>1, <2>2, Upwards
<1>5. f[N] = g[N]
  BY <1>1, <1>4
<1>6. g[N + 1] = JudgedAfter(g[N], new[N + 1])
  <2>1. N + 1 \in 1..N + 1 /\ (N + 1) - 1 = N
    BY <1>1
  <2> QED BY <1>3, <2>1
<1> QED BY <1>1, <1>2, <1>3, <1>5, <1>6 DEF new

-----------------------------------------------------------------------------
(* Trust is grounded: whoever an origin reaches cannot judge it, so a group  *)
(* either has a member the origin does not reach, or none of its judges.    *)

LEMMA StaysGrounded ==
  ASSUME NEW judgments \in Seq(Adjudications(Nat)), NEW r \in Adjudications(Nat),
         NEW graph \in SUBSET (Origins \X Origins),
         \A i \in DOMAIN judgments : Trusting(judgments[i]) \subseteq graph,
         IndependentOf(graph, r.origin, r.judges),
         NEW group \in (SUBSET Origins) \ {{}},
         \A G \in (SUBSET Origins) \ {{}} : \E o \in G :
             \A i \in DOMAIN judgments : judgments[i].origin = o => judgments[i].judges \cap G = {}
  PROVE  \E o \in group :
            /\ \A i \in DOMAIN judgments : judgments[i].origin = o => judgments[i].judges \cap group = {}
            /\ r.origin = o => r.judges \cap group = {}
<1> DEFINE reached == {o \in Origins : Reaches(graph, r.origin, o)}
<1>1. r.origin \in Origins /\ r.judges \in SUBSET Origins
  BY DEF Adjudications
<1>2. \A i \in DOMAIN judgments : \A j \in judgments[i].judges : <<j, judgments[i].origin>> \in graph
  BY DEF Trusting
<1>3. r.origin \in reached /\ r.judges \cap reached = {}
  BY <1>1 DEF Reaches, IndependentOf
<1>4. \A e \in graph : e[1] \in reached => e[2] \in reached
  BY DEF Reaches
<1> HIDE DEF reached
<1>5. CASE group \subseteq reached
  <2>1. PICK o \in group :
          \A i \in DOMAIN judgments : judgments[i].origin = o => judgments[i].judges \cap group = {}
    OBVIOUS
  <2>2. r.judges \cap group = {}
    BY <1>3, <1>5
  <2> QED BY <2>1, <2>2
<1>6. CASE ~(group \subseteq reached)
  <2> DEFINE free == group \ reached
  <2>1. free \in (SUBSET Origins) \ {{}}
    BY <1>6
  <2>2. PICK o \in free :
          \A i \in DOMAIN judgments : judgments[i].origin = o => judgments[i].judges \cap free = {}
    BY <2>1
  <2>3. ASSUME NEW i \in DOMAIN judgments, judgments[i].origin = o,
               NEW j \in judgments[i].judges, j \in group
        PROVE  FALSE
    <3>1. j \in reached
      BY <2>2, <2>3
    <3>2. <<j, o>> \in graph
      BY <1>2, <2>3
    <3> QED BY <1>4, <2>2, <3>1, <3>2
  <2>4. r.origin # o
    BY <1>3, <2>2
  <2> QED BY <2>2, <2>3, <2>4
<1> QED BY <1>5, <1>6

-----------------------------------------------------------------------------
(* A slot speaks with its latest rows, or is silent while they disagree.   *)

LEMMA LatestOfSlot ==
  ASSUME edges \in Seq(Edges), NEW space, NEW epoch, NEW i \in Visible(space, epoch)
  PROVE  /\ Latest(space, epoch, i) # {}
         /\ Latest(space, epoch, i) \subseteq Visible(space, epoch)
         /\ \A j \in Latest(space, epoch, i) : SlotOf(j) = SlotOf(i) /\ edges[j].epoch >= edges[i].epoch
         /\ \A j \in Visible(space, epoch) : SlotOf(j) = SlotOf(i) => Latest(space, epoch, j) = Latest(space, epoch, i)
<1> DEFINE slot == {j \in Visible(space, epoch) : SlotOf(j) = SlotOf(i)}
           epochs == {edges[j].epoch : j \in slot}
<1>1. /\ Visible(space, epoch) \subseteq 1..Len(edges) /\ Len(edges) \in Nat
      /\ \A j \in 1..Len(edges) : edges[j].epoch \in Nat
  <2>1. DOMAIN edges = 1..Len(edges) /\ \A j \in 1..Len(edges) : edges[j] \in Edges
    OBVIOUS
  <2>2. \A e \in Edges : e.epoch \in Nat
    BY DEF Edges
  <2> QED BY <2>1, <2>2 DEF Visible
<1>2. slot \subseteq 1..Len(edges) /\ i \in slot
  BY <1>1
<1>3. IsFiniteSet(slot)
  <2>1. IsFiniteSet(1..Len(edges))
    BY <1>1, FS_Interval
  <2> QED BY <1>2, <2>1, FS_Subset
<1>4. epochs \in SUBSET Nat /\ epochs # {} /\ IsFiniteSet(epochs)
  <2>1. epochs \in SUBSET Nat /\ epochs # {}
    BY <1>1, <1>2
  <2> HIDE DEF slot
  <2>2. IsFiniteSet(epochs)
    <3> DEFINE f == [j \in slot |-> edges[j].epoch]
    <3>1. f \in Surjection(slot, epochs)
      BY DEF Surjection
    <3> HIDE DEF f, epochs
    <3> QED BY <1>3, <3>1, FS_Surjection
  <2> QED BY <2>1, <2>2
<1> HIDE DEF epochs
<1>5. PICK newest \in epochs : \A e \in epochs : e <= newest
  BY <1>4, MaxExists
<1> USE DEF epochs
<1>6. Latest(space, epoch, i) = {j \in slot : \A k \in slot : edges[k].epoch <= edges[j].epoch}
  BY DEF Latest
<1>7. Latest(space, epoch, i) # {}
  <2>1. PICK j \in slot : edges[j].epoch = newest
    BY <1>5
  <2>2. \A k \in slot : edges[k].epoch <= edges[j].epoch
    BY <1>5, <2>1
  <2> QED BY <1>6, <2>1, <2>2
<1>8. \A j \in Latest(space, epoch, i) : SlotOf(j) = SlotOf(i) /\ edges[j].epoch >= edges[i].epoch
  BY <1>1, <1>2, <1>6
<1>9. ASSUME NEW j \in Visible(space, epoch), SlotOf(j) = SlotOf(i)
      PROVE  Latest(space, epoch, j) = Latest(space, epoch, i)
  BY <1>9 DEF Latest
<1> QED BY <1>6, <1>7, <1>8, <1>9

LEMMA SlotSpeaks ==
  ASSUME edges \in Seq(Edges), NEW space, NEW epoch, NEW i \in Visible(space, epoch)
  PROVE  {j \in ActiveEdges(space, epoch) : SlotOf(j) = SlotOf(i)}
           = IF InConflict(Latest(space, epoch, i)) THEN {} ELSE Latest(space, epoch, i)
<1> DEFINE slots == {Latest(space, epoch, k) : k \in Visible(space, epoch)}
           mine == Latest(space, epoch, i)
<1>1. /\ mine \in slots
      /\ \A j \in mine : SlotOf(j) = SlotOf(i)
      /\ \A told \in slots : (\E j \in told : SlotOf(j) = SlotOf(i)) => told = mine
  <2>1. ASSUME NEW k \in Visible(space, epoch), NEW j \in Latest(space, epoch, k), SlotOf(j) = SlotOf(i)
        PROVE  Latest(space, epoch, k) = mine
    <3>1. SlotOf(k) = SlotOf(i)
      BY <2>1, LatestOfSlot
    <3> QED BY <3>1, LatestOfSlot
  <2>2. \A j \in mine : SlotOf(j) = SlotOf(i)
    BY LatestOfSlot
  <2> QED BY <2>1, <2>2
<1>2. ActiveEdges(space, epoch) = UNION {told \in slots : ~InConflict(told)}
  BY DEF ActiveEdges, Conflicts
<1> HIDE DEF slots, mine
<1>3. {j \in ActiveEdges(space, epoch) : SlotOf(j) = SlotOf(i)} = IF InConflict(mine) THEN {} ELSE mine
  BY <1>1, <1>2
<1> QED BY <1>3 DEF mine

LEMMA AlwaysAbstains ==
  ASSUME edges \in Seq(Edges), NEW space, NEW epoch
  PROVE  ConflictsAbstain(space, epoch)
<1> SUFFICES ASSUME NEW i \in Visible(space, epoch)
             PROVE  LET current == {j \in ActiveEdges(space, epoch) : SlotOf(j) = SlotOf(i)}
                    IN  /\ current = {} <=> \E told \in Conflicts(space, epoch) :
                                              \E j \in told : SlotOf(j) = SlotOf(i)
                        /\ edges[i].predicate \in SinglePredicates =>
                             Cardinality({edges[j].object : j \in current}) <= 1
                        /\ \A j \in current : edges[j].epoch >= edges[i].epoch
  BY DEF ConflictsAbstain
<1> DEFINE mine == Latest(space, epoch, i)
           current == {j \in ActiveEdges(space, epoch) : SlotOf(j) = SlotOf(i)}
<1>1. current = IF InConflict(mine) THEN {} ELSE mine
  BY SlotSpeaks
<1>2. /\ mine # {} /\ mine \subseteq 1..Len(edges) /\ Len(edges) \in Nat
      /\ \A j \in mine : SlotOf(j) = SlotOf(i) /\ edges[j].epoch >= edges[i].epoch
  <2>1. Visible(space, epoch) \subseteq 1..Len(edges) /\ Len(edges) \in Nat
    BY DEF Visible
  <2> QED BY <2>1, LatestOfSlot
<1>3. current = {} <=> \E told \in Conflicts(space, epoch) : \E j \in told : SlotOf(j) = SlotOf(i)
  <2>1. ASSUME InConflict(mine)
        PROVE  \E told \in Conflicts(space, epoch) : \E j \in told : SlotOf(j) = SlotOf(i)
    <3>1. mine \in Conflicts(space, epoch)
      BY <2>1 DEF Conflicts
    <3> QED BY <1>2, <3>1
  <2>2. ASSUME NEW told \in Conflicts(space, epoch), NEW j \in told, SlotOf(j) = SlotOf(i)
        PROVE  InConflict(mine)
    <3>1. PICK k \in Visible(space, epoch) : told = Latest(space, epoch, k)
      BY DEF Conflicts
    <3>2. SlotOf(k) = SlotOf(i)
      BY <2>2, <3>1, LatestOfSlot
    <3>3. told = mine
      BY <3>1, <3>2, LatestOfSlot
    <3> QED BY <3>3 DEF Conflicts
  <2> HIDE DEF mine, current
  <2> QED BY <1>1, <1>2, <2>1, <2>2
<1>4. ASSUME edges[i].predicate \in SinglePredicates
      PROVE  Cardinality({edges[j].object : j \in current}) <= 1
  <2>1. CASE InConflict(mine)
    <3>1. current = {}
      BY <1>1, <2>1
    <3> HIDE DEF current
    <3>2. {edges[j].object : j \in current} = {}
      BY <3>1
    <3>3. Cardinality({edges[j].object : j \in current}) = 0
      BY <3>2, FS_EmptySet
    <3> QED BY <3>3
  <2>2. CASE ~InConflict(mine)
    <3>1. \E j \in mine : edges[j].predicate \in SinglePredicates
      BY <1>2, <1>4 DEF SlotOf
    <3> HIDE DEF mine
    <3>2. ~(Cardinality({edges[j].object : j \in mine}) > 1)
      BY <2>2, <3>1 DEF InConflict
    <3>3. IsFiniteSet(mine)
      <4>1. IsFiniteSet(1..Len(edges))
        BY <1>2, FS_Interval
      <4> QED BY <1>2, <4>1, FS_Subset
    <3>4. IsFiniteSet({edges[j].object : j \in mine})
      <4> DEFINE f == [j \in mine |-> edges[j].object]
      <4>1. f \in Surjection(mine, {edges[j].object : j \in mine})
        BY DEF Surjection
      <4> HIDE DEF f
      <4> QED BY <3>3, <4>1, FS_Surjection
    <3>5. Cardinality({edges[j].object : j \in mine}) \in Nat
      BY <3>4, FS_CardinalityType
    <3>6. current = mine
      BY <1>1, <2>2
    <3> HIDE DEF current
    <3> QED BY <3>2, <3>5, <3>6
  <2> QED BY <2>1, <2>2
<1>5. \A j \in current : edges[j].epoch >= edges[i].epoch
  BY <1>1, <1>2
<1> QED BY <1>3, <1>4, <1>5

-----------------------------------------------------------------------------
(* The invariant: the graph of trust holds every adjudication, so that one  *)
(* that is accepted can be weighed against all the earlier ones.           *)

EvidenceTypeOK ==
  /\ edges \in Seq(Edges) /\ nextEpoch \in [Spaces -> Nat]
  /\ adjudications \in Seq(Adjudications(Nat))
  /\ stats \in Counts /\ trust \in SUBSET (Origins \X Origins)

TrustHolds == \A i \in DOMAIN adjudications : Trusting(adjudications[i]) \subseteq trust

EvidenceInv == EvidenceTypeOK /\ EvidenceReplays /\ TrustHolds /\ TrustIsGrounded

\* It speaks of no variable but these.
LEMMA TrustUnchanged ==
  ASSUME TrustHolds, TrustIsGrounded, UNCHANGED <<adjudications, trust>>
  PROVE  TrustHolds' /\ TrustIsGrounded'
<1>1. adjudications' = adjudications /\ trust' = trust
  OBVIOUS
<1>2. TrustHolds'
  BY <1>1 DEF TrustHolds
<1>3. ASSUME NEW group \in (SUBSET Origins) \ {{}}
      PROVE  \E o \in group : \A i \in DOMAIN adjudications' :
               adjudications'[i].origin = o => adjudications'[i].judges \cap group = {}
  <2>1. PICK o \in group : \A i \in DOMAIN adjudications :
          adjudications[i].origin = o => adjudications[i].judges \cap group = {}
    BY DEF TrustIsGrounded
  <2> QED BY <1>1, <2>1
<1> QED BY <1>2, <1>3 DEF TrustIsGrounded

LEMMA EvidenceInitInv == EvidenceInit => EvidenceInv
<1> SUFFICES ASSUME EvidenceInit PROVE EvidenceInv
  OBVIOUS
<1> USE DEF EvidenceInit
<1>1. EvidenceTypeOK
  BY DEF EvidenceTypeOK, Counts, Unjudged
<1>2. EvidenceReplays
  <2>1. EpochsOf(edges) = nextEpoch
    <3>1. edges \in Seq(Edges) /\ Len(edges) = 0
      OBVIOUS
    <3>2. EpochsOf(edges) = [s \in Spaces |-> 0]
      BY <3>1, EpochsUnfold
    <3> QED BY <3>2
  <2>2. JudgedBy(adjudications) = NotJudged
    <3>1. adjudications \in Seq(Adjudications(Nat)) /\ Len(adjudications) = 0
      OBVIOUS
    <3> QED BY <3>1, JudgedUnfold
  <2>3. Applied = {}
    BY DEF Applied
  <2> QED BY <2>1, <2>2, <2>3 DEF EvidenceReplays, NotJudged
<1>3. TrustHolds /\ TrustIsGrounded
  <2>1. DOMAIN adjudications = {}
    OBVIOUS
  <2>2. ASSUME NEW group \in (SUBSET Origins) \ {{}} PROVE \E o \in group : TRUE
    <3>1. group # {}
      OBVIOUS
    <3> QED BY <3>1
  <2> QED BY <2>1, <2>2 DEF TrustHolds, TrustIsGrounded
<1> QED BY <1>1, <1>2, <1>3 DEF EvidenceInv

\* Whether its epoch was given or not, a row is read back with the same next one.
LEMMA ObserveKeeps ==
  ASSUME EvidenceInv, NEW claim \in Statements, NEW given \in {{}} \cup {{epoch} : epoch \in Nat},
         Observe(claim, given)
  PROVE  EvidenceInv'
<1> DEFINE epoch == IF given = {} THEN nextEpoch[claim.space] ELSE Given(given)
           e == Edge(claim, epoch)
           k == nextEpoch[claim.space]
<1>1. /\ EvidenceTypeOK /\ EvidenceReplays /\ TrustHolds /\ TrustIsGrounded
      /\ claim.space \in Spaces /\ k \in Nat
  BY DEF EvidenceInv, EvidenceTypeOK, Statements
<1>2. epoch \in Nat
  BY <1>1 DEF Given
<1>3. e \in Edges /\ e.space = claim.space /\ e.epoch = epoch
  BY <1>2 DEF Edge, Edges, Statements
<1>4. EpochAfter(k, given) = EpochAfter(k, {epoch})
  <2>1. Given({epoch}) = epoch
    BY DEF Given
  <2>2. CASE given = {}
    BY <1>1, <2>1, <2>2 DEF EpochAfter, Later
  <2>3. CASE given # {}
    BY <2>1, <2>3 DEF EpochAfter
  <2> QED BY <2>2, <2>3
<1>5. /\ edges' = Append(edges, e)
      /\ nextEpoch' = EpochStep(nextEpoch, e)
      /\ UNCHANGED <<adjudications, stats, trust>>
  <2>1. edges' = Append(edges, e) /\ UNCHANGED <<adjudications, stats, trust>>
    BY DEF Observe
  <2>2. nextEpoch' = [nextEpoch EXCEPT ![claim.space] = EpochAfter(k, given)]
    BY DEF Observe
  <2> QED BY <1>3, <1>4, <2>1, <2>2 DEF EpochStep
<1> HIDE DEF e, epoch, k
<1>6. EvidenceTypeOK'
  <2>1. edges' \in Seq(Edges)
    BY <1>1, <1>3, <1>5 DEF EvidenceTypeOK
  <2>2. nextEpoch' \in [Spaces -> Nat]
    BY <1>1, <1>3, <1>5, EpochStepType DEF EvidenceTypeOK
  <2> QED BY <1>1, <1>5, <2>1, <2>2 DEF EvidenceTypeOK
<1>7. EvidenceReplays'
  <2>1. EpochsOf(edges') = nextEpoch'
    BY <1>1, <1>3, <1>5, EpochsAppend DEF EvidenceTypeOK, EvidenceReplays
  <2>2. \A i \in DOMAIN edges' : edges'[i].epoch < nextEpoch'[edges'[i].space]
    <3>1. /\ nextEpoch'[e.space] > e.epoch
          /\ \A s \in Spaces : nextEpoch'[s] >= nextEpoch[s]
      BY <1>1, <1>3, <1>5, EpochStepType DEF EvidenceTypeOK
    <3>2. \A i \in DOMAIN edges :
            /\ edges'[i] = edges[i] /\ edges[i].epoch \in Nat /\ edges[i].space \in Spaces
            /\ nextEpoch[edges[i].space] \in Nat /\ nextEpoch'[edges[i].space] \in Nat
      <4>1. \A i \in DOMAIN edges : edges'[i] = edges[i] /\ edges[i] \in Edges
        BY <1>1, <1>3, <1>5 DEF EvidenceTypeOK
      <4>2. \A x \in Edges : x.epoch \in Nat /\ x.space \in Spaces
        BY DEF Edges
      <4>3. nextEpoch \in [Spaces -> Nat] /\ nextEpoch' \in [Spaces -> Nat]
        BY <1>1, <1>6 DEF EvidenceTypeOK
      <4> QED BY <4>1, <4>2, <4>3
    <3>3. \A i \in DOMAIN edges' : i \in DOMAIN edges \/ edges'[i] = e
      BY <1>1, <1>5 DEF EvidenceTypeOK
    <3>4. \A i \in DOMAIN edges : edges[i].epoch < nextEpoch[edges[i].space]
      BY <1>1 DEF EvidenceReplays
    <3>5. ASSUME NEW i \in DOMAIN edges PROVE edges'[i].epoch < nextEpoch'[edges'[i].space]
      <4>1. nextEpoch'[edges[i].space] >= nextEpoch[edges[i].space]
        BY <3>1, <3>2
      <4> QED BY <3>2, <3>4, <4>1
    <3> QED BY <3>1, <3>3, <3>5
  <2>3. JudgedBy(adjudications)' = [applied |-> Applied', refused |-> FALSE, stats |-> stats', trust |-> trust']
    BY <1>1, <1>5 DEF EvidenceReplays, Applied
  <2> QED BY <2>1, <2>2, <2>3 DEF EvidenceReplays
<1>8. TrustHolds' /\ TrustIsGrounded'
  BY <1>1, <1>5, TrustUnchanged
<1> QED BY <1>6, <1>7, <1>8 DEF EvidenceInv

LEMMA AdjudicateKeeps ==
  ASSUME EvidenceInv, NEW r \in Adjudications(Nat), Adjudicate(r)
  PROVE  EvidenceInv'
<1>1. EvidenceTypeOK /\ EvidenceReplays /\ TrustHolds /\ TrustIsGrounded
  BY DEF EvidenceInv
<1>2. /\ Acceptable(Applied, trust, r)
      /\ stats' = Judged(stats, r)
      /\ adjudications' = Append(adjudications, r)
      /\ trust' = trust \cup Trusting(r)
      /\ UNCHANGED <<edges, nextEpoch>>
  BY DEF Adjudicate
<1>3. /\ DOMAIN adjudications \subseteq DOMAIN adjudications'
      /\ \A i \in DOMAIN adjudications' : i \in DOMAIN adjudications \/ adjudications'[i] = r
      /\ \A i \in DOMAIN adjudications : adjudications'[i] = adjudications[i]
      /\ adjudications'[Len(adjudications) + 1] = r /\ Len(adjudications) + 1 \in DOMAIN adjudications'
  BY <1>1, <1>2 DEF EvidenceTypeOK
<1>4. Applied' = Applied \cup {r.id}
  <2>1. \A i \in DOMAIN adjudications' : adjudications'[i].id \in Applied \cup {r.id}
    BY <1>3 DEF Applied
  <2>2. \A id \in Applied \cup {r.id} : \E i \in DOMAIN adjudications' : adjudications'[i].id = id
    BY <1>3 DEF Applied
  <2> QED BY <2>1, <2>2 DEF Applied
<1> DEFINE judged == [applied |-> Applied, refused |-> FALSE, stats |-> stats, trust |-> trust]
<1>5. judged \in Cores
  <2>1. Applied \in SUBSET Resolutions
    <3>1. \A i \in DOMAIN adjudications : adjudications[i] \in Adjudications(Nat)
      BY <1>1 DEF EvidenceTypeOK
    <3>2. \A x \in Adjudications(Nat) : x.id \in Resolutions
      BY DEF Adjudications
    <3> QED BY <3>1, <3>2 DEF Applied
  <2> QED BY <1>1, <2>1 DEF Cores, EvidenceTypeOK
<1>6. JudgedBy(adjudications') = JudgedAfter(judged, r)
  BY <1>1, <1>2, JudgedAppend DEF EvidenceReplays, EvidenceTypeOK
<1>7. JudgedAfter(judged, r) =
        [applied |-> Applied', refused |-> FALSE, stats |-> stats', trust |-> trust']
  BY <1>2, <1>4 DEF JudgedAfter
<1>8. EvidenceTypeOK'
  <2>1. stats' \in Counts /\ trust' \in SUBSET (Origins \X Origins)
    <3>1. JudgedAfter(judged, r) \in Cores
      BY <1>5, JudgedAfterType
    <3>2. \A c \in Cores : c.stats \in Counts /\ c.trust \in SUBSET (Origins \X Origins)
      BY DEF Cores
    <3>3. JudgedAfter(judged, r).stats = stats' /\ JudgedAfter(judged, r).trust = trust'
      BY <1>7
    <3> HIDE DEF judged
    <3> QED BY <3>1, <3>2, <3>3
  <2>2. adjudications' \in Seq(Adjudications(Nat))
    BY <1>1, <1>2 DEF EvidenceTypeOK
  <2> QED BY <1>1, <1>2, <2>1, <2>2 DEF EvidenceTypeOK
<1>9. EvidenceReplays'
  BY <1>1, <1>2, <1>6, <1>7 DEF EvidenceReplays
<1>10. TrustHolds'
  BY <1>1, <1>2, <1>3 DEF TrustHolds
<1>11. TrustIsGrounded'
  <2> SUFFICES ASSUME NEW group \in (SUBSET Origins) \ {{}}
               PROVE  \E o \in group : \A i \in DOMAIN adjudications' :
                        adjudications'[i].origin = o => adjudications'[i].judges \cap group = {}
    BY DEF TrustIsGrounded
  <2>1. PICK o \in group :
          /\ \A i \in DOMAIN adjudications :
                adjudications[i].origin = o => adjudications[i].judges \cap group = {}
          /\ r.origin = o => r.judges \cap group = {}
    BY <1>1, <1>2, StaysGrounded DEF EvidenceTypeOK, TrustHolds, TrustIsGrounded, Acceptable
  <2> QED BY <1>3, <2>1
<1> QED BY <1>8, <1>9, <1>10, <1>11 DEF EvidenceInv

LEMMA EvidenceStep == EvidenceInv /\ [EvidenceNext]_evidenceVars => EvidenceInv'
<1> SUFFICES ASSUME EvidenceInv, [EvidenceNext]_evidenceVars PROVE EvidenceInv'
  OBVIOUS
<1>1. CASE ClaimsNext(Statements, {{}} \cup {{epoch} : epoch \in Nat})
  <2>1. PICK claim \in Statements, given \in {{}} \cup {{epoch} : epoch \in Nat} : Observe(claim, given)
    BY <1>1 DEF ClaimsNext
  <2> QED BY <2>1, ObserveKeeps
<1>2. CASE AdjudicationsNext(Nat)
  <2>1. PICK r \in Adjudications(Nat) : Adjudicate(r)
    BY <1>2 DEF AdjudicationsNext
  <2> QED BY <2>1, AdjudicateKeeps
<1>3. CASE UNCHANGED evidenceVars
  <2>1. /\ edges' = edges /\ nextEpoch' = nextEpoch /\ adjudications' = adjudications
        /\ stats' = stats /\ trust' = trust
    BY <1>3 DEF evidenceVars
  <2>2. TrustHolds' /\ TrustIsGrounded'
    BY <2>1, TrustUnchanged DEF EvidenceInv
  <2> QED BY <2>1, <2>2 DEF EvidenceInv, EvidenceTypeOK, EvidenceReplays, Applied
<1> QED BY <1>1, <1>2, <1>3 DEF EvidenceNext

\* evidence_core.py and evidence_state.py: however many relations are stated, with
\* epochs or without, and origins adjudicated, by anyone, a restart from a snapshot
\* changes nothing, trust is grounded, and what disagrees is not used.
THEOREM EvidenceAlwaysSound == EvidenceSpec => []EvidenceIsSound
<1>1. EvidenceInv => EvidenceIsSound
  BY AlwaysAbstains DEF EvidenceInv, EvidenceTypeOK, EvidenceIsSound
<1> QED BY <1>1, EvidenceInitInv, EvidenceStep, PTL DEF EvidenceSpec

-----------------------------------------------------------------------------
(* Orders of finite sets, given as pairs.                                   *)

\* What a set holds that comes before x.
BelowIn(S, R, x) == {y \in S : <<y, x>> \in R}

StrictOn(S, R) ==
  /\ \A x \in S : <<x, x>> \notin R
  /\ \A x, y, z \in S : <<x, y>> \in R /\ <<y, z>> \in R => <<x, z>> \in R
TotalOn(S, R) == \A x, y \in S : x # y => <<x, y>> \in R \/ <<y, x>> \in R

LEMMA BelowGrows ==
  ASSUME NEW S, IsFiniteSet(S), NEW R, StrictOn(S, R)
  PROVE  /\ \A x \in S : IsFiniteSet(BelowIn(S, R, x)) /\ Cardinality(BelowIn(S, R, x)) \in Nat
         /\ \A x \in S : Cardinality(BelowIn(S, R, x)) < Cardinality(S)
         /\ \A x, y \in S : <<x, y>> \in R =>
              Cardinality(BelowIn(S, R, x)) < Cardinality(BelowIn(S, R, y))
<1>1. ASSUME NEW A, NEW B, IsFiniteSet(B), A \subseteq B, NEW b \in B, b \notin A
      PROVE  IsFiniteSet(A) /\ Cardinality(A) \in Nat /\ Cardinality(B) \in Nat
             /\ Cardinality(A) < Cardinality(B)
  <2>1. IsFiniteSet(A) /\ Cardinality(A) <= Cardinality(B)
        /\ (Cardinality(A) = Cardinality(B) => A = B)
    BY <1>1, FS_Subset
  <2>2. Cardinality(A) \in Nat /\ Cardinality(B) \in Nat
    BY <1>1, <2>1, FS_CardinalityType
  <2> QED BY <1>1, <2>1, <2>2
<1>2. ASSUME NEW x \in S
      PROVE  IsFiniteSet(BelowIn(S, R, x)) /\ Cardinality(BelowIn(S, R, x)) \in Nat
             /\ Cardinality(BelowIn(S, R, x)) < Cardinality(S)
  <2>1. BelowIn(S, R, x) \subseteq S /\ x \notin BelowIn(S, R, x)
    BY DEF BelowIn, StrictOn
  <2> QED BY <1>1, <2>1
<1>3. ASSUME NEW x \in S, NEW y \in S, <<x, y>> \in R
      PROVE  Cardinality(BelowIn(S, R, x)) < Cardinality(BelowIn(S, R, y))
  <2>1. BelowIn(S, R, x) \subseteq BelowIn(S, R, y) /\ x \in BelowIn(S, R, y)
        /\ x \notin BelowIn(S, R, x)
    BY <1>3 DEF BelowIn, StrictOn
  <2> QED BY <1>1, <1>2, <2>1
<1> QED BY <1>2, <1>3

\* A strict order of a finite set has a least element ...
LEMMA LeastExists ==
  ASSUME NEW S, IsFiniteSet(S), S # {}, NEW R, StrictOn(S, R)
  PROVE  \E x \in S : \A y \in S : <<y, x>> \notin R
<1> DEFINE Back == {p \in S \X S : <<p[2], p[1]>> \in R}
           size(x) == Cardinality(BelowIn(S, Back, x))
           sizes == {size(x) : x \in S}
<1>1. StrictOn(S, Back)
  BY DEF StrictOn
<1>2. /\ \A x \in S : size(x) \in Nat
      /\ \A x, y \in S : <<y, x>> \in R => size(x) < size(y)
  <2>1. \A x, y \in S : <<y, x>> \in R => <<x, y>> \in Back
    OBVIOUS
  <2> HIDE DEF Back
  <2> QED BY <1>1, <2>1, BelowGrows
<1> HIDE DEF size
<1>3. IsFiniteSet(sizes)
  <2>1. Cardinality(S) \in Nat /\ \A x \in S : size(x) < Cardinality(S)
    BY <1>1, BelowGrows, FS_CardinalityType DEF size
  <2>2. sizes \subseteq 0..Cardinality(S) /\ IsFiniteSet(0..Cardinality(S))
    BY <1>2, <2>1, FS_Interval
  <2> QED BY <2>2, FS_Subset
<1>4. PICK m \in sizes : \A k \in sizes : k <= m
  <2>1. sizes \in SUBSET Nat /\ sizes # {}
    BY <1>2
  <2> QED BY <1>3, <2>1, MaxExists
<1>5. PICK x \in S : m = size(x)
  BY <1>4
<1>6. ASSUME NEW y \in S, <<y, x>> \in R PROVE FALSE
  <2>1. size(y) \in sizes /\ size(x) < size(y) /\ size(y) \in Nat /\ size(x) \in Nat
    BY <1>2, <1>6
  <2> QED BY <1>4, <1>5, <2>1
<1> QED BY <1>6

\* ... and a total one has its elements in a row, each with as many below it as
\* stand before it.
LEMMA Ranking ==
  ASSUME NEW S, IsFiniteSet(S), NEW R, StrictOn(S, R), TotalOn(S, R)
  PROVE  \E f \in [1..Cardinality(S) -> S] :
            /\ \A i, j \in 1..Cardinality(S) : i < j => <<f[i], f[j]>> \in R
            /\ \A x \in S : \E i \in 1..Cardinality(S) : f[i] = x
            /\ \A i \in 1..Cardinality(S) : Cardinality(BelowIn(S, R, f[i])) = i - 1
<1> DEFINE n == Cardinality(S)
           size(x) == Cardinality(BelowIn(S, R, x))
           rank == [x \in S |-> size(x) + 1]
<1>1. n \in Nat
  BY FS_CardinalityType
<1>2. /\ \A x \in S : size(x) \in Nat /\ size(x) < n
      /\ \A x, y \in S : <<x, y>> \in R => size(x) < size(y)
  BY BelowGrows
<1> HIDE DEF size, n
<1>3. rank \in [S -> 1..n]
  BY <1>1, <1>2
<1>4. \A x, y \in S : rank[x] = rank[y] => x = y
  <2> SUFFICES ASSUME NEW x \in S, NEW y \in S, rank[x] = rank[y], x # y PROVE FALSE
    OBVIOUS
  <2>1. size(x) = size(y) /\ size(x) \in Nat
    BY <1>2
  <2>2. <<x, y>> \in R \/ <<y, x>> \in R
    BY DEF TotalOn
  <2> QED BY <1>2, <2>1, <2>2
<1>5. rank \in Surjection(S, 1..n)
  <2>1. rank \in Injection(S, 1..n)
    BY <1>3, <1>4 DEF Injection, IsInjective
  <2>2. IsFiniteSet(1..n) /\ Cardinality(1..n) = n
    BY <1>1, FS_Interval
  <2> HIDE DEF rank
  <2> QED BY <2>1, <2>2, FS_Injection DEF n
<1>6. \A i \in 1..n : \E x \in S : rank[x] = i
  BY <1>5 DEF Surjection
<1> DEFINE f == [i \in 1..n |-> CHOOSE x \in S : rank[x] = i]
<1>7. \A i \in 1..n : f[i] \in S /\ rank[f[i]] = i
  <2> HIDE DEF rank
  <2> QED BY <1>6
<1>8. f \in [1..n -> S]
  BY <1>7
<1> HIDE DEF f
<1>9. \A i \in 1..n : size(f[i]) = i - 1
  <2> SUFFICES ASSUME NEW i \in 1..n PROVE size(f[i]) = i - 1
    OBVIOUS
  <2>1. f[i] \in S /\ size(f[i]) \in Nat /\ rank[f[i]] = size(f[i]) + 1
    BY <1>2, <1>7
  <2> QED BY <1>7, <2>1
<1>10. \A i, j \in 1..n : i < j => <<f[i], f[j]>> \in R
  <2> SUFFICES ASSUME NEW i \in 1..n, NEW j \in 1..n, i < j PROVE <<f[i], f[j]>> \in R
    OBVIOUS
  <2>1. f[i] \in S /\ f[j] \in S
    BY <1>7
  <2>3. size(f[i]) < size(f[j])
    BY <1>1, <1>9
  <2>2. f[i] # f[j] /\ ~(<<f[j], f[i]>> \in R)
    <3>1. size(f[i]) \in Nat /\ size(f[j]) \in Nat
      BY <1>2, <2>1
    <3> QED BY <1>2, <2>1, <2>3, <3>1
  <2> QED BY <2>1, <2>2 DEF TotalOn
<1>11. \A x \in S : \E i \in 1..n : f[i] = x
  <2> SUFFICES ASSUME NEW x \in S PROVE \E i \in 1..n : f[i] = x
    OBVIOUS
  <2>1. rank[x] \in 1..n
    BY <1>3
  <2>2. rank[f[rank[x]]] = rank[x] /\ f[rank[x]] \in S
    BY <1>7, <2>1
  <2> HIDE DEF rank
  <2> QED BY <1>4, <2>1, <2>2
<1> QED BY <1>8, <1>9, <1>10, <1>11 DEF n, size

-----------------------------------------------------------------------------
(* The order of the answers is strict, and what is not better than another  *)
(* is not better than all that is.                                          *)

LEMMA ImageFinite ==
  ASSUME NEW S, IsFiniteSet(S), NEW f, DOMAIN f = S
  PROVE  IsFiniteSet({f[x] : x \in S})
<1> DEFINE T == {f[x] : x \in S}
           g == [x \in S |-> f[x]]
<1>1. g \in Surjection(S, T)
  BY DEF Surjection
<1> QED BY <1>1, FS_Surjection

\* The links of paths: logical edges, as LogicalEdge makes them.
Links ==
  [subject : Nat, predicate : Nat, object : Nat, evidence : Nat,
   origins : {few \in SUBSET Origins : IsFiniteSet(few)},
   confidence : Nat, reliability : Nat \X (Nat \ {0})]
Ways == Seq(Links) \ {<<>>}

LEMMA MinTyped ==
  ASSUME NEW S \in SUBSET Nat, IsFiniteSet(S), S # {}
  PROVE  Min(S) \in S /\ \A x \in S : Min(S) <= x
<1> DEFINE R == {p \in S \X S : p[1] < p[2]}
<1>1. StrictOn(S, R)
  <2>1. \A x, y \in S : <<x, y>> \in R <=> x < y
    OBVIOUS
  <2>2. \A x, y, z \in S : x < y /\ y < z => x < z
    OBVIOUS
  <2> HIDE DEF R
  <2> QED BY <2>1, <2>2 DEF StrictOn
<1>2. PICK m \in S : \A y \in S : <<y, m>> \notin R
  <2> HIDE DEF R
  <2> QED BY <1>1, LeastExists
<1>3. ASSUME NEW y \in S PROVE m <= y
  <2>1. m \in Nat /\ y \in Nat /\ ~(y < m)
    BY <1>2
  <2> QED BY <2>1
<1> QED BY <1>3 DEF Min

\* Fractions are compared by cross-multiplication.
LEMMA FractionsCompare ==
  ASSUME NEW p \in Nat \X (Nat \ {0}), NEW q \in Nat \X (Nat \ {0}),
         NEW r \in Nat \X (Nat \ {0}), LessReliable(p, q)
  PROVE  ~LessReliable(q, p) /\ (LessReliable(p, r) \/ LessReliable(r, q))
<1> DEFINE a == p[1]  b == p[2]  c == q[1]  d == q[2]  e == r[1]  f == r[2]
<1>1. a \in Nat /\ b \in Nat /\ c \in Nat /\ d \in Nat /\ e \in Nat /\ f \in Nat
      /\ b > 0 /\ d > 0 /\ f > 0
  OBVIOUS
<1>2. a * d < c * b
  BY DEF LessReliable
<1> HIDE DEF a, b, c, d, e, f
<1>3. a * d \in Int /\ c * b \in Int /\ a * f \in Int /\ e * b \in Int /\ e * d \in Int
      /\ c * f \in Int
  BY <1>1
<1>4. ASSUME ~(a * f < e * b), ~(e * d < c * f) PROVE FALSE
  <2>1. e * b <= a * f /\ c * f <= e * d
    BY <1>3, <1>4
  <2>2. \A x, y, z \in Int : x <= y /\ z > 0 => x * z <= y * z
    OBVIOUS
  <2>3. (e * b) * d <= (a * f) * d /\ (c * f) * b <= (e * d) * b
    BY <1>1, <1>3, <2>1, <2>2
  <2>4. (e * b) * d = (e * d) * b /\ (a * f) * d = (a * d) * f /\ (c * f) * b = (c * b) * f
    BY <1>1
  <2>5. (c * b) * f <= (a * d) * f
    BY <1>1, <1>3, <2>3, <2>4
  <2>6. \A x, y, z \in Int : x < y /\ z > 0 => x * z < y * z
    OBVIOUS
  <2>7. (a * d) * f < (c * b) * f
    BY <1>1, <1>2, <1>3, <2>6
  <2>8. (a * d) * f \in Int /\ (c * b) * f \in Int
    BY <1>1, <1>3
  <2> QED BY <2>5, <2>7, <2>8
<1>5. ~(c * b < a * d)
  BY <1>2, <1>3
<1> QED BY <1>4, <1>5 DEF LessReliable, a, b, c, d, e, f

LEMMA LeastTyped ==
  ASSUME NEW S \in SUBSET (Nat \X (Nat \ {0})), IsFiniteSet(S), S # {}
  PROVE  Least(S) \in S
<1> DEFINE R == {p \in S \X S : LessReliable(p[1], p[2])}
<1>1. \A x, y \in S : <<x, y>> \in R <=> LessReliable(x, y)
  OBVIOUS
<1> HIDE DEF R
<1>2. StrictOn(S, R)
  <2>1. \A x, y, z \in S : LessReliable(x, y) =>
           ~LessReliable(y, x) /\ (LessReliable(x, z) \/ LessReliable(z, y))
    BY FractionsCompare
  <2> QED BY <1>1, <2>1 DEF StrictOn
<1>3. PICK m \in S : \A y \in S : ~LessReliable(y, m)
  BY <1>1, <1>2, LeastExists
<1> QED BY <1>3 DEF Least

LEMMA FloorsTyped ==
  ASSUME NEW p \in Ways
  PROVE  /\ Len(p) \in Nat \ {0} /\ OriginFloor(p) \in Nat /\ Confidence(p) \in Nat
         /\ ReliabilityFloor(p) \in Nat \X (Nat \ {0})
<1>1. Len(p) \in Nat \ {0} /\ DOMAIN p = 1..Len(p) /\ \A i \in DOMAIN p : p[i] \in Links
  BY EmptySeq DEF Ways
<1>2. IsFiniteSet(DOMAIN p) /\ 1 \in DOMAIN p
  BY <1>1, FS_Interval
<1>3. /\ \A i \in DOMAIN p : IsFiniteSet(p[i].origins) /\ p[i].confidence \in Nat
      /\ \A i \in DOMAIN p : p[i].reliability \in Nat \X (Nat \ {0})
  BY <1>1 DEF Links
<1>4. OriginFloor(p) \in Nat
  <2> DEFINE f == [i \in DOMAIN p |-> Cardinality(p[i].origins)]
             S == {Cardinality(p[i].origins) : i \in DOMAIN p}
  <2>1. S \in SUBSET Nat /\ S # {}
    BY <1>2, <1>3, FS_CardinalityType
  <2>2. S = {f[i] : i \in DOMAIN p} /\ DOMAIN f = DOMAIN p
    OBVIOUS
  <2>3. IsFiniteSet(S)
    <3> HIDE DEF f, S
    <3> QED BY <1>2, <2>2, ImageFinite
  <2> HIDE DEF S
  <2>4. Min(S) \in S
    BY <2>1, <2>3, MinTyped
  <2>5. OriginFloor(p) = Min(S)
    BY DEF OriginFloor, S
  <2> QED BY <2>1, <2>4, <2>5
<1>5. Confidence(p) \in Nat
  <2> DEFINE f == [i \in DOMAIN p |-> p[i].confidence]
             S == {p[i].confidence : i \in DOMAIN p}
  <2>1. S \in SUBSET Nat /\ S # {}
    BY <1>2, <1>3
  <2>2. S = {f[i] : i \in DOMAIN p} /\ DOMAIN f = DOMAIN p
    OBVIOUS
  <2>3. IsFiniteSet(S)
    <3> HIDE DEF f, S
    <3> QED BY <1>2, <2>2, ImageFinite
  <2> HIDE DEF S
  <2>4. Min(S) \in S
    BY <2>1, <2>3, MinTyped
  <2>5. Confidence(p) = Min(S)
    BY DEF Confidence, S
  <2> QED BY <2>1, <2>4, <2>5
<1>6. ReliabilityFloor(p) \in Nat \X (Nat \ {0})
  <2> DEFINE f == [i \in DOMAIN p |-> p[i].reliability]
             S == {p[i].reliability : i \in DOMAIN p}
  <2>1. S \in SUBSET (Nat \X (Nat \ {0})) /\ S # {}
    BY <1>2, <1>3
  <2>2. S = {f[i] : i \in DOMAIN p} /\ DOMAIN f = DOMAIN p
    OBVIOUS
  <2>3. IsFiniteSet(S)
    <3> HIDE DEF f, S
    <3> QED BY <1>2, <2>2, ImageFinite
  <2> HIDE DEF S
  <2>4. Least(S) \in S
    BY <2>1, <2>3, LeastTyped
  <2>5. ReliabilityFloor(p) = Least(S)
    BY DEF ReliabilityFloor, S
  <2> QED BY <2>1, <2>4, <2>5
<1> QED BY <1>1, <1>4, <1>5, <1>6

\* The levels of an order, the first that tells decides.
LEMMA FiveLevels ==
  ASSUME NEW levels, DOMAIN levels = 1..5
  PROVE  (\E i \in DOMAIN levels :
            levels[i][1] < levels[i][2] /\ \A j \in 1..(i - 1) : levels[j][1] = levels[j][2])
         <=> \/ levels[1][1] < levels[1][2]
             \/ /\ levels[1][1] = levels[1][2]
                /\ \/ levels[2][1] < levels[2][2]
                   \/ /\ levels[2][1] = levels[2][2]
                      /\ \/ levels[3][1] < levels[3][2]
                         \/ /\ levels[3][1] = levels[3][2]
                            /\ \/ levels[4][1] < levels[4][2]
                               \/ levels[4][1] = levels[4][2] /\ levels[5][1] < levels[5][2]
<1> DEFINE first(i) == levels[i][1] < levels[i][2]
           even(i) == levels[i][1] = levels[i][2]
<1>1. DOMAIN levels = {1, 2, 3, 4, 5}
  OBVIOUS
<1>2. /\ 1..(1 - 1) = {} /\ 1..(2 - 1) = {1} /\ 1..(3 - 1) = {1, 2}
      /\ 1..(4 - 1) = {1, 2, 3} /\ 1..(5 - 1) = {1, 2, 3, 4}
  OBVIOUS
<1> HIDE DEF first, even
<1>3. (\E i \in DOMAIN levels : first(i) /\ \A j \in 1..(i - 1) : even(j))
      <=> \/ first(1)
          \/ /\ even(1)
             /\ \/ first(2)
                \/ /\ even(2)
                   /\ \/ first(3)
                      \/ /\ even(3)
                         /\ \/ first(4)
                            \/ even(4) /\ first(5)
  BY <1>1, <1>2
<1> QED BY <1>3 DEF first, even

\* What each level says of two paths: which is first, or neither.
Fewer(p, q) == OriginFloor(q) < OriginFloor(p)
Surer(p, q) == Confidence(q) < Confidence(p)
MoreReliable(p, q) == LessReliable(ReliabilityFloor(q), ReliabilityFloor(p))

LEMMA BetterIs ==
  ASSUME NEW p \in Ways, NEW q \in Ways
  PROVE  Better(p, q) <=>
           \/ Fewer(p, q)
           \/ /\ ~Fewer(q, p)
              /\ \/ MoreReliable(p, q)
                 \/ /\ ~MoreReliable(q, p)
                    /\ \/ Surer(p, q)
                       \/ /\ ~Surer(q, p)
                          /\ \/ Len(p) < Len(q)
                             \/ Len(p) = Len(q) /\ BeforeInName(p, q)
<1> DEFINE rp == ReliabilityFloor(p)
           rq == ReliabilityFloor(q)
           name == IF BeforeInName(p, q) THEN <<0, 1>>
                   ELSE IF BeforeInName(q, p) THEN <<1, 0>> ELSE <<0, 0>>
           levels == << <<OriginFloor(q), OriginFloor(p)>>,
                        <<rq[1] * rp[2], rp[1] * rq[2]>>,
                        <<Confidence(q), Confidence(p)>>, <<Len(p), Len(q)>>, name >>
<1>1. /\ OriginFloor(p) \in Nat /\ OriginFloor(q) \in Nat
      /\ Confidence(p) \in Nat /\ Confidence(q) \in Nat /\ Len(p) \in Nat /\ Len(q) \in Nat
      /\ rp \in Nat \X (Nat \ {0}) /\ rq \in Nat \X (Nat \ {0})
  BY FloorsTyped
<1>2. PICK u \in Int, v \in Int : name = <<u, v>> /\ (u < v <=> BeforeInName(p, q))
  <2>1. CASE BeforeInName(p, q)
    BY <2>1
  <2>2. CASE ~BeforeInName(p, q) /\ BeforeInName(q, p)
    BY <2>2
  <2>3. CASE ~BeforeInName(p, q) /\ ~BeforeInName(q, p)
    BY <2>3
  <2> QED BY <2>1, <2>2, <2>3
<1>3. rq[1] * rp[2] \in Int /\ rp[1] * rq[2] \in Int
  BY <1>1
<1>4. Better(p, q) <=>
        \E i \in DOMAIN levels :
            levels[i][1] < levels[i][2] /\ \A j \in 1..(i - 1) : levels[j][1] = levels[j][2]
  BY DEF Better
<1> DEFINE x == rq[1] * rp[2]
           y == rp[1] * rq[2]
<1>5. MoreReliable(p, q) <=> x < y
  BY DEF MoreReliable, LessReliable
<1>6. MoreReliable(q, p) <=> y < x
  BY DEF MoreReliable, LessReliable
<1>7. /\ DOMAIN levels = 1..5
      /\ levels[1] = <<OriginFloor(q), OriginFloor(p)>> /\ levels[2] = <<x, y>>
      /\ levels[3] = <<Confidence(q), Confidence(p)>> /\ levels[4] = <<Len(p), Len(q)>>
      /\ levels[5] = <<u, v>>
  BY <1>2
<1> HIDE DEF levels, name
<1>8. x \in Int /\ y \in Int
  BY <1>3
<1> HIDE DEF x, y
<1>9. Better(p, q) <=>
             \/ OriginFloor(q) < OriginFloor(p)
             \/ /\ OriginFloor(q) = OriginFloor(p)
                /\ \/ x < y
                   \/ /\ x = y
                      /\ \/ Confidence(q) < Confidence(p)
                         \/ /\ Confidence(q) = Confidence(p)
                            /\ \/ Len(p) < Len(q)
                               \/ Len(p) = Len(q) /\ u < v
  <2>1. Better(p, q) <=>
          \/ levels[1][1] < levels[1][2]
          \/ /\ levels[1][1] = levels[1][2]
             /\ \/ levels[2][1] < levels[2][2]
                \/ /\ levels[2][1] = levels[2][2]
                   /\ \/ levels[3][1] < levels[3][2]
                      \/ /\ levels[3][1] = levels[3][2]
                         /\ \/ levels[4][1] < levels[4][2]
                            \/ levels[4][1] = levels[4][2] /\ levels[5][1] < levels[5][2]
    BY <1>4, <1>7, FiveLevels
  <2> QED BY <1>7, <2>1
<1> HIDE DEF rp, rq
<1> QED BY <1>1, <1>2, <1>5, <1>6, <1>8, <1>9 DEF Fewer, Surer

\* Names of paths of one length, compared place by place.
LEMMA NamesCompare ==
  ASSUME NEW p \in Ways, NEW q \in Ways, NEW r \in Ways,
         Len(p) = Len(q), Len(r) = Len(p), BeforeInName(p, q)
  PROVE  ~BeforeInName(q, p) /\ (BeforeInName(p, r) \/ BeforeInName(r, q))
<1>1. /\ Len(p) \in Nat /\ DOMAIN p = 1..Len(p) /\ DOMAIN q = 1..Len(p) /\ DOMAIN r = 1..Len(p)
      /\ \A i \in 1..Len(p) : p[i].object \in Nat /\ q[i].object \in Nat /\ r[i].object \in Nat
  <2>1. \A w \in Ways : /\ Len(w) \in Nat /\ DOMAIN w = 1..Len(w)
                        /\ \A i \in 1..Len(w) : w[i] \in Links
    BY DEF Ways
  <2>2. \A e \in Links : e.object \in Nat
    BY DEF Links
  <2> QED BY <2>1, <2>2
<1>2. PICK i \in 1..Len(p) : /\ p[i].object < q[i].object
                             /\ \A j \in 1..(i - 1) : p[j].object = q[j].object
  BY <1>1 DEF BeforeInName
<1>3. ~BeforeInName(q, p)
  <2> SUFFICES ASSUME BeforeInName(q, p) PROVE FALSE
    OBVIOUS
  <2>1. PICK k \in 1..Len(p) : /\ q[k].object < p[k].object
                               /\ \A j \in 1..(k - 1) : q[j].object = p[j].object
    BY <1>1 DEF BeforeInName
  <2>2. i \in 1..(k - 1) \/ k \in 1..(i - 1) \/ i = k
    BY <1>1
  <2>3. /\ p[i].object \in Nat /\ q[i].object \in Nat
        /\ p[k].object \in Nat /\ q[k].object \in Nat
    BY <1>1
  <2> QED BY <1>2, <2>1, <2>2, <2>3
<1>4. BeforeInName(p, r) \/ BeforeInName(r, q)
  <2> DEFINE apart == {k \in 1..i : r[k].object # p[k].object}
  <2>1. CASE apart = {}
    <3>1. \A k \in 1..i : r[k].object = p[k].object
      BY <2>1
    <3>2. i \in 1..i /\ \A j \in 1..(i - 1) : j \in 1..i
      BY <1>1
    <3>3. r[i].object < q[i].object /\ \A j \in 1..(i - 1) : r[j].object = q[j].object
      BY <1>2, <3>1, <3>2
    <3> QED BY <1>1, <3>3 DEF BeforeInName
  <2>2. CASE apart # {}
    <3>1. apart \in SUBSET Nat /\ IsFiniteSet(apart)
      <4>1. i \in Int /\ 1..i \subseteq Nat /\ apart \subseteq 1..i
        BY <1>1
      <4>2. IsFiniteSet(1..i)
        BY <4>1, FS_Interval
      <4> HIDE DEF apart
      <4> QED BY <4>1, <4>2, FS_Subset
    <3> HIDE DEF apart
    <3>2. PICK k \in apart : \A x \in apart : k <= x
      BY <2>2, <3>1, MinTyped
    <3> USE DEF apart
    <3>3. /\ k \in 1..Len(p) /\ k \in 1..i /\ r[k].object # p[k].object
          /\ \A j \in 1..(k - 1) : j \in 1..i /\ ~(k <= j)
      BY <1>1, <3>2
    <3>4. \A j \in 1..(k - 1) : r[j].object = p[j].object
      BY <3>2, <3>3
    <3>5. p[k].object <= q[k].object /\ \A j \in 1..(k - 1) : p[j].object = q[j].object
      <4>1. k = i \/ k \in 1..(i - 1)
        BY <1>1, <3>3
      <4>2. \A j \in 1..(k - 1) : j \in 1..(i - 1)
        BY <1>1, <3>3
      <4>3. p[k].object \in Nat
        BY <1>1, <3>3
      <4> QED BY <1>1, <1>2, <3>3, <4>1, <4>2, <4>3
    <3>6. p[k].object \in Nat /\ r[k].object \in Nat /\ q[k].object \in Nat
      BY <1>1, <3>3
    <3>7. CASE p[k].object < r[k].object
      BY <1>1, <3>3, <3>4, <3>7 DEF BeforeInName
    <3>8. CASE r[k].object < p[k].object
      <4>1. r[k].object < q[k].object /\ \A j \in 1..(k - 1) : r[j].object = q[j].object
        BY <3>4, <3>5, <3>6, <3>8
      <4> QED BY <1>1, <3>3, <4>1 DEF BeforeInName
    <3> QED BY <3>3, <3>6, <3>7, <3>8
  <2> QED BY <2>1, <2>2
<1> QED BY <1>3, <1>4

LEMMA BetterIsStrict ==
  ASSUME NEW p \in Ways, NEW q \in Ways, NEW r \in Ways, Better(p, q)
  PROVE  ~Better(q, p) /\ (Better(p, r) \/ Better(r, q))
<1> DEFINE Three == {p, q, r}
<1>1. \A x \in Three : /\ x \in Ways
                       /\ Len(x) \in Nat /\ OriginFloor(x) \in Nat /\ Confidence(x) \in Nat
                       /\ ReliabilityFloor(x) \in Nat \X (Nat \ {0})
  BY FloorsTyped
<1>2. \A x, y, z \in Three : Fewer(x, y) => ~Fewer(y, x) /\ (Fewer(x, z) \/ Fewer(z, y))
  BY <1>1 DEF Fewer
<1>3. \A x, y, z \in Three : Surer(x, y) => ~Surer(y, x) /\ (Surer(x, z) \/ Surer(z, y))
  BY <1>1 DEF Surer
<1>4. \A x, y, z \in Three :
        MoreReliable(x, y) => ~MoreReliable(y, x) /\ (MoreReliable(x, z) \/ MoreReliable(z, y))
  <2> SUFFICES ASSUME NEW x \in Three, NEW y \in Three, NEW z \in Three, MoreReliable(x, y)
               PROVE  ~MoreReliable(y, x) /\ (MoreReliable(x, z) \/ MoreReliable(z, y))
    OBVIOUS
  <2> HIDE DEF Three
  <2> QED BY <1>1, FractionsCompare DEF MoreReliable
<1>5. \A x, y, z \in Three : Len(x) = Len(y) /\ Len(z) = Len(x) /\ BeforeInName(x, y) =>
        ~BeforeInName(y, x) /\ (BeforeInName(x, z) \/ BeforeInName(z, y))
  BY <1>1, NamesCompare
<1>6. \A x, y \in Three : Better(x, y) <=>
           \/ Fewer(x, y)
           \/ /\ ~Fewer(y, x)
              /\ \/ MoreReliable(x, y)
                 \/ /\ ~MoreReliable(y, x)
                    /\ \/ Surer(x, y)
                       \/ /\ ~Surer(y, x)
                          /\ \/ Len(x) < Len(y)
                             \/ Len(x) = Len(y) /\ BeforeInName(x, y)
  BY <1>1, BetterIs
<1>7. p \in Three /\ q \in Three /\ r \in Three
  OBVIOUS
<1> HIDE DEF Three
<1>8. ~Better(q, p)
  <2>1. Len(p) \in Nat /\ Len(q) \in Nat
    BY <1>1, <1>7
  <2> QED BY <1>2, <1>3, <1>4, <1>5, <1>6, <1>7, <2>1
<1>9. Better(p, r) \/ Better(r, q)
  <2>1. Len(p) \in Nat /\ Len(q) \in Nat /\ Len(r) \in Nat
    BY <1>1, <1>7
  <2> QED BY <1>2, <1>3, <1>4, <1>5, <1>6, <1>7, <2>1
<1> QED BY <1>8, <1>9

-----------------------------------------------------------------------------
(* Sequences that list a set, each element once.                            *)

Listing(s, S) ==
  /\ s \in Seq(S)
  /\ \A x \in S : \E i \in 1..Len(s) : s[i] = x
  /\ \A i, j \in 1..Len(s) : s[i] = s[j] => i = j

LEMMA ListingsJoin ==
  ASSUME NEW S, NEW T, NEW s, NEW t, Listing(s, S), Listing(t, T), S \cap T = {}
  PROVE  Listing(s \o t, S \cup T)
<1> DEFINE U == S \cup T
           st == s \o t
<1>1. s \in Seq(S) /\ t \in Seq(T) /\ s \in Seq(U) /\ t \in Seq(U)
  BY DEF Listing
<1>2. /\ Len(s) \in Nat /\ Len(t) \in Nat
      /\ \A i \in 1..Len(s) : s[i] \in S
      /\ \A i \in 1..Len(t) : t[i] \in T
  BY <1>1
<1>3. /\ st \in Seq(U) /\ Len(st) = Len(s) + Len(t)
      /\ \A i \in 1..Len(s) + Len(t) : st[i] = IF i <= Len(s) THEN s[i] ELSE t[i - Len(s)]
  BY <1>1, ConcatProperties
<1> HIDE DEF st, U
<1>4. \A i \in 1..Len(s) : i \in 1..Len(st) /\ st[i] = s[i]
  BY <1>2, <1>3
<1>5. \A i \in 1..Len(t) : i + Len(s) \in 1..Len(st) /\ st[i + Len(s)] = t[i]
  <2> SUFFICES ASSUME NEW i \in 1..Len(t)
               PROVE  i + Len(s) \in 1..Len(st) /\ st[i + Len(s)] = t[i]
    OBVIOUS
  <2>1. i + Len(s) \in 1..Len(s) + Len(t) /\ ~(i + Len(s) <= Len(s)) /\ (i + Len(s)) - Len(s) = i
    BY <1>2
  <2> QED BY <1>3, <2>1
<1>6. \A i \in 1..Len(st) : i \in 1..Len(s) \/ (i - Len(s) \in 1..Len(t) /\ ~(i <= Len(s)))
  BY <1>2, <1>3
<1>7. ASSUME NEW x \in U PROVE \E i \in 1..Len(st) : st[i] = x
  <2>1. CASE x \in S
    BY <1>4, <2>1 DEF Listing
  <2>2. CASE x \in T
    <3>1. PICK i \in 1..Len(t) : t[i] = x
      BY <2>2 DEF Listing
    <3> QED BY <1>5, <3>1
  <2> QED BY <2>1, <2>2 DEF U
<1>8. ASSUME NEW i \in 1..Len(st), NEW j \in 1..Len(st), st[i] = st[j] PROVE i = j
  <2>1. CASE i \in 1..Len(s) /\ j \in 1..Len(s)
    BY <1>4, <1>8, <2>1 DEF Listing
  <2> DEFINE late(k) == k - Len(s) \in 1..Len(t) /\ ~(k <= Len(s))
  <2>2. \A k \in 1..Len(st) : late(k) => st[k] = t[k - Len(s)]
    BY <1>3
  <2>3. CASE late(i) /\ late(j)
    <3>1. i - Len(s) = j - Len(s)
      <4>1. t[i - Len(s)] = t[j - Len(s)]
        BY <1>8, <2>2, <2>3
      <4> QED BY <2>3, <4>1 DEF Listing
    <3>2. i \in Int /\ j \in Int
      OBVIOUS
    <3> QED BY <1>2, <3>1, <3>2
  <2>4. CASE i \in 1..Len(s) /\ late(j)
    <3>1. st[i] \in S /\ st[j] \in T
      BY <1>2, <1>4, <2>2, <2>4
    <3> QED BY <1>8, <3>1
  <2>5. CASE late(i) /\ j \in 1..Len(s)
    <3>1. st[j] \in S /\ st[i] \in T
      BY <1>2, <1>4, <2>2, <2>5
    <3> QED BY <1>8, <3>1
  <2> QED BY <1>6, <2>1, <2>3, <2>4, <2>5
<1> QED BY <1>3, <1>7, <1>8 DEF Listing, U, st

LEMMA ListingCounts ==
  ASSUME NEW S, NEW s, Listing(s, S)
  PROVE  IsFiniteSet(S) /\ Cardinality(S) = Len(s) /\ Len(s) \in Nat
<1>1. Len(s) \in Nat /\ s \in [1..Len(s) -> S]
  BY DEF Listing
<1>2. s \in Bijection(1..Len(s), S)
  BY <1>1 DEF Listing, Bijection, Injection, Surjection, IsInjective
<1>3. ExistsBijection(1..Len(s), S)
  BY <1>2 DEF ExistsBijection
<1>4. IsFiniteSet(1..Len(s)) /\ Cardinality(1..Len(s)) = Len(s)
  BY <1>1, FS_Interval
<1> QED BY <1>1, <1>3, <1>4, FS_Bijection

-----------------------------------------------------------------------------
(* The edges that lead on from a path, in their order.                      *)

\* Logical edges: few, and no two of one subject, predicate and object.
GraphOf(graph) ==
  /\ graph \subseteq Links /\ IsFiniteSet(graph)
  /\ \A e, f \in graph :
       e.subject = f.subject /\ e.predicate = f.predicate /\ e.object = f.object => e = f

LEMMA ByNameLists ==
  ASSUME NEW graph, GraphOf(graph), NEW onward \in SUBSET graph, NEW node,
         \A e \in onward : e.subject = node
  PROVE  Listing(ByName(onward), onward)
<1> DEFINE First(e, f) == e.object < f.object
                          \/ (e.object = f.object /\ e.predicate < f.predicate)
           R == {p \in onward \X onward : First(p[1], p[2])}
           n == Cardinality(onward)
<1>1. \A e \in onward : e.object \in Nat /\ e.predicate \in Nat
  BY DEF GraphOf, Links
<1>2. \A e, f \in onward : <<e, f>> \in R <=> First(e, f)
  OBVIOUS
<1>3. StrictOn(onward, R)
  <2>1. \A e, f, g \in onward : ~First(e, e) /\ (First(e, f) /\ First(f, g) => First(e, g))
    BY <1>1
  <2> HIDE DEF R, First
  <2> QED BY <1>2, <2>1 DEF StrictOn
<1>4. TotalOn(onward, R)
  <2>1. \A e, f \in onward : e # f => e.object # f.object \/ e.predicate # f.predicate
    BY DEF GraphOf
  <2>2. \A e, f \in onward : e # f => First(e, f) \/ First(f, e)
    BY <1>1, <2>1
  <2> HIDE DEF R, First
  <2> QED BY <1>2, <2>2 DEF TotalOn
<1>5. IsFiniteSet(onward)
  BY FS_Subset DEF GraphOf
<1>6. n \in Nat
  BY <1>5, FS_CardinalityType
<1> DEFINE Ordered(o) == \A i, j \in DOMAIN o : i < j => First(o[i], o[j])
<1>7. \E o \in [1..n -> onward] : Ordered(o)
  <2> HIDE DEF R, First
  <2>1. PICK f \in [1..n -> onward] : \A i, j \in 1..n : i < j => <<f[i], f[j]>> \in R
    BY <1>3, <1>4, <1>5, Ranking
  <2> QED BY <1>2, <2>1
<1>8. ByName(onward) = CHOOSE o \in [1..n -> onward] : Ordered(o)
  BY DEF ByName
<1> DEFINE o == ByName(onward)
<1>9. o \in [1..n -> onward] /\ Ordered(o)
  <2> HIDE DEF n, Ordered
  <2> QED BY <1>7, <1>8
<1> HIDE DEF o, n
<1>10. DOMAIN o = 1..n /\ \A i \in 1..n : o[i] \in onward
  BY <1>9
<1>11. \A i, j \in 1..n : o[i] = o[j] => i = j
  <2> SUFFICES ASSUME NEW i \in 1..n, NEW j \in 1..n, o[i] = o[j], i # j PROVE FALSE
    OBVIOUS
  <2>1. i < j \/ j < i
    BY <1>6
  <2>2. First(o[i], o[j]) \/ First(o[j], o[i])
    <3> HIDE DEF First
    <3> QED BY <1>9, <1>10, <2>1
  <2> QED BY <1>1, <1>10, <2>2
<1>12. o \in Surjection(1..n, onward)
  <2>1. o \in Injection(1..n, onward)
    BY <1>9, <1>11 DEF Injection, IsInjective
  <2>2. IsFiniteSet(1..n) /\ Cardinality(1..n) = n
    BY <1>6, FS_Interval
  <2> QED BY <1>5, <2>1, <2>2, FS_Injection DEF n
<1>13. o \in Seq(onward) /\ Len(o) = n
  BY <1>6, <1>9
<1> QED BY <1>11, <1>12, <1>13 DEF o, Listing, Surjection

LEMMA AlongLists ==
  ASSUME NEW graph, GraphOf(graph), NEW onward \in SUBSET graph, NEW node,
         \A e \in onward : e.subject = node, NEW path \in Seq(graph)
  PROVE  Listing(Along(path, onward), {Append(path, e) : e \in onward})
<1> DEFINE o == ByName(onward)
           along == [k \in DOMAIN o |-> Append(path, o[k])]
           S == {Append(path, e) : e \in onward}
<1>1. Listing(o, onward)
  BY ByNameLists
<1> HIDE DEF o
<1>2. Len(o) \in Nat /\ DOMAIN o = 1..Len(o) /\ \A k \in 1..Len(o) : o[k] \in onward
  BY <1>1 DEF Listing
<1>3. along \in Seq(S) /\ Len(along) = Len(o)
  BY <1>2
<1>4. \A k \in 1..Len(o) : along[k] = Append(path, o[k])
  BY <1>2
<1> HIDE DEF along
<1>5. ASSUME NEW x \in S PROVE \E i \in 1..Len(along) : along[i] = x
  <2>1. PICK e \in onward : x = Append(path, e)
    OBVIOUS
  <2>2. PICK i \in 1..Len(o) : o[i] = e
    BY <1>1 DEF Listing
  <2> QED BY <1>3, <1>4, <2>1, <2>2
<1>6. \A e, f \in onward : Append(path, e) = Append(path, f) => e = f
  BY AppendInjective
<1>7. ASSUME NEW i \in 1..Len(along), NEW j \in 1..Len(along), along[i] = along[j] PROVE i = j
  <2>1. Append(path, o[i]) = Append(path, o[j]) /\ o[i] \in onward /\ o[j] \in onward
    BY <1>2, <1>3, <1>4, <1>7
  <2>2. o[i] = o[j]
    BY <1>6, <2>1
  <2> QED BY <1>1, <1>3, <2>2 DEF Listing
<1>8. Along(path, onward) = along
  BY DEF Along, along, o
<1> HIDE DEF S
<1>9. Listing(along, S)
  BY <1>3, <1>5, <1>7 DEF Listing
<1> QED BY <1>8, <1>9 DEF S

-----------------------------------------------------------------------------
(* Trails, the paths that visit no node twice, grow by what Onward gives.   *)

Trail(p, source) ==
  LET nodes == NodesOf(p, source)
  IN  (\A i \in DOMAIN p : p[i].subject = nodes[i]) /\ IsInjective(nodes)

\* The trails of a length that have not met the target, and those that end there.
Wandering(graph, asked, h) ==
  {p \in Seq(graph) : /\ Len(p) = h /\ Trail(p, asked.source)
                      /\ \A i \in 1..h : p[i].object # asked.target}
Arrived(graph, asked, h) ==
  {p \in Seq(graph) : /\ Len(p) = h /\ Trail(p, asked.source)
                      /\ EndOf(p, asked.source) = asked.target}

LEMMA NodesAre ==
  ASSUME NEW S, NEW p \in Seq(S), NEW source
  PROVE  /\ Len(p) \in Nat /\ DOMAIN NodesOf(p, source) = 1..Len(p) + 1
         /\ NodesOf(p, source)[1] = source
         /\ \A i \in 1..Len(p) : NodesOf(p, source)[i + 1] = p[i].object
         /\ EndOf(p, source) = NodesOf(p, source)[Len(p) + 1]
<1> DEFINE T == {source} \cup {p[i].object : i \in 1..Len(p)}
           objects == [i \in DOMAIN p |-> p[i].object]
           nodes == <<source>> \o objects
<1>1. Len(p) \in Nat /\ DOMAIN p = 1..Len(p)
  OBVIOUS
<1>2. objects \in Seq(T) /\ Len(objects) = Len(p) /\ \A i \in 1..Len(p) : objects[i] = p[i].object
  BY <1>1
<1>3. <<source>> \in Seq(T) /\ Len(<<source>>) = 1 /\ <<source>>[1] = source
  OBVIOUS
<1> HIDE DEF objects, T
<1>4. /\ nodes \in Seq(T) /\ Len(nodes) = 1 + Len(p)
      /\ \A i \in 1..1 + Len(p) : nodes[i] = IF i <= 1 THEN <<source>>[i] ELSE objects[i - 1]
  BY <1>2, <1>3, ConcatProperties
<1> HIDE DEF nodes
<1>5. DOMAIN nodes = 1..Len(p) + 1 /\ nodes[1] = source
  BY <1>1, <1>3, <1>4
<1>6. \A i \in 1..Len(p) : nodes[i + 1] = p[i].object
  <2> SUFFICES ASSUME NEW i \in 1..Len(p) PROVE nodes[i + 1] = p[i].object
    OBVIOUS
  <2>1. i + 1 \in 1..1 + Len(p) /\ ~(i + 1 <= 1) /\ (i + 1) - 1 = i
    BY <1>1
  <2> QED BY <1>2, <1>4, <2>1
<1>7. EndOf(p, source) = nodes[Len(p) + 1]
  <2>1. CASE p = <<>>
    BY <1>5, <2>1 DEF EndOf
  <2>2. CASE p # <<>>
    <3>1. Len(p) \in 1..Len(p)
      BY <1>1, <2>2, EmptySeq
    <3> QED BY <1>6, <2>2, <3>1 DEF EndOf
  <2> QED BY <2>1, <2>2
<1>8. NodesOf(p, source) = nodes
  BY DEF NodesOf, nodes, objects
<1> QED BY <1>1, <1>5, <1>6, <1>7, <1>8

LEMMA TrailGrows ==
  ASSUME NEW graph, NEW q \in Seq(graph), NEW e \in graph, NEW source
  PROVE  Trail(Append(q, e), source) <=> Trail(q, source) /\ e \in Onward(graph, q, source)
<1> DEFINE p == Append(q, e)
           N == NodesOf(p, source)
           M == NodesOf(q, source)
           n == Len(q)
<1>1. /\ n \in Nat /\ p \in Seq(graph) /\ Len(p) = n + 1 /\ DOMAIN p = 1..n + 1 /\ DOMAIN q = 1..n
      /\ \A i \in 1..n : p[i] = q[i]
      /\ p[n + 1] = e
  BY AppendProperties
<1> HIDE DEF p
<1>2. /\ DOMAIN M = 1..n + 1 /\ M[1] = source /\ EndOf(q, source) = M[n + 1]
      /\ \A i \in 1..n : M[i + 1] = q[i].object
  BY NodesAre
<1>3. /\ DOMAIN N = 1..(n + 1) + 1 /\ N[1] = source
      /\ \A i \in 1..n + 1 : N[i + 1] = p[i].object
  BY <1>1, NodesAre
<1> HIDE DEF n, N, M
<1>4. \A i \in 1..n + 1 : N[i] = M[i]
  <2> SUFFICES ASSUME NEW i \in 1..n + 1 PROVE N[i] = M[i]
    OBVIOUS
  <2>1. CASE i = 1
    BY <1>2, <1>3, <2>1
  <2>2. CASE i # 1
    <3>1. i - 1 \in 1..n /\ i - 1 \in 1..n + 1 /\ (i - 1) + 1 = i
      BY <1>1, <2>2
    <3> QED BY <1>1, <1>2, <1>3, <3>1
  <2> QED BY <2>1, <2>2
<1>5. N[n + 2] = e.object /\ n + 2 \in DOMAIN N
  <2>1. n + 1 \in 1..n + 1 /\ (n + 1) + 1 = n + 2 /\ n + 2 \in 1..(n + 1) + 1
    BY <1>1
  <2> QED BY <1>1, <1>3, <2>1
<1>6. (\A i \in 1..n + 1 : p[i].subject = N[i])
      <=> (\A i \in 1..n : q[i].subject = M[i]) /\ e.subject = M[n + 1]
  <2>1. n + 1 \in 1..n + 1 /\ \A i \in 1..n + 1 : i \in 1..n \/ i = n + 1
    BY <1>1
  <2>2. \A i \in 1..n : i \in 1..n + 1
    BY <1>1
  <2>3. \A i \in 1..n : p[i].subject = N[i] <=> q[i].subject = M[i]
    BY <1>1, <1>4, <2>2
  <2>4. p[n + 1].subject = N[n + 1] <=> e.subject = M[n + 1]
    BY <1>1, <1>4, <2>1
  <2> QED BY <2>1, <2>2, <2>3, <2>4
<1>7. \A i \in DOMAIN N : i \in DOMAIN M \/ i = n + 2
  BY <1>1, <1>2, <1>3
<1>8. \A i \in DOMAIN M : i \in DOMAIN N /\ N[i] = M[i] /\ i # n + 2
  BY <1>1, <1>2, <1>3, <1>4
<1>9. IsInjective(N) <=> IsInjective(M) /\ e.object \notin Range(M)
  <2>1. ASSUME IsInjective(N) PROVE IsInjective(M) /\ e.object \notin Range(M)
    BY <1>5, <1>8, <2>1 DEF IsInjective, Range
  <2>2. ASSUME IsInjective(M), e.object \notin Range(M) PROVE IsInjective(N)
    <3> SUFFICES ASSUME NEW i \in DOMAIN N, NEW j \in DOMAIN N, N[i] = N[j], i # j PROVE FALSE
      BY DEF IsInjective
    <3>1. CASE i \in DOMAIN M /\ j \in DOMAIN M
      BY <1>8, <2>2, <3>1 DEF IsInjective
    <3>2. CASE i \in DOMAIN M /\ j = n + 2
      BY <1>5, <1>8, <2>2, <3>2 DEF Range
    <3>3. CASE i = n + 2 /\ j \in DOMAIN M
      BY <1>5, <1>8, <2>2, <3>3 DEF Range
    <3> QED BY <1>7, <3>1, <3>2, <3>3
  <2> QED BY <2>1, <2>2
<1>10. Trail(p, source) <=> (\A i \in 1..n + 1 : p[i].subject = N[i]) /\ IsInjective(N)
  BY <1>1 DEF Trail, N
<1>11. Trail(q, source) <=> (\A i \in 1..n : q[i].subject = M[i]) /\ IsInjective(M)
  BY <1>1 DEF Trail, M
<1>12. e \in Onward(graph, q, source) <=> e.subject = M[n + 1] /\ e.object \notin Range(M)
  BY <1>2 DEF Onward, M
<1> QED BY <1>6, <1>9, <1>10, <1>11, <1>12 DEF p

\* What one path of the queue gives: trails that arrive, and trails that go on.
Arriving(graph, asked, w) ==
  {Append(w, e) : e \in {f \in Onward(graph, w, asked.source) : f.object = asked.target}}
GoingOn(graph, asked, w) ==
  {Append(w, e) : e \in {f \in Onward(graph, w, asked.source) : f.object # asked.target}}

LEMMA EndOfAppend ==
  ASSUME NEW graph, NEW q \in Seq(graph), NEW e \in graph, NEW source
  PROVE  EndOf(Append(q, e), source) = e.object
<1>1. Append(q, e) # <<>> /\ Append(q, e)[Len(Append(q, e))] = e
  BY AppendProperties
<1> QED BY <1>1 DEF EndOf

\* An edge on, every trail of the next length is found, and from one trail only.
LEMMA RoundGrows ==
  ASSUME NEW graph, NEW asked, NEW h \in Nat
  PROVE  /\ UNION {Arriving(graph, asked, w) : w \in Wandering(graph, asked, h)}
              = Arrived(graph, asked, h + 1)
         /\ UNION {GoingOn(graph, asked, w) : w \in Wandering(graph, asked, h)}
              = Wandering(graph, asked, h + 1)
         /\ \A w, v \in Wandering(graph, asked, h) : w # v =>
              /\ Arriving(graph, asked, w) \cap Arriving(graph, asked, v) = {}
              /\ GoingOn(graph, asked, w) \cap GoingOn(graph, asked, v) = {}
<1> DEFINE s == asked.source
           t == asked.target
<1>1. \A w \in Seq(graph) : Onward(graph, w, s) \subseteq graph
  BY DEF Onward
<1>2. ASSUME NEW w \in Wandering(graph, asked, h), NEW e \in Onward(graph, w, s)
      PROVE  /\ w \in Seq(graph) /\ e \in graph /\ Append(w, e) \in Seq(graph)
             /\ Len(Append(w, e)) = h + 1 /\ Trail(Append(w, e), s)
             /\ EndOf(Append(w, e), s) = e.object
             /\ \A i \in 1..h : Append(w, e)[i].object # t
             /\ Append(w, e)[h + 1] = e
  <2>1. w \in Seq(graph) /\ Len(w) = h /\ Trail(w, s) /\ \A i \in 1..h : w[i].object # t
    BY DEF Wandering
  <2>2. e \in graph
    BY <1>1, <2>1
  <2>3. Trail(Append(w, e), s)
    BY <2>1, <2>2, TrailGrows
  <2>4. EndOf(Append(w, e), s) = e.object
    BY <2>1, <2>2, EndOfAppend
  <2>5. /\ Append(w, e) \in Seq(graph) /\ Len(Append(w, e)) = h + 1
        /\ \A i \in 1..h : Append(w, e)[i] = w[i]
        /\ Append(w, e)[h + 1] = e
    BY <2>1, <2>2, AppendProperties
  <2> QED BY <2>1, <2>2, <2>3, <2>4, <2>5
<1>3. ASSUME NEW p \in Seq(graph), Len(p) = h + 1, Trail(p, s), \A i \in 1..h : p[i].object # t
      PROVE  \E w \in Wandering(graph, asked, h) : \E e \in Onward(graph, w, s) :
               p = Append(w, e) /\ e.object = EndOf(p, s) /\ p[h + 1] = e
  <2>1. p # <<>>
    BY <1>3, EmptySeq
  <2>2. PICK w \in Seq(graph), e \in graph : p = Append(w, e)
    BY <2>1, SequenceEmptyOrAppend
  <2>3. Len(w) = h /\ (\A i \in 1..h : p[i] = w[i]) /\ p[h + 1] = e
    <3>1. Len(w) \in Nat /\ Len(p) = Len(w) + 1
      BY <2>2, AppendProperties
    <3>2. Len(w) = h
      BY <1>3, <3>1
    <3> QED BY <2>2, <3>2, AppendProperties
  <2>4. Trail(w, s) /\ e \in Onward(graph, w, s)
    BY <1>3, <2>2, TrailGrows
  <2>5. w \in Wandering(graph, asked, h)
    BY <1>3, <2>3, <2>4 DEF Wandering
  <2>6. EndOf(p, s) = e.object
    BY <2>2, EndOfAppend
  <2> QED BY <2>2, <2>3, <2>4, <2>5, <2>6
<1>4. ASSUME NEW p \in Arrived(graph, asked, h + 1) PROVE \A i \in 1..h : p[i].object # t
  <2> SUFFICES ASSUME NEW i \in 1..h, p[i].object = t PROVE FALSE
    OBVIOUS
  <2> DEFINE N == NodesOf(p, s)
  <2>1. p \in Seq(graph) /\ Len(p) = h + 1 /\ IsInjective(N) /\ EndOf(p, s) = t
    BY DEF Arrived, Trail
  <2>2. /\ DOMAIN N = 1..(h + 1) + 1 /\ \A k \in 1..h + 1 : N[k + 1] = p[k].object
        /\ EndOf(p, s) = N[(h + 1) + 1]
    <3>1. /\ DOMAIN N = 1..Len(p) + 1 /\ \A k \in 1..Len(p) : N[k + 1] = p[k].object
          /\ EndOf(p, s) = N[Len(p) + 1]
      <4>1. p \in Seq(graph)
        BY <2>1
      <4> HIDE DEF s
      <4> QED BY ONLY <4>1, NodesAre
    <3> HIDE DEF N
    <3> QED BY <2>1, <3>1
  <2> HIDE DEF N
  <2>3. /\ i \in 1..h + 1 /\ i + 1 \in DOMAIN N /\ (h + 1) + 1 \in DOMAIN N
        /\ i + 1 # (h + 1) + 1
    BY <2>2
  <2>4. N[i + 1] = N[(h + 1) + 1]
    BY <2>1, <2>2, <2>3
  <2> QED BY <2>1, <2>3, <2>4 DEF IsInjective
<1>5. \A p : p \in UNION {Arriving(graph, asked, w) : w \in Wandering(graph, asked, h)}
             <=> p \in Arrived(graph, asked, h + 1)
  <2>1. ASSUME NEW w \in Wandering(graph, asked, h), NEW p \in Arriving(graph, asked, w)
        PROVE  p \in Arrived(graph, asked, h + 1)
    <3>1. PICK e \in Onward(graph, w, s) : p = Append(w, e) /\ e.object = t
      BY DEF Arriving
    <3> QED BY <1>2, <3>1 DEF Arrived
  <2>2. ASSUME NEW p \in Arrived(graph, asked, h + 1)
        PROVE  \E w \in Wandering(graph, asked, h) : p \in Arriving(graph, asked, w)
    <3>1. p \in Seq(graph) /\ Len(p) = h + 1 /\ Trail(p, s) /\ EndOf(p, s) = t
      BY DEF Arrived
    <3>2. PICK w \in Wandering(graph, asked, h) :
            \E e \in Onward(graph, w, s) : p = Append(w, e) /\ e.object = EndOf(p, s)
      BY <1>3, <1>4, <3>1
    <3> QED BY <3>1, <3>2 DEF Arriving
  <2> QED BY <2>1, <2>2
<1>6. \A p : p \in UNION {GoingOn(graph, asked, w) : w \in Wandering(graph, asked, h)}
             <=> p \in Wandering(graph, asked, h + 1)
  <2>3. \A i \in 1..h + 1 : i \in 1..h \/ i = h + 1
    OBVIOUS
  <2>1. ASSUME NEW w \in Wandering(graph, asked, h), NEW p \in GoingOn(graph, asked, w)
        PROVE  p \in Wandering(graph, asked, h + 1)
    <3>1. PICK e \in Onward(graph, w, s) : p = Append(w, e) /\ e.object # t
      BY DEF GoingOn
    <3>2. \A i \in 1..h + 1 : p[i].object # t
      BY <1>2, <2>3, <3>1
    <3> QED BY <1>2, <3>1, <3>2 DEF Wandering
  <2>2. ASSUME NEW p \in Wandering(graph, asked, h + 1)
        PROVE  \E w \in Wandering(graph, asked, h) : p \in GoingOn(graph, asked, w)
    <3>1. p \in Seq(graph) /\ Len(p) = h + 1 /\ Trail(p, s) /\ \A i \in 1..h + 1 : p[i].object # t
      BY DEF Wandering
    <3>2. h + 1 \in 1..h + 1 /\ \A i \in 1..h : i \in 1..h + 1
      OBVIOUS
    <3>3. PICK w \in Wandering(graph, asked, h) :
            \E e \in Onward(graph, w, s) : p = Append(w, e) /\ p[h + 1] = e
      BY <1>3, <3>1, <3>2
    <3>4. \E e \in Onward(graph, w, s) : p = Append(w, e) /\ e.object # t
      BY <3>1, <3>2, <3>3
    <3> QED BY <3>3, <3>4 DEF GoingOn
  <2> QED BY <2>1, <2>2
<1>7. ASSUME NEW w \in Wandering(graph, asked, h), NEW v \in Wandering(graph, asked, h),
             NEW e \in Onward(graph, w, s), NEW f \in Onward(graph, v, s),
             Append(w, e) = Append(v, f)
      PROVE  w = v
  <2>1. w \in Seq(graph) /\ v \in Seq(graph) /\ e \in graph /\ f \in graph
    BY <1>2
  <2> QED BY <1>7, <2>1, AppendInjective
<1>8. ASSUME NEW w \in Wandering(graph, asked, h), NEW v \in Wandering(graph, asked, h), w # v
      PROVE  /\ Arriving(graph, asked, w) \cap Arriving(graph, asked, v) = {}
             /\ GoingOn(graph, asked, w) \cap GoingOn(graph, asked, v) = {}
  <2>1. \A e \in Onward(graph, w, s), f \in Onward(graph, v, s) : Append(w, e) # Append(v, f)
    BY <1>7, <1>8
  <2> QED BY <2>1 DEF Arriving, GoingOn
<1> HIDE DEF s, t
<1> QED BY <1>5, <1>6, <1>8

-----------------------------------------------------------------------------
(* A round of the search, and all of them: what is found is a list of all    *)
(* that arrived so far, until there are enough; from then on it stays.      *)

Founds(graph) == [paths : Seq(Seq(graph)), waiting : Seq(Seq(graph))]

\* What was found, and after it what the path w gives unless there was enough.
Extended(graph, asked, found, w, after) ==
  \E a, g \in Seq(Seq(graph)) :
     /\ Listing(a, Arriving(graph, asked, w)) /\ Listing(g, GoingOn(graph, asked, w))
     /\ after = IF Len(found.paths) >= asked.maxPaths THEN found
                ELSE [paths |-> found.paths \o a, waiting |-> found.waiting \o g]

LEMMA ExtendLists ==
  ASSUME NEW graph, GraphOf(graph), NEW asked, NEW found, NEW w \in Seq(graph)
  PROVE  Extended(graph, asked, found, w, Extend(graph, asked, found, w))
<1> DEFINE onward == Onward(graph, w, asked.source)
           arriving == {e \in onward : e.object = asked.target}
           going == {e \in onward : e.object # asked.target}
           a == Along(w, arriving)
           g == Along(w, going)
<1>1. onward \subseteq graph /\ \A e \in onward : e.subject = EndOf(w, asked.source)
  BY DEF Onward
<1>2. /\ Arriving(graph, asked, w) = {Append(w, e) : e \in arriving}
      /\ GoingOn(graph, asked, w) = {Append(w, e) : e \in going}
  BY DEF Arriving, GoingOn
<1>3. /\ arriving \in SUBSET graph /\ going \in SUBSET graph /\ onward \ arriving = going
      /\ \A e \in arriving : e.subject = EndOf(w, asked.source)
      /\ \A e \in going : e.subject = EndOf(w, asked.source)
  BY <1>1
<1>4. Extend(graph, asked, found, w) =
        IF Len(found.paths) >= asked.maxPaths THEN found
        ELSE [paths |-> found.paths \o a, waiting |-> found.waiting \o g]
  BY <1>3 DEF Extend
<1> HIDE DEF arriving, going, onward
<1>5. Listing(a, Arriving(graph, asked, w)) /\ Listing(g, GoingOn(graph, asked, w))
  <2> DEFINE node == EndOf(w, asked.source)
  <2>1. arriving \in SUBSET graph /\ \A e \in arriving : e.subject = node
    BY <1>3
  <2>4. going \in SUBSET graph /\ \A e \in going : e.subject = node
    BY <1>3
  <2> HIDE DEF node
  <2>2. Listing(a, {Append(w, e) : e \in arriving})
    BY ONLY GraphOf(graph), w \in Seq(graph), <2>1, AlongLists
  <2>3. Listing(g, {Append(w, e) : e \in going})
    BY ONLY GraphOf(graph), w \in Seq(graph), <2>4, AlongLists
  <2> QED BY <1>2, <2>2, <2>3
<1>6. a \in Seq(Seq(graph)) /\ g \in Seq(Seq(graph))
  <2>1. \A e \in graph : Append(w, e) \in Seq(graph)
    BY AppendProperties
  <2>2. Arriving(graph, asked, w) \subseteq Seq(graph) /\ GoingOn(graph, asked, w) \subseteq Seq(graph)
    BY <1>2, <1>3, <2>1
  <2> HIDE DEF a, g
  <2>3. a \in Seq(Arriving(graph, asked, w)) /\ g \in Seq(GoingOn(graph, asked, w))
    BY <1>5 DEF Listing
  <2> QED BY <2>2, <2>3, SeqMonotonic
<1> HIDE DEF a, g
<1> QED BY <1>4, <1>5, <1>6 DEF Extended

LEMMA ExtendIs ==
  ASSUME NEW graph, GraphOf(graph), NEW asked, NEW found \in Founds(graph), NEW w \in Seq(graph)
  PROVE  /\ Extend(graph, asked, found, w) \in Founds(graph)
         /\ Len(found.paths) >= asked.maxPaths => Extend(graph, asked, found, w) = found
<1>3. Extended(graph, asked, found, w, Extend(graph, asked, found, w))
  BY ExtendLists
<1>1. PICK a \in Seq(Seq(graph)), g \in Seq(Seq(graph)) :
         Extend(graph, asked, found, w) =
            IF Len(found.paths) >= asked.maxPaths THEN found
            ELSE [paths |-> found.paths \o a, waiting |-> found.waiting \o g]
  BY <1>3 DEF Extended
<1>2. [paths |-> found.paths \o a, waiting |-> found.waiting \o g] \in Founds(graph)
  <2>1. found.paths \in Seq(Seq(graph)) /\ found.waiting \in Seq(Seq(graph))
    BY DEF Founds
  <2>2. found.paths \o a \in Seq(Seq(graph)) /\ found.waiting \o g \in Seq(Seq(graph))
    BY <2>1, ConcatProperties
  <2> QED BY <2>2 DEF Founds
<1> QED BY <1>1, <1>2

LEMMA ExploreUnfold ==
  ASSUME NEW graph, GraphOf(graph), NEW asked, NEW search \in Founds(graph)
  PROVE  \E f \in [0..Len(search.waiting) -> Founds(graph)] :
            /\ f[0] = [paths |-> search.paths, waiting |-> <<>>]
            /\ \A n \in 1..Len(search.waiting) :
                 f[n] = Extend(graph, asked, f[n - 1], search.waiting[n])
            /\ Explore(graph, asked, search) = f[Len(search.waiting)]
<1> DEFINE N == Len(search.waiting)
           S == Founds(graph)
           start == [paths |-> search.paths, waiting |-> <<>>]
           step == [p \in S \X (1..N) |-> Extend(graph, asked, p[1], search.waiting[p[2]])]
           Is(f) == f = [n \in 0..N |-> IF n = 0 THEN start
                           ELSE Extend(graph, asked, f[n - 1], search.waiting[n])]
           taken == CHOOSE f : Is(f)
<1>1. N \in Nat /\ start \in S /\ \A n \in 1..N : search.waiting[n] \in Seq(graph)
  <2>1. search.paths \in Seq(Seq(graph)) /\ search.waiting \in Seq(Seq(graph))
    BY DEF Founds
  <2>2. <<>> \in Seq(Seq(graph))
    OBVIOUS
  <2> QED BY <2>1, <2>2 DEF Founds
<1>2. step \in Steps(S, N)
  <2>1. \A p \in S \X (1..N) : Extend(graph, asked, p[1], search.waiting[p[2]]) \in S
    BY <1>1, ExtendIs
  <2> QED BY <2>1 DEF Steps
<1>3. \A x \in S, n \in 1..N : step[<<x, n>>] = Extend(graph, asked, x, search.waiting[n])
  OBVIOUS
<1>4. \E f \in [0..N -> S] : Is(f)
  <2> HIDE DEF step, S, start, N
  <2>1. PICK f \in [0..N -> S] : f[0] = start /\ \A n \in 1..N : f[n] = step[<<f[n - 1], n>>]
    <3>1. ValuesOf(S, N, start, step) # {}
      BY <1>1, <1>2, StepwiseExists
    <3> QED BY <3>1 DEF ValuesOf
  <2>2. \A n \in 0..N : n # 0 => n \in 1..N /\ f[n - 1] \in S
    BY <1>1
  <2>3. \A n \in 0..N : n # 0 => f[n] = Extend(graph, asked, f[n - 1], search.waiting[n])
    BY <1>3, <2>1, <2>2
  <2>4. Is(f)
    BY <2>1, <2>3
  <2> QED BY <2>4
<1>5. Is(taken)
  BY <1>4
<1>6. Explore(graph, asked, search) = taken[N]
  BY DEF Explore
<1> HIDE DEF taken
<1>7. taken[0] = start /\ \A n \in 1..N : taken[n] = Extend(graph, asked, taken[n - 1], search.waiting[n])
  <2>1. \A n \in 0..N : taken[n] = IF n = 0 THEN start
                                  ELSE Extend(graph, asked, taken[n - 1], search.waiting[n])
    BY <1>5
  <2> HIDE DEF start, N
  <2>2. 0 \in 0..N /\ \A n \in 1..N : n \in 0..N /\ n # 0
    BY <1>1
  <2> QED BY <2>1, <2>2
<1> DEFINE P == {n \in 0..N : taken[n] \in S}
<1>8. 0..N \subseteq P
  <2>1. 0 \in P
    BY <1>1, <1>7
  <2>2. ASSUME NEW n \in 0..N, n < N, n \in P PROVE n + 1 \in P
    <3>1. n + 1 \in 1..N /\ (n + 1) - 1 = n
      BY <1>1, <2>2
    <3>2. taken[n + 1] = Extend(graph, asked, taken[n], search.waiting[n + 1])
      BY <1>7, <3>1
    <3>3. taken[n] \in S /\ search.waiting[n + 1] \in Seq(graph)
      BY <1>1, <2>2, <3>1
    <3>4. Extend(graph, asked, taken[n], search.waiting[n + 1]) \in S
      BY <3>3, ExtendIs
    <3> QED BY <3>1, <3>2, <3>4
  <2> HIDE DEF P
  <2> QED BY <1>1, <2>1, <2>2, Upwards
<1>9. taken \in [0..N -> S]
  <2>1. taken = [n \in 0..N |-> taken[n]]
    BY <1>5
  <2> QED BY <1>8, <2>1
<1> QED BY <1>6, <1>7, <1>9

\* Once there are enough, no path more is taken up.
LEMMA EnoughIsEnough ==
  ASSUME NEW graph, GraphOf(graph), NEW asked, NEW search \in Founds(graph),
         Len(search.paths) >= asked.maxPaths
  PROVE  /\ Explore(graph, asked, search) \in Founds(graph)
         /\ Explore(graph, asked, search).paths = search.paths
<1> DEFINE N == Len(search.waiting)
<1>1. N \in Nat /\ \A n \in 1..N : search.waiting[n] \in Seq(graph)
  BY DEF Founds
<1>2. PICK f \in [0..N -> Founds(graph)] :
            /\ f[0] = [paths |-> search.paths, waiting |-> <<>>]
            /\ \A n \in 1..N : f[n] = Extend(graph, asked, f[n - 1], search.waiting[n])
            /\ Explore(graph, asked, search) = f[N]
  BY ExploreUnfold
<1> HIDE DEF N
<1> DEFINE P == {n \in 0..N : f[n].paths = search.paths}
<1>3. 0..N \subseteq P
  <2>1. 0 \in P
    BY <1>1, <1>2
  <2>2. ASSUME NEW n \in 0..N, n < N, n \in P PROVE n + 1 \in P
    <3>1. n + 1 \in 1..N /\ n + 1 \in 0..N /\ (n + 1) - 1 = n /\ f[n] \in Founds(graph)
      BY <1>1, <1>2, <2>2
    <3>2. f[n + 1] = Extend(graph, asked, f[n], search.waiting[n + 1])
      BY <1>2, <3>1
    <3>3. f[n + 1] = f[n]
      BY <1>1, <2>2, <3>1, <3>2, ExtendIs
    <3> QED BY <2>2, <3>1, <3>3
  <2> HIDE DEF P
  <2> QED BY <1>1, <2>1, <2>2, Upwards
<1>4. N \in 0..N
  BY <1>1
<1> QED BY <1>2, <1>3, <1>4

LEMMA ExploreLists ==
  ASSUME NEW graph, GraphOf(graph), NEW asked, NEW search \in Founds(graph), NEW h \in Nat,
         NEW before, before \cap Arrived(graph, asked, h + 1) = {},
         Listing(search.paths, before), Listing(search.waiting, Wandering(graph, asked, h))
  PROVE  LET then == Explore(graph, asked, search) IN
         /\ then \in Founds(graph)
         /\ \E X \in SUBSET Arrived(graph, asked, h + 1) :
              /\ Listing(then.paths, before \cup X)
              /\ \/ /\ X = Arrived(graph, asked, h + 1)
                    /\ Listing(then.waiting, Wandering(graph, asked, h + 1))
                 \/ Len(then.paths) >= asked.maxPaths
<1> DEFINE N == Len(search.waiting)
           W == Wandering(graph, asked, h)
           A == Arrived(graph, asked, h + 1)
           B == Wandering(graph, asked, h + 1)
           w(k) == search.waiting[k]
           Arr(k) == Arriving(graph, asked, w(k))
           Go(k) == GoingOn(graph, asked, w(k))
           ArrTo(m) == UNION {Arr(k) : k \in 1..m}
           GoTo(m) == UNION {Go(k) : k \in 1..m}
<1>1. /\ N \in Nat /\ \A k \in 1..N : w(k) \in Seq(graph) /\ w(k) \in W
      /\ \A x \in W : \E k \in 1..N : w(k) = x
      /\ \A i, j \in 1..N : w(i) = w(j) => i = j
  BY DEF Founds, Listing
<1>2. PICK f \in [0..N -> Founds(graph)] :
            /\ f[0] = [paths |-> search.paths, waiting |-> <<>>]
            /\ \A n \in 1..N : f[n] = Extend(graph, asked, f[n - 1], w(n))
            /\ Explore(graph, asked, search) = f[N]
  BY ExploreUnfold
<1>3. /\ UNION {Arriving(graph, asked, x) : x \in W} = A
      /\ UNION {GoingOn(graph, asked, x) : x \in W} = B
      /\ \A x, y \in W : x # y =>
              /\ Arriving(graph, asked, x) \cap Arriving(graph, asked, y) = {}
              /\ GoingOn(graph, asked, x) \cap GoingOn(graph, asked, y) = {}
  BY RoundGrows
<1> HIDE DEF N, W, A, B, w
<1>4. /\ \A k \in 1..N : Arr(k) \subseteq A
      /\ \A i, j \in 1..N : i # j => Arr(i) \cap Arr(j) = {} /\ Go(i) \cap Go(j) = {}
  <2>1. \A k \in 1..N : Arr(k) \subseteq A
    BY <1>1, <1>3
  <2>2. ASSUME NEW i \in 1..N, NEW j \in 1..N, i # j
        PROVE  Arr(i) \cap Arr(j) = {} /\ Go(i) \cap Go(j) = {}
    <3>1. w(i) # w(j) /\ w(i) \in W /\ w(j) \in W
      BY <1>1, <2>2
    <3> QED BY <1>3, <3>1
  <2> QED BY <2>1, <2>2
<1>5. ArrTo(N) = A /\ GoTo(N) = B
  BY <1>1, <1>3
<1> DEFINE Good(n, m) == /\ Listing(f[n].paths, before \cup ArrTo(m))
                         /\ Listing(f[n].waiting, GoTo(m))
                         /\ m = n \/ Len(f[n].paths) >= asked.maxPaths
           P == {n \in 0..N : \E m \in 0..n : Good(n, m)}
<1>6. 0 \in P
  <2>1. ArrTo(0) = {} /\ GoTo(0) = {}
    OBVIOUS
  <2>2. Listing(<<>>, {})
    BY DEF Listing
  <2>3. f[0].paths = search.paths /\ f[0].waiting = <<>>
    BY <1>2
  <2>4. before \cup ArrTo(0) = before
    BY <2>1
  <2> HIDE DEF ArrTo, GoTo
  <2>5. Good(0, 0)
    BY <2>1, <2>2, <2>3, <2>4
  <2> HIDE DEF Good
  <2> QED BY <1>1, <2>5
<1>7. ASSUME NEW n \in 0..N, n < N, n \in P PROVE n + 1 \in P
  <2>1. /\ n + 1 \in 1..N /\ n + 1 \in 0..N /\ (n + 1) - 1 = n /\ f[n] \in Founds(graph)
        /\ n \in 0..n /\ n + 1 \in 0..n + 1 /\ 0..n \subseteq 0..n + 1
    BY <1>1, <1>2, <1>7
  <2>2. f[n + 1] = Extend(graph, asked, f[n], w(n + 1)) /\ w(n + 1) \in Seq(graph)
    BY <1>1, <1>2, <2>1
  <2>3. PICK m \in 0..n : Good(n, m)
    BY <1>7
  <2>4. CASE Len(f[n].paths) >= asked.maxPaths
    <3>1. f[n + 1] = f[n]
      BY <2>1, <2>2, <2>4, ExtendIs
    <3> HIDE DEF ArrTo, GoTo
    <3>2. Good(n + 1, m)
      BY <2>3, <2>4, <3>1
    <3> HIDE DEF Good
    <3> QED BY <2>1, <3>2
  <2>5. CASE ~(Len(f[n].paths) >= asked.maxPaths)
    <3>1. m = n
      BY <2>3, <2>5
    <3>2. PICK a, g : /\ Listing(a, Arr(n + 1)) /\ Listing(g, Go(n + 1))
                      /\ f[n + 1] = [paths |-> f[n].paths \o a, waiting |-> f[n].waiting \o g]
      <4>1. \E a, g : /\ Listing(a, Arr(n + 1)) /\ Listing(g, Go(n + 1))
                      /\ Extend(graph, asked, f[n], w(n + 1)) =
                           [paths |-> f[n].paths \o a, waiting |-> f[n].waiting \o g]
        <5>2. Extended(graph, asked, f[n], w(n + 1), Extend(graph, asked, f[n], w(n + 1)))
          BY <2>2, ExtendLists
        <5>1. PICK a, g \in Seq(Seq(graph)) :
                /\ Listing(a, Arr(n + 1)) /\ Listing(g, Go(n + 1))
                /\ Extend(graph, asked, f[n], w(n + 1)) =
                     IF Len(f[n].paths) >= asked.maxPaths THEN f[n]
                     ELSE [paths |-> f[n].paths \o a, waiting |-> f[n].waiting \o g]
          BY <5>2 DEF Extended
        <5> HIDE DEF Arr, Go
        <5> QED BY <2>5, <5>1
      <4> HIDE DEF Arr, Go
      <4> QED BY <2>2, <4>1
    <3>3. \A k \in 1..n + 1 : k \in 1..n \/ k = n + 1
      BY <1>1
    <3>4. \A k \in 1..n : k \in 1..n + 1 /\ k \in 1..N /\ k # n + 1
      BY <1>1, <1>7
    <3>5. n + 1 \in 1..n + 1
      BY <1>1
    <3> HIDE DEF Arr, Go
    <3>6. ArrTo(n + 1) = ArrTo(n) \cup Arr(n + 1) /\ GoTo(n + 1) = GoTo(n) \cup Go(n + 1)
      BY <3>3, <3>4, <3>5
    <3>7. (before \cup ArrTo(n)) \cap Arr(n + 1) = {} /\ GoTo(n) \cap Go(n + 1) = {}
      <4>1. before \cap A = {}
        BY DEF A
      <4> QED BY <1>4, <2>1, <3>4, <4>1
    <3> HIDE DEF ArrTo, GoTo
    <3>8. Listing(f[n].paths, before \cup ArrTo(n)) /\ Listing(f[n].waiting, GoTo(n))
      BY <2>3, <3>1
    <3>9. /\ Listing(f[n].paths \o a, (before \cup ArrTo(n)) \cup Arr(n + 1))
          /\ Listing(f[n].waiting \o g, GoTo(n) \cup Go(n + 1))
      BY <3>2, <3>7, <3>8, ListingsJoin
    <3>10. (before \cup ArrTo(n)) \cup Arr(n + 1) = before \cup ArrTo(n + 1)
      BY <3>6
    <3>12. f[n + 1].paths = f[n].paths \o a /\ f[n + 1].waiting = f[n].waiting \o g
      BY <3>2
    <3>13. Listing(f[n + 1].paths, before \cup ArrTo(n + 1))
      BY <3>9, <3>10, <3>12
    <3>14. Listing(f[n + 1].waiting, GoTo(n + 1))
      BY <3>6, <3>9, <3>12
    <3>11. Good(n + 1, n + 1)
      BY <3>13, <3>14
    <3> HIDE DEF Good
    <3> QED BY <2>1, <3>11
  <2> QED BY <2>4, <2>5
<1>8. N \in P
  <2> HIDE DEF P
  <2>1. 0..N \subseteq P
    BY <1>1, <1>6, <1>7, Upwards
  <2> QED BY <1>1, <2>1
<1>9. PICK m \in 0..N : Good(N, m)
  BY <1>8
<1>10. ArrTo(m) \subseteq A
  <2>1. \A k \in 1..m : k \in 1..N
    BY <1>1
  <2> HIDE DEF Arr
  <2> QED BY <1>4, <2>1
<1>11. f[N] \in Founds(graph)
  BY <1>1, <1>2
<1> HIDE DEF ArrTo, GoTo
<1>12. /\ Listing(f[N].paths, before \cup ArrTo(m))
       /\ \/ ArrTo(m) = A /\ Listing(f[N].waiting, B)
          \/ Len(f[N].paths) >= asked.maxPaths
  BY <1>5, <1>9
<1> QED BY <1>2, <1>10, <1>11, <1>12 DEF A, B

SoFar(graph, asked, n) == UNION {Arrived(graph, asked, i) : i \in 1..n}

\* All that was found is listed, or enough of it: what is missing is then as long
\* as the longest that was found.
Found(graph, asked, n, paths) ==
  \/ Listing(paths, SoFar(graph, asked, n))
  \/ /\ Len(paths) >= asked.maxPaths
     /\ \E d \in 1..n : \E X \in SUBSET Arrived(graph, asked, d) :
          Listing(paths, SoFar(graph, asked, d - 1) \cup X)

LEMMA AllPathsAre ==
  ASSUME NEW graph, NEW asked \in Inquiries
  PROVE  AllPaths(graph, asked) = SoFar(graph, asked, asked.maxHops)
<1>1. asked.maxHops \in Nat
  BY DEF Inquiries
<1>2. \A n \in Nat, p \in Seq(graph) : Len(p) = n <=> p \in [1..n -> graph]
  OBVIOUS
<1>3. \A n \in Nat : \A p \in [1..n -> graph] : p \in Seq(graph)
  OBVIOUS
<1>4. \A p : p \in AllPaths(graph, asked) <=>
        /\ \E n \in 1..asked.maxHops : p \in [1..n -> graph]
        /\ Trail(p, asked.source) /\ EndOf(p, asked.source) = asked.target
  BY DEF AllPaths, Trail
<1>5. \A p : p \in SoFar(graph, asked, asked.maxHops) <=>
        \E n \in 1..asked.maxHops :
          /\ p \in Seq(graph) /\ Len(p) = n
          /\ Trail(p, asked.source) /\ EndOf(p, asked.source) = asked.target
  BY DEF SoFar, Arrived
<1>6. \A p, n : n \in 1..asked.maxHops =>
        (p \in [1..n -> graph] <=> p \in Seq(graph) /\ Len(p) = n)
  <2>1. \A n \in 1..asked.maxHops : n \in Nat
    BY <1>1
  <2> QED BY <1>2, <1>3, <2>1
<1> QED BY <1>4, <1>5, <1>6

LEMMA AllPathsFinite ==
  ASSUME NEW graph, GraphOf(graph), NEW asked \in Inquiries
  PROVE  IsFiniteSet(AllPaths(graph, asked))
<1> DEFINE Long(h) == {p \in Seq(graph) : Len(p) = h}
           N == asked.maxHops
           P == {h \in 0..N : IsFiniteSet(Long(h))}
<1>1. N \in Nat
  BY DEF Inquiries
<1>2. 0 \in P
  <2>1. Long(0) = {<<>>}
    BY EmptySeq
  <2>2. IsFiniteSet({<<>>})
    BY FS_Singleton
  <2> HIDE DEF Long
  <2>3. IsFiniteSet(Long(0))
    BY ONLY <2>1, <2>2
  <2>4. 0 \in 0..N
    BY <1>1
  <2> QED BY <2>3, <2>4
<1>3. ASSUME NEW h \in 0..N, h < N, h \in P PROVE h + 1 \in P
  <2> DEFINE A == Long(h) \X graph
             f == [x \in A |-> Append(x[1], x[2])]
             T == {f[x] : x \in A}
  <2>1. IsFiniteSet(A)
    <3>1. IsFiniteSet(Long(h)) /\ IsFiniteSet(graph)
      BY <1>3 DEF GraphOf
    <3> HIDE DEF Long
    <3> QED BY <3>1, FS_Product
  <2>2. IsFiniteSet(T)
    <3>1. DOMAIN f = A
      OBVIOUS
    <3> HIDE DEF f, A
    <3> QED BY <2>1, <3>1, ImageFinite
  <2>3. ASSUME NEW p \in Long(h + 1) PROVE p \in T
    <3>1. p \in Seq(graph) /\ Len(p) = h + 1 /\ p # <<>>
      BY <1>1, EmptySeq
    <3>2. PICK w \in Seq(graph), e \in graph : p = Append(w, e)
      BY <3>1, SequenceEmptyOrAppend
    <3>3. Len(w) = h
      <4>1. Len(w) \in Nat /\ Len(p) = Len(w) + 1
        BY <3>2, AppendProperties
      <4> QED BY <1>1, <3>1, <4>1
    <3>4. <<w, e>> \in A /\ f[<<w, e>>] = p
      BY <3>2, <3>3
    <3> HIDE DEF f, A
    <3> QED BY <3>4
  <2> HIDE DEF T
  <2>4. Long(h + 1) \in SUBSET T
    BY <2>3
  <2> HIDE DEF Long
  <2>5. IsFiniteSet(Long(h + 1))
    BY <2>2, <2>4, FS_Subset
  <2> QED BY <1>1, <1>3, <2>5
<1>4. 0..N \subseteq P
  <2> HIDE DEF P, N
  <2> QED BY <1>1, <1>2, <1>3, Upwards
<1> DEFINE g == [i \in 1..N |-> Long(i)]
           F == {g[i] : i \in 1..N}
<1>5. IsFiniteSet(F)
  <2>1. IsFiniteSet(1..N) /\ DOMAIN g = 1..N
    BY <1>1, FS_Interval
  <2> HIDE DEF g, N
  <2> QED BY <2>1, ImageFinite
<1>6. \A T \in F : IsFiniteSet(T)
  <2> SUFFICES ASSUME NEW i \in 1..N PROVE IsFiniteSet(g[i])
    OBVIOUS
  <2>1. i \in 0..N /\ g[i] = Long(i)
    BY <1>1
  <2> HIDE DEF g, Long
  <2> QED BY <1>4, <2>1
<1>7. AllPaths(graph, asked) \in SUBSET UNION F
  <2>1. \A p \in SoFar(graph, asked, N) : \E i \in 1..N : p \in g[i]
    BY DEF SoFar, Arrived
  <2> HIDE DEF g, N
  <2>2. SoFar(graph, asked, N) \subseteq UNION F
    BY <2>1
  <2> QED BY <2>2, AllPathsAre DEF N
<1> HIDE DEF F
<1> QED BY <1>5, <1>6, <1>7, FS_UNION, FS_Subset

\* A round more.
LEMMA RoundFinds ==
  ASSUME NEW graph, GraphOf(graph), NEW asked, NEW h \in Nat, NEW search \in Founds(graph),
         Found(graph, asked, h, search.paths),
         \/ Len(search.paths) >= asked.maxPaths
         \/ /\ Listing(search.paths, SoFar(graph, asked, h))
            /\ Listing(search.waiting, Wandering(graph, asked, h))
  PROVE  LET then == Explore(graph, asked, search) IN
         /\ then \in Founds(graph)
         /\ Found(graph, asked, h + 1, then.paths)
         /\ \/ Len(then.paths) >= asked.maxPaths
            \/ /\ Listing(then.paths, SoFar(graph, asked, h + 1))
               /\ Listing(then.waiting, Wandering(graph, asked, h + 1))
<1> DEFINE then == Explore(graph, asked, search)
           before == SoFar(graph, asked, h)
           A == Arrived(graph, asked, h + 1)
<1>1. /\ \A i \in 1..h : i \in 1..h + 1 /\ i # h + 1
      /\ \A i \in 1..h + 1 : i \in 1..h \/ i = h + 1
      /\ h + 1 \in 1..h + 1 /\ (h + 1) - 1 = h
  OBVIOUS
<1>2. SoFar(graph, asked, h + 1) = before \cup A
  BY <1>1 DEF SoFar
<1>3. before \cap A = {}
  <2>1. \A p \in before : \E i \in 1..h : Len(p) = i
    BY DEF SoFar, Arrived
  <2>2. \A p \in A : Len(p) = h + 1
    BY DEF Arrived
  <2> QED BY <1>1, <2>1, <2>2
<1>4. CASE /\ Listing(search.paths, before)
           /\ Listing(search.waiting, Wandering(graph, asked, h))
  <2>1. /\ then \in Founds(graph)
        /\ \E X \in SUBSET A :
              /\ Listing(then.paths, before \cup X)
              /\ \/ X = A /\ Listing(then.waiting, Wandering(graph, asked, h + 1))
                 \/ Len(then.paths) >= asked.maxPaths
    <3> HIDE DEF before
    <3> QED BY <1>3, <1>4, ExploreLists
  <2>2. PICK X \in SUBSET A : /\ Listing(then.paths, before \cup X)
              /\ \/ X = A /\ Listing(then.waiting, Wandering(graph, asked, h + 1))
                 \/ Len(then.paths) >= asked.maxPaths
    BY <2>1
  <2> HIDE DEF then
  <2>3. CASE X = A /\ Listing(then.waiting, Wandering(graph, asked, h + 1))
    BY <1>2, <2>1, <2>2, <2>3 DEF Found, then
  <2>4. CASE Len(then.paths) >= asked.maxPaths
    <3>1. Listing(then.paths, SoFar(graph, asked, (h + 1) - 1) \cup X)
      BY <1>1, <2>2
    <3>2. Found(graph, asked, h + 1, then.paths)
      BY <1>1, <2>4, <3>1 DEF Found
    <3> QED BY <2>1, <2>4, <3>2 DEF then
  <2> QED BY <2>2, <2>3, <2>4
<1>5. CASE Len(search.paths) >= asked.maxPaths
  <2>1. then \in Founds(graph) /\ then.paths = search.paths
    BY <1>5, EnoughIsEnough
  <2> HIDE DEF then
  <2>2. Found(graph, asked, h + 1, search.paths)
    <3>1. CASE Listing(search.paths, before)
      <4>1. Listing(search.paths, SoFar(graph, asked, (h + 1) - 1) \cup {})
        BY <1>1, <3>1
      <4>2. {} \in SUBSET A
        OBVIOUS
      <4> QED BY <1>1, <1>5, <4>1, <4>2 DEF Found
    <3>2. CASE ~Listing(search.paths, before)
      <4>1. PICK d \in 1..h : \E X \in SUBSET Arrived(graph, asked, d) :
              Listing(search.paths, SoFar(graph, asked, d - 1) \cup X)
        BY <3>2 DEF Found
      <4> QED BY <1>1, <1>5, <4>1 DEF Found
    <3> QED BY <3>1, <3>2
  <2> QED BY <1>5, <2>1, <2>2 DEF then
<1> QED BY <1>4, <1>5

LEMMA SearchFinds ==
  ASSUME NEW graph, GraphOf(graph), NEW asked \in Inquiries
  PROVE  /\ Search(graph, asked) \in Seq(Seq(graph))
         /\ Found(graph, asked, asked.maxHops, Search(graph, asked))
<1> DEFINE N == asked.maxHops
           S == Founds(graph)
           start == [paths |-> <<>>, waiting |-> << <<>> >>]
           step == [p \in S \X (1..N) |-> Explore(graph, asked, p[1])]
           Is(f) == f = [n \in 0..N |-> IF n = 0 THEN start ELSE Explore(graph, asked, f[n - 1])]
           round == CHOOSE f : Is(f)
<1>1. N \in Nat /\ start \in S
  <2>1. <<>> \in Seq(Seq(graph)) /\ << <<>> >> \in Seq(Seq(graph))
    <3>1. <<>> \in Seq(graph)
      OBVIOUS
    <3> QED BY <3>1
  <2>2. N \in Nat
    BY DEF Inquiries
  <2> QED BY <2>1, <2>2 DEF Founds
<1>2. \A x \in S : Explore(graph, asked, x) \in S
  <2> SUFFICES ASSUME NEW x \in S PROVE Explore(graph, asked, x) \in S
    OBVIOUS
  <2>1. Len(x.waiting) \in 0..Len(x.waiting)
    BY DEF Founds
  <2>2. PICK f \in [0..Len(x.waiting) -> S] : Explore(graph, asked, x) = f[Len(x.waiting)]
    BY ExploreUnfold
  <2> QED BY <2>1, <2>2
<1>3. step \in Steps(S, N)
  BY <1>2 DEF Steps
<1>4. \A x \in S, n \in 1..N : step[<<x, n>>] = Explore(graph, asked, x)
  OBVIOUS
<1>5. \E f : Is(f)
  <2> HIDE DEF step, S, start, N
  <2>1. PICK f \in [0..N -> S] : f[0] = start /\ \A n \in 1..N : f[n] = step[<<f[n - 1], n>>]
    <3>1. ValuesOf(S, N, start, step) # {}
      BY <1>1, <1>3, StepwiseExists
    <3> QED BY <3>1 DEF ValuesOf
  <2>2. \A n \in 0..N : n # 0 => n \in 1..N /\ f[n - 1] \in S
    BY <1>1
  <2>3. \A n \in 0..N : n # 0 => f[n] = Explore(graph, asked, f[n - 1])
    BY <1>4, <2>1, <2>2
  <2>4. Is(f)
    BY <2>1, <2>3
  <2> QED BY <2>4
<1>6. Is(round)
  BY <1>5
<1>7. Search(graph, asked) = round[N].paths
  BY DEF Search
<1> HIDE DEF round
<1>8. round[0] = start /\ \A n \in 0..N : n # 0 => round[n] = Explore(graph, asked, round[n - 1])
  <2>1. \A n \in 0..N : round[n] = IF n = 0 THEN start ELSE Explore(graph, asked, round[n - 1])
    BY <1>6
  <2> HIDE DEF start, N
  <2>2. 0 \in 0..N
    BY <1>1
  <2> QED BY <2>1, <2>2
<1> DEFINE Good(n) == /\ round[n] \in S
                      /\ Found(graph, asked, n, round[n].paths)
                      /\ \/ Len(round[n].paths) >= asked.maxPaths
                         \/ /\ Listing(round[n].paths, SoFar(graph, asked, n))
                            /\ Listing(round[n].waiting, Wandering(graph, asked, n))
           P == {n \in 0..N : Good(n)}
<1>9. 0 \in P
  <2>1. round[0].paths = <<>> /\ round[0].waiting = << <<>> >> /\ round[0] \in S
    BY <1>1, <1>8
  <2>2. SoFar(graph, asked, 0) = {}
    BY DEF SoFar
  <2>3. Listing(<<>>, SoFar(graph, asked, 0))
    BY <2>2 DEF Listing
  <2>4. Wandering(graph, asked, 0) = {<<>>}
    <3>1. <<>> \in Seq(graph) /\ Len(<<>>) = 0 /\ DOMAIN <<>> = {} /\ 1..0 = {}
      OBVIOUS
    <3>2. \A p \in Seq(graph) : Len(p) = 0 => p = <<>>
      BY EmptySeq
    <3>3. Trail(<<>>, asked.source)
      <4> DEFINE nodes == NodesOf(<<>>, asked.source)
      <4>1. DOMAIN nodes = 1..Len(<<>>) + 1
        BY <3>1, NodesAre
      <4> HIDE DEF nodes
      <4>2. \A i, j \in DOMAIN nodes : i = j
        BY <3>1, <4>1
      <4>3. IsInjective(nodes)
        BY <4>2 DEF IsInjective
      <4> QED BY <3>1, <4>3 DEF Trail, nodes
    <3> QED BY <3>1, <3>2, <3>3 DEF Wandering
  <2>5. Listing(<< <<>> >>, Wandering(graph, asked, 0))
    <3> DEFINE one == << <<>> >>
    <3>1. one \in Seq({<<>>}) /\ Len(one) = 1 /\ one[1] = <<>>
      OBVIOUS
    <3> HIDE DEF one
    <3>2. Listing(one, {<<>>})
      BY <3>1 DEF Listing
    <3> QED BY <2>4, <3>2 DEF one
  <2>6. Good(0)
    <3> HIDE DEF S
    <3> QED BY <2>1, <2>3, <2>5 DEF Found
  <2> HIDE DEF Good
  <2> QED BY <1>1, <2>6
<1>10. ASSUME NEW n \in 0..N, n < N, n \in P PROVE n + 1 \in P
  <2>1. n + 1 \in 0..N /\ n + 1 # 0 /\ (n + 1) - 1 = n /\ n \in Nat
    BY <1>1, <1>10
  <2>2. round[n + 1] = Explore(graph, asked, round[n])
    BY <1>8, <2>1
  <2>3. Good(n)
    BY <1>10
  <2>4. Good(n + 1)
    BY <2>1, <2>2, <2>3, RoundFinds
  <2> HIDE DEF Good
  <2> QED BY <2>1, <2>4
<1>11. Good(N)
  <2> HIDE DEF Good
  <2>1. N \in P
    <3> HIDE DEF P, N
    <3>1. 0..N \subseteq P
      BY <1>1, <1>9, <1>10, Upwards
    <3> QED BY <1>1, <3>1
  <2> QED BY <2>1
<1>12. round[N].paths \in Seq(Seq(graph))
  BY <1>11 DEF Founds
<1> QED BY <1>7, <1>11, <1>12

-----------------------------------------------------------------------------
(* The answers: as many as were asked for, the best of those found.         *)

\* The places of a sequence that come before i in the order of the answers.
Ahead(found, i) ==
  {j \in DOMAIN found : \/ Better(found[j], found[i])
                        \/ j < i /\ ~Better(found[i], found[j])}

LEMMA AnswersAre ==
  ASSUME NEW found \in Seq(Ways), NEW m \in Nat,
         \A i, j \in 1..Len(found) : found[i] = found[j] => i = j
  PROVE  LET first == {k \in DOMAIN found : Cardinality(Ahead(found, k)) < m}
             best == {found[i] : i \in first}
         IN  /\ IsFiniteSet(best)
             /\ Cardinality(best) = IF Len(found) <= m THEN Len(found) ELSE m
             /\ \A k \in DOMAIN found \ first, i \in first : ~Better(found[k], found[i])
<1> DEFINE n == Len(found)
           S == 1..n
           R == {p \in S \X S : \/ Better(found[p[1]], found[p[2]])
                                \/ p[1] < p[2] /\ ~Better(found[p[2]], found[p[1]])}
           first == {k \in S : Cardinality(Ahead(found, k)) < m}
           best == {found[i] : i \in first}
           few == IF n <= m THEN n ELSE m
<1>1. n \in Nat /\ DOMAIN found = S /\ \A i \in S : found[i] \in Ways
  OBVIOUS
<1>2. \A i, j \in S : <<j, i>> \in R <=> \/ Better(found[j], found[i])
                                         \/ j < i /\ ~Better(found[i], found[j])
  OBVIOUS
<1>3. \A i, j, k \in S : Better(found[i], found[j]) =>
        ~Better(found[j], found[i]) /\ (Better(found[i], found[k]) \/ Better(found[k], found[j]))
  BY <1>1, BetterIsStrict
<1>4. \A i \in S : i \in Nat
  BY <1>1
<1> HIDE DEF R, S
<1>5. StrictOn(S, R)
  <2>1. \A x \in S : <<x, x>> \notin R
    BY <1>2, <1>3, <1>4
  <2>2. ASSUME NEW x \in S, NEW y \in S, NEW z \in S, <<x, y>> \in R, <<y, z>> \in R
        PROVE  <<x, z>> \in R
    <3>1. x < y /\ y < z => x < z
      BY <1>4
    <3>2. Better(found[x], found[y]) \/ (x < y /\ ~Better(found[y], found[x]))
      BY <1>2, <2>2
    <3>3. Better(found[y], found[z]) \/ (y < z /\ ~Better(found[z], found[y]))
      BY <1>2, <2>2
    <3>4. Better(found[x], found[z]) \/ (x < z /\ ~Better(found[z], found[x]))
      BY <1>3, <3>1, <3>2, <3>3
    <3> QED BY <1>2, <3>4
  <2> QED BY <2>1, <2>2 DEF StrictOn
<1>6. TotalOn(S, R)
  <2> SUFFICES ASSUME NEW x \in S, NEW y \in S, x # y PROVE <<x, y>> \in R \/ <<y, x>> \in R
    BY DEF TotalOn
  <2>1. x < y \/ y < x
    BY <1>4
  <2> QED BY <1>2, <2>1
<1>7. IsFiniteSet(S) /\ Cardinality(S) = n
  <2>1. IsFiniteSet(1..n) /\ Cardinality(1..n) = n
    <3> HIDE DEF n
    <3> QED BY <1>1, FS_Interval
  <2> QED BY <2>1 DEF S
<1>8. \A i \in S : BelowIn(S, R, i) = Ahead(found, i)
  BY <1>1, <1>2 DEF BelowIn, Ahead
<1>9. PICK f \in [1..n -> S] :
        /\ \A x \in S : \E i \in 1..n : f[i] = x
        /\ \A i, j \in 1..n : i < j => <<f[i], f[j]>> \in R
        /\ \A i \in 1..n : Cardinality(BelowIn(S, R, f[i])) = i - 1
  BY <1>5, <1>6, <1>7, Ranking
<1>10. \A i \in 1..n : f[i] \in first <=> i <= m
  <2> SUFFICES ASSUME NEW i \in 1..n PROVE f[i] \in first <=> i <= m
    OBVIOUS
  <2>1. f[i] \in S /\ Cardinality(Ahead(found, f[i])) = i - 1
    BY <1>8, <1>9
  <2>2. i - 1 < m <=> i <= m
    BY <1>1
  <2> QED BY <2>1, <2>2
<1>11. few \in Nat /\ \A i : i \in 1..few <=> i \in 1..n /\ i <= m
  BY <1>1
<1>12. \A i, j \in 1..n : f[i] = f[j] => i = j
  <2> SUFFICES ASSUME NEW i \in 1..n, NEW j \in 1..n, f[i] = f[j], i # j PROVE FALSE
    OBVIOUS
  <2>1. i < j \/ j < i
    BY <1>1
  <2>2. f[i] \in S /\ <<f[i], f[i]>> \in R
    BY <1>9, <2>1
  <2> QED BY <1>5, <2>2 DEF StrictOn
<1> HIDE DEF few
<1> DEFINE g == [i \in 1..few |-> found[f[i]]]
<1>13. Listing(g, best)
  <2>1. \A i \in 1..few : g[i] \in best
    BY <1>10, <1>11
  <2>2. g \in Seq(best) /\ Len(g) = few
    <3> HIDE DEF best
    <3> QED BY <1>11, <2>1
  <2>3. ASSUME NEW x \in best PROVE \E i \in 1..few : g[i] = x
    <3>1. PICK k \in first : x = found[k]
      OBVIOUS
    <3>2. PICK i \in 1..n : f[i] = k
      BY <1>9, <3>1
    <3>3. i \in 1..few
      BY <1>10, <1>11, <3>1, <3>2
    <3> QED BY <3>1, <3>2, <3>3
  <2>4. ASSUME NEW i \in 1..few, NEW j \in 1..few, g[i] = g[j] PROVE i = j
    <3>1. i \in 1..n /\ j \in 1..n
      BY <1>11
    <3>2. f[i] \in S /\ f[j] \in S /\ found[f[i]] = found[f[j]]
      BY <1>9, <2>4, <3>1
    <3>3. f[i] = f[j]
      BY <3>2 DEF S
    <3> QED BY <1>12, <3>1, <3>3
  <2> HIDE DEF g, best
  <2> QED BY <2>2, <2>3, <2>4 DEF Listing
<1>14. IsFiniteSet(best) /\ Cardinality(best) = few
  <2>1. Len(g) = few
    BY <1>11
  <2> HIDE DEF g, best
  <2> QED BY <1>13, <2>1, ListingCounts
<1>15. ASSUME NEW k \in S \ first, NEW i \in first PROVE ~Better(found[k], found[i])
  <2> SUFFICES ASSUME Better(found[k], found[i]) PROVE FALSE
    OBVIOUS
  <2>1. i \in S /\ k \in S /\ <<k, i>> \in R
    BY <1>2
  <2>2. Cardinality(Ahead(found, k)) < Cardinality(Ahead(found, i))
    BY <1>5, <1>7, <1>8, <2>1, BelowGrows
  <2>3. /\ Cardinality(Ahead(found, k)) \in Nat /\ Cardinality(Ahead(found, i)) \in Nat
    BY <1>5, <1>7, <1>8, <2>1, BelowGrows
  <2>4. Cardinality(Ahead(found, i)) < m /\ ~(Cardinality(Ahead(found, k)) < m)
    OBVIOUS
  <2> QED BY <2>2, <2>3, <2>4
<1>16. first = {k \in DOMAIN found : Cardinality(Ahead(found, k)) < m}
  BY <1>1
<1> HIDE DEF first
<1> QED BY <1>1, <1>14, <1>15, <1>16 DEF few

LEMMA MinOfTwo ==
  ASSUME NEW c \in Nat, NEW m \in Nat
  PROVE  Min({c, m}) \in {c, m} /\ Min({c, m}) <= c /\ Min({c, m}) <= m
<1>1. \E x \in {c, m} : \A y \in {c, m} : x <= y
  <2>1. CASE c <= m
    BY <2>1
  <2>2. CASE m <= c
    BY <2>2
  <2> QED BY <2>1, <2>2
<1>2. Min({c, m}) \in {c, m} /\ \A y \in {c, m} : Min({c, m}) <= y
  BY <1>1 DEF Min
<1> QED BY <1>2

LEMMA InferredAreBest ==
  ASSUME NEW graph, GraphOf(graph), NEW asked \in Inquiries
  PROVE  LET all == AllPaths(graph, asked)
             best == InferPath(graph, asked)
         IN  /\ best \subseteq all
             /\ Cardinality(best) = Min({Cardinality(all), asked.maxPaths})
             /\ \A p \in all \ best :
                   \/ \A a \in best : Len(p) >= Len(a)
                   \/ \A a \in best : ~Better(p, a)
<1> DEFINE all == AllPaths(graph, asked)
           best == InferPath(graph, asked)
           found == Search(graph, asked)
           m == asked.maxPaths
           N == asked.maxHops
           n == Len(found)
           first == {k \in DOMAIN found : Cardinality(Ahead(found, k)) < m}
           F == {found[k] : k \in 1..n}
<1>1. m \in Nat /\ N \in Nat
  BY DEF Inquiries
<1>2. found \in Seq(Seq(graph)) /\ Found(graph, asked, N, found)
  BY SearchFinds
<1>3. all = SoFar(graph, asked, N)
  BY AllPathsAre
<1>4. best = {found[i] : i \in first}
  BY DEF InferPath, Ahead
<1>5. \A d \in 1..N : SoFar(graph, asked, d - 1) \subseteq all /\ Arrived(graph, asked, d) \subseteq all
  <2> SUFFICES ASSUME NEW d \in 1..N
               PROVE  SoFar(graph, asked, d - 1) \subseteq all /\ Arrived(graph, asked, d) \subseteq all
    OBVIOUS
  <2>1. \A i \in 1..d - 1 : i \in 1..N
    BY <1>1
  <2> HIDE DEF all, N
  <2> QED BY <1>3, <2>1 DEF SoFar
<1>6. all \subseteq Ways
  <2> SUFFICES ASSUME NEW i \in 1..N, NEW p \in Arrived(graph, asked, i) PROVE p \in Ways
    BY <1>3 DEF SoFar
  <2>1. p \in Seq(graph) /\ Len(p) = i /\ graph \subseteq Links
    BY DEF Arrived, GraphOf
  <2>2. p \in Seq(Links) /\ p # <<>>
    BY <2>1, SeqMonotonic, EmptySeq
  <2> QED BY <2>2 DEF Ways
<1> HIDE DEF all, best, found, m, N
<1>7. Listing(found, F) /\ F \subseteq all
      /\ \/ F = all
         \/ /\ n >= m
            /\ \E d \in 1..N : \E X \in SUBSET Arrived(graph, asked, d) :
                 F = SoFar(graph, asked, d - 1) \cup X
  <2>1. \A L : Listing(found, L) => L = F
    <3>1. \A k \in 1..n : \A L : found \in Seq(L) => found[k] \in L
      OBVIOUS
    <3> QED BY <3>1 DEF Listing
  <2>2. CASE Listing(found, all)
    BY <2>1, <2>2
  <2>3. CASE ~Listing(found, all)
    <3>1. /\ n >= m
          /\ \E d \in 1..N : \E X \in SUBSET Arrived(graph, asked, d) :
               Listing(found, SoFar(graph, asked, d - 1) \cup X)
      BY <1>2, <1>3, <2>3 DEF Found, m
    <3>2. PICK d \in 1..N, X \in SUBSET (UNION {Arrived(graph, asked, i) : i \in 1..N}) :
            /\ X \in SUBSET Arrived(graph, asked, d)
            /\ Listing(found, SoFar(graph, asked, d - 1) \cup X)
      BY <3>1
    <3>3. F = SoFar(graph, asked, d - 1) \cup X
      BY <2>1, <3>2
    <3>4. F \subseteq all
      BY <1>5, <3>2, <3>3
    <3> HIDE DEF F
    <3> QED BY <3>1, <3>2, <3>3, <3>4
  <2> QED BY <2>2, <2>3
<1>8. n \in Nat /\ DOMAIN found = 1..n /\ found \in Seq(Ways)
      /\ \A i, j \in 1..n : found[i] = found[j] => i = j
  <2>1. n \in Nat /\ DOMAIN found = 1..n
    BY <1>2
  <2>2. F \subseteq Ways
    BY <1>6, <1>7
  <2> HIDE DEF F, n
  <2>3. found \in Seq(F)
    BY <1>7 DEF Listing
  <2>4. found \in Seq(Ways)
    BY <2>2, <2>3, SeqMonotonic
  <2> QED BY <1>7, <2>1, <2>4 DEF Listing, n
<1>9. /\ IsFiniteSet(best) /\ Cardinality(best) = IF n <= m THEN n ELSE m
      /\ \A k \in DOMAIN found \ first, i \in first : ~Better(found[k], found[i])
  BY <1>1, <1>4, <1>8, AnswersAre
<1>10. best \subseteq F
  BY <1>4, <1>8
<1>11. best \subseteq all
  BY <1>7, <1>10
<1>12. IsFiniteSet(all) /\ Cardinality(all) \in Nat
  BY AllPathsFinite, FS_CardinalityType DEF all
<1>13. Cardinality(F) = n /\ Cardinality(F) <= Cardinality(all)
  <2> HIDE DEF F
  <2> QED BY <1>7, <1>12, ListingCounts, FS_Subset
<1>14. Cardinality(best) = Min({Cardinality(all), m})
  <2> DEFINE c == Cardinality(all)
             least == Min({c, m})
  <2>1. least \in {c, m} /\ least <= c /\ least <= m
    BY <1>1, <1>12, MinOfTwo
  <2>2. n <= c /\ (n = c \/ n >= m) /\ c \in Nat
    <3>1. F = all => n = c
      BY <1>13
    <3> HIDE DEF F
    <3> QED BY <1>7, <1>12, <1>13, <3>1
  <2> HIDE DEF least, c
  <2>3. Cardinality(best) = least
    <3>1. Cardinality(best) = IF n <= m THEN n ELSE m
      BY <1>9
    <3>2. n \in Nat /\ m \in Nat
      BY <1>1, <1>8
    <3> HIDE DEF n
    <3> QED BY ONLY <2>1, <2>2, <3>1, <3>2
  <2> QED BY <2>3 DEF least, c
<1>15. ASSUME NEW p \in all \ best
       PROVE  \/ \A a \in best : Len(p) >= Len(a)
              \/ \A a \in best : ~Better(p, a)
  <2>1. CASE p \in F
    <3>1. PICK k \in 1..n : p = found[k]
      BY <2>1
    <3>2. k \in DOMAIN found \ first
      BY <1>4, <1>8, <1>15, <3>1
    <3> HIDE DEF first
    <3> QED BY <1>4, <1>9, <3>1, <3>2
  <2>2. CASE p \notin F
    <3> HIDE DEF F
    <3>1. PICK d \in 1..N : \E X \in SUBSET Arrived(graph, asked, d) :
                              F = SoFar(graph, asked, d - 1) \cup X
      BY <1>7, <1>15, <2>2
    <3>2. PICK e \in 1..N : p \in Arrived(graph, asked, e)
      BY <1>3, <1>15 DEF SoFar
    <3>3. Len(p) = e /\ e >= d
      <4>1. Len(p) = e /\ e \in Nat /\ d \in Nat
        BY <1>1, <3>2 DEF Arrived
      <4>2. e \notin 1..d - 1
        BY <2>2, <3>1, <3>2 DEF SoFar
      <4> QED BY <3>2, <4>1, <4>2
    <3>4. ASSUME NEW a \in best PROVE Len(p) >= Len(a)
      <4>1. a \in SoFar(graph, asked, d - 1) \/ a \in Arrived(graph, asked, d)
        BY <1>10, <3>1
      <4>2. Len(a) \in 1..d
        <5>1. \A i \in 1..d - 1 : i \in 1..d
          BY <1>1
        <5>2. d \in 1..d
          BY <1>1
        <5> QED BY <4>1, <5>1, <5>2 DEF SoFar, Arrived
      <4> QED BY <1>1, <3>2, <3>3, <4>2
    <3> QED BY <3>4
  <2> QED BY <2>1, <2>2
<1> QED BY <1>11, <1>14, <1>15 DEF all, best, m

-----------------------------------------------------------------------------
(* What is stated makes such a graph, whoever states and judges it.          *)

LEMMA MaxTyped ==
  ASSUME NEW S \in SUBSET Nat, IsFiniteSet(S), S # {}
  PROVE  Max(S) \in S
<1>1. PICK m \in S : \A j \in S : j <= m
  BY MaxExists
<1>2. \A j \in S : m >= j
  BY <1>1
<1> QED BY <1>2 DEF Max

LEMMA ReliabilityTyped ==
  ASSUME stats \in Counts, NEW o \in Origins
  PROVE  Reliability(o) \in Nat \X (Nat \ {0})
<1>1. stats[o].confirmed \in Nat /\ stats[o].contradicted \in Nat
  BY DEF Counts
<1> QED BY <1>1 DEF Reliability

LEMMA LogicalEdgeTyped ==
  ASSUME edges \in Seq(Edges), stats \in Counts, NEW asked \in Inquiries,
         NEW stated \in SUBSET DOMAIN edges, stated # {},
         Cardinality(AcceptedOrigins(stated, asked)) >= asked.origins
  PROVE  /\ LogicalEdge(stated, asked) \in Links
         /\ \E i \in stated : /\ LogicalEdge(stated, asked).subject = edges[i].subject
                            /\ LogicalEdge(stated, asked).predicate = edges[i].predicate
                            /\ LogicalEdge(stated, asked).object = edges[i].object
<1> DEFINE accepted == AcceptedOrigins(stated, asked)
           some == CHOOSE i \in stated : TRUE
           newest == {i \in stated : \A j \in stated : edges[j].epoch <= edges[i].epoch}
           heard == {i \in stated : edges[i].origin \in accepted}
           logical == LogicalEdge(stated, asked)
<1>1. /\ DOMAIN edges = 1..Len(edges) /\ Len(edges) \in Nat
      /\ \A i \in DOMAIN edges : edges[i] \in Edges
  OBVIOUS
<1>2. \A i \in DOMAIN edges :
        /\ edges[i].subject \in Nat /\ edges[i].predicate \in Nat /\ edges[i].object \in Nat
        /\ edges[i].origin \in Origins /\ edges[i].confidence \in Nat /\ edges[i].epoch \in Nat
  BY <1>1 DEF Edges
<1>3. IsFiniteSet(stated)
  <2>1. IsFiniteSet(DOMAIN edges)
    BY <1>1, FS_Interval
  <2> QED BY <2>1, FS_Subset
<1>4. some \in stated
  OBVIOUS
<1>5. Max(newest) \in Nat
  <2> DEFINE f == [i \in stated |-> edges[i].epoch]
             T == {f[i] : i \in stated}
  <2>1. T \in SUBSET Nat /\ T # {}
    BY <1>2
  <2>2. IsFiniteSet(T)
    <3>1. DOMAIN f = stated
      OBVIOUS
    <3> HIDE DEF f
    <3> QED BY <1>3, <3>1, ImageFinite
  <2>3. PICK m \in T : \A j \in T : j <= m
    <3> HIDE DEF T
    <3> QED BY <2>1, <2>2, MaxExists
  <2>4. newest # {}
    <3>1. PICK i \in stated : m = edges[i].epoch
      OBVIOUS
    <3>2. \A j \in stated : edges[j].epoch <= edges[i].epoch
      BY <2>3, <3>1
    <3> QED BY <3>2
  <2>5. newest \in SUBSET Nat /\ newest \in SUBSET stated
    BY <1>1
  <2> HIDE DEF newest
  <2>6. IsFiniteSet(newest)
    BY <1>3, <2>5, FS_Subset
  <2> QED BY <2>4, <2>5, <2>6, MaxTyped
<1>6. /\ accepted \subseteq {edges[i].origin : i \in stated} /\ accepted \subseteq Origins
      /\ IsFiniteSet(accepted) /\ accepted # {}
  <2> DEFINE f == [i \in stated |-> edges[i].origin]
             T == {f[i] : i \in stated}
  <2>1. IsFiniteSet(T)
    <3>1. DOMAIN f = stated
      OBVIOUS
    <3> HIDE DEF f
    <3> QED BY <1>3, <3>1, ImageFinite
  <2>2. T = {edges[i].origin : i \in stated} /\ T \subseteq Origins
    BY <1>2
  <2>3. accepted \in SUBSET T
    BY <2>2 DEF AcceptedOrigins
  <2> HIDE DEF accepted, T
  <2>4. IsFiniteSet(accepted)
    BY <2>1, <2>3, FS_Subset
  <2>5. accepted # {}
    <3>1. asked.origins \in Nat \ {0} /\ Cardinality(accepted) >= asked.origins
      BY DEF accepted, Inquiries
    <3>2. Cardinality({}) = 0
      BY FS_EmptySet
    <3>3. asked.origins \in Nat /\ ~(0 >= asked.origins)
      BY <3>1
    <3>4. Cardinality(accepted) # Cardinality({})
      BY <3>1, <3>2, <3>3
    <3> QED BY ONLY <3>4
  <2> QED BY <2>2, <2>3, <2>4, <2>5
<1> HIDE DEF accepted
<1>7. Strongest(heard) \in Nat
  <2> DEFINE f == [i \in heard |-> edges[i].confidence]
             T == {f[i] : i \in heard}
  <2>1. heard # {} /\ heard \in SUBSET stated
    BY <1>6
  <2>2. T \in SUBSET Nat /\ T # {} /\ T = {edges[i].confidence : i \in heard}
    BY <1>2, <2>1
  <2>3. IsFiniteSet(heard)
    BY <1>3, <2>1, FS_Subset
  <2>4. IsFiniteSet(T)
    <3>1. DOMAIN f = heard
      OBVIOUS
    <3> HIDE DEF f, heard
    <3> QED BY <2>3, <3>1, ImageFinite
  <2> HIDE DEF T
  <2>5. Max(T) \in Nat
    BY <2>2, <2>4, MaxTyped
  <2> QED BY <2>2, <2>5 DEF Strongest
<1>8. Least({Reliability(o) : o \in accepted}) \in Nat \X (Nat \ {0})
  <2> DEFINE f == [o \in accepted |-> Reliability(o)]
             T == {Reliability(o) : o \in accepted}
  <2>1. T \in SUBSET (Nat \X (Nat \ {0})) /\ T # {}
    BY <1>6, ReliabilityTyped
  <2>2. IsFiniteSet(T)
    <3>1. DOMAIN f = accepted /\ T = {f[o] : o \in accepted}
      OBVIOUS
    <3> HIDE DEF f, T
    <3> QED BY <1>6, <3>1, ImageFinite
  <2> HIDE DEF T
  <2>3. Least(T) \in T
    BY <2>1, <2>2, LeastTyped
  <2> QED BY <2>1, <2>3 DEF T
<1>9. logical =
        [subject |-> edges[some].subject, predicate |-> edges[some].predicate,
         object |-> edges[some].object, evidence |-> Max(newest), origins |-> accepted,
         confidence |-> Strongest(heard),
         reliability |-> Least({Reliability(o) : o \in accepted})]
  BY DEF LogicalEdge, accepted
<1> HIDE DEF logical, some, newest, heard
<1>10. logical \in Links
  <2>1. /\ edges[some].subject \in Nat /\ edges[some].predicate \in Nat
        /\ edges[some].object \in Nat
    BY <1>2, <1>4
  <2>2. accepted \in {few \in SUBSET Origins : IsFiniteSet(few)}
    BY <1>6
  <2> QED BY <1>5, <1>7, <1>8, <1>9, <2>1, <2>2 DEF Links
<1> QED BY <1>4, <1>9, <1>10 DEF logical

LEMMA LogicalGraph ==
  ASSUME edges \in Seq(Edges), stats \in Counts, NEW asked \in Inquiries
  PROVE  GraphOf(LogicalEdges(asked))
<1> DEFINE active == ActiveEdges(asked.space, asked.epoch)
           claims == {SameClaim(i, active) : i \in active}
           supported == {stated \in claims :
                          Cardinality(AcceptedOrigins(stated, asked)) >= asked.origins}
           logical == {LogicalEdge(stated, asked) : stated \in supported}
<1>1. LogicalEdges(asked) = logical
  BY DEF LogicalEdges
<1>2. active \subseteq DOMAIN edges
  BY DEF ActiveEdges, Latest, Visible
<1> HIDE DEF active
<1>3. IsFiniteSet(active)
  <2>1. Len(edges) \in Nat /\ DOMAIN edges = 1..Len(edges)
    OBVIOUS
  <2>2. IsFiniteSet(DOMAIN edges)
    BY <2>1, FS_Interval
  <2> QED BY <1>2, <2>2, FS_Subset
<1>4. ASSUME NEW i \in active
      PROVE  /\ i \in SameClaim(i, active) /\ SameClaim(i, active) \in SUBSET DOMAIN edges
             /\ \A j \in SameClaim(i, active) :
                  /\ edges[j].subject = edges[i].subject
                  /\ edges[j].predicate = edges[i].predicate
                  /\ edges[j].object = edges[i].object
  BY <1>2 DEF SameClaim, SlotOf
<1>5. IsFiniteSet(logical)
  <2> DEFINE f == [i \in active |-> SameClaim(i, active)]
             g == [stated \in supported |-> LogicalEdge(stated, asked)]
  <2>1. IsFiniteSet(claims)
    <3>1. DOMAIN f = active /\ claims = {f[i] : i \in active}
      OBVIOUS
    <3> HIDE DEF f, claims
    <3> QED BY <1>3, <3>1, ImageFinite
  <2>2. IsFiniteSet(supported)
    <3> HIDE DEF claims
    <3>1. supported \in SUBSET claims
      OBVIOUS
    <3> HIDE DEF supported
    <3> QED BY <2>1, <3>1, FS_Subset
  <2> HIDE DEF supported
  <2>3. DOMAIN g = supported /\ logical = {g[stated] : stated \in supported}
    OBVIOUS
  <2> HIDE DEF g, logical
  <2> QED BY <2>2, <2>3, ImageFinite
<1>6. ASSUME NEW stated \in supported
      PROVE  \E i \in active :
               /\ stated = SameClaim(i, active) /\ LogicalEdge(stated, asked) \in Links
               /\ LogicalEdge(stated, asked).subject = edges[i].subject
               /\ LogicalEdge(stated, asked).predicate = edges[i].predicate
               /\ LogicalEdge(stated, asked).object = edges[i].object
  <2>1. PICK i \in active : stated = SameClaim(i, active)
    OBVIOUS
  <2>2. stated \in SUBSET DOMAIN edges /\ stated # {}
    BY <1>4, <2>1
  <2>3. Cardinality(AcceptedOrigins(stated, asked)) >= asked.origins
    OBVIOUS
  <2>4. /\ LogicalEdge(stated, asked) \in Links
        /\ \E j \in stated : /\ LogicalEdge(stated, asked).subject = edges[j].subject
                           /\ LogicalEdge(stated, asked).predicate = edges[j].predicate
                           /\ LogicalEdge(stated, asked).object = edges[j].object
    BY <2>2, <2>3, LogicalEdgeTyped
  <2> QED BY <1>4, <2>1, <2>4
<1> HIDE DEF supported
<1>7. logical \subseteq Links
  BY <1>6
<1>8. ASSUME NEW e \in logical, NEW f \in logical,
             e.subject = f.subject, e.predicate = f.predicate, e.object = f.object
      PROVE  e = f
  <2>1. PICK ofE \in supported : e = LogicalEdge(ofE, asked)
    OBVIOUS
  <2>2. PICK ofF \in supported : f = LogicalEdge(ofF, asked)
    OBVIOUS
  <2> HIDE DEF logical
  <2>3. PICK i \in active : /\ ofE = SameClaim(i, active) /\ e.subject = edges[i].subject
                            /\ e.predicate = edges[i].predicate /\ e.object = edges[i].object
    BY <1>6, <2>1
  <2>4. PICK j \in active : /\ ofF = SameClaim(j, active) /\ f.subject = edges[j].subject
                            /\ f.predicate = edges[j].predicate /\ f.object = edges[j].object
    BY <1>6, <2>2
  <2>5. SlotOf(i) = SlotOf(j) /\ edges[i].object = edges[j].object
    BY <1>8, <2>3, <2>4 DEF SlotOf
  <2>6. SameClaim(i, active) = SameClaim(j, active)
    BY <2>5 DEF SameClaim
  <2> QED BY <2>1, <2>2, <2>3, <2>4, <2>6
<1> HIDE DEF logical
<1> QED BY <1>1, <1>5, <1>7, <1>8 DEF GraphOf

LEMMA PathsHold ==
  ASSUME edges \in Seq(Edges), stats \in Counts
  PROVE  PathsInferred
<1> SUFFICES ASSUME NEW asked \in Questions, NEW graph \in {LogicalEdges(asked)}
             PROVE  LET all == AllPaths(graph, asked)
                        best == InferPath(graph, asked)
                    IN  /\ best \subseteq all
                        /\ Cardinality(best) = Min({Cardinality(all), asked.maxPaths})
                        /\ \A p \in all \ best :
                              \/ \A a \in best : Len(p) >= Len(a)
                              \/ \A a \in best : ~Better(p, a)
  BY DEF PathsInferred
<1>1. asked \in Inquiries
  BY QuestionsAssumption
<1>2. GraphOf(graph)
  BY <1>1, LogicalGraph
<1> QED BY <1>1, <1>2, InferredAreBest

\* evidence_core.py: however many relations are stated, of however many entities, and
\* origins adjudicated, for every question infer_path() does not refuse, the paths
\* answered are real, all of them or as many as were asked for, and what is left out
\* is no shorter than any of them or comes after all of them.
THEOREM PathsAlwaysInferred == EvidenceSpec => []PathsInferred
<1>1. EvidenceInv => PathsInferred
  BY PathsHold DEF EvidenceInv, EvidenceTypeOK
<1> QED BY <1>1, EvidenceInitInv, EvidenceStep, PTL DEF EvidenceSpec
=============================================================================
