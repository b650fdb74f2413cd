------------------------- MODULE StructuralPipeline -------------------------
(***************************************************************************)
(* ProductStructuralObservationService: the append-only raw store          *)
(* (StructuralObservationStore) and a derived runtime that follows it with *)
(* a cursor (StructuralAssociationRuntime, and with the same protocol      *)
(* PersistentStructuralTrajectoryRuntimeV2).                               *)
(*                                                                         *)
(* Request threads run ingest(): append under the store's lock, then sync  *)
(* under the runtime's lock.  The process may crash between any two steps, *)
(* any write may raise, and a restart reopens both parts from disk.        *)
(* An index row is its envelope: "event" stands for the observation_id,    *)
(* the whole envelope for the content-addressed receipt.                   *)
(***************************************************************************)
EXTENDS Naturals, Sequences, FiniteSets

CONSTANTS
  Events,        \* distinct StructuralEvents (identities)
  Provenances,   \* distinct provenance objects
  EmptyTrail,    \* the events whose trail is empty
  BlankName,     \* the provenances whose hierarchy_id is only white space
  Reader,        \* which runtime follows the store
  Threads,       \* request threads of the server
  Opener,        \* the thread that constructs the service at startup
  ErrorLeaves,   \* what an index write that raises may leave in the file
  Stops,         \* how the process may stop: "kill", "power"
  CrashTears,    \* may a power loss leave the first bytes of an unsynced row?
  Torn,          \* a line of the index that is not JSON
  None,
  MaxCrashes,    \* bound: crashes in a behaviour
  MaxErrors      \* bound: I/O exceptions in a behaviour

ASSUME DistinguishedValues ==
  /\ Opener \notin Threads
  /\ Torn \notin [event : Events, prov : Provenances]
  /\ None \notin [event : Events, prov : Provenances] \cup Events

ASSUME ParameterKinds ==
  /\ Reader \in {"association", "trajectory"}
  /\ ErrorLeaves \subseteq {"nothing", "row", "torn"}
  /\ Stops \subseteq {"kill", "power"}
  /\ CrashTears \in BOOLEAN
  /\ MaxCrashes \in Nat
  /\ MaxErrors \in Nat
  /\ EmptyTrail \subseteq Events
  /\ BlankName \subseteq Provenances

Envelopes == [event : Events, prov : Provenances]
Actors == Threads \cup {Opener}

VARIABLES
  \* on disk
  payloads,   \* envelopes in the content-addressed payload store
  file,       \* index.jsonl, one element per line
  synced,     \* how many lines an fsync has made durable
  states,     \* runtime states in the content-addressed state store
  pointer,    \* current.json: the runtime state it names, or None
  \* in memory
  order,      \* the store's _order, with the row of each id
  rt,         \* the runtime: cursor_count, cursor_observation_id and field
  phase,      \* where the service is in its life: see Phases
  line,       \* how many lines _load_index has read
  pc,         \* where each actor is in ingest() or in open()
  env,        \* the envelope each actor is ingesting
  upto,       \* the end of the suffix each actor's sync() has read
  \* history and bounds
  acked,      \* envelopes append() returned to a caller
  refused,    \* envelopes append() rejected as conflicting
  crashes, errors

disk   == <<payloads, file, synced, states, pointer>>
memory == <<order, rt, phase, line, pc, env, upto>>
vars   == <<disk, memory, acked, refused, crashes, errors>>

\* "loading": _load_index; "opening": the constructor's sync(); "broken":
\* startup met an I/O error; "refused": it rejected what is on disk.
Phases == {"down", "loading", "opening", "up", "broken", "refused"}

\* A field is what was folded into it: the sequence of observed envelopes.
RuntimeStates ==
  [count : Nat, last : Events \cup {None}, field : Seq(Envelopes)]
EmptyRuntime == [count |-> 0, last |-> None, field |-> <<>>]

\* Without a checkpoint the pointer names no state.
ASSUME NoneIsNoState == None \notin RuntimeStates

Init ==
  /\ payloads = {} /\ file = <<>> /\ synced = 0
  /\ states = {} /\ pointer = None
  /\ order = <<>> /\ rt = EmptyRuntime
  /\ phase = "down" /\ line = 0
  /\ pc = [a \in Actors |-> "idle"]
  /\ env = [a \in Actors |-> None]
  /\ upto = [a \in Actors |-> 0]
  /\ acked = {} /\ refused = {}
  /\ crashes = 0 /\ errors = 0

-----------------------------------------------------------------------------
(* Control helpers.                                                        *)

Goto(a, label) == pc' = [pc EXCEPT ![a] = label]

\* RLock of the store, RLock of the runtime.
StoreLocked == \E a \in Actors : pc[a] \in {"payload", "row", "fsync"}
RuntimeLocked == \E a \in Actors : pc[a] \in {"observe", "save", "point"}

\* ingest() returns or raises.  For the opener the outcome is the phase
\* that its startup ends in.
Leave(a, outcome) ==
  /\ Goto(a, "idle")
  /\ env' = [env EXCEPT ![a] = None]
  /\ upto' = [upto EXCEPT ![a] = 0]
  /\ phase' = IF a = Opener THEN outcome ELSE phase

IOError ==
  /\ errors < MaxErrors
  /\ errors' = errors + 1

\* A line written after a fragment without a newline joins that fragment.
WriteLine(f, text) ==
  IF f # <<>> /\ f[Len(f)] = Torn THEN f ELSE Append(f, text)

-----------------------------------------------------------------------------
(* StructuralObservationStore.append                                       *)

Stored(e) == \E i \in 1..Len(order) : order[i] = e
Known(event) == \E i \in 1..Len(order) : order[i].event = event

\* Mutant: an id that is known is a duplicate, whatever its row says.
DuplicateById(t, e) ==
  /\ phase = "up" /\ pc[t] = "idle" /\ ~StoreLocked
  /\ Known(e.event)
  /\ acked' = acked \cup {e}
  /\ env' = [env EXCEPT ![t] = e]
  /\ Goto(t, "sync")
  /\ UNCHANGED <<disk, order, rt, phase, line, upto, refused, crashes, errors>>

\* Duplicate: answered from the stored envelope; ingest goes on to sync.
AppendDuplicate(t, e) ==
  /\ phase = "up" /\ pc[t] = "idle" /\ ~StoreLocked
  /\ Known(e.event) /\ Stored(e)
  /\ acked' = acked \cup {e}
  /\ env' = [env EXCEPT ![t] = e]
  /\ Goto(t, "sync")
  /\ UNCHANGED <<disk, order, rt, phase, line, upto, refused, crashes, errors>>

\* Same event, other provenance: ValueError, nothing changes.
AppendConflict(t, e) ==
  /\ phase = "up" /\ pc[t] = "idle" /\ ~StoreLocked
  /\ Known(e.event) /\ ~Stored(e)
  /\ refused' = refused \cup {e}
  /\ UNCHANGED <<disk, memory, acked, crashes, errors>>

\* Mutant: the lock covers only the lookup.
AppendUnlocked(t, e) ==
  /\ phase = "up" /\ pc[t] = "idle"
  /\ ~Known(e.event)
  /\ env' = [env EXCEPT ![t] = e]
  /\ Goto(t, "payload")
  /\ UNCHANGED <<disk, order, rt, phase, line, upto, acked, refused, crashes, errors>>

\* Mutant: the row is written before its payload is stored.
AppendRowFirst(t, e) ==
  /\ phase = "up" /\ pc[t] = "idle" /\ ~StoreLocked
  /\ ~Known(e.event)
  /\ env' = [env EXCEPT ![t] = e]
  /\ Goto(t, "row")
  /\ UNCHANGED <<disk, order, rt, phase, line, upto, acked, refused, crashes, errors>>

\* New: the lock is kept until the row is durable or a write raises.
AppendNew(t, e) ==
  /\ phase = "up" /\ pc[t] = "idle" /\ ~StoreLocked
  /\ ~Known(e.event)
  /\ env' = [env EXCEPT ![t] = e]
  /\ Goto(t, "payload")
  /\ UNCHANGED <<disk, order, rt, phase, line, upto, acked, refused, crashes, errors>>

StorePayload(t) ==
  /\ pc[t] = "payload"
  /\ payloads' = payloads \cup {env[t]}
  /\ Goto(t, "row")
  /\ UNCHANGED <<file, synced, states, pointer, order, rt, phase, line, env, upto,
                 acked, refused, crashes, errors>>

\* The payload store raises, before or after its own commit.
StorePayloadFails(t) ==
  /\ pc[t] = "payload"
  /\ IOError
  /\ payloads' \in {payloads, payloads \cup {env[t]}}
  /\ Leave(t, "broken")
  /\ UNCHANGED <<file, synced, states, pointer, order, rt, line, acked, refused, crashes>>

WriteRow(t) ==
  /\ pc[t] = "row"
  /\ file' = WriteLine(file, env[t])
  /\ Goto(t, "fsync")
  /\ UNCHANGED <<payloads, synced, states, pointer, order, rt, phase, line, env, upto,
                 acked, refused, crashes, errors>>

\* write() or flush() raises with none, all or some of the bytes written.
WriteRowFails(t) ==
  /\ pc[t] = "row"
  /\ IOError
  /\ \E left \in ErrorLeaves :
       file' = CASE left = "nothing" -> file
                 [] left = "row"     -> WriteLine(file, env[t])
                 [] left = "torn"    -> WriteLine(file, Torn)
  /\ Leave(t, "broken")
  /\ UNCHANGED <<payloads, synced, states, pointer, order, rt, line, acked, refused, crashes>>

\* Mutant: append() answers without an fsync.
FlushOnly(t) ==
  /\ pc[t] = "fsync"
  /\ order' = Append(order, env[t])
  /\ acked' = acked \cup {env[t]}
  /\ Goto(t, "sync")
  /\ UNCHANGED <<payloads, file, synced, states, pointer, rt, phase, line, env, upto,
                 refused, crashes, errors>>

\* fsync() returns; the row enters _entries and _order, append() returns.
FsyncRow(t) ==
  /\ pc[t] = "fsync"
  /\ synced' = Len(file)
  /\ order' = Append(order, env[t])
  /\ acked' = acked \cup {env[t]}
  /\ Goto(t, "sync")
  /\ UNCHANGED <<payloads, file, states, pointer, rt, phase, line, env, upto,
                 refused, crashes, errors>>

\* fsync() raises: the row stays in the file but not in memory.
FsyncRowFails(t) ==
  /\ pc[t] = "fsync"
  /\ "row" \in ErrorLeaves
  /\ IOError
  /\ Leave(t, "broken")
  /\ UNCHANGED <<disk, order, rt, line, acked, refused, crashes>>

-----------------------------------------------------------------------------
(* sync() of the runtime that follows the store.                           *)

\* _validate_cursor
CursorValid(r, log) ==
  /\ r.count <= Len(log)
  /\ IF r.count = 0 THEN r.last = None ELSE r.last = log[r.count].event

\* The association field refuses a blank hierarchy_id; the trajectory index
\* refuses an empty trail as well.
Rejects(e) ==
  \/ e.prov \in BlankName
  \/ Reader = "trajectory" /\ e.event \in EmptyTrail

MaySync(a) == pc[a] = "sync" /\ ~RuntimeLocked /\ ~StoreLocked

\* sync() raises when its cursor is not valid; a running service never
\* gets there (CursorStaysValid), so that branch has no action of its own.

\* Mutant: a checkpoint on disk is taken for a runtime that is up to date.
SyncSkipsPending(a) ==
  /\ MaySync(a)
  /\ CursorValid(rt, order)
  /\ pointer # None
  /\ Leave(a, "up")
  /\ UNCHANGED <<disk, order, rt, line, acked, refused, crashes, errors>>

\* Nothing pending and a checkpoint exists: return at once.
SyncNothing(a) ==
  /\ MaySync(a)
  /\ CursorValid(rt, order)
  /\ rt.count = Len(order) /\ pointer # None
  /\ Leave(a, "up")
  /\ UNCHANGED <<disk, order, rt, line, acked, refused, crashes, errors>>

\* _load_if_present
SavedRuntime == IF pointer = None THEN EmptyRuntime ELSE pointer

\* Mutant: sync() starts from the checkpoint instead of the live runtime.
SyncReloads(a) ==
  /\ MaySync(a)
  /\ CursorValid(rt, order)
  /\ rt.count < Len(order) \/ pointer = None
  /\ upto' = [upto EXCEPT ![a] = Len(order)]
  /\ rt' = SavedRuntime
  /\ Goto(a, "observe")
  /\ UNCHANGED <<disk, order, phase, line, env, acked, refused, crashes, errors>>

\* ordered_from(cursor): the suffix is read once, under the store's lock.
SyncBegin(a) ==
  /\ MaySync(a)
  /\ CursorValid(rt, order)
  /\ rt.count < Len(order) \/ pointer = None
  /\ upto' = [upto EXCEPT ![a] = Len(order)]
  /\ Goto(a, "observe")
  /\ UNCHANGED <<disk, order, rt, phase, line, env, acked, refused, crashes, errors>>

NextRow == order[rt.count + 1]

\* Mutant: the cursor remembers the row, not the observation's id.
ObserveKeepsRow(a) ==
  /\ pc[a] = "observe"
  /\ rt.count < upto[a]
  /\ ~Rejects(NextRow)
  /\ rt' = [count |-> rt.count + 1, last |-> NextRow,
            field |-> Append(rt.field, NextRow)]
  /\ UNCHANGED <<disk, order, phase, line, pc, env, upto, acked, refused, crashes, errors>>

\* One envelope is folded into the field and the cursor moves past it.
Observe(a) ==
  /\ pc[a] = "observe"
  /\ rt.count < upto[a]
  /\ ~Rejects(NextRow)
  /\ rt' = [count |-> rt.count + 1, last |-> NextRow.event,
            field |-> Append(rt.field, NextRow)]
  /\ UNCHANGED <<disk, order, phase, line, pc, env, upto, acked, refused, crashes, errors>>

\* The derived layer raises: no checkpoint; earlier envelopes stay folded.
ObserveRaises(a) ==
  /\ pc[a] = "observe"
  /\ rt.count < upto[a]
  /\ Rejects(NextRow)
  /\ Leave(a, "refused")
  /\ UNCHANGED <<disk, order, rt, line, acked, refused, crashes, errors>>

\* Mutant: the pointer is replaced without storing the state.
SuffixDoneSkipsState(a) ==
  /\ pc[a] = "observe"
  /\ rt.count = upto[a]
  /\ Goto(a, "point")
  /\ UNCHANGED <<disk, order, rt, phase, line, env, upto, acked, refused, crashes, errors>>

SuffixDone(a) ==
  /\ pc[a] = "observe"
  /\ rt.count = upto[a]
  /\ Goto(a, "save")
  /\ UNCHANGED <<disk, order, rt, phase, line, env, upto, acked, refused, crashes, errors>>

\* _checkpoint: the state first, then the pointer by an atomic replace.
SaveState(a) ==
  /\ pc[a] = "save"
  /\ states' = states \cup {rt}
  /\ Goto(a, "point")
  /\ UNCHANGED <<payloads, file, synced, pointer, order, rt, phase, line, env, upto,
                 acked, refused, crashes, errors>>

ReplacePointer(a) ==
  /\ pc[a] = "point"
  /\ pointer' = rt
  /\ Leave(a, "up")
  /\ UNCHANGED <<payloads, file, synced, states, order, rt, line,
                 acked, refused, crashes, errors>>

\* The state store, the write of the temporary file or the replace raises.
CheckpointFails(a) ==
  /\ pc[a] \in {"save", "point"}
  /\ IOError
  /\ Leave(a, "broken")
  /\ UNCHANGED <<disk, order, rt, line, acked, refused, crashes>>

-----------------------------------------------------------------------------
(* Crash and restart.                                                      *)

MemoryLost ==
  /\ order' = <<>> /\ rt' = EmptyRuntime
  /\ phase' = "down" /\ line' = 0
  /\ pc' = [a \in Actors |-> "idle"]
  /\ env' = [a \in Actors |-> None]
  /\ upto' = [a \in Actors |-> 0]

Stop(kind) ==
  /\ kind \in Stops
  /\ crashes < MaxCrashes
  /\ crashes' = crashes + 1
  /\ MemoryLost
  /\ UNCHANGED <<payloads, states, pointer, acked, refused, errors>>

\* The process dies; what it wrote is still in the kernel's cache.
Kill ==
  /\ phase \in {"loading", "opening", "up"}
  /\ Stop("kill")
  /\ UNCHANGED <<file, synced>>

\* The machine dies: unsynced lines survive, vanish, or are torn.
PowerLoss ==
  /\ Stop("power")
  /\ \E n \in synced..Len(file) :
       \/ file' = SubSeq(file, 1, n) /\ synced' = n
       \/ /\ CrashTears /\ n < Len(file)
          /\ file' = Append(SubSeq(file, 1, n), Torn) /\ synced' = n + 1

\* A service whose startup raised is started again.
Restart ==
  /\ phase \in {"broken", "refused"}
  /\ MemoryLost
  /\ UNCHANGED <<disk, acked, refused, crashes, errors>>

Open ==
  /\ phase = "down"
  /\ phase' = "loading"
  /\ UNCHANGED <<disk, order, rt, line, pc, env, upto, acked, refused, crashes, errors>>

NextLine == file[line + 1]

\* _load_index: a line parses, and a repeated id carries the same row.
LineAccepted == NextLine # Torn /\ (Known(NextLine.event) => Stored(NextLine))

\* Repeated rows are skipped; the first row of an id fixes its place.
LoadLine ==
  /\ phase = "loading"
  /\ line < Len(file) /\ LineAccepted
  /\ line' = line + 1
  /\ order' = IF Known(NextLine.event) THEN order ELSE Append(order, NextLine)
  /\ UNCHANGED <<disk, rt, phase, pc, env, upto, acked, refused, crashes, errors>>

LoadLineRaises ==
  /\ phase = "loading"
  /\ line < Len(file) /\ ~LineAccepted
  /\ phase' = "refused"
  /\ UNCHANGED <<disk, order, rt, line, pc, env, upto, acked, refused, crashes, errors>>

\* Mutant: the cursor is restored, the field is not.
LoadRuntimeCursorOnly ==
  /\ phase = "loading"
  /\ line = Len(file)
  /\ CursorValid(SavedRuntime, order)
  /\ rt' = [SavedRuntime EXCEPT !.field = <<>>]
  /\ phase' = "opening"
  /\ line' = 0
  /\ Goto(Opener, "sync")
  /\ UNCHANGED <<disk, order, env, upto, acked, refused, crashes, errors>>

\* Mutant: the checkpoint is taken without comparing it with the store.
LoadRuntimeUnchecked ==
  /\ phase = "loading"
  /\ line = Len(file)
  /\ rt' = SavedRuntime
  /\ phase' = "opening"
  /\ line' = 0
  /\ Goto(Opener, "sync")
  /\ UNCHANGED <<disk, order, env, upto, acked, refused, crashes, errors>>

\* The runtime's constructor: the saved state, then sync() by the opener.
LoadRuntime ==
  /\ phase = "loading"
  /\ line = Len(file)
  /\ CursorValid(SavedRuntime, order)
  /\ rt' = SavedRuntime
  /\ phase' = "opening"
  /\ line' = 0
  /\ Goto(Opener, "sync")
  /\ UNCHANGED <<disk, order, env, upto, acked, refused, crashes, errors>>

LoadRuntimeRaises ==
  /\ phase = "loading"
  /\ line = Len(file)
  /\ ~CursorValid(SavedRuntime, order)
  /\ phase' = "refused"
  /\ UNCHANGED <<disk, order, rt, line, pc, env, upto, acked, refused, crashes, errors>>

StartupSteps ==
  Open \/ LoadLine \/ LoadLineRaises \/ LoadRuntime \/ LoadRuntimeRaises \/ Restart

-----------------------------------------------------------------------------
AppendSteps(t) ==
  \/ \E e \in Envelopes :
       AppendDuplicate(t, e) \/ AppendConflict(t, e) \/ AppendNew(t, e)
  \/ StorePayload(t) \/ StorePayloadFails(t)
  \/ WriteRow(t) \/ WriteRowFails(t)
  \/ FsyncRow(t) \/ FsyncRowFails(t)

SyncSteps(a) ==
  \/ SyncNothing(a) \/ SyncBegin(a)
  \/ Observe(a) \/ ObserveRaises(a) \/ SuffixDone(a)
  \/ SaveState(a) \/ ReplacePointer(a) \/ CheckpointFails(a)

Next ==
  \/ \E t \in Threads : AppendSteps(t)
  \/ \E a \in Actors : SyncSteps(a)
  \/ StartupSteps \/ Kill \/ PowerLoss

Spec == Init /\ [][Next]_vars

(***************************************************************************)
(* A thread that is inside a call keeps running (locks are released, the   *)
(* operating system schedules it) and a stopped service is restarted.      *)
(* Callers owe nothing: a new call need never begin.                       *)
(***************************************************************************)
Continues(a) ==
  \/ a \in Threads /\ (StorePayload(a) \/ WriteRow(a) \/ FsyncRow(a))
  \/ SyncNothing(a) \/ SyncBegin(a)
  \/ Observe(a) \/ ObserveRaises(a) \/ SuffixDone(a)
  \/ SaveState(a) \/ ReplacePointer(a)

FairSpec ==
  /\ Spec
  /\ \A a \in Actors : WF_vars(Continues(a))
  /\ WF_vars(StartupSteps)

-----------------------------------------------------------------------------
(* Properties.                                                             *)

Pcs == {"idle", "payload", "row", "fsync", "sync", "observe", "save", "point"}

TypeOK ==
  /\ payloads \subseteq Envelopes
  /\ file \in Seq(Envelopes \cup {Torn})
  /\ synced \in Nat
  /\ states \subseteq RuntimeStates
  /\ pointer \in RuntimeStates \cup {None}
  /\ order \in Seq(Envelopes)
  /\ rt \in RuntimeStates
  /\ phase \in Phases
  /\ line \in Nat
  /\ pc \in [Actors -> Pcs]
  /\ env \in [Actors -> Envelopes \cup {None}]
  /\ upto \in [Actors -> Nat]
  /\ acked \subseteq Envelopes
  /\ refused \subseteq Envelopes
  /\ crashes \in 0..MaxCrashes
  /\ errors \in 0..MaxErrors

\* The lines that are in the file whatever happens next.
Kept == IF "power" \in Stops THEN synced ELSE Len(file)
DurableRows == SubSeq(file, 1, Kept)
Durable == {file[i] : i \in 1..Kept}

(* Whatever stops the service now, every acknowledged envelope is in the   *)
(* index it will read back, with the payload its receipt names: append()   *)
(* answers only after the payload store and the fsync of the row.          *)
AckedSurvive == acked \subseteq Durable \cap payloads

(* A start never refuses what the service itself has written: the index    *)
(* loads, the checkpoint names a prefix of its rows, and sync() replays    *)
(* the missing suffix.                                                     *)
StartupAccepts == phase # "refused"

(* The cursor of a running service is one _validate_cursor accepts: the    *)
(* check at the head of sync() never fires after startup.                  *)
CursorStaysValid == phase \in {"opening", "up"} => CursorValid(rt, order)

(* The field in memory is the fold of exactly the raw rows the cursor has  *)
(* passed, in their order, also after an exception in the middle of        *)
(* sync() and after a restart from the checkpoint.                         *)
FieldIsFold == rt.field = SubSeq(order, 1, rt.count)

(* The state that current.json names is in the state store and is the fold *)
(* of a prefix of the rows that survive any stop.                          *)
CheckpointIsDurablePrefix ==
  pointer # None =>
    /\ pointer \in states
    /\ pointer.count <= Kept
    /\ pointer.field = SubSeq(DurableRows, 1, pointer.count)

(* Every index row that parses has its payload, whatever has failed.       *)
RowsHavePayload == {file[i] : i \in 1..Len(file)} \ {Torn} \subseteq payloads

(* A provenance once refused for an event is never the stored one later.   *)
RefusedNeverStored == refused \cap Durable = {}

(* Action property: within a process the raw order only grows and the      *)
(* cursor only moves forward; the checkpoint never moves back, not even    *)
(* over a crash.                                                           *)
OnlyForward ==
  [][/\ phase = "up" /\ phase' = "up" =>
          /\ SubSeq(order', 1, Len(order)) = order
          /\ rt'.count >= rt.count
     /\ pointer # None => pointer' # None /\ pointer'.count >= pointer.count]_vars

(* Liveness: an acknowledged observation is eventually part of the derived *)
(* field of a running service, through crashes and failed checkpoints.     *)
AckedEventuallyDerived ==
  \A e \in Envelopes :
    e \in acked ~> (phase = "up" /\ \E i \in 1..rt.count : rt.field[i] = e)

(* Refinement: the pipeline implements the observation log.                *)
Log == INSTANCE ObservationLog WITH
  log <- DurableRows,
  covered <- IF pointer = None THEN 0 ELSE pointer.count
ImplementsLog == Log!Spec
=============================================================================
