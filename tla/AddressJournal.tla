--------------------------- MODULE AddressJournal ---------------------------
(***************************************************************************)
(* PersistentEvolvingAddressStateJournalV2, the append-only revisions of   *)
(* stable addresses, and TemporalStateResolverV2, which navigates them.    *)
(*                                                                         *)
(* append() changes the journal in memory first, then stores the payload   *)
(* and the index row; when one of these raises it rebuilds the journal     *)
(* from the rows it knows to be stored.  A revision id hashes the          *)
(* predecessor's id, so a revision is its key and the chain of entries up  *)
(* to it, and the history of a key is the chain of its newest revision.    *)
(***************************************************************************)
EXTENDS Naturals, Sequences

CONSTANTS
  Keys,             \* (hierarchy_id, address)
  Bodies,           \* payload addresses, trajectory ids and provenance ids
  Threads,
  ErrorLeaves,      \* what an index write that raises may leave in the file
  RebuildMayFail,   \* may load_bytes raise while the journal is rebuilt?
  Stops,            \* how the process may stop: "kill", "power"
  Torn,             \* a line of the index that is not JSON
  None,
  MaxSequence,      \* bound: sequence numbers callers use
  MaxCrashes,       \* bound: crashes in a behaviour
  MaxErrors         \* bound: I/O exceptions in a behaviour

Entries == [seq : 0..MaxSequence, body : Bodies]
Revisions == [key : Keys, chain : Seq(Entries)]

JournalParameters ==
  /\ ErrorLeaves \subseteq {"nothing", "row", "torn"}
  /\ RebuildMayFail \in BOOLEAN
  /\ Stops \subseteq {"kill", "power"}
  /\ {Torn, None} \cap Revisions = {}
  /\ MaxSequence \in Nat /\ MaxCrashes \in Nat /\ MaxErrors \in Nat

VARIABLES
  payloads,   \* revisions in the content-addressed state store
  file,       \* revisions.jsonl, one element per line
  synced,     \* how many lines an fsync has made durable
  history,    \* the journal in memory
  rows,       \* _rows: what the process knows to be in the index
  phase,      \* "down", "up", or "refused": the constructor raised
  pc,         \* where each thread is in append() or in resolve()
  held,       \* the candidate it appends, or the anchor it resolved
  answer,     \* the last neighbour a resolver returned
  acked,      \* revisions append() returned, as <<key, entry>>
  refused,    \* revisions append() rejected
  crashes, errors

disk   == <<payloads, file, synced>>
memory == <<history, rows, phase, pc, held, answer>>
vars   == <<disk, memory, acked, refused, crashes, errors>>

EmptyHistory == [k \in Keys |-> <<>>]

Init ==
  /\ payloads = {} /\ file = <<>> /\ synced = 0
  /\ history = EmptyHistory /\ rows = <<>>
  /\ phase = "down"
  /\ pc = [t \in Threads |-> "idle"]
  /\ held = [t \in Threads |-> None]
  /\ answer = None
  /\ acked = {} /\ refused = {}
  /\ crashes = 0 /\ errors = 0

-----------------------------------------------------------------------------
Goto(t, label) == pc' = [pc EXCEPT ![t] = label]

\* Mutant: the lock is released before the fsync.
LockedUntilWritten == \E t \in Threads : pc[t] \in {"payload", "row"}

\* The journal's RLock; resolvers take it for each single read.
Locked == \E t \in Threads : pc[t] \in {"payload", "row", "fsync", "rebuild"}

IOError ==
  /\ errors < MaxErrors
  /\ errors' = errors + 1

\* A line written after a fragment without a newline joins that fragment.
WriteLine(f, text) ==
  IF f # <<>> /\ f[Len(f)] = Torn THEN f ELSE Append(f, text)

Last(s) == s[Len(s)]
Front(s) == SubSeq(s, 1, Len(s) - 1)
Newest(k) == Last(history[k])

-----------------------------------------------------------------------------
(* append()                                                                *)

MayCall(t) == phase = "up" /\ pc[t] = "idle" /\ ~Locked

\* The exact replay of the current revision.
AppendSame(t, k, e) ==
  /\ MayCall(t)
  /\ history[k] # <<>> /\ e = Newest(k)
  /\ acked' = acked \cup {<<k, e>>}
  /\ UNCHANGED <<disk, memory, refused, crashes, errors>>

\* A sequence that moves backward, or another content for the newest one.
AppendRefused(t, k, e) ==
  /\ MayCall(t)
  /\ history[k] # <<>> /\ e # Newest(k) /\ e.seq <= Newest(k).seq
  /\ refused' = refused \cup {<<k, e>>}
  /\ UNCHANGED <<disk, memory, acked, crashes, errors>>

\* Mutant: only an older sequence is refused.
AppendSecondAtSequence(t, k, e) ==
  /\ MayCall(t)
  /\ history[k] # <<>> => e.seq >= Newest(k).seq
  /\ history' = [history EXCEPT ![k] = Append(@, e)]
  /\ held' = [held EXCEPT ![t] = [key |-> k, chain |-> history'[k]]]
  /\ Goto(t, "payload")
  /\ UNCHANGED <<disk, rows, phase, answer, acked, refused, crashes, errors>>

\* The candidate enters the journal in memory; the lock is kept.
AppendCandidate(t, k, e) ==
  /\ MayCall(t)
  /\ history[k] # <<>> => e.seq > Newest(k).seq
  /\ history' = [history EXCEPT ![k] = Append(@, e)]
  /\ held' = [held EXCEPT ![t] = [key |-> k, chain |-> history'[k]]]
  /\ Goto(t, "payload")
  /\ UNCHANGED <<disk, rows, phase, answer, acked, refused, crashes, errors>>

StorePayload(t) ==
  /\ pc[t] = "payload"
  /\ payloads' = payloads \cup {held[t]}
  /\ Goto(t, "row")
  /\ UNCHANGED <<file, synced, history, rows, phase, held, answer,
                 acked, refused, crashes, errors>>

WriteRow(t) ==
  /\ pc[t] = "row"
  /\ file' = WriteLine(file, held[t])
  /\ Goto(t, "fsync")
  /\ UNCHANGED <<payloads, synced, history, rows, phase, held, answer,
                 acked, refused, crashes, errors>>

\* Mutant: append() answers without an fsync.
FlushOnly(t) ==
  /\ pc[t] = "fsync"
  /\ rows' = Append(rows, held[t])
  /\ acked' = acked \cup {<<held[t].key, Last(held[t].chain)>>}
  /\ held' = [held EXCEPT ![t] = None]
  /\ Goto(t, "idle")
  /\ UNCHANGED <<payloads, file, synced, history, phase, answer, refused, crashes, errors>>

\* fsync() returns; the row is known to be stored, append() returns.
FsyncRow(t) ==
  /\ pc[t] = "fsync"
  /\ synced' = Len(file)
  /\ rows' = Append(rows, held[t])
  /\ acked' = acked \cup {<<held[t].key, Last(held[t].chain)>>}
  /\ held' = [held EXCEPT ![t] = None]
  /\ Goto(t, "idle")
  /\ UNCHANGED <<payloads, file, history, phase, answer, refused, crashes, errors>>

\* The payload store, the write or the fsync raises.
StoreFails(t) ==
  /\ IOError
  /\ \/ /\ pc[t] = "payload"
        /\ payloads' \in {payloads, payloads \cup {held[t]}}
        /\ UNCHANGED file
     \/ /\ pc[t] = "row"
        /\ \E left \in ErrorLeaves :
             file' = CASE left = "nothing" -> file
                       [] left = "row"     -> WriteLine(file, held[t])
                       [] left = "torn"    -> WriteLine(file, Torn)
        /\ UNCHANGED payloads
     \/ /\ pc[t] = "fsync" /\ "row" \in ErrorLeaves
        /\ UNCHANGED <<file, payloads>>
  /\ Goto(t, "rebuild")
  /\ UNCHANGED <<synced, history, rows, phase, held, answer, acked, refused, crashes>>

\* The history that restore() builds from rows rs, where it accepts them.
HistoryOf(rs, k) ==
  LET mine == {i \in 1..Len(rs) : rs[i].key = k}
  IN  IF mine = {} THEN <<>>
      ELSE rs[CHOOSE i \in mine : \A j \in mine : j <= i].chain

Restored(rs) == [k \in Keys |-> HistoryOf(rs, k)]

\* restore(): appending the revision again must give the same revision.
Restorable(rs) ==
  \A i \in 1..Len(rs) :
    LET before == HistoryOf(SubSeq(rs, 1, i - 1), rs[i].key)
        chain  == rs[i].chain
    IN  \/ chain = before
        \/ /\ Front(chain) = before
           /\ before # <<>> => Last(chain).seq > Last(before).seq

\* Mutant: the exception leaves the candidate in the journal.
RaiseOnly(t) ==
  /\ pc[t] = "rebuild"
  /\ held' = [held EXCEPT ![t] = None]
  /\ Goto(t, "idle")
  /\ UNCHANGED <<disk, history, rows, phase, answer, acked, refused, crashes, errors>>

\* The except branch: a new journal, restored from the rows, and raise.
Rebuild(t) ==
  /\ pc[t] = "rebuild"
  /\ history' = Restored(rows)
  /\ held' = [held EXCEPT ![t] = None]
  /\ Goto(t, "idle")
  /\ UNCHANGED <<disk, rows, phase, answer, acked, refused, crashes, errors>>

\* A payload cannot be loaded: the new journal is still empty.
RebuildFails(t) ==
  /\ pc[t] = "rebuild" /\ RebuildMayFail
  /\ IOError
  /\ history' = EmptyHistory
  /\ held' = [held EXCEPT ![t] = None]
  /\ Goto(t, "idle")
  /\ UNCHANGED <<disk, rows, phase, answer, acked, refused, crashes>>

-----------------------------------------------------------------------------
(* TemporalStateResolverV2.resolve(): the history is read in one critical  *)
(* section and the neighbour of the anchor in a later one.                 *)

Revision(k, n) == [key |-> k, chain |-> SubSeq(history[k], 1, n)]
Knows(r) ==
  Len(r.chain) <= Len(history[r.key]) /\ r = Revision(r.key, Len(r.chain))

ResolveAnchor(t, k) ==
  /\ MayCall(t)
  /\ \E n \in 1..Len(history[k]) : held' = [held EXCEPT ![t] = Revision(k, n)]
  /\ Goto(t, "neighbour")
  /\ UNCHANGED <<disk, history, rows, phase, answer, acked, refused, crashes, errors>>

\* Mutant: the revision before the current one, whatever the anchor.
PreviousOfNewest(r) ==
  IF Len(history[r.key]) > 1 THEN Revision(r.key, Len(history[r.key]) - 1) ELSE None

\* previous_revision and next_revision answer None for an unknown id.
PreviousRevision(r) ==
  IF Knows(r) /\ Len(r.chain) > 1 THEN Revision(r.key, Len(r.chain) - 1) ELSE None
NextRevision(r) ==
  IF Knows(r) /\ Len(r.chain) < Len(history[r.key])
  THEN Revision(r.key, Len(r.chain) + 1) ELSE None

ResolveNeighbour(t) ==
  /\ pc[t] = "neighbour" /\ ~Locked
  /\ answer' \in {
       [anchor |-> held[t], way |-> "reverse", found |-> PreviousRevision(held[t])],
       [anchor |-> held[t], way |-> "forward", found |-> NextRevision(held[t])]}
  /\ held' = [held EXCEPT ![t] = None]
  /\ Goto(t, "idle")
  /\ UNCHANGED <<disk, history, rows, phase, acked, refused, crashes, errors>>

-----------------------------------------------------------------------------
(* Crash and restart.                                                      *)

MemoryLost ==
  /\ history' = EmptyHistory /\ rows' = <<>>
  /\ phase' = "down"
  /\ pc' = [t \in Threads |-> "idle"]
  /\ held' = [t \in Threads |-> None]
  /\ answer' = None

Stop(kind) ==
  /\ kind \in Stops /\ phase = "up"
  /\ crashes < MaxCrashes
  /\ crashes' = crashes + 1
  /\ MemoryLost
  /\ UNCHANGED <<payloads, acked, refused, errors>>

Kill == Stop("kill") /\ UNCHANGED <<file, synced>>

\* The machine dies: lines no fsync covered may vanish.
PowerLoss ==
  /\ Stop("power")
  /\ \E n \in synced..Len(file) : file' = SubSeq(file, 1, n) /\ synced' = n

\* _load: every line parses and its payload loads, then restore().
Loads == \A i \in 1..Len(file) : file[i] # Torn /\ file[i] \in payloads

Open ==
  /\ phase = "down"
  /\ Loads /\ Restorable(file)
  /\ rows' = file
  /\ history' = Restored(file)
  /\ phase' = "up"
  /\ UNCHANGED <<disk, pc, held, answer, acked, refused, crashes, errors>>

OpenRaises ==
  /\ phase = "down"
  /\ ~(Loads /\ Restorable(file))
  /\ phase' = "refused"
  /\ UNCHANGED <<disk, history, rows, pc, held, answer, acked, refused, crashes, errors>>

\* A refused index is tried again; nothing on disk has changed.
Retry ==
  /\ phase = "refused"
  /\ phase' = "down"
  /\ UNCHANGED <<disk, history, rows, pc, held, answer, acked, refused, crashes, errors>>

-----------------------------------------------------------------------------
Next ==
  \/ \E t \in Threads :
       \/ \E k \in Keys, e \in Entries :
            AppendSame(t, k, e) \/ AppendRefused(t, k, e) \/ AppendCandidate(t, k, e)
       \/ StorePayload(t) \/ WriteRow(t) \/ FsyncRow(t)
       \/ StoreFails(t) \/ Rebuild(t) \/ RebuildFails(t)
       \/ \E k \in Keys : ResolveAnchor(t, k)
       \/ ResolveNeighbour(t)
  \/ Kill \/ PowerLoss \/ Open \/ OpenRaises \/ Retry

Spec == Init /\ [][Next]_vars

-----------------------------------------------------------------------------
(* Properties.                                                             *)

Pcs == {"idle", "payload", "row", "fsync", "rebuild", "neighbour"}
Answers ==
  [anchor : Revisions, way : {"reverse", "forward"}, found : Revisions \cup {None}]

TypeOK ==
  /\ payloads \subseteq Revisions
  /\ file \in Seq(Revisions \cup {Torn})
  /\ synced \in 0..Len(file)
  /\ history \in [Keys -> Seq(Entries)]
  /\ rows \in Seq(Revisions)
  /\ phase \in {"down", "up", "refused"}
  /\ pc \in [Threads -> Pcs]
  /\ held \in [Threads -> Revisions \cup {None}]
  /\ answer \in Answers \cup {None}
  /\ acked \subseteq Keys \X Entries
  /\ refused \subseteq Keys \X Entries
  /\ crashes \in 0..MaxCrashes /\ errors \in 0..MaxErrors

\* The lines that are in the file whatever happens next.
Kept == IF "power" \in Stops THEN synced ELSE Len(file)
Durable == {file[i] : i \in 1..Kept} \cap payloads

(* Every revision append() has returned is in the index, with its payload, *)
(* whatever stops the process: the receipt is appended and fsynced after   *)
(* the payload and before the answer.                                      *)
AckedSurvive ==
  \A a \in acked : \E r \in Durable : r.key = a[1] /\ Last(r.chain) = a[2]

(* The constructor never refuses the index the journal has written.        *)
ReopensCanonical == phase # "refused"

(* What readers of a running journal see is what a restart would rebuild   *)
(* from the durable lines: no revision shows before it is durable, none    *)
(* stays in memory after its append() raised, none is lost.                *)
ReadersSeeDurable ==
  phase = "up" /\ ~Locked => history = Restored(SubSeq(file, 1, Kept))

(* A resolver's answer names durable revisions that are neighbours, though *)
(* anchor and neighbour are read in two critical sections.                 *)
AnswersAreAdjacent ==
  answer # None =>
    LET anchor == answer.anchor
        found  == answer.found
    IN  /\ {anchor, found} \ {None} \subseteq Durable
        /\ answer.way = "reverse" =>
             IF Len(anchor.chain) = 1 THEN found = None
             ELSE found = [anchor EXCEPT !.chain = Front(@)]
        /\ answer.way = "forward" /\ found # None =>
             anchor = [found EXCEPT !.chain = Front(@)]

(* Refinement: the journal implements the revision history, with the       *)
(* durable lines as its state.                                             *)
Abstract == INSTANCE RevisionHistory WITH
  history <- Restored(SubSeq(file, 1, Kept))
ImplementsHistory == Abstract!Spec
=============================================================================
