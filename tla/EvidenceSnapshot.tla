--------------------------- MODULE EvidenceSnapshot ---------------------------
(***************************************************************************)
(* The product's evidence service: a graph of observed rows in memory, and *)
(* save(), which stores the whole graph as a content-addressed snapshot    *)
(* and names that snapshot in receipt.json by way of a temporary file.     *)
(*                                                                         *)
(* The external-episode route runs its handler under one lock and retries  *)
(* by episode; the relation route calls observe_relation() and save() with *)
(* no lock.  A snapshot id is the digest of the rows, so a snapshot is the *)
(* rows.  An inode stands for the text of one receipt file, so that a file *)
(* two threads have open at once is one file.                              *)
(***************************************************************************)
EXTENDS Naturals, Sequences, FiniteSets

CONSTANTS
  Episodes,      \* record keys of external episodes
  Relations,     \* evidence ids clients use on the relation route
  Contents,      \* what an observation says
  Threads,       \* request threads
  Inodes,
  Stops,         \* how the process may stop: "kill", "power"
  Empty,         \* the text of a truncated receipt file
  None,
  MaxRows,       \* bound: rows in memory
  MaxCrashes,    \* bound: crashes in a behaviour
  MaxErrors      \* bound: I/O exceptions in a behaviour

Rows == [key : Episodes \cup Relations, content : Contents]

EvidenceParameters ==
  /\ Episodes \cap Relations = {}
  /\ Stops \subseteq {"kill", "power"}
  /\ {Empty, None} \cap Seq(Rows) = {}
  /\ None \notin Inodes \cup Rows
  /\ MaxRows \in Nat /\ MaxCrashes \in Nat /\ MaxErrors \in Nat

VARIABLES
  snapshots,  \* states in the BDR/SQLite store
  text,       \* the text of each inode: a snapshot's receipt, or Empty
  tmp,        \* the inode receipt.json.tmp names
  file,       \* the inode receipt.json names
  edges,      \* core._edges
  receipt,    \* service.receipt
  pending,    \* episodes in memory whose save has not returned
  phase,      \* "down", "up", or "refused": open() raised
  pc,         \* where each thread is in its handler
  job,        \* the row it was asked to store
  snap,       \* the payload it has dumped
  fd,         \* the inode it has open for writing
  answers,    \* every answer sent: the row and the snapshot its receipt names
  crashes, errors

disk    == <<snapshots, text, tmp, file>>
service == <<edges, receipt, pending, phase>>
thread  == <<pc, job, snap, fd>>
counts  == <<crashes, errors>>
vars    == <<disk, service, thread, answers, counts>>

Init ==
  /\ snapshots = {} /\ text = [i \in Inodes |-> Empty]
  /\ tmp = None /\ file = None
  /\ edges = <<>> /\ receipt = None /\ pending = {}
  /\ phase = "down"
  /\ pc = [t \in Threads |-> "idle"]
  /\ job = [t \in Threads |-> None]
  /\ snap = [t \in Threads |-> None]
  /\ fd = [t \in Threads |-> None]
  /\ answers = {}
  /\ crashes = 0 /\ errors = 0

-----------------------------------------------------------------------------
RowsOf(s) == {s[i] : i \in 1..Len(s)}
KeysOf(s) == {r.key : r \in RowsOf(s)}

Goto(t, label) == pc' = [pc EXCEPT ![t] = label]

\* The handler returns or raises.
Done(t) ==
  /\ Goto(t, "idle")
  /\ job' = [job EXCEPT ![t] = None]
  /\ snap' = [snap EXCEPT ![t] = None]
  /\ fd' = [fd EXCEPT ![t] = None]

IOError ==
  /\ errors < MaxErrors
  /\ errors' = errors + 1

IsEpisode(t) == pc[t] # "idle" /\ job[t].key \in Episodes

\* The episode route's RLock.
Locked == \E t \in Threads : IsEpisode(t)

Free(t) == phase = "up" /\ pc[t] = "idle"

\* Mutant: the episode's history is not looked up.
EpisodeUnseen(t, row) ==
  /\ Free(t) /\ ~Locked
  /\ row.key \in Episodes /\ row.key \notin pending
  /\ Len(edges) < MaxRows
  /\ edges' = Append(edges, row)
  /\ pending' = pending \cup {row.key}
  /\ job' = [job EXCEPT ![t] = row]
  /\ Goto(t, "dump")
  /\ UNCHANGED <<disk, receipt, phase, snap, fd, answers, counts>>

\* Mutant: the episode's row, not its key, is marked pending.
EpisodePendingRow(t, row) ==
  /\ Free(t) /\ ~Locked
  /\ row.key \in Episodes \ KeysOf(edges)
  /\ Len(edges) < MaxRows
  /\ edges' = Append(edges, row)
  /\ pending' = pending \cup {row}
  /\ job' = [job EXCEPT ![t] = row]
  /\ Goto(t, "dump")
  /\ UNCHANGED <<disk, receipt, phase, snap, fd, answers, counts>>

\* An episode nobody has seen: observe it, mark it pending, save.
EpisodeNew(t, row) ==
  /\ Free(t) /\ ~Locked
  /\ row.key \in Episodes \ KeysOf(edges)
  /\ Len(edges) < MaxRows
  /\ edges' = Append(edges, row)
  /\ pending' = pending \cup {row.key}
  /\ job' = [job EXCEPT ![t] = row]
  /\ Goto(t, "dump")
  /\ UNCHANGED <<disk, receipt, phase, snap, fd, answers, counts>>

\* A retry, and the first save has not returned: save again.  Another
\* content for the episode is refused and changes nothing.
EpisodeRetry(t, row) ==
  /\ Free(t) /\ ~Locked
  /\ row.key \in Episodes /\ row \in RowsOf(edges)
  /\ row.key \in pending \/ receipt = None
  /\ job' = [job EXCEPT ![t] = row]
  /\ Goto(t, "dump")
  /\ UNCHANGED <<disk, service, snap, fd, answers, counts>>

\* Mutant: the retry of a pending episode is answered at once.
EpisodeAnswered(t, row) ==
  /\ Free(t) /\ ~Locked
  /\ row.key \in Episodes /\ row \in RowsOf(edges)
  /\ receipt # None
  /\ answers' = answers \cup {[row |-> row, named |-> receipt]}
  /\ UNCHANGED <<disk, service, thread, counts>>

\* A retry of a stored episode is answered with the service's receipt.
EpisodeAgain(t, row) ==
  /\ Free(t) /\ ~Locked
  /\ row.key \in Episodes /\ row \in RowsOf(edges)
  /\ row.key \notin pending /\ receipt # None
  /\ answers' = answers \cup {[row |-> row, named |-> receipt]}
  /\ UNCHANGED <<disk, service, thread, counts>>

\* The relation route appends whatever the client sends and saves.
RelationNew(t, row) ==
  /\ Free(t)
  /\ row.key \in Relations
  /\ Len(edges) < MaxRows
  /\ edges' = Append(edges, row)
  /\ job' = [job EXCEPT ![t] = row]
  /\ Goto(t, "dump")
  /\ UNCHANGED <<disk, receipt, pending, phase, snap, fd, answers, counts>>

-----------------------------------------------------------------------------
(* save()                                                                  *)

\* Mutant: only the row at hand is dumped.
DumpRow(t) ==
  /\ pc[t] = "dump"
  /\ snap' = [snap EXCEPT ![t] = <<job[t]>>]
  /\ Goto(t, "lookup")
  /\ UNCHANGED <<disk, service, job, fd, answers, counts>>

Dump(t) ==
  /\ pc[t] = "dump"
  /\ snap' = [snap EXCEPT ![t] = edges]
  /\ Goto(t, "lookup")
  /\ UNCHANGED <<disk, service, job, fd, answers, counts>>

\* reconstruct(state_id): a state that is stored already is not added.
LookUp(t) ==
  /\ pc[t] = "lookup"
  /\ Goto(t, IF snap[t] \in snapshots THEN "open" ELSE "add")
  /\ UNCHANGED <<disk, service, job, snap, fd, answers, counts>>

\* Mutant: the state id is reserved, the payload is not stored.
AddNothing(t) ==
  /\ pc[t] = "add"
  /\ snap[t] \notin snapshots
  /\ Goto(t, "open")
  /\ UNCHANGED <<disk, service, job, snap, fd, answers, counts>>

AddSnapshot(t) ==
  /\ pc[t] = "add"
  /\ snap[t] \notin snapshots
  /\ snapshots' = snapshots \cup {snap[t]}
  /\ Goto(t, "open")
  /\ UNCHANGED <<text, tmp, file, service, job, snap, fd, answers, counts>>

\* Another thread has added the state meanwhile: "memory already exists".
AddExists(t) ==
  /\ pc[t] = "add"
  /\ snap[t] \in snapshots
  /\ Done(t)
  /\ UNCHANGED <<disk, service, answers, counts>>

\* A file that is created gets an inode no name and no thread refers to; which
\* one does not matter.
Unused(i) == i \notin {tmp, file} /\ \A t \in Threads : fd[t] # i
Fresh == CHOOSE i \in Inodes : Unused(i)

\* Mutant: the receipt is written in place.
OpenReceipt(t) ==
  /\ pc[t] = "open"
  /\ LET i == IF file = None THEN Fresh ELSE file IN
       /\ tmp' = i
       /\ fd' = [fd EXCEPT ![t] = i]
       /\ text' = [text EXCEPT ![i] = Empty]
  /\ Goto(t, "write")
  /\ UNCHANGED <<snapshots, file, service, job, snap, answers, counts>>

\* write_text() opens the temporary file: created, or truncated.
OpenTmp(t) ==
  /\ pc[t] = "open"
  /\ LET i == IF tmp = None THEN Fresh ELSE tmp IN
       /\ tmp' = i
       /\ fd' = [fd EXCEPT ![t] = i]
       /\ text' = [text EXCEPT ![i] = Empty]
  /\ Goto(t, "write")
  /\ UNCHANGED <<snapshots, file, service, job, snap, answers, counts>>

\* The text reaches the open file, whatever name it has by now.  All
\* receipts of a backend have the same length: the last writer's text stays.
WriteTmp(t) ==
  /\ pc[t] = "write"
  /\ text' = [text EXCEPT ![fd[t]] = snap[t]]
  /\ fd' = [fd EXCEPT ![t] = None]
  /\ Goto(t, "replace")
  /\ UNCHANGED <<snapshots, tmp, file, service, job, snap, answers, counts>>

Replace(t) ==
  /\ pc[t] = "replace"
  /\ tmp # None
  /\ file' = tmp /\ tmp' = None
  /\ Goto(t, "assign")
  /\ UNCHANGED <<snapshots, text, service, job, snap, fd, answers, counts>>

\* Another thread has moved the temporary file: FileNotFoundError.
ReplaceMissing(t) ==
  /\ pc[t] = "replace"
  /\ tmp = None
  /\ Done(t)
  /\ UNCHANGED <<disk, service, answers, counts>>

\* Mutant: the answer carries the receipt the service had before.
AssignLate(t) ==
  /\ pc[t] = "assign"
  /\ receipt' = snap[t]
  /\ pending' = pending \ {job[t].key}
  /\ answers' = answers \cup
       {[row |-> job[t], named |-> IF receipt = None THEN snap[t] ELSE receipt]}
  /\ Done(t)
  /\ UNCHANGED <<disk, edges, phase, counts>>

\* self.receipt = receipt; the handler returns it to the client.
Assign(t) ==
  /\ pc[t] = "assign"
  /\ receipt' = snap[t]
  /\ pending' = pending \ {job[t].key}
  /\ answers' = answers \cup {[row |-> job[t], named |-> snap[t]]}
  /\ Done(t)
  /\ UNCHANGED <<disk, edges, phase, counts>>

\* The store or a file operation raises, before or after it took effect.
SaveFails(t) ==
  /\ IOError
  /\ \/ /\ pc[t] \in {"lookup", "open", "replace"}
        /\ UNCHANGED disk
     \/ /\ pc[t] = "add"
        /\ snapshots' \in {snapshots, snapshots \cup {snap[t]}}
        /\ UNCHANGED <<text, tmp, file>>
     \/ /\ pc[t] = "write"
        /\ text' \in {text, [text EXCEPT ![fd[t]] = snap[t]]}
        /\ UNCHANGED <<snapshots, tmp, file>>
  /\ Done(t)
  /\ UNCHANGED <<service, answers, crashes>>

-----------------------------------------------------------------------------
(* Crash and restart.                                                      *)

Stop(kind) ==
  /\ kind \in Stops /\ phase = "up"
  /\ crashes < MaxCrashes
  /\ crashes' = crashes + 1
  /\ phase' = "down"
  /\ edges' = <<>> /\ receipt' = None /\ pending' = {}
  /\ pc' = [t \in Threads |-> "idle"]
  /\ job' = [t \in Threads |-> None]
  /\ snap' = [t \in Threads |-> None]
  /\ fd' = [t \in Threads |-> None]
  /\ UNCHANGED <<snapshots, tmp, file, answers, errors>>

Kill == Stop("kill") /\ UNCHANGED text

\* The machine dies: a text no fsync covered may be gone, its file empty.
PowerLoss ==
  /\ Stop("power")
  /\ \E lost \in SUBSET {i \in Inodes : text[i] # Empty} :
       text' = [i \in Inodes |-> IF i \in lost THEN Empty ELSE text[i]]

Readable == file # None => text[file] \in snapshots

\* open(): the receipt's snapshot is replayed into a new core.
Open ==
  /\ phase = "down" /\ Readable
  /\ edges' = IF file = None THEN <<>> ELSE text[file]
  /\ receipt' = IF file = None THEN None ELSE text[file]
  /\ phase' = "up"
  /\ UNCHANGED <<disk, pending, thread, answers, counts>>

OpenRaises ==
  /\ phase = "down" /\ ~Readable
  /\ phase' = "refused"
  /\ UNCHANGED <<disk, edges, receipt, pending, thread, answers, counts>>

\* The service is started again; nothing on disk has changed.
Retry ==
  /\ phase = "refused"
  /\ phase' = "down"
  /\ UNCHANGED <<disk, edges, receipt, pending, thread, answers, counts>>

-----------------------------------------------------------------------------
Next ==
  \/ \E t \in Threads :
       \/ \E row \in Rows :
            \/ EpisodeNew(t, row) \/ EpisodeRetry(t, row) \/ EpisodeAgain(t, row)
            \/ RelationNew(t, row)
       \/ Dump(t) \/ LookUp(t) \/ AddSnapshot(t) \/ AddExists(t)
       \/ OpenTmp(t) \/ WriteTmp(t) \/ Replace(t) \/ ReplaceMissing(t)
       \/ Assign(t) \/ SaveFails(t)
  \/ Kill \/ PowerLoss \/ Open \/ OpenRaises \/ Retry

Spec == Init /\ [][Next]_vars

-----------------------------------------------------------------------------
(* Properties.                                                             *)

Pcs == {"idle", "dump", "lookup", "add", "open", "write", "replace", "assign"}
Snapshots == Seq(Rows)

TypeOK ==
  /\ snapshots \subseteq Snapshots
  /\ text \in [Inodes -> Snapshots \cup {Empty}]
  /\ tmp \in Inodes \cup {None} /\ file \in Inodes \cup {None}
  /\ edges \in Snapshots /\ Len(edges) <= MaxRows
  /\ receipt \in Snapshots \cup {None}
  /\ pending \subseteq Episodes
  /\ phase \in {"down", "up", "refused"}
  /\ pc \in [Threads -> Pcs]
  /\ job \in [Threads -> Rows \cup {None}]
  /\ snap \in [Threads -> Snapshots \cup {None}]
  /\ fd \in [Threads -> Inodes \cup {None}]
  /\ \A a \in answers : a.row \in Rows /\ a.named \in Snapshots
  /\ crashes \in 0..MaxCrashes /\ errors \in 0..MaxErrors

\* What open() would find if the process stopped now.
Durable == IF file = None \/ ~Readable THEN <<>> ELSE text[file]

Answered == {a.row : a \in answers}

(* A row whose client has its ACK is in the snapshot that receipt.json     *)
(* names: "ACK is returned only after a durable snapshot".                 *)
AckedSurvive == Answered \subseteq RowsOf(Durable)

(* The receipt an answer carries names a snapshot that is stored and that  *)
(* holds the row the answer is about, first answers and retries alike.     *)
ReceiptCoversAck ==
  \A a \in answers : a.named \in snapshots /\ a.row \in RowsOf(a.named)

(* An episode has one row, and so one content, in memory and in every      *)
(* snapshot: a retry never adds another, over restarts and failed saves.   *)
OneRowPerEpisode ==
  \A s \in snapshots \cup {edges} : \A i, j \in 1..Len(s) :
    i # j /\ s[i].key \in Episodes => s[i].key # s[j].key

(* open() never refuses the files the service has written.                 *)
ReopensCanonical == phase # "refused"

(* Refinement: rows only join what a restart finds, and an answer names a  *)
(* row that is there already.                                              *)
KeyOf(row) == row.key
Abstract == INSTANCE EvidenceLedger WITH
  Key <- KeyOf, Unique <- Episodes, durable <- Durable, answered <- Answered
ImplementsLedger == Abstract!Spec
=============================================================================
