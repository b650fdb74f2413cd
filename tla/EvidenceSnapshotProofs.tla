------------------------ MODULE EvidenceSnapshotProofs ------------------------
(***************************************************************************)
(* Proofs about EvidenceSnapshot for all threads, contents and bounds.     *)
(*                                                                         *)
(* That an episode has one row needs no lock around save(): it rests on    *)
(* the lookup of the episode route, and rows enter a snapshot only by way  *)
(* of memory.  That an answered row survives rests on the lock: while one  *)
(* handler at a time runs, the receipt file, the service's receipt and the *)
(* rows in memory are prefixes of one another.                             *)
(***************************************************************************)
EXTENDS EvidenceSnapshot, SequenceTheorems, TLAPS

\* The actions one by one.
LEMMA NextActions ==
  ASSUME Next
  PROVE  \/ \E t \in Threads, row \in Rows :
              \/ EpisodeNew(t, row) \/ EpisodeRetry(t, row) \/ EpisodeAgain(t, row)
              \/ RelationNew(t, row)
         \/ \E t \in Threads :
              \/ Dump(t) \/ LookUp(t) \/ AddSnapshot(t) \/ AddExists(t)
              \/ OpenTmp(t) \/ WriteTmp(t) \/ Replace(t) \/ ReplaceMissing(t)
              \/ Assign(t) \/ SaveFails(t)
         \/ Kill \/ PowerLoss \/ Open \/ OpenRaises \/ Retry
BY DEF Next

-----------------------------------------------------------------------------
(* One row for every episode.                                              *)

KeysOnce(s) ==
  \A i, j \in 1..Len(s) : i # j /\ s[i].key \in Episodes => s[i].key # s[j].key

\* Rows that may be stored: typed, with one row for every episode.
Sound(s) == s \in Seq(Rows) /\ KeysOnce(s)

\* What is stored, what is in memory and what a save holds is sound.
RowsInv ==
  /\ \A s \in snapshots : Sound(s)
  /\ Sound(edges)
  /\ snap \in [Threads -> Seq(Rows) \cup {None}]
  /\ \A t \in Threads : snap[t] # None => Sound(snap[t])
  /\ pc \in [Threads -> Pcs]
  /\ \A t \in Threads : pc[t] \notin {"idle", "dump"} => snap[t] # None

LEMMA EmptyIsSound == Sound(<<>>)
BY DEF Sound, KeysOnce

\* A row joins sound rows when its key is new, or names no episode.
LEMMA JoinIsSound ==
  ASSUME EvidenceParameters, NEW s, Sound(s), NEW row \in Rows,
         row.key \in Relations \/ row.key \notin KeysOf(s)
  PROVE  Sound(Append(s, row))
<1> DEFINE new == Append(s, row)
<1>1. s \in Seq(Rows) /\ Len(s) \in Nat
  BY DEF Sound
<1>2. /\ new \in Seq(Rows) /\ Len(new) = Len(s) + 1 /\ new[Len(s) + 1] = row
      /\ \A i \in 1..Len(s) : new[i] = s[i]
  BY <1>1
<1>3. \A i \in 1..Len(s) : s[i].key \in Episodes => s[i].key # row.key
  BY DEF EvidenceParameters, KeysOf, RowsOf
<1>4. \A i \in 1..Len(new) : i \in 1..Len(s) \/ i = Len(s) + 1
  BY <1>1, <1>2
<1>5. ASSUME NEW i \in 1..Len(new), NEW j \in 1..Len(new), i # j, new[i].key \in Episodes
      PROVE  new[i].key # new[j].key
  <2>1. CASE i \in 1..Len(s) /\ j \in 1..Len(s)
    BY <1>2, <1>5, <2>1 DEF Sound, KeysOnce
  <2>2. CASE i \in 1..Len(s) /\ j = Len(s) + 1
    BY <1>2, <1>3, <1>5, <2>2
  <2>3. CASE i = Len(s) + 1 /\ j \in 1..Len(s)
    BY <1>2, <1>3, <1>5, <2>3
  <2> QED
    BY <1>4, <1>5, <2>1, <2>2, <2>3
<1> QED
  BY <1>2, <1>5 DEF Sound, KeysOnce

LEMMA StepRows == ASSUME EvidenceParameters, RowsInv, [Next]_vars PROVE RowsInv'
<1> USE DEF RowsInv
<1>0. ASSUME snapshots' = snapshots, Sound(edges'), pc' \in [Threads -> Pcs],
             snap' \in [Threads -> Seq(Rows) \cup {None}],
             \A t \in Threads : snap'[t] # None => Sound(snap'[t]),
             \A t \in Threads : pc'[t] \notin {"idle", "dump"} => snap'[t] # None
      PROVE  RowsInv'
  BY <1>0 DEF Sound, KeysOnce
<1>1. ASSUME NEW t \in Threads, NEW row \in Rows, EpisodeNew(t, row) PROVE RowsInv'
  <2>1. Sound(edges')
    BY <1>1, JoinIsSound DEF EpisodeNew
  <2>2. pc' = [pc EXCEPT ![t] = "dump"] /\ UNCHANGED <<snapshots, snap>>
    BY <1>1 DEF EpisodeNew, Goto, disk
  <2> QED
    BY <1>0, <2>1, <2>2 DEF Pcs
<1>2. ASSUME NEW t \in Threads, NEW row \in Rows, RelationNew(t, row) PROVE RowsInv'
  <2>1. Sound(edges')
    BY <1>2, JoinIsSound DEF RelationNew
  <2>2. pc' = [pc EXCEPT ![t] = "dump"] /\ UNCHANGED <<snapshots, snap>>
    BY <1>2 DEF RelationNew, Goto, disk
  <2> QED
    BY <1>0, <2>1, <2>2 DEF Pcs
<1>3. ASSUME NEW t \in Threads, NEW row \in Rows, EpisodeRetry(t, row) PROVE RowsInv'
  <2>1. pc' = [pc EXCEPT ![t] = "dump"] /\ UNCHANGED <<snapshots, snap, edges>>
    BY <1>3 DEF EpisodeRetry, Goto, disk, service
  <2> QED
    BY <1>0, <2>1 DEF Pcs
<1>4. ASSUME NEW t \in Threads, NEW row \in Rows, EpisodeAgain(t, row) PROVE RowsInv'
  BY <1>0, <1>4 DEF EpisodeAgain, disk, service, thread
<1>5. ASSUME NEW t \in Threads, Dump(t) PROVE RowsInv'
  <2>1. /\ pc' = [pc EXCEPT ![t] = "lookup"] /\ snap' = [snap EXCEPT ![t] = edges]
        /\ UNCHANGED <<snapshots, edges>>
    BY <1>5 DEF Dump, Goto, disk, service
  <2>2. edges \in Seq(Rows) /\ edges # None
    BY DEF Sound, EvidenceParameters
  <2> QED
    BY <1>0, <2>1, <2>2 DEF Pcs
<1>6. ASSUME NEW t \in Threads, LookUp(t) \/ OpenTmp(t) \/ WriteTmp(t) \/ Replace(t)
      PROVE  RowsInv'
  <2>1. /\ UNCHANGED <<snapshots, snap, edges>> /\ pc[t] \notin {"idle", "dump"}
        /\ \E label \in Pcs : pc' = [pc EXCEPT ![t] = label]
    BY <1>6 DEF LookUp, OpenTmp, WriteTmp, Replace, Goto, disk, service, Pcs
  <2> QED
    BY <1>0, <2>1
<1>7. ASSUME NEW t \in Threads, AddSnapshot(t) PROVE RowsInv'
  <2>1. /\ pc[t] = "add" /\ snapshots' = snapshots \cup {snap[t]}
        /\ pc' = [pc EXCEPT ![t] = "open"] /\ UNCHANGED <<snap, edges>>
    BY <1>7 DEF AddSnapshot, Goto, service
  <2>2. (\A s \in snapshots' : Sound(s)) /\ edges' = edges
    BY <2>1
  <2>3. /\ pc' \in [Threads -> Pcs]
        /\ \A x \in Threads : pc'[x] \notin {"idle", "dump"} => snap[x] # None
    BY <2>1 DEF Pcs
  <2>4. snap' = snap /\ (\A s \in snapshots' : Sound(s)') /\ Sound(edges)'
    BY <2>1, <2>2 DEF Sound, KeysOnce
  <2> QED
    BY <2>3, <2>4
<1>8. ASSUME NEW t \in Threads, AddExists(t) \/ ReplaceMissing(t) \/ Assign(t)
      PROVE  RowsInv'
  <2>1. /\ UNCHANGED <<snapshots, edges>>
        /\ pc' = [pc EXCEPT ![t] = "idle"] /\ snap' = [snap EXCEPT ![t] = None]
    BY <1>8 DEF AddExists, ReplaceMissing, Assign, Done, Goto, disk, service
  <2> QED
    BY <1>0, <2>1 DEF Pcs
<1>9. ASSUME NEW t \in Threads, SaveFails(t) PROVE RowsInv'
  <2>1. /\ edges' = edges
        /\ pc' = [pc EXCEPT ![t] = "idle"] /\ snap' = [snap EXCEPT ![t] = None]
        /\ snapshots' = snapshots \/ (pc[t] = "add" /\ snapshots' = snapshots \cup {snap[t]})
    BY <1>9 DEF SaveFails, Done, Goto, disk, service
  <2>2. \A s \in snapshots' : Sound(s)
    BY <2>1
  <2> QED
    BY <2>1, <2>2 DEF Pcs, Sound, KeysOnce
<1>10. CASE Kill \/ PowerLoss
  <2>1. /\ snapshots' = snapshots /\ edges' = <<>>
        /\ pc' = [t \in Threads |-> "idle"] /\ snap' = [t \in Threads |-> None]
    BY <1>10 DEF Kill, PowerLoss, Stop
  <2> QED
    BY <1>0, <2>1, EmptyIsSound DEF Pcs
<1>11. CASE Open
  <2>1. UNCHANGED <<snapshots, pc, snap>> /\ (edges' = <<>> \/ edges' \in snapshots)
    BY <1>11 DEF Open, Readable, disk, thread
  <2> QED
    BY <1>0, <2>1, EmptyIsSound
<1>12. CASE OpenRaises \/ Retry
  BY <1>0, <1>12 DEF OpenRaises, Retry, disk, thread
<1>13. CASE UNCHANGED vars
  BY <1>0, <1>13 DEF vars, disk, service, thread
<1> QED
  BY <1>1, <1>2, <1>3, <1>4, <1>5, <1>6, <1>7, <1>8, <1>9, <1>10, <1>11, <1>12, <1>13,
     NextActions

LEMMA InitRows == EvidenceParameters /\ Init => RowsInv
BY EmptyIsSound DEF Init, RowsInv, Pcs, EvidenceParameters

LEMMA RowsOnce == RowsInv => OneRowPerEpisode
BY DEF RowsInv, OneRowPerEpisode, Sound, KeysOnce

(* An episode has one row, and so one content, in memory and in every      *)
(* snapshot: over retries, restarts, failed saves and power losses, and    *)
(* however the unlocked relation route overlaps the saves of episodes.     *)
THEOREM EpisodesStayOnce == ASSUME EvidenceParameters PROVE Spec => []OneRowPerEpisode
<1>1. Init => RowsInv
  BY InitRows
<1>2. RowsInv /\ [Next]_vars => RowsInv'
  BY StepRows
<1> QED
  BY <1>1, <1>2, RowsOnce, PTL DEF Spec

-----------------------------------------------------------------------------
(* The episode route alone: one lock around the whole handler.              *)

\* Only the episode route is used, files outlive the process, and there is
\* room for a receipt and for the temporary file beside it.
LockedRoute ==
  /\ Relations = {}
  /\ Stops \subseteq {"kill"}
  /\ \E i, j \in Inodes : i # j

Prefixed(longer, shorter) ==
  /\ Len(shorter) <= Len(longer)
  /\ \A i \in 1..Len(shorter) : longer[i] = shorter[i]

Saving == {"lookup", "add", "open", "write", "replace", "assign"}

\* One handler at a time, about a row that is in memory; what it saves is the
\* memory as it still is.
HandlerInv ==
  /\ job \in [Threads -> Rows \cup {None}]
  /\ \A t, u \in Threads : pc[t] # "idle" /\ pc[u] # "idle" => t = u
  /\ \A t \in Threads : pc[t] # "idle" => phase = "up" /\ job[t] \in RowsOf(edges)
  /\ \A t \in Threads : pc[t] \in Saving => snap[t] = edges
  /\ \A t \in Threads : pc[t] \in {"open", "write", "replace", "assign"} => snap[t] \in snapshots

\* The temporary file is not the receipt; it holds the receipt to be once it is
\* written, and the receipt on disk names a stored snapshot.
FilesInv ==
  /\ text \in [Inodes -> Seq(Rows) \cup {Empty}]
  /\ fd \in [Threads -> Inodes \cup {None}]
  /\ tmp \in Inodes \cup {None} /\ file \in Inodes \cup {None}
  /\ tmp # None => tmp # file
  /\ Readable
  /\ \A t \in Threads :
       /\ IF pc[t] = "write" THEN tmp # None /\ fd[t] = tmp ELSE fd[t] = None
       /\ pc[t] = "replace" => tmp # None /\ text[tmp] = snap[t]
       /\ pc[t] = "assign" => file # None /\ text[file] = snap[t]

\* The receipt in memory is behind the one on disk, which is behind the rows
\* in memory; a row that is not pending is in the former.
BehindInv ==
  /\ phase = "up" =>
       /\ Prefixed(edges, Durable)
       /\ receipt # None =>
            /\ receipt \in snapshots /\ Prefixed(Durable, receipt)
            /\ \A row \in RowsOf(edges) : row.key \notin pending => row \in RowsOf(receipt)
  /\ phase = "down" => pending = {}
  /\ phase # "refused"

AnswersInv ==
  \A a \in answers :
    a.named \in snapshots /\ a.row \in RowsOf(a.named) /\ a.row \in RowsOf(Durable)

LockedInv == RowsInv /\ HandlerInv /\ FilesInv /\ BehindInv /\ AnswersInv

LEMMA PrefixedRows ==
  ASSUME NEW s \in Seq(Rows), NEW l \in Seq(Rows), Prefixed(l, s)
  PROVE  RowsOf(s) \subseteq RowsOf(l)
BY DEF Prefixed, RowsOf

LEMMA PrefixedSelf == ASSUME NEW s \in Seq(Rows) PROVE Prefixed(s, s) /\ Prefixed(s, <<>>)
BY DEF Prefixed

LEMMA PrefixedChain ==
  ASSUME NEW a \in Seq(Rows), NEW b \in Seq(Rows), NEW c \in Seq(Rows),
         Prefixed(a, b), Prefixed(b, c)
  PROVE  Prefixed(a, c)
BY DEF Prefixed

LEMMA PrefixedLonger ==
  ASSUME NEW s \in Seq(Rows), NEW p \in Seq(Rows), NEW row \in Rows, Prefixed(s, p)
  PROVE  /\ Prefixed(Append(s, row), p)
         /\ RowsOf(Append(s, row)) = RowsOf(s) \cup {row}
<1> DEFINE l == Append(s, row)
<1>1. /\ Len(l) = Len(s) + 1 /\ l[Len(s) + 1] = row /\ \A i \in 1..Len(s) : l[i] = s[i]
      /\ \A i \in 1..Len(l) : i \in 1..Len(s) \/ i = Len(s) + 1
      /\ Len(s) + 1 \in 1..Len(l) /\ \A i \in 1..Len(s) : i \in 1..Len(l)
  OBVIOUS
<1>2. Prefixed(l, p)
  BY <1>1 DEF Prefixed
<1> HIDE DEF l
<1>3. RowsOf(l) = RowsOf(s) \cup {row}
  BY <1>1 DEF RowsOf
<1> QED
  BY <1>2, <1>3 DEF l

\* What the invariant says of types and of a handler that is about to start.
LEMMA LockedFacts ==
  ASSUME EvidenceParameters, LockedRoute, LockedInv
  PROVE  /\ edges \in Seq(Rows) /\ Durable \in Seq(Rows)
         /\ Durable = IF file = None THEN <<>> ELSE text[file]
         /\ \A s \in snapshots : s \in Seq(Rows)
         /\ ~Locked => \A t \in Threads : pc[t] = "idle"
         /\ None \notin Inodes /\ None \notin Seq(Rows)
         /\ \A row \in Rows : row.key \in Episodes
         /\ pc \in [Threads -> Pcs] /\ job \in [Threads -> Rows \cup {None}]
         /\ snap \in [Threads -> Seq(Rows) \cup {None}] /\ fd \in [Threads -> Inodes \cup {None}]
<1>1. /\ edges \in Seq(Rows) /\ \A s \in snapshots : s \in Seq(Rows)
  BY DEF LockedInv, RowsInv, Sound
<1>2. Durable = IF file = None THEN <<>> ELSE text[file]
  BY DEF Durable, LockedInv, FilesInv
<1>3. Durable \in Seq(Rows)
  BY <1>1, <1>2 DEF LockedInv, FilesInv, Readable
<1>4. \A row \in Rows : row.key \in Episodes
  BY DEF Rows, LockedRoute
<1>5. ASSUME ~Locked, NEW t \in Threads PROVE pc[t] = "idle"
  <2> SUFFICES ASSUME pc[t] # "idle" PROVE FALSE
    OBVIOUS
  <2>1. job[t] \in Rows
    BY <1>1 DEF LockedInv, HandlerInv, RowsOf
  <2> QED
    BY <1>4, <1>5, <2>1 DEF Locked, IsEpisode
<1> QED
  BY <1>1, <1>2, <1>3, <1>4, <1>5
     DEF EvidenceParameters, LockedInv, RowsInv, HandlerInv, FilesInv

\* A step that leaves the files, the rows, the receipt and the answers alone.
LEMMA StepFiles ==
  ASSUME EvidenceParameters, LockedRoute, LockedInv, RowsInv',
         UNCHANGED <<snapshots, text, tmp, file>>
  PROVE  Durable' = Durable /\ Readable'
BY DEF LockedInv, FilesInv, Durable, Readable

LEMMA EpisodeStep ==
  ASSUME EvidenceParameters, LockedRoute, LockedInv, RowsInv',
         NEW t \in Threads, NEW row \in Rows,
         EpisodeNew(t, row) \/ EpisodeRetry(t, row) \/ EpisodeAgain(t, row) \/ RelationNew(t, row)
  PROVE  LockedInv'
<1>0. /\ edges \in Seq(Rows) /\ Durable \in Seq(Rows)
      /\ \A s \in snapshots : s \in Seq(Rows)
      /\ phase = "up" /\ (receipt # None => receipt \in Seq(Rows))
      /\ Durable' = Durable /\ Readable'
      /\ pc \in [Threads -> Pcs] /\ job \in [Threads -> Rows \cup {None}]
  <2>1. UNCHANGED <<snapshots, text, tmp, file>> /\ phase = "up"
    BY DEF EpisodeNew, EpisodeRetry, EpisodeAgain, RelationNew, Free, disk
  <2> QED
    BY <2>1, LockedFacts, StepFiles DEF LockedInv, BehindInv
<1>1. CASE EpisodeNew(t, row)
  <2>1. /\ \A u \in Threads : pc[u] = "idle"
        /\ edges' = Append(edges, row) /\ pending' = pending \cup {row.key}
        /\ pc' = [pc EXCEPT ![t] = "dump"] /\ job' = [job EXCEPT ![t] = row]
        /\ UNCHANGED <<snapshots, text, tmp, file, receipt, phase, snap, fd, answers>>
    BY <1>1, LockedFacts DEF EpisodeNew, Goto, disk
  <2>2. /\ Prefixed(edges', Durable)
        /\ RowsOf(edges') = RowsOf(edges) \cup {row}
    BY <1>0, <2>1, PrefixedLonger DEF LockedInv, BehindInv
  <2>3. HandlerInv'
    <3>1. job' \in [Threads -> Rows \cup {None}] /\ row \in RowsOf(edges')
      BY <1>0, <2>1, <2>2
    <3>2. \A u \in Threads : pc'[u] # "idle" => u = t /\ pc'[u] = "dump" /\ job'[u] = row
      BY <1>0, <2>1
    <3> QED
      BY <1>0, <2>1, <3>1, <3>2 DEF HandlerInv, Saving
  <2>4. FilesInv'
    BY <1>0, <2>1 DEF LockedInv, FilesInv, RowsInv
  <2>5. BehindInv'
    BY <1>0, <2>1, <2>2 DEF LockedInv, BehindInv
  <2>6. AnswersInv'
    BY <1>0, <2>1 DEF LockedInv, AnswersInv
  <2> QED
    BY <2>3, <2>4, <2>5, <2>6 DEF LockedInv
<1>2. CASE EpisodeRetry(t, row)
  <2>1. /\ \A u \in Threads : pc[u] = "idle"
        /\ row \in RowsOf(edges)
        /\ pc' = [pc EXCEPT ![t] = "dump"] /\ job' = [job EXCEPT ![t] = row]
        /\ UNCHANGED <<snapshots, text, tmp, file, edges, receipt, pending, phase, snap, fd, answers>>
    BY <1>2, LockedFacts DEF EpisodeRetry, Goto, disk, service
  <2>3. HandlerInv'
    <3>1. job' \in [Threads -> Rows \cup {None}]
      BY <1>0, <2>1
    <3>2. \A u \in Threads : pc'[u] # "idle" => u = t /\ pc'[u] = "dump" /\ job'[u] = row
      BY <1>0, <2>1
    <3> QED
      BY <1>0, <2>1, <3>1, <3>2 DEF HandlerInv, Saving
  <2>4. FilesInv'
    BY <1>0, <2>1 DEF LockedInv, FilesInv, RowsInv
  <2>5. BehindInv' /\ AnswersInv'
    BY <1>0, <2>1 DEF LockedInv, BehindInv, AnswersInv
  <2> QED
    BY <2>3, <2>4, <2>5 DEF LockedInv
<1>3. CASE EpisodeAgain(t, row)
  <2>1. /\ row \in RowsOf(edges) /\ row.key \notin pending /\ receipt # None
        /\ answers' = answers \cup {[row |-> row, named |-> receipt]}
        /\ UNCHANGED <<disk, service, thread>>
    BY <1>3 DEF EpisodeAgain
  <2>2. receipt \in snapshots /\ row \in RowsOf(receipt) /\ row \in RowsOf(Durable)
    BY <1>0, <2>1, PrefixedRows DEF LockedInv, BehindInv
  <2>3. HandlerInv' /\ FilesInv' /\ BehindInv'
    BY <1>0, <2>1 DEF LockedInv, HandlerInv, FilesInv, BehindInv, disk, service, thread
  <2>4. AnswersInv'
    BY <1>0, <2>1, <2>2 DEF LockedInv, AnswersInv, disk
  <2> QED
    BY <2>3, <2>4 DEF LockedInv
<1>4. ~RelationNew(t, row)
  BY DEF RelationNew, LockedRoute
<1> QED
  BY <1>1, <1>2, <1>3, <1>4

\* The handler that runs goes on with its save, or returns.
LEMMA HandlerMoves ==
  ASSUME EvidenceParameters, LockedRoute, LockedInv, NEW t \in Threads, pc[t] # "idle",
         NEW label, pc' = [pc EXCEPT ![t] = label], UNCHANGED <<job, edges, phase>>,
         label \in Saving => snap'[t] = edges,
         label \in {"open", "write", "replace", "assign"} => snap'[t] \in snapshots'
  PROVE  HandlerInv' /\ \A u \in Threads : u # t => pc[u] = "idle" /\ pc'[u] = "idle"
<1>1. pc \in [Threads -> Pcs] /\ \A u \in Threads : u # t => pc[u] = "idle"
  BY LockedFacts DEF LockedInv, HandlerInv
<1>2. pc'[t] = label /\ \A u \in Threads : u # t => pc'[u] = "idle"
  BY <1>1
<1> QED
  BY <1>1, <1>2 DEF LockedInv, HandlerInv, Saving

LEMMA HandlerEnds ==
  ASSUME EvidenceParameters, LockedRoute, LockedInv, NEW t \in Threads, pc[t] # "idle",
         Done(t), edges' = edges
  PROVE  HandlerInv' /\ \A u \in Threads : pc'[u] = "idle"
<1>1. /\ pc \in [Threads -> Pcs] /\ \A u \in Threads : u # t => pc[u] = "idle"
      /\ job \in [Threads -> Rows \cup {None}]
  BY LockedFacts DEF LockedInv, HandlerInv
<1>2. job' \in [Threads -> Rows \cup {None}] /\ \A u \in Threads : pc'[u] = "idle"
  BY <1>1 DEF Done, Goto
<1> QED
  BY <1>2 DEF HandlerInv, Saving

\* What the answers and the receipts say stays so while the files and the rows do.
LEMMA QuietAnswers ==
  ASSUME LockedInv, Durable' = Durable, snapshots \subseteq snapshots',
         UNCHANGED <<edges, receipt, pending, phase, answers>>
  PROVE  BehindInv' /\ AnswersInv'
BY DEF LockedInv, BehindInv, AnswersInv

LEMMA SaveStep ==
  ASSUME EvidenceParameters, LockedRoute, LockedInv, RowsInv', NEW t \in Threads,
         Dump(t) \/ LookUp(t) \/ AddSnapshot(t) \/ OpenTmp(t) \/ WriteTmp(t) \/ Replace(t)
  PROVE  LockedInv'
<1>0. /\ edges \in Seq(Rows) /\ Durable \in Seq(Rows)
      /\ Durable = IF file = None THEN <<>> ELSE text[file]
      /\ None \notin Inodes /\ None \notin Seq(Rows)
      /\ pc \in [Threads -> Pcs] /\ snap \in [Threads -> Seq(Rows) \cup {None}]
      /\ fd \in [Threads -> Inodes \cup {None}] /\ text \in [Inodes -> Seq(Rows) \cup {Empty}]
      /\ tmp \in Inodes \cup {None} /\ file \in Inodes \cup {None}
      /\ file # None => text[file] \in snapshots
      /\ pc[t] # "idle" /\ phase = "up"
      /\ pc[t] \in Saving => snap[t] = edges
      /\ tmp # None => tmp # file
  BY LockedFacts
     DEF LockedInv, FilesInv, HandlerInv, Readable, Dump, LookUp, AddSnapshot, OpenTmp,
     WriteTmp,
         Replace
<1>a. /\ \A u \in Threads : u # t => fd[u] = None
      /\ IF pc[t] = "write" THEN fd[t] = tmp /\ tmp # None ELSE fd[t] = None
      /\ pc[t] = "replace" => tmp # None /\ text[tmp] = snap[t]
  BY <1>0 DEF LockedInv, FilesInv, HandlerInv
<1>1. CASE Dump(t) \/ LookUp(t)
  <2>1. /\ UNCHANGED <<snapshots, text, tmp, file, edges, receipt, pending, phase, job, fd, answers>>
        /\ \E label \in {"lookup", "open", "add"} :
             /\ pc' = [pc EXCEPT ![t] = label] /\ snap'[t] = edges
             /\ label = "open" => edges \in snapshots
    BY <1>0, <1>1 DEF Dump, LookUp, Goto, disk, service, Saving
  <2>2. HandlerInv' /\ \A u \in Threads : pc'[u] \in {"idle", "lookup", "open", "add"}
    <3>1. PICK label \in {"lookup", "open", "add"} :
             /\ pc' = [pc EXCEPT ![t] = label] /\ snap'[t] = edges
             /\ label = "open" => edges \in snapshots
      BY <2>1
    <3>2. pc'[t] = label
      BY <1>0, <3>1
    <3> QED
      BY <1>0, <2>1, <3>1, <3>2, HandlerMoves
  <2>3. Durable' = Durable /\ Readable'
    BY <2>1, StepFiles
  <2>4. FilesInv'
    <3>1. pc[t] \notin {"write", "replace", "assign"}
      BY <1>1 DEF Dump, LookUp
    <3> QED
      BY <1>0, <2>1, <2>2, <2>3, <3>1 DEF LockedInv, FilesInv
  <2> QED
    BY <2>1, <2>2, <2>3, <2>4, QuietAnswers DEF LockedInv
<1>2. CASE AddSnapshot(t)
  <2>1. /\ UNCHANGED <<text, tmp, file, edges, receipt, pending, phase, job, snap, fd, answers>>
        /\ snapshots' = snapshots \cup {snap[t]} /\ pc' = [pc EXCEPT ![t] = "open"]
        /\ snap[t] = edges
    BY <1>0, <1>2 DEF AddSnapshot, Goto, service, Saving
  <2>2. HandlerInv' /\ \A u \in Threads : pc'[u] \in {"idle", "open"}
    BY <1>0, <2>1, HandlerMoves
  <2>3. Durable' = Durable /\ Readable'
    BY <1>0, <2>1 DEF Durable, Readable
  <2>4. FilesInv'
    <3>1. pc[t] = "add"
      BY <1>2 DEF AddSnapshot
    <3>2. fd' = fd /\ \A u \in Threads : fd[u] = None /\ pc'[u] \in {"idle", "open"}
      BY <1>a, <2>1, <2>2, <3>1
    <3> QED
      BY <1>0, <2>1, <2>3, <3>2 DEF FilesInv
  <2> QED
    BY <2>1, <2>2, <2>3, <2>4, QuietAnswers DEF LockedInv
<1>3. CASE OpenTmp(t)
  <2> DEFINE i == IF tmp = None THEN Fresh ELSE tmp
  <2>1. /\ UNCHANGED <<snapshots, file, edges, receipt, pending, phase, job, snap, answers>>
        /\ pc' = [pc EXCEPT ![t] = "write"] /\ snap[t] = edges /\ snap[t] \in snapshots
        /\ tmp' = i /\ fd' = [fd EXCEPT ![t] = i] /\ text' = [text EXCEPT ![i] = Empty]
    BY <1>0, <1>3 DEF OpenTmp, Goto, service, Saving, LockedInv, HandlerInv
  <2>2. HandlerInv' /\ \A u \in Threads : IF u = t THEN pc'[u] = "write" ELSE pc'[u] = "idle"
    BY <1>0, <2>1, HandlerMoves
  <2>3. i \in Inodes /\ i # file
    <3>1. CASE tmp # None
      BY <1>0, <3>1 DEF LockedInv, FilesInv
    <3>2. CASE tmp = None
      <4>1. PICK j : j \in Inodes \ {file}
        BY DEF LockedRoute
      <4> HIDE DEF i
      <4>2. \E x \in Inodes : Unused(x)
        <5>1. \A u \in Threads : u # t => pc[u] = "idle"
          BY <1>0 DEF LockedInv, HandlerInv
        <5> QED
          BY <1>0, <1>3, <3>2, <4>1, <5>1 DEF Unused, OpenTmp, LockedInv, FilesInv
      <4> QED
        BY <3>2, <4>2 DEF i, Fresh, Unused
    <3> QED
      BY <3>1, <3>2
  <2> HIDE DEF i
  <2>4. Durable' = Durable /\ Readable'
    BY <1>0, <2>1, <2>3 DEF Durable, Readable
  <2>5. FilesInv'
    <3>1. \A u \in Threads : IF pc'[u] = "write" THEN fd'[u] = i ELSE fd'[u] = None
      BY <1>0, <1>a, <2>1, <2>2, <1>3 DEF OpenTmp
    <3>2. \A u \in Threads : pc'[u] \in {"idle", "write"}
      BY <2>2
    <3> QED
      BY <1>0, <2>1, <2>3, <2>4, <3>1, <3>2 DEF FilesInv
  <2> QED
    BY <2>1, <2>2, <2>4, <2>5, QuietAnswers DEF LockedInv
<1>4. CASE WriteTmp(t)
  <2>1. /\ UNCHANGED <<snapshots, tmp, file, edges, receipt, pending, phase, job, snap, answers>>
        /\ pc' = [pc EXCEPT ![t] = "replace"] /\ snap[t] = edges /\ snap[t] \in snapshots
        /\ tmp # None /\ fd[t] = tmp /\ tmp # file
        /\ fd' = [fd EXCEPT ![t] = None] /\ text' = [text EXCEPT ![tmp] = edges]
    BY <1>0, <1>4 DEF WriteTmp, Goto, service, Saving, LockedInv, HandlerInv, FilesInv
  <2>2. HandlerInv' /\ \A u \in Threads : IF u = t THEN pc'[u] = "replace" ELSE pc'[u] = "idle"
    BY <1>0, <2>1, HandlerMoves
  <2>4. Durable' = Durable /\ Readable'
    BY <1>0, <2>1 DEF Durable, Readable
  <2>5. FilesInv'
    <3>1. \A u \in Threads : fd'[u] = None
      BY <1>0, <1>a, <2>1
    <3>2. text'[tmp] = edges /\ text' \in [Inodes -> Seq(Rows) \cup {Empty}]
      BY <1>0, <2>1
    <3> QED
      BY <1>0, <2>1, <2>2, <2>4, <3>1, <3>2 DEF FilesInv
  <2> QED
    BY <2>1, <2>2, <2>4, <2>5, QuietAnswers DEF LockedInv
<1>5. CASE Replace(t)
  <2>1. /\ UNCHANGED <<snapshots, text, edges, receipt, pending, phase, job, snap, fd, answers>>
        /\ pc' = [pc EXCEPT ![t] = "assign"] /\ snap[t] = edges /\ snap[t] \in snapshots
        /\ tmp # None /\ text[tmp] = edges /\ file' = tmp /\ tmp' = None
    BY <1>0, <1>5 DEF Replace, Goto, service, Saving, LockedInv, HandlerInv, FilesInv
  <2>2. HandlerInv' /\ \A u \in Threads : IF u = t THEN pc'[u] = "assign" ELSE pc'[u] = "idle"
    BY <1>0, <2>1, HandlerMoves
  <2>3. Durable' = edges /\ Readable'
    BY <1>0, <2>1 DEF Durable, Readable
  <2>4. FilesInv'
    <3>1. fd' = fd /\ \A u \in Threads : fd[u] = None
      BY <1>5, <1>a, <2>1 DEF Replace
    <3> QED
      BY <1>0, <2>1, <2>2, <2>3, <3>1 DEF FilesInv
  <2>5. Prefixed(edges, Durable) /\ Prefixed(edges, edges) /\ RowsOf(Durable) \subseteq RowsOf(edges)
    BY <1>0, PrefixedSelf, PrefixedRows DEF LockedInv, BehindInv
  <2>6. receipt # None => receipt \in Seq(Rows) /\ Prefixed(edges, receipt)
    BY <1>0, <2>5, LockedFacts, PrefixedChain DEF LockedInv, BehindInv
  <2>7. BehindInv' /\ AnswersInv'
    BY <1>0, <2>1, <2>3, <2>5, <2>6 DEF LockedInv, BehindInv, AnswersInv
  <2> QED
    BY <2>2, <2>4, <2>7 DEF LockedInv
<1> QED
  BY <1>1, <1>2, <1>3, <1>4, <1>5

\* The handler returns or raises.
LEMMA EndStep ==
  ASSUME EvidenceParameters, LockedRoute, LockedInv, RowsInv', NEW t \in Threads,
         AddExists(t) \/ ReplaceMissing(t) \/ Assign(t) \/ SaveFails(t)
  PROVE  LockedInv'
<1>0. /\ edges \in Seq(Rows) /\ Durable \in Seq(Rows)
      /\ Durable = IF file = None THEN <<>> ELSE text[file]
      /\ pc \in [Threads -> Pcs] /\ job \in [Threads -> Rows \cup {None}]
      /\ fd \in [Threads -> Inodes \cup {None}] /\ text \in [Inodes -> Seq(Rows) \cup {Empty}]
      /\ tmp \in Inodes \cup {None} /\ file \in Inodes \cup {None}
      /\ tmp # None => tmp # file
      /\ file # None => text[file] \in snapshots
      /\ pc[t] # "idle" /\ phase = "up" /\ Done(t) /\ edges' = edges /\ None \notin Inodes
      /\ UNCHANGED <<tmp, file, edges, phase>>
  BY LockedFacts
     DEF LockedInv, FilesInv, HandlerInv, Readable, AddExists, ReplaceMissing, Assign,
     SaveFails,
         disk, service
<1>a. /\ \A u \in Threads : u # t => fd[u] = None
      /\ pc[t] = "write" => fd[t] = tmp /\ tmp # None
  BY <1>0 DEF LockedInv, FilesInv, HandlerInv
<1>1. HandlerInv' /\ \A u \in Threads : pc'[u] = "idle"
  BY <1>0, HandlerEnds
<1>2. fd' \in [Threads -> Inodes \cup {None}] /\ \A u \in Threads : fd'[u] = None
  BY <1>0, <1>a DEF Done
<1>3. /\ text' \in [Inodes -> Seq(Rows) \cup {Empty}]
      /\ file # None => text'[file] = text[file]
      /\ snapshots \subseteq snapshots'
  <2>1. CASE AddExists(t) \/ ReplaceMissing(t) \/ Assign(t)
    BY <1>0, <2>1 DEF AddExists, ReplaceMissing, Assign, disk
  <2>2. CASE SaveFails(t)
    <3>1. CASE text' = text
      BY <1>0, <2>2, <3>1 DEF SaveFails, disk
    <3>2. CASE text' # text
      <4>1. /\ pc[t] = "write" /\ snapshots' = snapshots
            /\ text' = [text EXCEPT ![fd[t]] = snap[t]]
        BY <2>2, <3>2 DEF SaveFails, disk
      <4>2. snap[t] \in Seq(Rows)
        BY <1>0, <4>1 DEF LockedInv, HandlerInv, Saving
      <4> QED
        BY <1>0, <1>a, <4>1, <4>2
    <3> QED
      BY <3>1, <3>2
  <2> QED
    BY <2>1, <2>2
<1>4. Durable' = Durable /\ Readable'
  BY <1>0, <1>3 DEF Durable, Readable
<1>5. FilesInv'
  BY <1>0, <1>1, <1>2, <1>3, <1>4 DEF FilesInv
<1>6. CASE AddExists(t) \/ ReplaceMissing(t) \/ SaveFails(t)
  <2>1. UNCHANGED <<edges, receipt, pending, phase, answers>>
    BY <1>6 DEF AddExists, ReplaceMissing, SaveFails, service
  <2> QED
    BY <1>1, <1>3, <1>4, <1>5, <2>1, QuietAnswers DEF LockedInv
<1>7. CASE Assign(t)
  <2>1. /\ receipt' = edges /\ pending' \subseteq pending
        /\ \A row \in RowsOf(edges) : row.key \notin pending' => TRUE
        /\ answers' = answers \cup {[row |-> job[t], named |-> edges]}
        /\ snap[t] = edges /\ edges \in snapshots /\ snapshots' = snapshots
        /\ job[t] \in RowsOf(edges) /\ Durable = edges
    BY <1>0, <1>7 DEF Assign, LockedInv, HandlerInv, FilesInv, Saving, disk
  <2>2. BehindInv'
    BY <1>0, <1>4, <2>1, PrefixedSelf DEF BehindInv
  <2>3. AnswersInv'
    BY <1>4, <2>1 DEF LockedInv, AnswersInv
  <2> QED
    BY <1>1, <1>5, <2>2, <2>3 DEF LockedInv
<1> QED
  BY <1>6, <1>7

\* The process is killed, and starts again.
LEMMA RestartStep ==
  ASSUME EvidenceParameters, LockedRoute, LockedInv, RowsInv',
         Kill \/ PowerLoss \/ Open \/ OpenRaises \/ Retry
  PROVE  LockedInv'
<1>1. CASE Kill
  <2>1. /\ UNCHANGED <<snapshots, text, tmp, file, answers>> /\ phase' = "down"
        /\ pending' = {} /\ pc' = [t \in Threads |-> "idle"]
        /\ job' = [t \in Threads |-> None] /\ fd' = [t \in Threads |-> None]
    BY <1>1 DEF Kill, Stop
  <2>2. Durable' = Durable /\ Readable'
    BY <2>1, StepFiles
  <2>3. HandlerInv' /\ FilesInv'
    BY <2>1, <2>2 DEF LockedInv, HandlerInv, FilesInv, Saving
  <2>4. BehindInv' /\ AnswersInv'
    BY <2>1, <2>2 DEF LockedInv, BehindInv, AnswersInv
  <2> QED
    BY <2>3, <2>4 DEF LockedInv
<1>2. CASE Open
  <2>1. /\ UNCHANGED <<snapshots, text, tmp, file, answers, pending, pc, job, snap, fd>>
        /\ phase = "down" /\ phase' = "up" /\ edges' = Durable
        /\ receipt' = IF file = None THEN None ELSE Durable
        /\ file # None => Durable \in snapshots
        /\ Durable \in Seq(Rows)
    BY <1>2, LockedFacts DEF Open, disk, thread, Readable
  <2>2. Durable' = Durable /\ Readable'
    BY <2>1, StepFiles
  <2>3. \A t \in Threads : pc[t] = "idle"
    BY <2>1 DEF LockedInv, HandlerInv
  <2>4. HandlerInv' /\ FilesInv'
    BY <2>1, <2>2, <2>3 DEF LockedInv, HandlerInv, FilesInv, Saving
  <2>5. BehindInv' /\ AnswersInv'
    BY <2>1, <2>2, PrefixedSelf DEF LockedInv, BehindInv, AnswersInv
  <2> QED
    BY <2>4, <2>5 DEF LockedInv
<1>3. ~PowerLoss
  BY DEF PowerLoss, Stop, LockedRoute
<1>4. ~OpenRaises /\ ~Retry
  BY DEF OpenRaises, Retry, LockedInv, FilesInv, BehindInv
<1> QED
  BY <1>1, <1>2, <1>3, <1>4

LEMMA StepLocked ==
  ASSUME EvidenceParameters, LockedRoute, LockedInv, [Next]_vars PROVE LockedInv'
<1>1. RowsInv'
  BY StepRows DEF LockedInv
<1>2. CASE UNCHANGED vars
  <2>1. /\ UNCHANGED <<snapshots, text, tmp, file, edges, receipt, pending, phase>>
        /\ UNCHANGED <<pc, job, snap, fd, answers>>
    BY <1>2 DEF vars, disk, service, thread
  <2>2. Durable' = Durable /\ Readable'
    BY <1>1, <2>1, StepFiles
  <2>3. HandlerInv' /\ FilesInv'
    BY <2>1, <2>2 DEF LockedInv, HandlerInv, FilesInv, Saving
  <2>4. BehindInv' /\ AnswersInv'
    BY <2>1, <2>2, QuietAnswers
  <2> QED
    BY <1>1, <2>3, <2>4 DEF LockedInv
<1> QED
  BY <1>1, <1>2, NextActions, EpisodeStep, SaveStep, EndStep, RestartStep

LEMMA InitLocked ==
  ASSUME EvidenceParameters, LockedRoute, Init PROVE LockedInv
<1>1. RowsInv
  BY InitRows
<1>2. HandlerInv /\ FilesInv /\ BehindInv /\ AnswersInv
  BY DEF Init, HandlerInv, FilesInv, BehindInv, AnswersInv, Saving, Readable
<1> QED
  BY <1>1, <1>2 DEF LockedInv

LEMMA LockedAlways == ASSUME EvidenceParameters, LockedRoute PROVE Spec => []LockedInv
<1>1. Init => LockedInv
  BY InitLocked
<1>2. LockedInv /\ [Next]_vars => LockedInv'
  BY StepLocked
<1> QED
  BY <1>1, <1>2, PTL DEF Spec

\* Rows, kills and errors are within their bounds; only what was seen before a
\* stop is typed by the rest of the invariant.
BoundsInv ==
  /\ Len(edges) <= MaxRows /\ \A s \in snapshots : Len(s) <= MaxRows
  /\ receipt \in Seq(Rows) \cup {None} /\ pending \subseteq Episodes
  /\ phase \in {"down", "up", "refused"}
  /\ crashes \in 0..MaxCrashes /\ errors \in 0..MaxErrors

LEMMA StepBounds ==
  ASSUME EvidenceParameters, LockedRoute, LockedInv, BoundsInv, [Next]_vars
  PROVE  BoundsInv'
<1> USE DEF BoundsInv
<1>0. /\ edges \in Seq(Rows) /\ \A s \in snapshots : s \in Seq(Rows)
      /\ MaxRows \in Nat /\ MaxCrashes \in Nat /\ MaxErrors \in Nat
  BY LockedFacts DEF EvidenceParameters
<1>1. ASSUME NEW t \in Threads, NEW row \in Rows,
             EpisodeNew(t, row) \/ RelationNew(t, row)
      PROVE  BoundsInv'
  <2>1. /\ edges' = Append(edges, row) /\ Len(edges) < MaxRows
        /\ pending' \subseteq pending \cup (Episodes \cap {row.key})
        /\ UNCHANGED <<snapshots, receipt, phase, crashes, errors>>
    BY <1>1 DEF EpisodeNew, RelationNew, disk, counts
  <2> QED
    BY <1>0, <2>1
<1>2. ASSUME UNCHANGED <<snapshots, edges, receipt, phase, crashes>>,
             pending' \subseteq pending, errors' \in 0..MaxErrors
      PROVE  BoundsInv'
  BY <1>2
<1>3. ASSUME NEW t \in Threads, NEW row \in Rows,
             EpisodeRetry(t, row) \/ EpisodeAgain(t, row)
      PROVE  BoundsInv'
  BY <1>2, <1>3 DEF EpisodeRetry, EpisodeAgain, disk, service, counts
<1>4. ASSUME NEW t \in Threads,
             \/ Dump(t) \/ LookUp(t) \/ AddExists(t) \/ OpenTmp(t) \/ WriteTmp(t)
             \/ Replace(t) \/ ReplaceMissing(t)
      PROVE  BoundsInv'
  BY <1>2, <1>4
     DEF Dump, LookUp, AddExists, OpenTmp, WriteTmp, Replace, ReplaceMissing, disk, service, counts
<1>5. ASSUME NEW t \in Threads, AddSnapshot(t) PROVE BoundsInv'
  <2>1. snap[t] = edges
    BY <1>5 DEF AddSnapshot, LockedInv, HandlerInv, Saving
  <2> QED
    BY <1>5, <2>1 DEF AddSnapshot, service, counts
<1>6. ASSUME NEW t \in Threads, Assign(t) PROVE BoundsInv'
  <2>1. snap[t] = edges
    BY <1>6 DEF Assign, LockedInv, HandlerInv, Saving
  <2> QED
    BY <1>0, <1>6, <2>1 DEF Assign, disk, counts
<1>7. ASSUME NEW t \in Threads, SaveFails(t) PROVE BoundsInv'
  <2>1. pc[t] = "add" => snap[t] = edges
    BY DEF LockedInv, HandlerInv, Saving
  <2>2. snapshots' = snapshots \/ (pc[t] = "add" /\ snapshots' = snapshots \cup {snap[t]})
    BY <1>7 DEF SaveFails, disk
  <2>3. /\ UNCHANGED <<edges, receipt, pending, phase, crashes>>
        /\ errors < MaxErrors /\ errors' = errors + 1
    BY <1>7 DEF SaveFails, IOError, service
  <2> QED
    BY <1>0, <2>1, <2>2, <2>3
<1>8. CASE Kill \/ PowerLoss
  BY <1>0, <1>8 DEF Kill, PowerLoss, Stop
<1>9. CASE Open
  <2>1. edges' \in snapshots \cup {<<>>} /\ receipt' \in snapshots \cup {None}
    BY <1>9 DEF Open, Readable
  <2> QED
    BY <1>0, <1>9, <2>1 DEF Open, disk, counts
<1>10. CASE OpenRaises \/ Retry
  BY <1>10 DEF OpenRaises, Retry, disk, counts
<1>11. CASE UNCHANGED vars
  BY <1>2, <1>11 DEF vars, disk, service, counts
<1> QED
  BY <1>1, <1>3, <1>4, <1>5, <1>6, <1>7, <1>8, <1>9, <1>10, <1>11, NextActions

LEMMA InitBounds == ASSUME EvidenceParameters, Init PROVE BoundsInv
BY DEF Init, BoundsInv, EvidenceParameters

LEMMA LockedTyped ==
  ASSUME EvidenceParameters, LockedRoute, LockedInv, BoundsInv PROVE TypeOK
<1>1. \A a \in answers : a.row \in Rows /\ a.named \in Seq(Rows)
  BY LockedFacts DEF LockedInv, AnswersInv, RowsOf
<1>2. snapshots \subseteq Seq(Rows) /\ edges \in Seq(Rows)
  BY LockedFacts
<1> QED
  BY <1>1, <1>2 DEF LockedInv, RowsInv, HandlerInv, FilesInv, BoundsInv, TypeOK, Snapshots

(* The type invariant.                                                     *)
THEOREM EvidenceTypeOK ==
  ASSUME EvidenceParameters, LockedRoute PROVE Spec => []TypeOK
<1>1. Init => BoundsInv
  BY InitBounds
<1>2. LockedInv /\ BoundsInv /\ [Next]_vars => BoundsInv'
  BY StepBounds
<1> QED
  BY <1>1, <1>2, LockedTyped, LockedAlways, PTL DEF Spec

LEMMA LockedPromises ==
  ASSUME LockedInv PROVE AckedSurvive /\ ReceiptCoversAck /\ ReopensCanonical /\ OneRowPerEpisode
<1>1. AckedSurvive /\ ReceiptCoversAck
  BY DEF LockedInv, AnswersInv, AckedSurvive, Answered, ReceiptCoversAck
<1>2. ReopensCanonical
  BY DEF LockedInv, BehindInv, ReopensCanonical
<1>3. OneRowPerEpisode
  BY RowsOnce DEF LockedInv
<1> QED
  BY <1>1, <1>2, <1>3

(* An episode whose client has its ACK is in the snapshot a restart finds, *)
(* for any number of threads, episodes, kills and I/O errors.              *)
THEOREM EpisodeAcksSurvive ==
  ASSUME EvidenceParameters, LockedRoute PROVE Spec => []AckedSurvive
BY LockedPromises, LockedAlways, PTL

(* The receipt of every answer names a stored snapshot that holds the row. *)
THEOREM EpisodeReceiptsCover ==
  ASSUME EvidenceParameters, LockedRoute PROVE Spec => []ReceiptCoversAck
BY LockedPromises, LockedAlways, PTL

(* The service opens after every kill, wherever save() was.                *)
THEOREM EpisodeStoreReopens ==
  ASSUME EvidenceParameters, LockedRoute PROVE Spec => []ReopensCanonical
BY LockedPromises, LockedAlways, PTL

-----------------------------------------------------------------------------
(* The evidence service implements EvidenceLedger.                         *)

\* The receipt on disk changes when the temporary file takes its name, and only
\* then.
LEMMA OnlyReplaceCommits ==
  ASSUME EvidenceParameters, LockedRoute, LockedInv, LockedInv', [Next]_vars,
         Durable' # Durable
  PROVE  answers' = answers /\ Durable' = edges /\ phase = "up"
<1>1. PICK t \in Threads :
        \/ AddSnapshot(t) \/ OpenTmp(t) \/ WriteTmp(t) \/ Replace(t) \/ SaveFails(t)
  <2>1. ~(text' = text /\ file' = file)
    BY DEF LockedInv, FilesInv, Readable, Durable
  <2>2. ~UNCHANGED vars
    BY <2>1 DEF vars, disk
  <2>3. \A t \in Threads, row \in Rows :
          ~(EpisodeNew(t, row) \/ EpisodeRetry(t, row) \/ EpisodeAgain(t, row) \/ RelationNew(t, row))
    BY <2>1 DEF EpisodeNew, EpisodeRetry, EpisodeAgain, RelationNew, disk
  <2>4. \A t \in Threads :
          ~(Dump(t) \/ LookUp(t) \/ AddExists(t) \/ ReplaceMissing(t) \/ Assign(t))
    BY <2>1 DEF Dump, LookUp, AddExists, ReplaceMissing, Assign, disk
  <2>5. ~(Kill \/ PowerLoss \/ Open \/ OpenRaises \/ Retry)
    BY <2>1 DEF Kill, PowerLoss, Stop, LockedRoute, Open, OpenRaises, Retry, disk
  <2> QED
    BY <2>2, <2>3, <2>4, <2>5, NextActions
<1>2. Durable = IF file = None THEN <<>> ELSE text[file]
  BY LockedFacts
<1>3. Durable' = IF file' = None THEN <<>> ELSE text'[file']
  BY DEF LockedInv, FilesInv, Durable
<1>4. Replace(t)
  <2>1. ~AddSnapshot(t)
    BY <1>2, <1>3 DEF AddSnapshot
  <2>2. ~OpenTmp(t)
    <3> SUFFICES ASSUME OpenTmp(t) PROVE FALSE
      OBVIOUS
    <3>1. file' = file /\ tmp' # file /\ text' = [text EXCEPT ![tmp'] = Empty] /\ tmp' # None
      BY DEF OpenTmp, LockedInv, FilesInv, EvidenceParameters
    <3> QED
      BY <1>2, <1>3, <3>1 DEF LockedInv, FilesInv
  <2>3. ~WriteTmp(t)
    <3> SUFFICES ASSUME WriteTmp(t) PROVE FALSE
      OBVIOUS
    <3>1. file' = file /\ fd[t] # file /\ text' = [text EXCEPT ![fd[t]] = snap[t]]
      BY DEF WriteTmp, LockedInv, FilesInv
    <3> QED
      BY <1>2, <1>3, <3>1 DEF LockedInv, FilesInv
  <2>4. ~SaveFails(t)
    <3> SUFFICES ASSUME SaveFails(t) PROVE FALSE
      OBVIOUS
    <3>1. file' = file /\ (text' = text \/ (pc[t] = "write" /\ text' = [text EXCEPT ![fd[t]] = snap[t]]))
      BY DEF SaveFails, disk
    <3>2. pc[t] = "write" => fd[t] # file
      BY DEF LockedInv, FilesInv
    <3> QED
      BY <1>2, <1>3, <3>1, <3>2 DEF LockedInv, FilesInv
  <2> QED
    BY <1>1, <2>1, <2>2, <2>3, <2>4
<1>5. /\ phase = "up" /\ answers' = answers /\ file' = tmp /\ text' = text /\ tmp # None
      /\ text[tmp] = snap[t] /\ snap[t] = edges
  BY <1>4 DEF Replace, LockedInv, FilesInv, HandlerInv, Saving
<1> QED
  BY <1>3, <1>5

LEMMA NewAnswers ==
  ASSUME EvidenceParameters, LockedRoute, LockedInv, LockedInv', [Next]_vars, answers' # answers
  PROVE  /\ Durable' = Durable
         /\ \E a \in answers' : answers' = answers \cup {a}
<1>1. Durable' = Durable
  BY OnlyReplaceCommits
<1>2. \/ \E t \in Threads, row \in Rows : EpisodeAgain(t, row)
      \/ \E t \in Threads : Assign(t)
  <2>1. ~UNCHANGED vars
    BY DEF vars
  <2>2. \A t \in Threads, row \in Rows :
          ~(EpisodeNew(t, row) \/ EpisodeRetry(t, row) \/ RelationNew(t, row))
    BY DEF EpisodeNew, EpisodeRetry, RelationNew
  <2>3. \A t \in Threads :
          ~(\/ Dump(t) \/ LookUp(t) \/ AddSnapshot(t) \/ AddExists(t) \/ OpenTmp(t)
            \/ WriteTmp(t) \/ Replace(t) \/ ReplaceMissing(t) \/ SaveFails(t))
    BY DEF Dump, LookUp, AddSnapshot, AddExists, OpenTmp, WriteTmp, Replace, ReplaceMissing,
           SaveFails
  <2>4. ~(Kill \/ PowerLoss \/ Open \/ OpenRaises \/ Retry)
    BY DEF Kill, PowerLoss, Stop, Open, OpenRaises, Retry
  <2> QED
    BY <2>1, <2>2, <2>3, <2>4, NextActions
<1> QED
  BY <1>1, <1>2 DEF EpisodeAgain, Assign

LEMMA StepLedger ==
  ASSUME EvidenceParameters, LockedRoute, LockedInv, LockedInv', [Next]_vars
  PROVE  [Abstract!Next]_<<Durable, Answered>>
<1>1. CASE Durable' # Durable
  <2>1. Durable' = edges /\ Answered' = Answered
    BY <1>1, OnlyReplaceCommits DEF Answered
  <2>2. /\ edges \in Seq(Rows) /\ Durable \in Seq(Rows) /\ KeysOnce(edges)
    BY LockedFacts DEF LockedInv, RowsInv, Sound
  <2>3. Prefixed(edges, Durable)
    <3>1. phase = "up"
      BY <1>1, OnlyReplaceCommits
    <3> QED
      BY <3>1 DEF LockedInv, BehindInv
  <2>4. SubSeq(edges, 1, Len(Durable)) = Durable
    BY <2>2, <2>3 DEF Prefixed
  <2>5. Abstract!Commit
    BY <1>1, <2>1, <2>2, <2>3, <2>4
    DEF Abstract!Commit, Abstract!KeysUnique, KeysOnce, KeyOf, Prefixed
  <2> QED
    BY <2>5 DEF Abstract!Next
<1>2. CASE answers' # answers
  <2>1. Durable' = Durable /\ \E a \in answers' : answers' = answers \cup {a}
    BY <1>2, NewAnswers
  <2>2. \E a \in answers' : Answered' = Answered \cup {a.row} /\ a.row \in RowsOf(Durable)
    BY <2>1 DEF Answered, LockedInv, AnswersInv
  <2> QED
    BY <2>1, <2>2 DEF Abstract!Next, Abstract!Answer, Abstract!RowsOf, RowsOf
<1>3. CASE Durable' = Durable /\ answers' = answers
  BY <1>3 DEF Answered
<1> QED
  BY <1>1, <1>2, <1>3

LEMMA InitLedger == Init => Abstract!Init
BY DEF Init, Abstract!Init, Durable, Readable, Answered

(* On the locked route the evidence service implements EvidenceLedger: the *)
(* rows a restart finds only grow, by what has been observed meanwhile,    *)
(* and an answer names a row that is among them.                           *)
THEOREM EpisodesImplementLedger ==
  ASSUME EvidenceParameters, LockedRoute PROVE Spec => ImplementsLedger
<1>1. LockedInv /\ LockedInv' /\ [Next]_vars => [Abstract!Next]_<<Durable, Answered>>
  BY StepLedger
<1> QED
  BY <1>1, InitLedger, LockedAlways, PTL DEF Spec, ImplementsLedger, Abstract!Spec
=============================================================================
