------------------------ MODULE AddressJournalProofs ------------------------
(***************************************************************************)
(* Proofs about AddressJournal, for any keys, threads, crashes and errors. *)
(*                                                                         *)
(* What holds depends on what storage may do.  Whatever a raising write    *)
(* leaves, the types hold.  If it never leaves half a line, no revision    *)
(* that was answered is lost (StoredInv).  If it leaves nothing at all and *)
(* a rebuild does not fail, memory is what the file restores to            *)
(* (CleanInv): then the journal opens again, readers see what is durable,  *)
(* neighbours are adjacent, and the journal implements RevisionHistory.    *)
(***************************************************************************)
EXTENDS AddressJournal, FiniteSetTheorems, SequenceTheorems, TLAPS

\* What is durable is said for one kind of stop: a line that a kill left behind
\* without an fsync may still be lost by a power failure.
OneKindOfStop == ~({"kill", "power"} \subseteq Stops)
\* A write that raises may leave its whole line, or nothing.
WholeLines == "torn" \notin ErrorLeaves /\ OneKindOfStop
\* A write that raises leaves nothing, and load_bytes() reads what was stored.
CleanStorage == ErrorLeaves \subseteq {"nothing"} /\ ~RebuildMayFail /\ OneKindOfStop

\* Between the first and the last step of append(), under the lock.
Locking(t) == pc[t] \in {"payload", "row", "fsync", "rebuild"}

\* A candidate in progress is a revision, and one thread has the lock.
Control ==
  /\ \A t \in Threads : pc[t] # "idle" => phase = "up" /\ held[t] \in Revisions /\ held[t].chain # <<>>
  /\ \A t, u \in Threads : Locking(t) /\ Locking(u) => t = u

JournalTyped == TypeOK /\ Control

\* The revision n entries into the chain of r; the lines 1..n of a file.
Prefix(r, n) == [key |-> r.key, chain |-> SubSeq(r.chain, 1, n)]
LinesOf(f, n) == {f[i] : i \in 1..n}
Stored == LinesOf(file, Kept)

\* Every line has its payload, and the revisions before it in earlier lines: the
\* chain a restart reads never has a hole.
FileInv ==
  /\ file \in Seq(Revisions)
  /\ \A i \in 1..Len(file) :
       /\ file[i] \in payloads /\ file[i].chain # <<>>
       /\ \A n \in 1..Len(file[i].chain) : Prefix(file[i], n) \in LinesOf(file, i)
  /\ phase # "up" => Kept = Len(file)

\* What memory knows is stored: every row, every revision of a history but the
\* one an append is about to store, and what a thread is past storing.
RowsStored == \A i \in 1..Len(rows) : rows[i] \in Stored

HistoryStored ==
  \A k \in Keys : \A n \in 1..Len(history[k]) :
    \/ Revision(k, n) \in Stored
    \/ n = Len(history[k]) /\ \E t \in Threads : Locking(t) /\ held[t].key = k

HeldCurrent == \A t \in Threads : Locking(t) => held[t].chain = history[held[t].key]

HeldStored ==
  \A t \in Threads :
    /\ pc[t] \in {"row", "fsync"} => held[t] \in payloads
    /\ pc[t] = "fsync" => held[t] \in LinesOf(file, Len(file))
    /\ pc[t] = "neighbour" => held[t] \in Stored

MemoryInv == RowsStored /\ HistoryStored /\ HeldCurrent /\ HeldStored

\* What was answered, to a writer or to a resolver, is stored.
AnsweredInv ==
  /\ \A a \in acked : \E r \in Stored : r.key = a[1] /\ Last(r.chain) = a[2]
  /\ answer # None => {answer.anchor, answer.found} \ {None} \subseteq Stored

StoredInv == JournalTyped /\ FileInv /\ MemoryInv /\ AnsweredInv

\* chain adds one entry, with a later sequence, to the history before it.
Extends(chain, before) ==
  /\ Front(chain) = before
  /\ before # <<>> => Last(chain).seq > Last(before).seq

Canonical(f) ==
  \A i \in 1..Len(f) : Extends(f[i].chain, HistoryOf(SubSeq(f, 1, i - 1), f[i].key))

\* The file is what the process knows to be stored, and the line that waits for
\* its fsync.
LogInv ==
  phase = "up" =>
    /\ \/ (\A t \in Threads : pc[t] # "fsync") /\ file = rows
       \/ \E t \in Threads : pc[t] = "fsync" /\ file = Append(rows, held[t])
    /\ "power" \in Stops => synced = Len(rows)

\* The journal in memory is what the rows restore to, and the candidate of the
\* append in progress.
JournalInv ==
  phase = "up" =>
    /\ ~Locked => history = Restored(rows)
    /\ \A t \in Threads : Locking(t) =>
         /\ Extends(held[t].chain, HistoryOf(rows, held[t].key))
         /\ history = [Restored(rows) EXCEPT ![held[t].key] = held[t].chain]

\* A resolved anchor is a beginning of the history it belongs to.
AnchorsInv ==
  \A t \in Threads : pc[t] = "neighbour" =>
    /\ Len(held[t].chain) <= Len(HistoryOf(rows, held[t].key))
    /\ held[t].chain = SubSeq(HistoryOf(rows, held[t].key), 1, Len(held[t].chain))

CleanInv ==
  /\ StoredInv
  /\ Canonical(file) /\ phase # "refused"
  /\ LogInv /\ JournalInv /\ AnchorsInv
  /\ AnswersAreAdjacent

-----------------------------------------------------------------------------
(* What the helpers on rows return.                                        *)

LEMMA MaxExists ==
  ASSUME NEW S \in SUBSET Nat, IsFiniteSet(S), S # {}
  PROVE  \E m \in S : \A j \in S : j <= m
<1> DEFINE above(n) == {j \in S : j > n}
           family == {above(n) : n \in S}
<1>1. family # {} /\ family \subseteq FiniteSubsetsOf(S)
  <2>1. \A n \in S : above(n) \in SUBSET S /\ IsFiniteSet(above(n))
    BY FS_Subset
  <2> QED BY <2>1 DEF FiniteSubsetsOf
<1>2. IsWellFoundedOn(StrictSubsetOrdering(S), FiniteSubsetsOf(S))
  BY FS_StrictSubsetOrderingWellFounded
<1> HIDE DEF family
<1>3. PICK least \in family : \A A \in family : ~(<<A, least>> \in StrictSubsetOrdering(S))
  BY <1>1, <1>2, WFMin
<1>4. PICK m \in S : least = above(m)
  BY DEF family
<1>5. ASSUME NEW j \in S, j > m PROVE FALSE
  <2>1. above(j) \in family
    BY DEF family
  <2>2. /\ j \in least /\ j \notin above(j)
        /\ \A x \in above(j) : x \in least
    <3>1. \A x \in S : x > j => x > m
      BY <1>5
    <3> QED BY <1>4, <1>5, <3>1
  <2>3. <<above(j), least>> \in StrictSubsetOrdering(S)
    BY <1>4, <2>2 DEF StrictSubsetOrdering
  <2> QED BY <1>3, <2>1, <2>3
<1> QED BY <1>5

LEMMA WriteLineType ==
  ASSUME NEW f \in Seq(Revisions \cup {Torn}), NEW text \in Revisions \cup {Torn}
  PROVE  /\ WriteLine(f, text) \in Seq(Revisions \cup {Torn})
         /\ Len(f) <= Len(WriteLine(f, text))
  BY DEF WriteLine

LEMMA PrefixType ==
  ASSUME NEW s \in Seq(Entries), NEW n \in 0..Len(s)
  PROVE  /\ SubSeq(s, 1, n) \in Seq(Entries) /\ Len(SubSeq(s, 1, n)) = n
         /\ \A i \in 1..n : SubSeq(s, 1, n)[i] = s[i]
         /\ n > 0 => SubSeq(s, 1, n) # <<>>
<1>1. /\ SubSeq(s, 1, n) \in Seq(Entries) /\ Len(SubSeq(s, 1, n)) = n
      /\ \A i \in 1..n : SubSeq(s, 1, n)[i] = s[i]
  BY SubSeqProperties
<1>2. Len(<<>>) = 0
  OBVIOUS
<1> HIDE DEF Entries
<1> QED BY <1>1, <1>2

\* The history of a key is the chain of its last row.
LEMMA HistoryIsRow ==
  ASSUME NEW rs \in Seq(Revisions), NEW k
  PROVE  \/ HistoryOf(rs, k) = <<>> /\ \A i \in 1..Len(rs) : rs[i].key # k
         \/ \E i \in 1..Len(rs) :
              /\ rs[i].key = k /\ HistoryOf(rs, k) = rs[i].chain
              /\ \A j \in 1..Len(rs) : rs[j].key = k => j <= i
<1> DEFINE mine == {i \in 1..Len(rs) : rs[i].key = k}
           last == CHOOSE i \in mine : \A j \in mine : j <= i
<1>1. CASE mine = {}
  BY <1>1 DEF HistoryOf
<1>2. CASE mine # {}
  <2>1. IsFiniteSet(mine) /\ mine \in SUBSET Nat
    <3>1. IsFiniteSet(1..Len(rs))
      BY FS_Interval
    <3> QED BY <3>1, FS_Subset
  <2>2. \E m \in mine : \A j \in mine : j <= m
    BY <1>2, <2>1, MaxExists
  <2>3. last \in mine /\ \A j \in mine : j <= last
    BY <2>2
  <2>4. HistoryOf(rs, k) = rs[last].chain
    BY <1>2 DEF HistoryOf
  <2> QED BY <2>3, <2>4
<1> QED BY <1>1, <1>2

LEMMA HistoryType ==
  ASSUME NEW rs \in Seq(Revisions)
  PROVE  /\ \A k \in Keys : HistoryOf(rs, k) \in Seq(Entries)
         /\ Restored(rs) \in [Keys -> Seq(Entries)]
<1>1. \A i \in 1..Len(rs) : rs[i] \in Revisions
  OBVIOUS
<1>2. ASSUME NEW k \in Keys PROVE HistoryOf(rs, k) \in Seq(Entries)
  <2>1. \A i \in 1..Len(rs) : rs[i].chain \in Seq(Entries)
    BY <1>1 DEF Revisions
  <2>2. HistoryOf(rs, k) = <<>> \/ \E i \in 1..Len(rs) : HistoryOf(rs, k) = rs[i].chain
    BY HistoryIsRow
  <2> QED BY <2>1, <2>2, EmptySeq
<1> QED BY <1>2 DEF Restored

LEMMA HistoryOfAppend ==
  ASSUME NEW rs \in Seq(Revisions), NEW r \in Revisions, NEW k
  PROVE  HistoryOf(Append(rs, r), k) = IF r.key = k THEN r.chain ELSE HistoryOf(rs, k)
<1> DEFINE longer == Append(rs, r)
<1>1. /\ longer \in Seq(Revisions) /\ Len(longer) = Len(rs) + 1 /\ longer[Len(rs) + 1] = r
      /\ \A i \in 1..Len(rs) : longer[i] = rs[i]
  OBVIOUS
<1> HIDE DEF longer
<1>2. CASE r.key = k
  <2>1. PICK i \in 1..Len(longer) :
          /\ longer[i].key = k /\ HistoryOf(longer, k) = longer[i].chain
          /\ \A j \in 1..Len(longer) : longer[j].key = k => j <= i
    BY <1>1, <1>2, HistoryIsRow
  <2>2. i = Len(rs) + 1
    BY <1>1, <1>2, <2>1
  <2> QED BY <1>1, <1>2, <2>1, <2>2 DEF longer
<1>3. CASE r.key # k
  <2>1. CASE HistoryOf(rs, k) = <<>> /\ \A i \in 1..Len(rs) : rs[i].key # k
    <3>1. \A i \in 1..Len(longer) : longer[i].key # k
      BY <1>1, <1>3, <2>1
    <3>2. HistoryOf(longer, k) = <<>>
      BY <1>1, <3>1, HistoryIsRow
    <3> QED BY <1>3, <2>1, <3>2 DEF longer
  <2>2. ASSUME NEW i \in 1..Len(rs), rs[i].key = k, HistoryOf(rs, k) = rs[i].chain,
               \A j \in 1..Len(rs) : rs[j].key = k => j <= i
        PROVE  HistoryOf(longer, k) = HistoryOf(rs, k)
    <3>1. PICK n \in 1..Len(longer) :
            /\ longer[n].key = k /\ HistoryOf(longer, k) = longer[n].chain
            /\ \A j \in 1..Len(longer) : longer[j].key = k => j <= n
      <4>1. longer[i].key = k
        BY <1>1, <2>2
      <4> QED BY <1>1, <4>1, HistoryIsRow
    <3>2. n \in 1..Len(rs) /\ n <= i /\ i <= n
      BY <1>1, <1>3, <2>2, <3>1
    <3> QED BY <1>1, <2>2, <3>1, <3>2
  <2> QED BY <1>3, <2>1, <2>2, HistoryIsRow DEF longer
<1> QED BY <1>2, <1>3

-----------------------------------------------------------------------------
(* Types, and who may be where: under every kind of fault.                 *)

LEMMA InitTyped == JournalParameters /\ Init => JournalTyped
<1> SUFFICES ASSUME JournalParameters, Init PROVE JournalTyped
  OBVIOUS
<1>1. TypeOK
  BY DEF JournalParameters, Init, TypeOK, EmptyHistory, Pcs
<1>2. Control
  BY DEF Init, Control, Locking
<1> QED BY <1>1, <1>2 DEF JournalTyped

LEMMA StepTyped == JournalParameters /\ JournalTyped /\ [Next]_vars => JournalTyped'
<1> SUFFICES ASSUME JournalParameters, JournalTyped, [Next]_vars PROVE JournalTyped'
  OBVIOUS
<1> USE DEF JournalTyped, TypeOK, Control, Locking, Pcs
<1>1. ASSUME NEW t \in Threads, NEW k \in Keys, NEW e \in Entries, AppendSame(t, k, e)
      PROVE  JournalTyped'
  BY <1>1 DEF AppendSame, disk, memory
<1>2. ASSUME NEW t \in Threads, NEW k \in Keys, NEW e \in Entries, AppendRefused(t, k, e)
      PROVE  JournalTyped'
  BY <1>2 DEF AppendRefused, disk, memory
<1>3. ASSUME NEW t \in Threads, NEW k \in Keys, NEW e \in Entries, AppendCandidate(t, k, e)
      PROVE  JournalTyped'
  <2>1. /\ history' \in [Keys -> Seq(Entries)]
        /\ held' = [held EXCEPT ![t] = [key |-> k, chain |-> history'[k]]]
        /\ pc' = [pc EXCEPT ![t] = "payload"]
    BY <1>3 DEF AppendCandidate, Goto
  <2>2. held' \in [Threads -> Revisions \cup {None}] /\ held'[t] \in Revisions
    BY <2>1 DEF Revisions
  <2>3. \A u \in Threads : ~Locking(u) /\ phase = "up"
    BY <1>3 DEF AppendCandidate, MayCall, Locked
  <2>4. history'[k] # <<>> /\ held'[t].chain # <<>>
    BY <1>3, <2>1 DEF AppendCandidate
  <2>5. Control'
    BY <1>3, <2>1, <2>2, <2>3, <2>4 DEF AppendCandidate
  <2> QED BY <1>3, <2>1, <2>2, <2>5 DEF AppendCandidate, disk
<1>4. ASSUME NEW t \in Threads, StorePayload(t) PROVE JournalTyped'
  BY <1>4 DEF StorePayload, Goto
<1>5. ASSUME NEW t \in Threads, WriteRow(t) PROVE JournalTyped'
  BY <1>5 DEF WriteRow, WriteLine, Goto
<1>6. ASSUME NEW t \in Threads, FsyncRow(t) PROVE JournalTyped'
  <2>1. held[t] \in Revisions /\ pc' = [pc EXCEPT ![t] = "idle"] /\ pc[t] = "fsync"
    BY <1>6 DEF FsyncRow, Goto
  <2>2. rows' \in Seq(Revisions) /\ synced' \in 0..Len(file)'
    BY <1>6, <2>1 DEF FsyncRow
  <2>3. <<held[t].key, Last(held[t].chain)>> \in Keys \X Entries
    BY <2>1 DEF Revisions, Last
  <2> QED BY <1>6, <2>1, <2>2, <2>3 DEF FsyncRow
<1>7. ASSUME NEW t \in Threads, StoreFails(t) PROVE JournalTyped'
  <2>0. held[t] \in Revisions
    BY <1>7 DEF StoreFails
  <2>1. file' \in Seq(Revisions \cup {Torn}) /\ Len(file) <= Len(file')
    <3>1. \/ UNCHANGED file
          \/ file' = WriteLine(file, held[t]) \/ file' = WriteLine(file, Torn)
      <4>1. CASE pc[t] = "row"
        <5>1. PICK left \in ErrorLeaves :
                file' = CASE left = "nothing" -> file
                          [] left = "row"     -> WriteLine(file, held[t])
                          [] left = "torn"    -> WriteLine(file, Torn)
          BY <1>7, <4>1 DEF StoreFails
        <5>2. left \in {"nothing", "row", "torn"}
          BY DEF JournalParameters
        <5> QED BY <5>1, <5>2
      <4> QED BY <1>7, <4>1 DEF StoreFails
    <3>2. Len(file) <= Len(file)
      OBVIOUS
    <3>3. \A text \in Revisions \cup {Torn} :
            /\ WriteLine(file, text) \in Seq(Revisions \cup {Torn})
            /\ Len(file) <= Len(WriteLine(file, text))
      BY WriteLineType
    <3>4. file \in Seq(Revisions \cup {Torn})
      OBVIOUS
    <3> HIDE DEF JournalTyped
    <3> QED BY <2>0, <3>1, <3>2, <3>3, <3>4
  <2>2b. payloads' \subseteq Revisions
    BY <1>7, <2>0 DEF StoreFails
  <2>2. pc' = [pc EXCEPT ![t] = "rebuild"] /\ pc[t] \in {"payload", "row", "fsync"}
    BY <1>7 DEF StoreFails, Goto
  <2> QED BY <1>7, <2>1, <2>2b, <2>2, SMTT(30) DEF StoreFails, IOError, JournalParameters
<1>8. ASSUME NEW t \in Threads, Rebuild(t) PROVE JournalTyped'
  <2>1. history' \in [Keys -> Seq(Entries)]
    BY <1>8, HistoryType DEF Rebuild
  <2> QED BY <1>8, <2>1 DEF Rebuild, Goto, disk
<1>9. ASSUME NEW t \in Threads, RebuildFails(t) PROVE JournalTyped'
  BY <1>9 DEF RebuildFails, EmptyHistory, IOError, JournalParameters, Goto, disk
<1>10. ASSUME NEW t \in Threads, NEW k \in Keys, ResolveAnchor(t, k) PROVE JournalTyped'
  <2>1. PICK n \in 1..Len(history[k]) : held' = [held EXCEPT ![t] = Revision(k, n)]
    BY <1>10 DEF ResolveAnchor
  <2>2. Revision(k, n) \in Revisions
    BY PrefixType DEF Revision, Revisions
  <2>3. Revision(k, n).chain # <<>>
    <3>1. history[k] \in Seq(Entries) /\ n \in 0..Len(history[k]) /\ n > 0
      OBVIOUS
    <3> QED BY <3>1, PrefixType DEF Revision
  <2>4. phase = "up" /\ pc[t] = "idle" /\ pc' = [pc EXCEPT ![t] = "neighbour"] /\ phase' = phase
    BY <1>10 DEF ResolveAnchor, MayCall, Goto
  <2>5. Control'
    BY <2>1, <2>2, <2>3, <2>4
  <2> QED BY <1>10, <2>1, <2>2, <2>4, <2>5 DEF ResolveAnchor, disk
<1>11. ASSUME NEW t \in Threads, ResolveNeighbour(t) PROVE JournalTyped'
  <2>1. held[t] \in Revisions
    BY <1>11 DEF ResolveNeighbour
  <2>2a. \A n \in Nat : n <= Len(history[held[t].key]) => Revision(held[t].key, n) \in Revisions
    BY <2>1 DEF Revision, Revisions
  <2>2b. Len(held[t].chain) \in Nat
    BY <2>1 DEF Revisions
  <2>2c. Len(history[held[t].key]) \in Nat
    BY <2>1 DEF Revisions
  <2>2. PreviousRevision(held[t]) \in Revisions \cup {None}
    BY <2>2a, <2>2b, <2>2c DEF PreviousRevision, Knows
  <2>3. NextRevision(held[t]) \in Revisions \cup {None}
    BY <2>2a, <2>2b, <2>2c DEF NextRevision, Knows
  <2>4. answer' \in Answers
    BY <1>11, <2>1, <2>2, <2>3 DEF ResolveNeighbour, Answers
  <2> QED BY <1>11, <2>4, SMTT(30) DEF ResolveNeighbour, Goto, disk
<1>12. ASSUME NEW kind, Stop(kind),
              file' \in Seq(Revisions \cup {Torn}), synced' \in 0..Len(file')
       PROVE  JournalTyped'
  <2>1. EmptyHistory \in [Keys -> Seq(Entries)] /\ <<>> \in Seq(Revisions)
    BY EmptySeq DEF EmptyHistory
  <2>2. Control'
    BY <1>12 DEF Stop, MemoryLost
  <2> QED BY <1>12, <2>1, <2>2 DEF Stop, MemoryLost, JournalParameters
<1>12a. CASE Kill
  BY <1>12, <1>12a DEF Kill
<1>13. CASE PowerLoss
  <2>1. PICK n \in synced..Len(file) : file' = SubSeq(file, 1, n) /\ synced' = n
    BY <1>13 DEF PowerLoss
  <2>2. file' \in Seq(Revisions \cup {Torn}) /\ synced' \in 0..Len(file')
    BY <2>1, SubSeqProperties
  <2> QED BY <1>12, <1>13, <2>2 DEF PowerLoss
<1>14. CASE Open
  <2>1. file \in Seq(Revisions)
    <3>1. file \in [1..Len(file) -> Revisions]
      BY <1>14 DEF Open, Loads
    <3>2. Len(file) \in Nat
      OBVIOUS
    <3>3. file \in UNION {[1..n -> Revisions] : n \in Nat}
      BY <3>1, <3>2
    <3> QED BY <3>3, SeqDef
  <2>2. history' \in [Keys -> Seq(Entries)]
    BY <1>14, <2>1, HistoryType DEF Open
  <2> QED BY <1>14, <2>1, <2>2 DEF Open, disk
<1>15. CASE OpenRaises
  BY <1>15 DEF OpenRaises, disk
<1>16. CASE Retry
  BY <1>16 DEF Retry, disk
<1>17. CASE UNCHANGED vars
  BY <1>17 DEF vars, disk, memory
<1> QED
  BY <1>1, <1>2, <1>3, <1>4, <1>5, <1>6, <1>7, <1>8, <1>9, <1>10, <1>11, <1>12a, <1>13,
     <1>14, <1>15, <1>16, <1>17 DEF Next

\* Whatever storage does, the journal in memory, its rows and the file stay what
\* PersistentEvolvingAddressStateJournalV2 declares them to be.
THEOREM JournalTypeOK == ASSUME JournalParameters PROVE Spec => []TypeOK
<1>1. Init => JournalTyped
  BY InitTyped
<1>2. JournalTyped /\ [Next]_vars => JournalTyped'
  BY StepTyped
<1>3. JournalTyped => TypeOK
  BY DEF JournalTyped
<1> QED BY <1>1, <1>2, <1>3, PTL DEF Spec
-----------------------------------------------------------------------------
(* What is stored, while every line the index holds is whole.              *)

LEMMA LinesGrow ==
  ASSUME NEW f \in Seq(Revisions), NEW r \in Revisions
  PROVE  /\ Append(f, r) \in Seq(Revisions) /\ Len(Append(f, r)) = Len(f) + 1
         /\ \A i \in 1..Len(f) : Append(f, r)[i] = f[i]
         /\ \A n \in 0..Len(f) : LinesOf(Append(f, r), n) = LinesOf(f, n)
         /\ LinesOf(Append(f, r), Len(f) + 1) = LinesOf(f, Len(f)) \cup {r}
<1> DEFINE g == Append(f, r)
<1>1. /\ g \in Seq(Revisions) /\ Len(g) = Len(f) + 1 /\ g[Len(f) + 1] = r
      /\ \A i \in 1..Len(f) : g[i] = f[i]
  OBVIOUS
<1> HIDE DEF g
<1>2. \A n \in 0..Len(f) : LinesOf(g, n) = LinesOf(f, n)
  BY <1>1 DEF LinesOf
<1>3. LinesOf(g, Len(f) + 1) = LinesOf(f, Len(f)) \cup {r}
  BY <1>1 DEF LinesOf
<1> QED BY <1>1, <1>2, <1>3 DEF g

LEMMA LinesMonotone ==
  ASSUME NEW f, NEW m \in Nat, NEW n \in Nat, m <= n
  PROVE  LinesOf(f, m) \subseteq LinesOf(f, n)
  BY DEF LinesOf

\* A prefix of a stored revision is stored.
LEMMA PrefixStored ==
  ASSUME FileInv, NEW n \in 0..Len(file), NEW r \in LinesOf(file, n), NEW m \in 1..Len(r.chain)
  PROVE  Prefix(r, m) \in LinesOf(file, n)
<1>1. PICK i \in 1..n : r = file[i]
  BY DEF LinesOf
<1>2. i \in 1..Len(file) /\ Prefix(r, m) \in LinesOf(file, i)
  BY <1>1 DEF FileInv
<1> QED BY <1>2, LinesMonotone

LEMMA KeptType ==
  ASSUME TypeOK
  PROVE  Kept \in 0..Len(file)
  BY DEF TypeOK, Kept

\* The journal restored from stored rows shows stored revisions.
LEMMA RestoredStored ==
  ASSUME FileInv, TypeOK, NEW rs \in Seq(Revisions), \A i \in 1..Len(rs) : rs[i] \in Stored,
         NEW k \in Keys, NEW n \in 1..Len(Restored(rs)[k])
  PROVE  [key |-> k, chain |-> SubSeq(Restored(rs)[k], 1, n)] \in Stored
<1>1. Restored(rs)[k] = HistoryOf(rs, k) /\ Restored(rs)[k] # <<>>
  BY DEF Restored
<1>2. PICK i \in 1..Len(rs) : rs[i].key = k /\ HistoryOf(rs, k) = rs[i].chain
  BY <1>1, HistoryIsRow
<1>3. rs[i] \in LinesOf(file, Kept) /\ n \in 1..Len(rs[i].chain)
  BY <1>1, <1>2 DEF Stored
<1>4. Prefix(rs[i], n) \in LinesOf(file, Kept)
  BY <1>3, PrefixStored, KeptType
<1> QED BY <1>1, <1>2, <1>4 DEF Prefix, Stored

\* How a step changes the index: lines are added, kept, or cut by a power loss.
LEMMA StepOfFile ==
  ASSUME WholeLines, JournalParameters, JournalTyped, FileInv, [Next]_vars
  PROVE  \/ UNCHANGED <<file, synced>>
         \/ /\ UNCHANGED synced
            /\ \E t \in Threads : pc[t] = "row" /\ file' = Append(file, held[t])
         \/ UNCHANGED file /\ synced' = Len(file)
         \/ PowerLoss
<1>1. \A text \in Revisions : WriteLine(file, text) = Append(file, text)
  BY DEF WriteLine, FileInv, JournalParameters
<1>2. ASSUME NEW t \in Threads, WriteRow(t)
      PROVE  pc[t] = "row" /\ file' = Append(file, held[t]) /\ UNCHANGED synced
  BY <1>1, <1>2 DEF WriteRow, JournalTyped, Control
<1>3. ASSUME NEW t \in Threads, StoreFails(t)
      PROVE  /\ UNCHANGED synced
             /\ UNCHANGED file \/ (pc[t] = "row" /\ file' = Append(file, held[t]))
  <2>1. CASE pc[t] = "row"
    <3>1. PICK left \in ErrorLeaves :
            file' = CASE left = "nothing" -> file
                      [] left = "row"     -> WriteLine(file, held[t])
                      [] left = "torn"    -> WriteLine(file, Torn)
      BY <1>3, <2>1 DEF StoreFails
    <3>2. left \in {"nothing", "row"} /\ held[t] \in Revisions
      BY <2>1 DEF JournalParameters, WholeLines, JournalTyped, Control
    <3> QED BY <1>1, <1>3, <2>1, <3>1, <3>2 DEF StoreFails
  <2> QED BY <1>3, <2>1 DEF StoreFails
<1>4. \A t \in Threads : FsyncRow(t) => UNCHANGED file /\ synced' = Len(file)
  BY DEF FsyncRow
<1> QED
  BY <1>2, <1>3, <1>4 DEF Next, vars, disk, AppendSame, AppendRefused, AppendCandidate,
     StorePayload, Rebuild, RebuildFails, ResolveAnchor, ResolveNeighbour, Kill, Open,
     OpenRaises, Retry

\* What is stored stays stored, and its lines are those of the file before.
LEMMA StepStored ==
  ASSUME WholeLines, JournalParameters, JournalTyped, JournalTyped', FileInv, [Next]_vars
  PROVE  /\ Stored \subseteq Stored'
         /\ UNCHANGED file => LinesOf(file, Len(file)) = LinesOf(file', Len(file'))
<1>0. /\ Kept \in 0..Len(file) /\ Kept' \in 0..Len(file') /\ Len(file) \in Nat /\ Len(file') \in Nat
      /\ synced \in 0..Len(file)
  BY KeptType DEF JournalTyped, TypeOK, Kept
<1>1. CASE UNCHANGED <<file, synced>>
  BY <1>1 DEF Stored, Kept
<1>2. CASE UNCHANGED file /\ synced' = Len(file)
  <2>1. Kept <= Kept' /\ file' = file
    BY <1>0, <1>2 DEF Kept
  <2> QED BY <1>0, <2>1, LinesMonotone DEF Stored
<1>3. ASSUME UNCHANGED synced, NEW t \in Threads, pc[t] = "row", file' = Append(file, held[t])
      PROVE  Stored \subseteq Stored' /\ file' # file
  <2>1. held[t] \in Revisions /\ file \in Seq(Revisions)
    BY <1>3 DEF JournalTyped, Control, FileInv
  <2>2. LinesOf(file', Kept) = LinesOf(file, Kept) /\ Len(file') = Len(file) + 1
    BY <1>0, <1>3, <2>1, LinesGrow
  <2>3. Kept <= Kept'
    BY <1>0, <1>3, <2>2 DEF Kept
  <2> QED BY <1>0, <2>2, <2>3, LinesMonotone DEF Stored
<1>4. CASE PowerLoss
  <2>1. PICK n \in synced..Len(file) : file' = SubSeq(file, 1, n) /\ synced' = n
    BY <1>4 DEF PowerLoss
  <2>2. Len(file') = n /\ (\A i \in 1..n : file'[i] = file[i])
    BY <1>0, <2>1, SubSeqProperties DEF FileInv
  <2>3. "power" \in Stops /\ Kept = synced /\ Kept' = n
    BY <1>4, <2>1 DEF PowerLoss, Stop, Kept
  <2> QED BY <1>0, <2>1, <2>2, <2>3 DEF Stored, LinesOf
<1> QED BY <1>1, <1>2, <1>3, <1>4, StepOfFile

LEMMA StepFileInv ==
  ASSUME WholeLines, JournalParameters, JournalTyped, JournalTyped', FileInv, MemoryInv, [Next]_vars
  PROVE  FileInv'
<1>0. /\ Kept \in 0..Len(file) /\ Kept' \in 0..Len(file') /\ Len(file) \in Nat /\ Len(file') \in Nat
      /\ synced \in 0..Len(file)
  BY KeptType DEF JournalTyped, TypeOK, Kept
<1>p. payloads \subseteq payloads'
  BY DEF Next, vars, disk, AppendSame, AppendRefused, AppendCandidate, StorePayload, WriteRow,
     FsyncRow, StoreFails, Rebuild, RebuildFails, ResolveAnchor, ResolveNeighbour, Kill,
     PowerLoss, Stop, Open, OpenRaises, Retry
<1>a. phase' # "up" => Kept' = Len(file')
  <2>1. CASE Kill
    BY <1>0, <2>1 DEF Kill, Stop, Kept, WholeLines, OneKindOfStop
  <2>2. CASE PowerLoss
    <3>1. PICK n \in synced..Len(file) : file' = SubSeq(file, 1, n) /\ synced' = n
      BY <2>2 DEF PowerLoss
    <3>2. Len(file') = n
      BY <1>0, <3>1, SubSeqProperties DEF FileInv
    <3> QED BY <2>2, <3>1, <3>2 DEF PowerLoss, Stop, Kept
  <2>3. CASE UNCHANGED <<file, synced, phase>> \/ (UNCHANGED <<file, synced>> /\ phase # "up")
    BY <2>3 DEF FileInv, Kept
  <2>4. CASE phase' = "up"
    BY <2>4
  <2>5. ASSUME NEW t \in Threads, pc[t] # "idle", UNCHANGED phase
        PROVE  phase' = "up"
    BY <2>5 DEF JournalTyped, Control
  <2> QED
    BY <2>1, <2>2, <2>3, <2>4, <2>5 DEF Next, vars, disk, memory, AppendSame, AppendRefused,
       AppendCandidate, StorePayload, WriteRow, FsyncRow, StoreFails, Rebuild, RebuildFails,
       ResolveAnchor, ResolveNeighbour, Open, OpenRaises, Retry
<1>1. CASE UNCHANGED file
  BY <1>1, <1>a, <1>p DEF FileInv
<1>2. ASSUME NEW t \in Threads, pc[t] = "row", file' = Append(file, held[t])
      PROVE  FileInv'
  <2>1. /\ held[t] \in Revisions /\ file \in Seq(Revisions) /\ held[t] \in payloads
        /\ held[t].chain # <<>>
    BY <1>2 DEF JournalTyped, Control, FileInv, MemoryInv, HeldStored
  <2>2. /\ file' \in Seq(Revisions) /\ Len(file') = Len(file) + 1
        /\ \A i \in 1..Len(file) : file'[i] = file[i]
        /\ \A n \in 0..Len(file) : LinesOf(file', n) = LinesOf(file, n)
        /\ LinesOf(file', Len(file) + 1) = LinesOf(file, Len(file)) \cup {held[t]}
        /\ file'[Len(file) + 1] = held[t]
    BY <1>2, <2>1, LinesGrow
  <2>3. \A n \in 1..Len(held[t].chain) : Prefix(held[t], n) \in LinesOf(file', Len(file) + 1)
    <3> DEFINE k == held[t].key
    <3>1. k \in Keys /\ held[t].chain \in Seq(Entries) /\ held[t] = [key |-> k, chain |-> held[t].chain]
      BY <2>1 DEF Revisions
    <3>2. Locking(t) /\ held[t].chain = history[k]
      BY <1>2 DEF Locking, MemoryInv, HeldCurrent
    <3>3. ASSUME NEW n \in 1..Len(history[k]), n # Len(history[k])
          PROVE  Prefix(held[t], n) \in LinesOf(file, Len(file))
      <4>1. Revision(k, n) \in LinesOf(file, Kept)
        BY <3>1, <3>3 DEF MemoryInv, HistoryStored, Stored
      <4> QED BY <1>0, <3>2, <4>1, LinesMonotone DEF Prefix, Revision
    <3>4. SubSeq(held[t].chain, 1, Len(held[t].chain)) = held[t].chain
      BY <3>1
    <3> QED BY <2>2, <3>1, <3>2, <3>3, <3>4 DEF Prefix
  <2>4. ASSUME NEW i \in 1..Len(file')
        PROVE  /\ file'[i] \in payloads' /\ file'[i].chain # <<>>
               /\ \A n \in 1..Len(file'[i].chain) : Prefix(file'[i], n) \in LinesOf(file', i)
    <3>1. CASE i \in 1..Len(file)
      <4>1. file'[i] = file[i] /\ LinesOf(file', i) = LinesOf(file, i)
        BY <1>0, <2>2, <3>1
      <4> QED BY <1>p, <3>1, <4>1 DEF FileInv
    <3>2. CASE i = Len(file) + 1
      BY <1>p, <2>1, <2>2, <2>3, <3>2
    <3> QED BY <1>0, <2>2, <3>1, <3>2
  <2> QED BY <1>a, <2>2, <2>4 DEF FileInv, Prefix
<1>3. CASE PowerLoss
  <2>1. PICK m \in synced..Len(file) : file' = SubSeq(file, 1, m)
    BY <1>3 DEF PowerLoss
  <2>2. Len(file') = m /\ m <= Len(file) /\ (\A i \in 1..m : file'[i] = file[i]) /\ file' \in Seq(Revisions)
    BY <1>0, <2>1, SubSeqProperties DEF FileInv
  <2>3. \A i \in 0..m : LinesOf(file', i) = LinesOf(file, i)
    BY <1>0, <2>2 DEF LinesOf
  <2>4. ASSUME NEW i \in 1..Len(file')
        PROVE  /\ file'[i] \in payloads' /\ file'[i].chain # <<>>
               /\ \A n \in 1..Len(file'[i].chain) : Prefix(file'[i], n) \in LinesOf(file', i)
    <3>1. i \in 1..Len(file) /\ file'[i] = file[i] /\ LinesOf(file', i) = LinesOf(file, i)
      BY <1>0, <2>2, <2>3
    <3> QED BY <1>p, <3>1 DEF FileInv
  <2> QED BY <1>a, <2>2, <2>4 DEF FileInv, Prefix
<1> QED BY <1>1, <1>2, <1>3, StepOfFile

\* The processes' view of what is stored, action by action.
LEMMA StepMemoryInv ==
  ASSUME WholeLines, JournalParameters, StoredInv, JournalTyped', [Next]_vars
  PROVE  MemoryInv'
<1> USE DEF StoredInv
<1>0. /\ Kept \in 0..Len(file) /\ Kept' \in 0..Len(file') /\ Len(file) \in Nat /\ Len(file') \in Nat
  BY KeptType DEF JournalTyped, TypeOK, Kept
<1>s. /\ Stored \subseteq Stored' /\ FileInv'
      /\ UNCHANGED file => LinesOf(file, Len(file)) = LinesOf(file', Len(file'))
  BY StepStored, StepFileInv
<1>t. /\ pc \in [Threads -> Pcs] /\ held \in [Threads -> Revisions \cup {None}]
      /\ history \in [Keys -> Seq(Entries)] /\ rows \in Seq(Revisions)
  BY DEF JournalTyped, TypeOK
<1>h. \A t \in Threads : pc[t] # "idle" => held[t] \in Revisions /\ held[t].key \in Keys
  BY DEF JournalTyped, Control, Revisions
<1>l. ~Locked => \A t \in Threads : ~Locking(t)
  BY DEF Locked, Locking
<1>u. \A t, u \in Threads : Locking(t) /\ Locking(u) => t = u
  BY DEF JournalTyped, Control
<1>r. RowsStored /\ UNCHANGED rows => RowsStored'
  BY <1>s DEF RowsStored
<1> USE DEF MemoryInv
\* A step that keeps the journal, and the place and the revision of every thread.
<1>1. ASSUME UNCHANGED <<file, payloads, synced, history, rows, pc, held>> PROVE MemoryInv'
  BY <1>1, <1>s DEF RowsStored, HistoryStored, HeldCurrent, HeldStored, Locking, Revision
<1>3. ASSUME NEW t \in Threads, NEW k \in Keys, NEW e \in Entries, AppendCandidate(t, k, e)
      PROVE  MemoryInv'
  <2> DEFINE longer == Append(history[k], e)
  <2>1. /\ history' = [history EXCEPT ![k] = longer]
        /\ held' = [held EXCEPT ![t] = [key |-> k, chain |-> history'[k]]]
        /\ pc' = [pc EXCEPT ![t] = "payload"] /\ UNCHANGED <<rows, payloads, file, synced>>
        /\ \A u \in Threads : ~Locking(u)
    BY <1>3, <1>l DEF AppendCandidate, Goto, MayCall, disk
  <2>2. /\ longer \in Seq(Entries) /\ Len(longer) = Len(history[k]) + 1
        /\ \A n \in 1..Len(history[k]) : SubSeq(longer, 1, n) = SubSeq(history[k], 1, n)
    BY <1>t
  <2> HIDE DEF longer
  <2>3. held'[t].key = k /\ held'[t].chain = history'[k] /\ history'[k] = longer
    BY <1>t, <2>1
  <2>4. \A u \in Threads : (Locking(u))' => u = t
    BY <1>t, <2>1 DEF Locking
  <2>5. (Locking(t))'
    BY <1>t, <2>1 DEF Locking
  <2>6. HistoryStored'
    <3>1. ASSUME NEW j \in Keys, NEW n \in 1..Len(history'[j])
          PROVE  \/ (Revision(j, n))' \in Stored'
                 \/ n = Len(history'[j]) /\ held'[t].key = j
      <4>1. CASE j # k
        <5>1. history'[j] = history[j]
          BY <1>t, <2>1, <4>1
        <5>2. Revision(j, n) \in Stored
          BY <2>1, <3>1, <5>1 DEF HistoryStored
        <5> QED BY <1>s, <5>1, <5>2 DEF Revision
      <4>2. CASE j = k /\ n # Len(history'[j])
        <5>1. n \in 1..Len(history[k])
          BY <1>t, <2>2, <2>3, <3>1, <4>2
        <5>2. Revision(k, n) \in Stored
          BY <2>1, <5>1 DEF HistoryStored
        <5> QED BY <1>s, <2>2, <2>3, <4>2, <5>1, <5>2 DEF Revision
      <4> QED BY <2>3, <4>1, <4>2
    <3> QED BY <2>5, <3>1 DEF HistoryStored
  <2>7. HeldCurrent'
    BY <2>3, <2>4 DEF HeldCurrent
  <2>8. HeldStored'
    BY <1>s, <1>t, <2>1 DEF HeldStored, Stored, Kept
  <2> QED BY <1>r, <2>1, <2>6, <2>7, <2>8
<1>4. ASSUME NEW t \in Threads, StorePayload(t) PROVE MemoryInv'
  <2>1. /\ pc[t] = "payload" /\ pc' = [pc EXCEPT ![t] = "row"]
        /\ payloads' = payloads \cup {held[t]} /\ UNCHANGED <<rows, file, synced, history, held>>
    BY <1>4 DEF StorePayload, Goto
  <2>2. \A u \in Threads : (Locking(u))' <=> Locking(u)
    BY <1>t, <2>1 DEF Locking
  <2>3. HistoryStored' /\ HeldCurrent'
    BY <1>s, <2>1, <2>2 DEF HistoryStored, HeldCurrent, Revision
  <2>4. HeldStored'
    BY <1>s, <1>t, <2>1 DEF HeldStored
  <2> QED BY <1>r, <2>1, <2>3, <2>4
<1>5. ASSUME NEW t \in Threads, pc[t] \in {"payload", "row", "fsync"},
             file' = file \/ (pc[t] = "row" /\ file' = Append(file, held[t])),
             \/ pc' = [pc EXCEPT ![t] = "fsync"] /\ pc[t] = "row" /\ file' # file
             \/ pc' = [pc EXCEPT ![t] = "rebuild"],
             payloads \subseteq payloads',
             UNCHANGED <<rows, synced, history, held>>
      PROVE  MemoryInv'
  <2>2. \A u \in Threads : (Locking(u))' <=> Locking(u)
    BY <1>t, <1>5 DEF Locking
  <2>3. HistoryStored' /\ HeldCurrent'
    BY <1>s, <1>5, <2>2 DEF HistoryStored, HeldCurrent, Revision
  <2>4. \A u \in Threads \ {t} : pc[u] \notin {"row", "fsync"}
    BY <1>u, <1>5 DEF Locking
  <2>5. file' # file => held[t] \in LinesOf(file', Len(file'))
    <3>1. file \in Seq(Revisions) /\ held[t] \in Revisions
      BY <1>h, <1>5 DEF FileInv
    <3>2. ASSUME file' = Append(file, held[t])
          PROVE  held[t] \in LinesOf(file', Len(file'))
      <4>1. /\ Len(file') = Len(file) + 1
            /\ LinesOf(file', Len(file) + 1) = LinesOf(file, Len(file)) \cup {held[t]}
        BY <3>1, <3>2, LinesGrow
      <4> QED BY <4>1
    <3> QED BY <1>5, <3>2
  <2>6. ASSUME NEW u \in Threads
        PROVE  /\ pc'[u] \in {"row", "fsync"} => held'[u] \in payloads'
               /\ pc'[u] = "fsync" => held'[u] \in LinesOf(file', Len(file'))
               /\ pc'[u] = "neighbour" => held'[u] \in Stored'
    <3>1. CASE u = t
      BY <1>t, <1>5, <2>5, <3>1 DEF HeldStored
    <3>2. CASE u # t
      BY <1>s, <1>t, <1>5, <2>4, <3>2 DEF HeldStored
    <3> QED BY <3>1, <3>2
  <2> QED BY <1>r, <1>5, <2>3, <2>6 DEF HeldStored
<1>5a. ASSUME NEW t \in Threads, WriteRow(t) PROVE MemoryInv'
  <2>1. pc[t] = "row" /\ file' = WriteLine(file, held[t]) /\ held[t] \in Revisions
    BY <1>5a, <1>h DEF WriteRow
  <2>2. file' = Append(file, held[t]) /\ file' # file
    BY <2>1 DEF WriteLine, FileInv, JournalParameters
  <2> QED BY <1>5a, <1>5, <2>1, <2>2 DEF WriteRow, Goto
<1>5b. ASSUME NEW t \in Threads, StoreFails(t) PROVE MemoryInv'
  <2>1. CASE pc[t] = "row"
    <3>1. PICK left \in ErrorLeaves :
            file' = CASE left = "nothing" -> file
                      [] left = "row"     -> WriteLine(file, held[t])
                      [] left = "torn"    -> WriteLine(file, Torn)
      BY <1>5b, <2>1 DEF StoreFails
    <3>2. left \in {"nothing", "row"} /\ held[t] \in Revisions
      BY <1>h, <2>1 DEF JournalParameters, WholeLines
    <3>3. WriteLine(file, held[t]) = Append(file, held[t])
      BY <3>2 DEF WriteLine, FileInv, JournalParameters
    <3> QED BY <1>5, <1>5b, <2>1, <3>1, <3>2, <3>3 DEF StoreFails, Goto
  <2> QED BY <1>5, <1>5b, <2>1 DEF StoreFails, Goto
<1>6. ASSUME NEW t \in Threads, FsyncRow(t) PROVE MemoryInv'
  <2>1. /\ pc[t] = "fsync" /\ pc' = [pc EXCEPT ![t] = "idle"] /\ rows' = Append(rows, held[t])
        /\ held' = [held EXCEPT ![t] = None] /\ UNCHANGED <<payloads, file, history>>
        /\ synced' = Len(file)
    BY <1>6 DEF FsyncRow, Goto
  <2>2. held[t] \in Stored' /\ Locking(t) /\ held[t] \in Revisions /\ held[t].key \in Keys
    BY <1>h, <2>1 DEF HeldStored, Stored, Kept, Locking
  <2>3. RowsStored'
    BY <1>s, <1>t, <2>1, <2>2, AppendProperties DEF RowsStored
  <2>4. HistoryStored'
    <3>1. ASSUME NEW j \in Keys, NEW n \in 1..Len(history[j])
          PROVE  Revision(j, n) \in Stored'
      <4>1. CASE Revision(j, n) \in Stored
        BY <1>s, <4>1
      <4>2. CASE n = Len(history[j]) /\ \E u \in Threads : Locking(u) /\ held[u].key = j
        <5>1. held[t].key = j /\ held[t].chain = history[j]
          BY <1>u, <2>2, <4>2 DEF HeldCurrent
        <5>2. SubSeq(history[j], 1, n) = history[j]
          BY <1>t, <4>2
        <5> QED BY <2>2, <5>1, <5>2 DEF Revision, Revisions
      <4> QED BY <4>1, <4>2 DEF HistoryStored
    <3> QED BY <2>1, <3>1 DEF HistoryStored, Revision
  <2>5. \A u \in Threads : ~(Locking(u))'
    BY <1>t, <1>u, <2>1, <2>2 DEF Locking
  <2>6. HeldCurrent' /\ HeldStored'
    <3>1. \A u \in Threads : pc'[u] \notin {"row", "fsync"} /\ (pc'[u] = "neighbour" => pc[u] = "neighbour" /\ held'[u] = held[u])
      BY <1>t, <2>1, <2>5 DEF Locking
    <3> QED BY <1>s, <2>5, <3>1 DEF HeldCurrent, HeldStored
  <2> QED BY <2>3, <2>4, <2>6
<1>8. ASSUME NEW t \in Threads, pc[t] = "rebuild", pc' = [pc EXCEPT ![t] = "idle"],
             history' = Restored(rows) \/ history' = EmptyHistory,
             held' = [held EXCEPT ![t] = None], UNCHANGED <<payloads, file, synced, rows>>
      PROVE  MemoryInv'
  <2>1. \A u \in Threads : ~(Locking(u))'
    BY <1>t, <1>u, <1>8 DEF Locking
  <2>2. HistoryStored'
    <3>1. ASSUME NEW j \in Keys, NEW n \in 1..Len(history'[j])
          PROVE  (Revision(j, n))' \in Stored'
      <4>1. CASE history' = Restored(rows)
        <5>1. [key |-> j, chain |-> SubSeq(Restored(rows)[j], 1, n)] \in Stored
          BY <1>t, <3>1, <4>1, RestoredStored DEF RowsStored, JournalTyped
        <5> QED BY <1>s, <4>1, <5>1 DEF Revision
      <4>2. CASE history' = EmptyHistory
        BY <3>1, <4>2 DEF EmptyHistory
      <4> QED BY <1>8, <4>1, <4>2
    <3> QED BY <3>1 DEF HistoryStored
  <2>3. HeldCurrent' /\ HeldStored'
    <3>1. \A u \in Threads : pc'[u] \notin {"row", "fsync"} /\ (pc'[u] = "neighbour" => pc[u] = "neighbour" /\ held'[u] = held[u])
      BY <1>t, <1>8, <2>1 DEF Locking
    <3> QED BY <1>s, <2>1, <3>1 DEF HeldCurrent, HeldStored
  <2> QED BY <1>8, <1>r, <2>2, <2>3
<1>10. ASSUME NEW t \in Threads, NEW k \in Keys, ResolveAnchor(t, k) PROVE MemoryInv'
  <2>1. PICK n \in 1..Len(history[k]) : held' = [held EXCEPT ![t] = Revision(k, n)]
    BY <1>10 DEF ResolveAnchor
  <2>2. /\ pc' = [pc EXCEPT ![t] = "neighbour"] /\ UNCHANGED <<payloads, file, synced, history, rows>>
        /\ \A u \in Threads : ~Locking(u)
    BY <1>10, <1>l DEF ResolveAnchor, Goto, MayCall, disk
  <2>3. \A u \in Threads : ~(Locking(u))'
    BY <1>t, <2>2 DEF Locking
  <2>4. HistoryStored' /\ HeldCurrent'
    BY <1>s, <2>2, <2>3 DEF HistoryStored, HeldCurrent, Revision
  <2>5. Revision(k, n) \in Stored
    BY <2>2 DEF HistoryStored
  <2>6. HeldStored'
    <3>1. \A u \in Threads : pc'[u] \notin {"row", "fsync"}
      BY <2>3 DEF Locking
    <3>2. \A u \in Threads : pc'[u] = "neighbour" => held'[u] \in Stored
      BY <1>t, <2>1, <2>2, <2>5 DEF HeldStored
    <3> QED BY <1>s, <3>1, <3>2 DEF HeldStored
  <2> QED BY <1>r, <2>2, <2>4, <2>6
<1>11. ASSUME NEW t \in Threads, ResolveNeighbour(t) PROVE MemoryInv'
  <2>1. /\ pc' = [pc EXCEPT ![t] = "idle"] /\ UNCHANGED <<payloads, file, synced, history, rows>>
        /\ held' = [held EXCEPT ![t] = None]
        /\ \A u \in Threads : ~Locking(u)
    BY <1>11, <1>l DEF ResolveNeighbour, Goto, disk
  <2>2. \A u \in Threads : ~(Locking(u))'
    BY <1>t, <2>1 DEF Locking
  <2>3. HistoryStored' /\ HeldCurrent'
    BY <1>s, <2>1, <2>2 DEF HistoryStored, HeldCurrent, Revision
  <2>4. HeldStored'
    <3>1. \A u \in Threads : pc'[u] \notin {"row", "fsync"} /\ (pc'[u] = "neighbour" => pc[u] = "neighbour" /\ held'[u] = held[u])
      BY <1>t, <2>1, <2>2 DEF Locking
    <3> QED BY <1>s, <3>1 DEF HeldStored
  <2> QED BY <1>r, <2>1, <2>3, <2>4
<1>12. ASSUME NEW kind, Stop(kind) PROVE MemoryInv'
  <2>1. /\ history' = EmptyHistory /\ rows' = <<>> /\ pc' = [t \in Threads |-> "idle"]
    BY <1>12 DEF Stop, MemoryLost
  <2>2. \A u \in Threads : ~(Locking(u))' /\ pc'[u] = "idle"
    BY <2>1 DEF Locking
  <2> QED BY <2>1, <2>2 DEF RowsStored, HistoryStored, HeldCurrent, HeldStored, EmptyHistory
<1>14. CASE Open
  <2>1. rows' = file /\ history' = Restored(file) /\ UNCHANGED <<payloads, file, synced, pc, held>> /\ phase = "down"
    BY <1>14 DEF Open, disk
  <2>2. Kept = Len(file) /\ \A u \in Threads : pc[u] = "idle"
    BY <2>1 DEF FileInv, JournalTyped, Control
  <2>3. \A i \in 1..Len(file) : file[i] \in Stored
    BY <2>2 DEF Stored, LinesOf
  <2>4. RowsStored'
    BY <1>s, <2>1, <2>3 DEF RowsStored
  <2>5. HistoryStored'
    <3>1. ASSUME NEW j \in Keys, NEW n \in 1..Len(history'[j])
          PROVE  (Revision(j, n))' \in Stored'
      <4>1. [key |-> j, chain |-> SubSeq(Restored(file)[j], 1, n)] \in Stored
        BY <2>1, <2>3, <3>1, RestoredStored DEF JournalTyped, FileInv
      <4> QED BY <1>s, <2>1, <4>1 DEF Revision
    <3> QED BY <3>1 DEF HistoryStored
  <2>6. HeldCurrent' /\ HeldStored'
    BY <2>1, <2>2 DEF HeldCurrent, HeldStored, Locking
  <2> QED BY <2>4, <2>5, <2>6
<1>r1. ASSUME NEW t \in Threads, Rebuild(t) \/ RebuildFails(t) PROVE MemoryInv'
  BY <1>8, <1>r1 DEF Rebuild, RebuildFails, Goto, disk
<1>q. ASSUME \/ \E t \in Threads, k \in Keys, e \in Entries : AppendSame(t, k, e) \/ AppendRefused(t, k, e)
             \/ OpenRaises \/ Retry \/ UNCHANGED vars
      PROVE  MemoryInv'
  BY <1>1, <1>q DEF AppendSame, AppendRefused, OpenRaises, Retry, vars, disk, memory
<1> QED
  BY <1>3, <1>4, <1>5a, <1>5b, <1>6, <1>r1, <1>10, <1>11, <1>12, <1>14, <1>q
     DEF Next, Kill, PowerLoss

LEMMA StepAnsweredInv ==
  ASSUME WholeLines, JournalParameters, StoredInv, JournalTyped', [Next]_vars
  PROVE  AnsweredInv'
<1> USE DEF StoredInv
<1>s. Stored \subseteq Stored'
  BY StepStored, StepFileInv
<1>1. CASE UNCHANGED <<acked, answer>>
  BY <1>s, <1>1 DEF AnsweredInv
<1>2. ASSUME NEW k \in Keys, NEW e \in Entries, NEW r \in Stored', r.key = k, Last(r.chain) = e,
             acked' = acked \cup {<<k, e>>}, UNCHANGED answer
      PROVE  AnsweredInv'
  BY <1>s, <1>2 DEF AnsweredInv
<1>3. ASSUME NEW t \in Threads, NEW k \in Keys, NEW e \in Entries, AppendSame(t, k, e)
      PROVE  AnsweredInv'
  <2>1. /\ history[k] \in Seq(Entries) /\ history[k] # <<>> /\ e = Last(history[k])
        /\ \A u \in Threads : ~Locking(u)
    BY <1>3 DEF AppendSame, MayCall, Locked, Locking, JournalTyped, TypeOK, Newest
  <2>2. Len(history[k]) \in 1..Len(history[k])
    BY <2>1
  <2>3. Revision(k, Len(history[k])) \in Stored
    BY <2>1, <2>2 DEF MemoryInv, HistoryStored
  <2>4. SubSeq(history[k], 1, Len(history[k])) = history[k]
    BY <2>1
  <2> QED BY <1>2, <1>3, <1>s, <2>1, <2>3, <2>4 DEF AppendSame, memory, Revision
<1>4. ASSUME NEW t \in Threads, FsyncRow(t) PROVE AnsweredInv'
  <2>1. held[t] \in Stored'
    BY <1>4 DEF FsyncRow, MemoryInv, HeldStored, Stored, Kept
  <2>2. held[t].key \in Keys /\ Last(held[t].chain) \in Entries
    BY <1>4 DEF FsyncRow, JournalTyped, Control, Revisions, Last
  <2> QED BY <1>2, <1>4, <2>1, <2>2 DEF FsyncRow
<1>5. ASSUME NEW t \in Threads, ResolveNeighbour(t) PROVE AnsweredInv'
  <2> DEFINE r == held[t]
  <2>1. /\ r \in Revisions /\ r \in Stored /\ history[r.key] \in Seq(Entries) /\ r.key \in Keys
        /\ \A u \in Threads : ~Locking(u)
    BY <1>5 DEF ResolveNeighbour, JournalTyped, TypeOK, Control, Revisions, MemoryInv,
       HeldStored, Locked, Locking
  <2>2. \A n \in 1..Len(history[r.key]) : Revision(r.key, n) \in Stored
    BY <2>1 DEF MemoryInv, HistoryStored
  <2>3. Len(r.chain) \in Nat /\ Len(history[r.key]) \in Nat
    BY <2>1 DEF Revisions
  <2> HIDE DEF r
  <2>4. {PreviousRevision(r), NextRevision(r)} \ {None} \subseteq Stored
    BY <2>2, <2>3 DEF PreviousRevision, NextRevision, Knows
  <2>5. /\ answer'.anchor = r /\ answer'.found \in {PreviousRevision(r), NextRevision(r)}
        /\ UNCHANGED acked
    BY <1>5 DEF ResolveNeighbour, r
  <2> QED BY <1>s, <2>1, <2>4, <2>5 DEF AnsweredInv
<1>6. ASSUME NEW kind, Stop(kind) PROVE AnsweredInv'
  BY <1>6, <1>s DEF Stop, MemoryLost, AnsweredInv
<1> QED
  BY <1>1, <1>3, <1>4, <1>5, <1>6 DEF Next, vars, memory, AppendRefused, AppendCandidate,
     StorePayload, WriteRow, StoreFails, Rebuild, RebuildFails, ResolveAnchor, Kill,
     PowerLoss, Open, OpenRaises, Retry

LEMMA InitStored == JournalParameters /\ Init => StoredInv
<1> SUFFICES ASSUME JournalParameters, Init PROVE StoredInv
  OBVIOUS
<1>1. JournalTyped
  BY InitTyped
<1>2. FileInv
  BY EmptySeq DEF Init, FileInv, Kept
<1>3. MemoryInv
  BY DEF Init, MemoryInv, RowsStored, HistoryStored, HeldCurrent, HeldStored, Locking,
     EmptyHistory
<1>4. AnsweredInv
  BY DEF Init, AnsweredInv
<1> QED BY <1>1, <1>2, <1>3, <1>4 DEF StoredInv

LEMMA StepStoredInv == WholeLines /\ JournalParameters /\ StoredInv /\ [Next]_vars => StoredInv'
<1> SUFFICES ASSUME WholeLines, JournalParameters, StoredInv, [Next]_vars PROVE StoredInv'
  OBVIOUS
<1>1. JournalTyped'
  BY StepTyped DEF StoredInv
<1> QED BY <1>1, StepFileInv, StepMemoryInv, StepAnsweredInv DEF StoredInv

LEMMA StoredIsDurable == StoredInv => Durable = Stored /\ AckedSurvive
<1> SUFFICES ASSUME StoredInv PROVE Durable = Stored /\ AckedSurvive
  OBVIOUS
<1>1. Kept \in 0..Len(file)
  BY KeptType DEF StoredInv, JournalTyped
<1>2. Stored \subseteq payloads
  BY <1>1 DEF StoredInv, FileInv, Stored, LinesOf
<1>3. Durable = Stored
  BY <1>2 DEF Durable, Stored, LinesOf
<1> QED BY <1>3 DEF StoredInv, AnsweredInv, AckedSurvive

\* A revision append() returned is in the file and in the state store after any
\* number of crashes and errors, while no write leaves half a line; so is
\* every revision TemporalStateResolverV2 answered.
THEOREM JournalAckedSurvive ==
  ASSUME JournalParameters, WholeLines PROVE Spec => []AckedSurvive
<1>1. Init => StoredInv
  BY InitStored
<1>2. StoredInv /\ [Next]_vars => StoredInv'
  BY StepStoredInv
<1>3. StoredInv => AckedSurvive
  BY StoredIsDurable
<1> QED BY <1>1, <1>2, <1>3, PTL DEF Spec
-----------------------------------------------------------------------------
(* What a restart finds, when a write that raises leaves nothing behind.   *)

LEMMA CanonicalCut ==
  ASSUME NEW f \in Seq(Revisions), Canonical(f), NEW n \in 0..Len(f)
  PROVE  Canonical(SubSeq(f, 1, n))
<1> DEFINE g == SubSeq(f, 1, n)
<1>1. Len(g) = n /\ \A i \in 1..n : g[i] = f[i]
  BY SubSeqProperties
<1>2. ASSUME NEW i \in 1..n PROVE SubSeq(g, 1, i - 1) = SubSeq(f, 1, i - 1)
  <2>1. i - 1 \in 0..n
    OBVIOUS
  <2>2. \A j \in Nat : j <= n => SubSeq(SubSeq(f, 1, n), 1, j) = SubSeq(f, 1, j)
    OBVIOUS
  <2> QED BY <2>1, <2>2
<1> HIDE DEF g
<1>3. ASSUME NEW i \in 1..Len(g)
      PROVE  Extends(g[i].chain, HistoryOf(SubSeq(g, 1, i - 1), g[i].key))
  <2>1. i \in 1..n /\ i \in 1..Len(f)
    BY <1>1
  <2>2. g[i] = f[i] /\ SubSeq(g, 1, i - 1) = SubSeq(f, 1, i - 1)
    BY <1>1, <1>2, <2>1
  <2> QED BY <2>1, <2>2 DEF Canonical
<1> QED BY <1>3 DEF Canonical, g

LEMMA CanonicalAppend ==
  ASSUME NEW f \in Seq(Revisions), NEW r \in Revisions, Canonical(f),
         Extends(r.chain, HistoryOf(f, r.key))
  PROVE  Canonical(Append(f, r))
<1> DEFINE g == Append(f, r)
<1>1. Len(g) = Len(f) + 1 /\ g[Len(f) + 1] = r /\ \A i \in 1..Len(f) : g[i] = f[i]
  OBVIOUS
<1>2. \A i \in 1..Len(f) + 1 : SubSeq(g, 1, i - 1) = SubSeq(f, 1, i - 1)
  OBVIOUS
<1>3. SubSeq(f, 1, Len(f)) = f
  OBVIOUS
<1> HIDE DEF g
<1>4. ASSUME NEW i \in 1..Len(f)
      PROVE  Extends(g[i].chain, HistoryOf(SubSeq(g, 1, i - 1), g[i].key))
  <2>1. g[i] = f[i] /\ SubSeq(g, 1, i - 1) = SubSeq(f, 1, i - 1)
    <3>1. i \in 1..Len(f) + 1
      OBVIOUS
    <3> QED BY <1>1, <1>2, <3>1
  <2> QED BY <2>1 DEF Canonical
<1>5. Extends(g[Len(f) + 1].chain, HistoryOf(SubSeq(g, 1, (Len(f) + 1) - 1), g[Len(f) + 1].key))
  <2>1. SubSeq(g, 1, (Len(f) + 1) - 1) = SubSeq(f, 1, (Len(f) + 1) - 1) /\ (Len(f) + 1) - 1 = Len(f)
    BY <1>2
  <2> QED BY <1>1, <1>3, <2>1
<1>6. \A i \in 1..Len(g) : i \in 1..Len(f) \/ i = Len(f) + 1
  BY <1>1
<1> QED BY <1>4, <1>5, <1>6 DEF Canonical, g

LEMMA CanonicalRestorable ==
  ASSUME NEW f, Canonical(f)
  PROVE  Restorable(f)
  BY DEF Canonical, Restorable, Extends

\* One more row is one more entry of one history.
LEMMA RestoredAppend ==
  ASSUME NEW rs \in Seq(Revisions), NEW r \in Revisions
  PROVE  Restored(Append(rs, r)) = [Restored(rs) EXCEPT ![r.key] = r.chain]
<1>1. \A k \in Keys : HistoryOf(Append(rs, r), k) = IF r.key = k THEN r.chain ELSE HistoryOf(rs, k)
  BY HistoryOfAppend
<1> QED BY <1>1 DEF Restored

\* A chain that extends a history by one entry.
LEMMA ExtendsIsAppend ==
  ASSUME NEW chain \in Seq(Entries), chain # <<>>, NEW before, Extends(chain, before)
  PROVE  /\ before \in Seq(Entries) /\ chain = Append(before, Last(chain)) /\ Last(chain) \in Entries
         /\ Len(chain) = Len(before) + 1
         /\ \A n \in 0..Len(before) : SubSeq(chain, 1, n) = SubSeq(before, 1, n)
<1> HIDE DEF Entries
<1>1. before = SubSeq(chain, 1, Len(chain) - 1) /\ Len(chain) \in Nat \ {0}
  BY DEF Extends, Front
<1>2. /\ before \in Seq(Entries) /\ Len(before) = Len(chain) - 1
      /\ \A i \in 1..Len(chain) - 1 : before[i] = chain[i]
  <2>1. Len(chain) - 1 \in 0..Len(chain)
    BY <1>1
  <2> QED BY <1>1, <2>1, PrefixType
<1>3. Last(chain) \in Entries
  BY <1>1 DEF Last
<1>4. chain = Append(before, Last(chain))
  BY <1>1, <1>2, <1>3, SMTT(30) DEF Last
<1>5. \A n \in 0..Len(before) : SubSeq(chain, 1, n) = SubSeq(before, 1, n)
  BY <1>1, <1>2
<1> QED BY <1>1, <1>2, <1>3, <1>4, <1>5

LEMMA AppendExtends ==
  ASSUME NEW before \in Seq(Entries), NEW e \in Entries,
         before # <<>> => e.seq > Last(before).seq
  PROVE  Extends(Append(before, e), before)
<1> HIDE DEF Entries
<1>1. /\ Len(Append(before, e)) = Len(before) + 1 /\ Append(before, e)[Len(before) + 1] = e
      /\ SubSeq(Append(before, e), 1, Len(before)) = before
  OBVIOUS
<1>2. Len(Append(before, e)) - 1 = Len(before)
  BY <1>1
<1> QED BY <1>1, <1>2 DEF Extends, Front, Last

-----------------------------------------------------------------------------
LEMMA StepCanonical ==
  ASSUME JournalParameters, CleanStorage, CleanInv, StoredInv', [Next]_vars
  PROVE  Canonical(file)' /\ phase' # "refused"
<1> USE DEF CleanInv, StoredInv
<1>w. WholeLines
  BY DEF CleanStorage, WholeLines
<1>f. file \in Seq(Revisions) /\ rows \in Seq(Revisions)
  BY DEF FileInv, JournalTyped, TypeOK
<1>1. Canonical(file)'
  <2>1. CASE UNCHANGED file
    BY <2>1
  <2>2. ASSUME NEW t \in Threads, pc[t] = "row", file' = Append(file, held[t])
        PROVE  Canonical(file')
    <3>1. phase = "up" /\ held[t] \in Revisions /\ Locking(t)
      BY <2>2 DEF JournalTyped, Control, Locking
    <3>2. file = rows
      BY <2>2, <3>1 DEF LogInv, JournalTyped, Control, Locking
    <3>3. Extends(held[t].chain, HistoryOf(file, held[t].key))
      BY <3>1, <3>2 DEF JournalInv
    <3> QED BY <1>f, <2>2, <3>1, <3>3, CanonicalAppend
  <2>3. CASE PowerLoss
    <3>1. PICK n \in synced..Len(file) : file' = SubSeq(file, 1, n)
      BY <2>3 DEF PowerLoss
    <3>2. n \in 0..Len(file)
      BY DEF JournalTyped, TypeOK
    <3> QED BY <1>f, <3>1, <3>2, CanonicalCut
  <2> QED BY <1>w, <2>1, <2>2, <2>3, StepOfFile
<1>2. phase # "up" => Loads /\ Restorable(file)
  <2>1. \A i \in 1..Len(file) : file[i] # Torn /\ file[i] \in payloads
    BY <1>f DEF FileInv, JournalParameters
  <2> QED BY <2>1, CanonicalRestorable DEF Loads
<1>3. ~OpenRaises
  BY <1>2 DEF OpenRaises
<1>4. phase' # "refused"
  BY <1>3 DEF Next, vars, disk, memory, AppendSame, AppendRefused, AppendCandidate,
     StorePayload,
     WriteRow, FsyncRow, StoreFails, Rebuild, RebuildFails, ResolveAnchor, ResolveNeighbour,
     Kill, PowerLoss, Stop, MemoryLost, Open, Retry
<1> QED BY <1>1, <1>4

LEMMA StepLog ==
  ASSUME JournalParameters, CleanStorage, CleanInv, StoredInv', [Next]_vars
  PROVE  LogInv'
<1> USE DEF CleanInv, StoredInv
<1>f. file \in Seq(Revisions) /\ rows \in Seq(Revisions) /\ pc \in [Threads -> Pcs]
  BY DEF FileInv, JournalTyped, TypeOK
<1>u. \A t, u \in Threads : Locking(t) /\ Locking(u) => t = u
  BY DEF JournalTyped, Control
<1>c. \A t \in Threads : pc[t] # "idle" => phase = "up" /\ held[t] \in Revisions
  BY DEF JournalTyped, Control
<1>1. ASSUME UNCHANGED <<file, rows, synced, phase>>, NEW t \in Threads, pc[t] # "fsync", pc'[t] # "fsync",
             \A u \in Threads \ {t} : pc'[u] = pc[u] /\ held'[u] = held[u]
      PROVE  LogInv'
  BY <1>1 DEF LogInv
<1>2. ASSUME NEW t \in Threads, WriteRow(t) PROVE LogInv'
  <2>1. pc[t] = "row" /\ file' = WriteLine(file, held[t]) /\ held[t] \in Revisions /\ phase = "up"
    BY <1>2, <1>c DEF WriteRow
  <2>2. file' = Append(file, held[t])
    BY <1>f, <2>1 DEF WriteLine, JournalParameters
  <2>3. \A u \in Threads : pc[u] # "fsync"
    BY <1>u, <2>1 DEF Locking
  <2> QED BY <1>2, <1>f, <2>1, <2>2, <2>3 DEF WriteRow, Goto, LogInv
<1>3. ASSUME NEW t \in Threads, FsyncRow(t) PROVE LogInv'
  <2>1. pc[t] = "fsync" /\ phase = "up" /\ Locking(t)
    BY <1>3, <1>c DEF FsyncRow, Locking
  <2>2. file = Append(rows, held[t])
    BY <1>u, <2>1 DEF LogInv, Locking
  <2>3. \A u \in Threads : pc'[u] # "fsync"
    BY <1>3, <1>f, <1>u, <2>1 DEF FsyncRow, Goto, Locking
  <2> QED BY <1>3, <2>2, <2>3 DEF FsyncRow, LogInv
<1>4. ASSUME NEW t \in Threads, StoreFails(t) PROVE LogInv'
  <2>1. UNCHANGED <<file, rows, synced, phase>> /\ pc[t] # "fsync"
    <3>1. CASE pc[t] = "row"
      <4>1. PICK left \in ErrorLeaves :
              file' = CASE left = "nothing" -> file
                        [] left = "row"     -> WriteLine(file, held[t])
                        [] left = "torn"    -> WriteLine(file, Torn)
        BY <1>4, <3>1 DEF StoreFails
      <4>2. left = "nothing"
        BY DEF CleanStorage
      <4> QED BY <1>4, <3>1, <4>1, <4>2 DEF StoreFails
    <3> QED BY <1>4, <3>1 DEF StoreFails, CleanStorage
  <2>2. pc'[t] # "fsync" /\ \A u \in Threads \ {t} : pc'[u] = pc[u] /\ held'[u] = held[u]
    BY <1>4, <1>f DEF StoreFails, Goto
  <2> QED BY <1>1, <2>1, <2>2
<1>5. CASE Open
  <2>1. phase = "down" /\ file' = file /\ rows' = file /\ \A u \in Threads : pc'[u] # "fsync"
    BY <1>5, <1>c DEF Open, disk
  <2>2. "power" \in Stops => synced = Len(file)
    BY <2>1 DEF FileInv, Kept
  <2> QED BY <1>5, <2>1, <2>2 DEF LogInv, Open, disk
<1>6. CASE phase' # "up"
  BY <1>6 DEF LogInv
<1>7. CASE UNCHANGED <<file, rows, synced, phase, pc, held>>
  BY <1>7 DEF LogInv
<1>8. ASSUME NEW t \in Threads, NEW k \in Keys, NEW e \in Entries, AppendCandidate(t, k, e)
      PROVE  LogInv'
  BY <1>1, <1>8, <1>f, JournalTyped' DEF AppendCandidate, MayCall, Goto, disk, JournalTyped,
     TypeOK
<1>9. ASSUME NEW t \in Threads, NEW k \in Keys, ResolveAnchor(t, k) PROVE LogInv'
  <2>1. \A u \in Threads \ {t} : held'[u] = held[u]
    BY <1>9 DEF ResolveAnchor, JournalTyped, TypeOK
  <2> QED BY <1>1, <1>9, <1>f, <2>1 DEF ResolveAnchor, MayCall, Goto, disk
<1>10. ASSUME NEW t \in Threads, StorePayload(t) \/ Rebuild(t) \/ RebuildFails(t) \/ ResolveNeighbour(t)
       PROVE  LogInv'
  <2>1. \A u \in Threads \ {t} : held'[u] = held[u]
    BY <1>10 DEF StorePayload, Rebuild, RebuildFails, ResolveNeighbour, JournalTyped, TypeOK
  <2> QED BY <1>1, <1>10, <1>f, <2>1 DEF StorePayload, Rebuild, RebuildFails,
      ResolveNeighbour, Goto, disk
<1> QED
  BY <1>2, <1>3, <1>4, <1>5, <1>6, <1>7, <1>8, <1>9, <1>10 DEF Next, vars, disk, memory,
     AppendSame, AppendRefused, Kill, PowerLoss, Stop, MemoryLost, OpenRaises, Retry

LEMMA StepJournal ==
  ASSUME JournalParameters, CleanStorage, CleanInv, StoredInv', [Next]_vars
  PROVE  JournalInv'
<1> USE DEF CleanInv, StoredInv
<1>t. /\ pc \in [Threads -> Pcs] /\ held \in [Threads -> Revisions \cup {None}]
      /\ history \in [Keys -> Seq(Entries)] /\ rows \in Seq(Revisions)
  BY DEF JournalTyped, TypeOK
<1>u. \A t, u \in Threads : Locking(t) /\ Locking(u) => t = u
  BY DEF JournalTyped, Control
<1>c. \A t \in Threads : pc[t] # "idle" => phase = "up" /\ held[t] \in Revisions /\ held[t].key \in Keys
  BY DEF JournalTyped, Control, Revisions
<1>l. Locked <=> \E t \in Threads : Locking(t)
  BY DEF Locked, Locking
<1>n. Locked' <=> \E t \in Threads : (Locking(t))'
  BY DEF Locked, Locking
<1>1. ASSUME UNCHANGED <<history, rows, phase>>,
             \A u \in Threads : ((Locking(u))' <=> Locking(u)) /\ (Locking(u) => held'[u] = held[u])
      PROVE  JournalInv'
  BY <1>1, <1>l, <1>n DEF JournalInv, Restored
<1>2. ASSUME NEW t \in Threads, Locking(t), phase' = "up", rows' = rows, history' = Restored(rows),
             \A u \in Threads \ {t} : pc'[u] = pc[u], pc'[t] = "idle"
      PROVE  JournalInv'
  <2>1. \A u \in Threads : ~(Locking(u))'
    BY <1>2, <1>u DEF Locking
  <2> QED BY <1>2, <2>1, <1>n DEF JournalInv, Restored
<1>3. ASSUME NEW t \in Threads, NEW k \in Keys, NEW e \in Entries, AppendCandidate(t, k, e)
      PROVE  JournalInv'
  <2>1. /\ phase = "up" /\ ~Locked /\ UNCHANGED <<rows, phase>>
        /\ history' = [history EXCEPT ![k] = Append(history[k], e)]
        /\ held' = [held EXCEPT ![t] = [key |-> k, chain |-> history'[k]]]
        /\ pc' = [pc EXCEPT ![t] = "payload"]
        /\ history[k] # <<>> => e.seq > Last(history[k]).seq
    BY <1>3 DEF AppendCandidate, MayCall, Goto, Newest
  <2>2. history = Restored(rows) /\ history[k] = HistoryOf(rows, k)
    BY <2>1 DEF JournalInv, Restored
  <2>3. held'[t].key = k /\ held'[t].chain = Append(history[k], e)
    BY <1>t, <2>1
  <2>4. Extends(Append(history[k], e), history[k])
    BY <1>t, <2>1, AppendExtends
  <2>5. \A u \in Threads : (Locking(u))' <=> u = t
    BY <1>t, <1>l, <2>1 DEF Locking
  <2> QED BY <1>n, <2>1, <2>2, <2>3, <2>4, <2>5 DEF JournalInv, Restored
<1>4. ASSUME NEW t \in Threads, FsyncRow(t) PROVE JournalInv'
  <2>1. /\ pc[t] = "fsync" /\ phase = "up" /\ Locking(t) /\ held[t] \in Revisions
        /\ rows' = Append(rows, held[t]) /\ UNCHANGED <<phase, history>> /\ pc' = [pc EXCEPT ![t] = "idle"]
    BY <1>4, <1>c DEF FsyncRow, Locking, Goto
  <2>2. history = [Restored(rows) EXCEPT ![held[t].key] = held[t].chain]
    BY <2>1 DEF JournalInv
  <2>3. history = Restored(rows')
    BY <1>t, <2>1, <2>2, RestoredAppend
  <2>4. \A u \in Threads : ~(Locking(u))'
    BY <1>t, <1>u, <2>1 DEF Locking
  <2> QED BY <1>n, <2>1, <2>3, <2>4 DEF JournalInv, Restored
<1>5. ASSUME NEW t \in Threads, StoreFails(t) PROVE JournalInv'
  <2>1. /\ Locking(t) /\ UNCHANGED <<history, rows, phase, held>> /\ pc' = [pc EXCEPT ![t] = "rebuild"]
    BY <1>5 DEF StoreFails, Goto, Locking
  <2> QED BY <1>1, <1>t, <2>1 DEF Locking
<1>6. ASSUME NEW t \in Threads, StorePayload(t) \/ WriteRow(t) PROVE JournalInv'
  <2>1. /\ Locking(t) /\ UNCHANGED <<history, rows, phase, held>> /\ pc' \in {[pc EXCEPT ![t] = "row"], [pc EXCEPT ![t] = "fsync"]}
    BY <1>6 DEF StorePayload, WriteRow, Goto, Locking
  <2> QED BY <1>1, <1>t, <2>1 DEF Locking
<1>7. ASSUME NEW t \in Threads, Rebuild(t) PROVE JournalInv'
  BY <1>2, <1>7, <1>t, <1>c DEF Rebuild, Goto, Locking
<1>8. ASSUME NEW t \in Threads, RebuildFails(t) PROVE JournalInv'
  BY <1>8 DEF RebuildFails, CleanStorage
<1>9. ASSUME NEW t \in Threads, \/ \E k \in Keys : ResolveAnchor(t, k)
                               \/ ResolveNeighbour(t)
      PROVE  JournalInv'
  <2>1. /\ ~Locking(t) /\ UNCHANGED <<history, rows, phase>> /\ \A u \in Threads \ {t} : held'[u] = held[u]
        /\ pc' \in {[pc EXCEPT ![t] = "neighbour"], [pc EXCEPT ![t] = "idle"]}
    BY <1>9, <1>t DEF ResolveAnchor, ResolveNeighbour, Goto, Locking, MayCall
  <2> QED BY <1>1, <1>t, <2>1 DEF Locking
<1>10. CASE phase' # "up"
  BY <1>10 DEF JournalInv
<1>11. CASE Open
  <2>1. \A u \in Threads : ~(Locking(u))'
    BY <1>11, <1>c DEF Open, Locking
  <2> QED BY <1>11, <1>n, <2>1 DEF JournalInv, Open, Restored
<1>12. CASE UNCHANGED <<history, rows, phase, pc, held>>
  BY <1>1, <1>12 DEF Locking
<1> QED
  BY <1>3, <1>4, <1>5, <1>6, <1>7, <1>8, <1>9, <1>10, <1>11, <1>12 DEF Next, vars, disk,
     memory,
     AppendSame, AppendRefused, Kill, PowerLoss, Stop, MemoryLost, OpenRaises, Retry

LEMMA StepAnchors ==
  ASSUME JournalParameters, CleanStorage, CleanInv, StoredInv', [Next]_vars
  PROVE  AnchorsInv'
<1> USE DEF CleanInv, StoredInv
<1>t. /\ pc \in [Threads -> Pcs] /\ held \in [Threads -> Revisions \cup {None}]
      /\ history \in [Keys -> Seq(Entries)] /\ rows \in Seq(Revisions)
  BY DEF JournalTyped, TypeOK
<1>c. \A t \in Threads : pc[t] # "idle" => phase = "up" /\ held[t] \in Revisions /\ held[t].key \in Keys
  BY DEF JournalTyped, Control, Revisions
<1>1. ASSUME UNCHANGED rows, \A u \in Threads : pc'[u] = "neighbour" => pc[u] = "neighbour" /\ held'[u] = held[u]
      PROVE  AnchorsInv'
  BY <1>1 DEF AnchorsInv
<1>2. ASSUME NEW t \in Threads, FsyncRow(t) PROVE AnchorsInv'
  <2>1. /\ pc[t] = "fsync" /\ phase = "up" /\ Locking(t) /\ held[t] \in Revisions /\ held[t].chain # <<>>
        /\ rows' = Append(rows, held[t])
    BY <1>2, <1>c DEF FsyncRow, Locking, JournalTyped, Control
  <2>2. Extends(held[t].chain, HistoryOf(rows, held[t].key)) /\ held[t].chain \in Seq(Entries)
    BY <2>1 DEF JournalInv, Revisions
  <2>3. ASSUME NEW u \in Threads, pc'[u] = "neighbour"
        PROVE  /\ Len(held'[u].chain) <= Len(HistoryOf(rows', held'[u].key))
               /\ held'[u].chain = SubSeq(HistoryOf(rows', held'[u].key), 1, Len(held'[u].chain))
    <3> DEFINE k == held[u].key
               n == Len(held[u].chain)
    <3>1. held'[u] = held[u] /\ pc[u] = "neighbour"
      BY <1>2, <1>t, <2>3 DEF FsyncRow, Goto
    <3>2. n <= Len(HistoryOf(rows, k)) /\ held[u].chain = SubSeq(HistoryOf(rows, k), 1, n)
      BY <3>1 DEF AnchorsInv
    <3>3. n \in Nat
      BY <1>c, <3>1 DEF Revisions
    <3>4. HistoryOf(rows', k) = IF held[t].key = k THEN held[t].chain ELSE HistoryOf(rows, k)
      BY <1>t, <2>1, HistoryOfAppend
    <3>5. CASE held[t].key = k
      <4>1. /\ Len(held[t].chain) = Len(HistoryOf(rows, k)) + 1 /\ HistoryOf(rows, k) \in Seq(Entries)
            /\ \A j \in 0..Len(HistoryOf(rows, k)) : SubSeq(held[t].chain, 1, j) = SubSeq(HistoryOf(rows, k), 1, j)
        BY <2>1, <2>2, <3>5, ExtendsIsAppend
      <4>2. n \in 0..Len(HistoryOf(rows, k)) /\ Len(HistoryOf(rows, k)) \in Nat
        BY <3>2, <3>3, <4>1
      <4> HIDE DEF k, n
      <4>3. SubSeq(held[t].chain, 1, n) = held[u].chain /\ n <= Len(held[t].chain)
        BY <3>2, <4>1, <4>2
      <4> QED BY <3>1, <3>4, <3>5, <4>3 DEF k, n
    <3> QED BY <3>1, <3>2, <3>4, <3>5
  <2> QED BY <2>3 DEF AnchorsInv
<1>3. ASSUME NEW t \in Threads, NEW k \in Keys, ResolveAnchor(t, k) PROVE AnchorsInv'
  <2>1. PICK n \in 1..Len(history[k]) : held' = [held EXCEPT ![t] = Revision(k, n)]
    BY <1>3 DEF ResolveAnchor
  <2>2. history[k] = HistoryOf(rows, k) /\ UNCHANGED rows /\ pc' = [pc EXCEPT ![t] = "neighbour"]
    BY <1>3 DEF ResolveAnchor, MayCall, Goto, JournalInv, Restored
  <2>3. held'[t].key = k /\ held'[t].chain = SubSeq(history[k], 1, n) /\ n \in 0..Len(history[k])
    BY <1>t, <2>1 DEF Revision
  <2>4. Len(held'[t].chain) = n
    BY <1>t, <2>3, PrefixType
  <2>5. ASSUME NEW u \in Threads, u # t, pc'[u] = "neighbour"
        PROVE  pc[u] = "neighbour" /\ held'[u] = held[u]
    BY <1>t, <2>1, <2>2, <2>5
  <2>6. /\ Len(held'[t].chain) <= Len(HistoryOf(rows', held'[t].key))
        /\ held'[t].chain = SubSeq(HistoryOf(rows', held'[t].key), 1, Len(held'[t].chain))
    <3>1. n <= Len(history[k]) /\ HistoryOf(rows', held'[t].key) = history[k]
      BY <2>2, <2>3
    <3> QED BY <2>3, <2>4, <3>1
  <2> QED BY <2>2, <2>5, <2>6 DEF AnchorsInv
<1>4. CASE Open \/ OpenRaises \/ Retry
  BY <1>4, <1>c DEF Open, OpenRaises, Retry, AnchorsInv
<1>5. ASSUME NEW kind, Stop(kind) PROVE AnchorsInv'
  BY <1>5 DEF Stop, MemoryLost, AnchorsInv
<1>6. ASSUME NEW t \in Threads,
             \/ \E k \in Keys, e \in Entries : AppendCandidate(t, k, e)
             \/ StorePayload(t) \/ WriteRow(t) \/ StoreFails(t) \/ Rebuild(t) \/ RebuildFails(t)
             \/ ResolveNeighbour(t)
      PROVE  AnchorsInv'
  BY <1>1, <1>6, <1>t DEF AppendCandidate, StorePayload, WriteRow, StoreFails, Rebuild,
     RebuildFails, ResolveNeighbour, Goto, disk
<1>7. CASE UNCHANGED <<rows, pc, held>>
  BY <1>1, <1>7
<1> QED
  BY <1>2, <1>3, <1>4, <1>5, <1>6, <1>7 DEF Next, vars, disk, memory, AppendSame,
     AppendRefused,
     Kill, PowerLoss

LEMMA DurableNext ==
  ASSUME StoredInv'
  PROVE  Durable' = Stored'
<1>1. Kept' \in 0..Len(file')
  BY DEF StoredInv, JournalTyped, TypeOK, Kept
<1>2. Stored' \subseteq payloads'
  BY <1>1 DEF StoredInv, FileInv, Stored, LinesOf
<1> QED BY <1>2 DEF Durable, Stored, LinesOf

\* Replacing the chain of a revision.
LEMMA ChainReplaced ==
  ASSUME NEW r \in Revisions, NEW c
  PROVE  [r EXCEPT !.chain = c] = [key |-> r.key, chain |-> c]
  BY DEF Revisions

\* Between two appends every anchor that waits for its neighbour is in memory.
AnchorsKnown ==
  ~Locked => \A t \in Threads : pc[t] = "neighbour" => Knows(held[t])

LEMMA CleanKnowsAnchors == ASSUME JournalParameters, CleanInv PROVE AnchorsKnown
<1> SUFFICES ASSUME ~Locked, NEW t \in Threads, pc[t] = "neighbour" PROVE Knows(held[t])
  BY DEF AnchorsKnown
<1> DEFINE r == held[t]
           n == Len(r.chain)
           h == history[r.key]
<1>1. /\ r \in Revisions /\ r.key \in Keys /\ r.chain \in Seq(Entries) /\ r.chain # <<>>
      /\ h \in Seq(Entries) /\ phase = "up"
  BY DEF CleanInv, StoredInv, JournalTyped, TypeOK, Control, Revisions
<1>2. h = HistoryOf(rows, r.key)
  BY <1>1 DEF CleanInv, JournalInv, Restored
<1>3. n <= Len(h) /\ r.chain = SubSeq(h, 1, n)
  BY <1>2 DEF CleanInv, AnchorsInv
<1> QED
  BY <1>1, <1>3 DEF Revision, Knows, Revisions

\* It matters to an answer only that its anchor is still known.
LEMMA StepAdjacent ==
  ASSUME JournalParameters, StoredInv, AnchorsKnown, AnswersAreAdjacent, StoredInv', [Next]_vars
  PROVE  AnswersAreAdjacent'
<1>d. Durable' = Stored'
  BY DurableNext
<1>1. CASE UNCHANGED answer
  <2>1. answer # None => {answer.anchor, answer.found} \ {None} \subseteq Stored'
    BY <1>1 DEF StoredInv, AnsweredInv
  <2> QED BY <1>1, <1>d, <2>1 DEF AnswersAreAdjacent
<1>2. ASSUME NEW t \in Threads, ResolveNeighbour(t) PROVE AnswersAreAdjacent'
  <2> DEFINE r == held[t]
             n == Len(r.chain)
             h == history[r.key]
  <2>1. /\ r \in Revisions /\ r.key \in Keys /\ r.chain \in Seq(Entries) /\ r.chain # <<>>
        /\ h \in Seq(Entries) /\ phase = "up" /\ ~Locked /\ pc[t] = "neighbour"
    BY <1>2 DEF ResolveNeighbour, StoredInv, JournalTyped, TypeOK, Control, Revisions
  <2>2. Knows(r)
    BY <2>1 DEF AnchorsKnown
  <2>3. n \in 1..Len(h) /\ r.chain = SubSeq(h, 1, n)
    <3>1. n \in Nat \ {0}
      BY <2>1
    <3>2. r.chain = Revision(r.key, n).chain
      BY <2>2 DEF Knows
    <3> QED BY <2>2, <3>1, <3>2 DEF Knows, Revision
  <2>4. r = Revision(r.key, n) /\ Knows(r)
    BY <2>2 DEF Knows
  <2>5. \A m \in 1..Len(h) : /\ Revision(r.key, m) # None
                            /\ Revision(r.key, m).chain = SubSeq(h, 1, m)
                            /\ Revision(r.key, m).key = r.key
    <3>1. \A m \in 1..Len(h) : Revision(r.key, m) \in Revisions
      BY <2>1, PrefixType DEF Revision, Revisions
    <3> QED BY <3>1 DEF Revision, JournalParameters
  <2> HIDE DEF n, h
  <2>6. CASE answer' = [anchor |-> r, way |-> "reverse", found |-> PreviousRevision(r)]
    <3>1. CASE n = 1
      BY <1>d, <2>4, <2>6, <3>1, StoredInv' DEF AnswersAreAdjacent, PreviousRevision,
         StoredInv, AnsweredInv, n
    <3>2. CASE n # 1
      <4>1. PreviousRevision(r) = Revision(r.key, n - 1) /\ n - 1 \in 1..Len(h)
        <5>1. n > 1 /\ n - 1 \in 1..Len(h)
          BY <2>1, <2>3, <3>2
        <5> QED BY <2>4, <5>1 DEF PreviousRevision, n
      <4>2. Front(r.chain) = SubSeq(h, 1, n - 1)
        <5>1. Front(r.chain) = SubSeq(SubSeq(h, 1, n), 1, n - 1)
          BY <2>3 DEF Front, n
        <5>2. n \in 0..Len(h) /\ n - 1 \in 0..n
          BY <2>1, <2>3
        <5> QED BY <2>1, <5>1, <5>2
      <4>3. PreviousRevision(r) = [r EXCEPT !.chain = Front(r.chain)]
        <5>1. [r EXCEPT !.chain = Front(r.chain)] = [key |-> r.key, chain |-> Front(r.chain)]
          BY <2>1, ChainReplaced
        <5> QED BY <4>1, <4>2, <5>1 DEF Revision, h
      <4> QED BY <1>d, <2>1, <2>6, <3>2, <4>3, StoredInv' DEF AnswersAreAdjacent, StoredInv,
          AnsweredInv, n
    <3> QED BY <3>1, <3>2
  <2>7. CASE answer' = [anchor |-> r, way |-> "forward", found |-> NextRevision(r)]
    <3>1. CASE NextRevision(r) = None
      BY <1>d, <2>7, <3>1, StoredInv' DEF AnswersAreAdjacent, StoredInv, AnsweredInv
    <3>2. CASE NextRevision(r) # None
      <4> DEFINE found == NextRevision(r)
      <4>1. found = Revision(r.key, n + 1) /\ n + 1 \in 1..Len(h)
        BY <2>1, <2>3, <2>4, <3>2 DEF NextRevision, n, h
      <4>2. found.chain = SubSeq(h, 1, n + 1) /\ Len(found.chain) = n + 1 /\ found.key = r.key
        BY <2>1, <2>5, <4>1, PrefixType
      <4>3. Front(found.chain) = SubSeq(h, 1, n)
        <5>1. Front(found.chain) = SubSeq(SubSeq(h, 1, n + 1), 1, n)
          <6>1. (n + 1) - 1 = n
            BY <2>3
          <6> QED BY <4>2, <6>1 DEF Front
        <5>2. n + 1 \in 0..Len(h) /\ n \in 0..n + 1
          BY <2>1, <2>3, <4>1
        <5> QED BY <2>1, <5>1, <5>2
      <4>4. r = [found EXCEPT !.chain = Front(found.chain)]
        <5>1. found \in Revisions
          BY <2>1, <4>1, PrefixType DEF Revision, Revisions, h
        <5> HIDE DEF found
        <5>2. [found EXCEPT !.chain = Front(found.chain)] = [key |-> r.key, chain |-> SubSeq(h, 1, n)]
          BY <4>2, <4>3, <5>1, ChainReplaced
        <5> QED BY <2>4, <5>2 DEF Revision, h
      <4> QED BY <1>d, <2>1, <2>7, <3>2, <4>4, StoredInv' DEF AnswersAreAdjacent, StoredInv,
          AnsweredInv
    <3> QED BY <3>1, <3>2
  <2> QED BY <1>2, <2>6, <2>7 DEF ResolveNeighbour
<1>3. ASSUME NEW kind, Stop(kind) PROVE AnswersAreAdjacent'
  BY <1>3 DEF Stop, MemoryLost, AnswersAreAdjacent
<1> QED
  BY <1>1, <1>2, <1>3 DEF Next, vars, memory, AppendSame, AppendRefused, AppendCandidate,
     StorePayload, WriteRow, FsyncRow, StoreFails, Rebuild, RebuildFails, ResolveAnchor, Kill,
     PowerLoss, Open, OpenRaises, Retry

LEMMA InitClean == JournalParameters /\ Init => CleanInv
<1> SUFFICES ASSUME JournalParameters, Init PROVE CleanInv
  OBVIOUS
<1>1. StoredInv
  BY InitStored
<1> QED BY <1>1 DEF Init, CleanInv, Canonical, LogInv, JournalInv, AnchorsInv,
    AnswersAreAdjacent

LEMMA StepClean == JournalParameters /\ CleanStorage /\ CleanInv /\ [Next]_vars => CleanInv'
<1> SUFFICES ASSUME JournalParameters, CleanStorage, CleanInv, [Next]_vars PROVE CleanInv'
  OBVIOUS
<1>1. StoredInv'
  BY StepStoredInv DEF CleanInv, CleanStorage, WholeLines
<1>2. StoredInv /\ AnchorsKnown /\ AnswersAreAdjacent
  BY CleanKnowsAnchors DEF CleanInv
<1> QED
  BY <1>1, <1>2, StepCanonical, StepLog, StepJournal, StepAnchors, StepAdjacent DEF CleanInv

\* Between two appends the index holds the rows the process knows, all durable.
LEMMA UnlockedLog ==
  ASSUME CleanInv, phase = "up", \A t \in Threads : pc[t] # "fsync"
  PROVE  file = rows /\ Kept = Len(file) /\ SubSeq(file, 1, Kept) = file
<1>1. file = rows /\ file \in Seq(Revisions)
  BY DEF CleanInv, LogInv, StoredInv, FileInv
<1>2. Kept = Len(file)
  BY <1>1 DEF CleanInv, LogInv, Kept
<1> QED BY <1>1, <1>2

LEMMA CleanIsReadable == CleanInv => ReadersSeeDurable
<1> SUFFICES ASSUME CleanInv, phase = "up", ~Locked PROVE history = Restored(SubSeq(file, 1, Kept))
  BY DEF ReadersSeeDurable
<1>1. file = rows /\ SubSeq(file, 1, Kept) = file
  BY UnlockedLog DEF Locked
<1> QED BY <1>1 DEF CleanInv, JournalInv

\* _load() never refuses the file on clean storage, and reads from it one chain
\* for each key, each revision after the one its predecessor names.
THEOREM JournalReopens == ASSUME JournalParameters, CleanStorage PROVE Spec => []ReopensCanonical
<1>1. Init => CleanInv
  BY InitClean
<1>2. CleanInv /\ [Next]_vars => CleanInv'
  BY StepClean
<1>3. CleanInv => ReopensCanonical
  BY DEF CleanInv, ReopensCanonical
<1> QED BY <1>1, <1>2, <1>3, PTL DEF Spec

\* A reader outside append() sees the journal a restart would restore: nothing a
\* failed append left in memory, and nothing that is not durable.
THEOREM JournalReaders == ASSUME JournalParameters, CleanStorage PROVE Spec => []ReadersSeeDurable
<1>1. Init => CleanInv
  BY InitClean
<1>2. CleanInv /\ [Next]_vars => CleanInv'
  BY StepClean
<1> QED BY <1>1, <1>2, CleanIsReadable, PTL DEF Spec

\* TemporalStateResolverV2 on clean storage: the neighbour it returns for an
\* anchor is the revision right before or after it in one history, also when
\* another thread appends between its two steps.
THEOREM JournalAnswers == ASSUME JournalParameters, CleanStorage PROVE Spec => []AnswersAreAdjacent
<1>1. Init => CleanInv
  BY InitClean
<1>2. CleanInv /\ [Next]_vars => CleanInv'
  BY StepClean
<1>3. CleanInv => AnswersAreAdjacent
  BY DEF CleanInv
<1> QED BY <1>1, <1>2, <1>3, PTL DEF Spec

-----------------------------------------------------------------------------
(* A caller without rivals, on storage that may leave a line and may fail  *)
(* to rebuild: memory may then lack what the file holds, but nothing comes *)
(* between an anchor and its neighbour.                                    *)

OneCaller == \A t, u \in Threads : t = u

AloneInv == StoredInv /\ AnchorsKnown /\ AnswersAreAdjacent

LEMMA StepAnchorsKnown ==
  ASSUME OneCaller, StoredInv, AnchorsKnown, [Next]_vars PROVE AnchorsKnown'
<1>t. /\ pc \in [Threads -> Pcs] /\ held \in [Threads -> Revisions \cup {None}]
      /\ history \in [Keys -> Seq(Entries)]
  BY DEF StoredInv, JournalTyped, TypeOK
<1>1. ASSUME NEW t \in Threads, pc'[t] # "neighbour" PROVE AnchorsKnown'
  BY <1>1 DEF AnchorsKnown, OneCaller
<1>2. ASSUME UNCHANGED <<history, pc, held>> PROVE AnchorsKnown'
  BY <1>2 DEF AnchorsKnown, Locked, Knows, Revision
<1>3. ASSUME NEW t \in Threads,
             \/ \E k \in Keys, e \in Entries : AppendCandidate(t, k, e)
             \/ StorePayload(t) \/ WriteRow(t) \/ FsyncRow(t) \/ StoreFails(t) \/ Rebuild(t)
             \/ RebuildFails(t) \/ ResolveNeighbour(t)
      PROVE  AnchorsKnown'
  <2>1. \E label \in Pcs \ {"neighbour"} : pc' = [pc EXCEPT ![t] = label]
    BY <1>3 DEF AppendCandidate, StorePayload, WriteRow, FsyncRow, StoreFails, Rebuild,
       RebuildFails, ResolveNeighbour, Goto, Pcs
  <2> QED BY <1>1, <1>t, <2>1
<1>4. ASSUME NEW t \in Threads, NEW k \in Keys, ResolveAnchor(t, k) PROVE AnchorsKnown'
  <2>1. PICK n \in 1..Len(history[k]) : held' = [held EXCEPT ![t] = Revision(k, n)]
    BY <1>4 DEF ResolveAnchor
  <2>2. history' = history /\ held'[t] = Revision(k, n)
    BY <1>4, <1>t, <2>1 DEF ResolveAnchor
  <2>3. Len(SubSeq(history[k], 1, n)) = n
    BY <1>t, PrefixType
  <2>4. Knows(held[t])'
    BY <2>2, <2>3 DEF Knows, Revision
  <2> QED BY <2>4 DEF AnchorsKnown, OneCaller
<1>5. CASE Kill \/ PowerLoss
  BY <1>5 DEF Kill, PowerLoss, Stop, MemoryLost, AnchorsKnown
<1>6. CASE Open \/ OpenRaises \/ Retry
  <2>1. \A t \in Threads : pc[t] = "idle" /\ pc' = pc
    BY <1>6 DEF Open, OpenRaises, Retry, StoredInv, JournalTyped, Control
  <2> QED BY <2>1 DEF AnchorsKnown
<1>7. ASSUME NEW t \in Threads, NEW k \in Keys, NEW e \in Entries,
             AppendSame(t, k, e) \/ AppendRefused(t, k, e)
      PROVE  AnchorsKnown'
  BY <1>2, <1>7 DEF AppendSame, AppendRefused, memory
<1> QED
  BY <1>2, <1>3, <1>4, <1>5, <1>6, <1>7 DEF Next, vars, memory

LEMMA InitAlone == JournalParameters /\ Init => AloneInv
<1> SUFFICES ASSUME JournalParameters, Init PROVE AloneInv
  OBVIOUS
<1>1. StoredInv
  BY InitStored
<1> QED BY <1>1 DEF Init, AloneInv, AnchorsKnown, AnswersAreAdjacent

LEMMA StepAlone ==
  ASSUME JournalParameters, WholeLines, OneCaller, AloneInv, [Next]_vars PROVE AloneInv'
<1>1. StoredInv'
  BY StepStoredInv DEF AloneInv
<1> QED BY <1>1, StepAnchorsKnown, StepAdjacent DEF AloneInv

\* The resolver's answers to a caller without rivals are durable true neighbours,
\* also when failed appends left lines behind and a rebuild failed.
THEOREM JournalAnswersAlone ==
  ASSUME JournalParameters, WholeLines, OneCaller PROVE Spec => []AnswersAreAdjacent
<1>1. Init => AloneInv
  BY InitAlone
<1>2. AloneInv /\ [Next]_vars => AloneInv'
  BY StepAlone
<1>3. AloneInv => AnswersAreAdjacent
  BY DEF AloneInv
<1> QED BY <1>1, <1>2, <1>3, PTL DEF Spec

-----------------------------------------------------------------------------
(* The journal implements the revision history.                            *)

DurableHistory == Restored(SubSeq(file, 1, Kept))

\* One more durable line is one more entry of the durable history.
LEMMA RevisedBy ==
  ASSUME JournalParameters, NEW rs \in Seq(Revisions), NEW r \in Revisions, r.chain # <<>>,
         Extends(r.chain, HistoryOf(rs, r.key)),
         DurableHistory = Restored(rs), DurableHistory' = Restored(Append(rs, r)),
         acked' \in {acked, acked \cup {<<r.key, Last(r.chain)>>}}, UNCHANGED refused
  PROVE  Abstract!Revise(r.key, Last(r.chain))
<1> DEFINE k == r.key
           e == Last(r.chain)
           before == HistoryOf(rs, k)
<1>1. k \in Keys /\ r.chain \in Seq(Entries)
  BY DEF Revisions
<1>2. before \in Seq(Entries) /\ r.chain = Append(before, e)
  BY <1>1, ExtendsIsAppend
<1>3. before # <<>> => e.seq > before[Len(before)].seq
  BY DEF Extends, Last
<1>4. Restored(rs)[k] = before
  BY <1>1 DEF Restored
<1>5. Restored(Append(rs, r)) = [Restored(rs) EXCEPT ![k] = Append(before, e)]
  BY <1>2, RestoredAppend
<1> HIDE DEF before
<1> QED BY <1>3, <1>4, <1>5 DEF Abstract!Revise, Abstract!Newest, DurableHistory

LEMMA InitRefines == JournalParameters /\ Init => Abstract!Init
<1> SUFFICES ASSUME JournalParameters, Init PROVE Abstract!Init
  OBVIOUS
<1>1. Kept = 0 /\ file = <<>>
  BY DEF Init, Kept
<1>2. SubSeq(file, 1, Kept) = <<>>
  BY <1>1
<1>3. \A k : HistoryOf(<<>>, k) = <<>>
  BY DEF HistoryOf
<1> QED BY <1>2, <1>3 DEF Init, Abstract!Init, Restored

LEMMA CleanFailure ==
  ASSUME CleanStorage, NEW t \in Threads, StoreFails(t)
  PROVE  UNCHANGED <<file, synced, acked, refused>>
<1>1. CASE pc[t] = "row"
  <2>1. PICK left \in ErrorLeaves :
          file' = CASE left = "nothing" -> file
                    [] left = "row"     -> WriteLine(file, held[t])
                    [] left = "torn"    -> WriteLine(file, Torn)
    BY <1>1 DEF StoreFails
  <2>2. left = "nothing"
    BY DEF CleanStorage
  <2> QED BY <2>1, <2>2 DEF StoreFails
<1> QED BY <1>1 DEF StoreFails

LEMMA StepRefines ==
  ASSUME JournalParameters, CleanStorage, CleanInv, CleanInv', [Next]_vars
  PROVE  [Abstract!Next]_(Abstract!historyVars)
<1> USE DEF DurableHistory
<1>t. /\ pc \in [Threads -> Pcs] /\ rows \in Seq(Revisions) /\ file \in Seq(Revisions) /\ synced \in 0..Len(file)
      /\ history \in [Keys -> Seq(Entries)]
  BY DEF CleanInv, StoredInv, JournalTyped, TypeOK, FileInv
<1>u. \A t, u \in Threads : Locking(t) /\ Locking(u) => t = u
  BY DEF CleanInv, StoredInv, JournalTyped, Control
<1>c. \A t \in Threads : pc[t] # "idle" => /\ phase = "up" /\ held[t] \in Revisions /\ held[t].chain # <<>>
                                          /\ held[t].key \in Keys /\ held[t].chain \in Seq(Entries)
                                          /\ Last(held[t].chain) \in Entries
  BY DEF CleanInv, StoredInv, JournalTyped, Control, Revisions, Last
<1>x. \A t \in Threads : Locking(t) => Extends(held[t].chain, HistoryOf(rows, held[t].key))
  BY <1>c DEF CleanInv, JournalInv, Locking
<1>s. UNCHANGED <<DurableHistory, acked, refused>> => [Abstract!Next]_(Abstract!historyVars)
  BY DEF Abstract!historyVars
<1>k. UNCHANGED <<file, synced>> => UNCHANGED DurableHistory
  BY DEF Kept, Restored
<1>r. ASSUME phase = "up", ~Locked PROVE history = DurableHistory
  BY <1>r, CleanIsReadable DEF ReadersSeeDurable
<1>1. ASSUME NEW t \in Threads, NEW k \in Keys, NEW e \in Entries, AppendSame(t, k, e)
      PROVE  [Abstract!Next]_(Abstract!historyVars)
  <2>1. history = DurableHistory /\ UNCHANGED DurableHistory
    BY <1>1, <1>k, <1>r DEF AppendSame, MayCall, disk
  <2> HIDE DEF DurableHistory
  <2>2. Abstract!Confirm(k, e)
    BY <1>1, <2>1 DEF AppendSame, Newest, Last, Abstract!Confirm, Abstract!Newest,
       DurableHistory
  <2> QED BY <2>2 DEF Abstract!Next
<1>2. ASSUME NEW t \in Threads, NEW k \in Keys, NEW e \in Entries, AppendRefused(t, k, e)
      PROVE  [Abstract!Next]_(Abstract!historyVars)
  <2>1. history = DurableHistory /\ UNCHANGED DurableHistory
    BY <1>2, <1>k, <1>r DEF AppendRefused, MayCall, disk
  <2> HIDE DEF DurableHistory
  <2>2. Abstract!Refuse(k, e)
    BY <1>2, <2>1 DEF AppendRefused, Newest, Last, Abstract!Refuse, Abstract!Newest,
       DurableHistory
  <2> QED BY <2>2 DEF Abstract!Next
<1>3. ASSUME NEW t \in Threads, WriteRow(t) PROVE [Abstract!Next]_(Abstract!historyVars)
  <2> DEFINE r == held[t]
  <2>1. /\ pc[t] = "row" /\ file' = WriteLine(file, r) /\ r \in Revisions /\ Locking(t) /\ phase = "up"
        /\ UNCHANGED <<synced, acked, refused>>
    BY <1>3, <1>c DEF WriteRow, Locking
  <2>2. file' = Append(file, r)
    BY <1>t, <2>1 DEF WriteLine, JournalParameters
  <2>3. file = rows
    BY <1>u, <2>1 DEF CleanInv, LogInv, Locking
  <2>4. CASE "power" \in Stops
    <3>1. SubSeq(file', 1, synced) = SubSeq(file, 1, synced)
      BY <1>t, <2>1, <2>2
    <3>2. UNCHANGED DurableHistory
      BY <2>1, <2>4, <3>1 DEF Kept, Restored
    <3> QED BY <1>s, <2>1, <3>2
  <2>5. CASE "power" \notin Stops
    <3>1. SubSeq(file, 1, Len(file)) = file /\ SubSeq(file', 1, Len(file')) = file'
      BY <1>t, <2>1, <2>2
    <3>2. DurableHistory = Restored(rows) /\ DurableHistory' = Restored(Append(rows, r))
      BY <2>2, <2>3, <2>5, <3>1 DEF Kept, Restored
    <3>3. r.chain # <<>> /\ Extends(r.chain, HistoryOf(rows, r.key)) /\ r.key \in Keys /\ Last(r.chain) \in Entries
      BY <1>c, <1>x, <2>1
    <3>4. Abstract!Revise(r.key, Last(r.chain))
      BY <1>t, <2>1, <3>2, <3>3, RevisedBy
    <3> QED BY <3>3, <3>4 DEF Abstract!Next
  <2> QED BY <2>4, <2>5
<1>4. ASSUME NEW t \in Threads, FsyncRow(t) PROVE [Abstract!Next]_(Abstract!historyVars)
  <2> DEFINE r == held[t]
  <2>1. /\ pc[t] = "fsync" /\ r \in Revisions /\ Locking(t) /\ phase = "up"
        /\ UNCHANGED <<file, refused>> /\ synced' = Len(file)
        /\ acked' = acked \cup {<<r.key, Last(r.chain)>>}
    BY <1>4, <1>c DEF FsyncRow, Locking
  <2>2. file = Append(rows, r) /\ ("power" \in Stops => synced = Len(rows))
    BY <1>u, <2>1 DEF CleanInv, LogInv, Locking
  <2>3. r.chain # <<>> /\ Extends(r.chain, HistoryOf(rows, r.key)) /\ r.key \in Keys /\ Last(r.chain) \in Entries
    BY <1>c, <1>x, <2>1
  <2>4. SubSeq(file, 1, Len(file)) = file /\ SubSeq(file, 1, Len(rows)) = rows
    BY <1>t, <2>1, <2>2
  <2>5. DurableHistory' = Restored(Append(rows, r))
    BY <2>1, <2>2, <2>4 DEF Kept, Restored
  <2>6. CASE "power" \in Stops
    <3>1. DurableHistory = Restored(rows)
      BY <2>2, <2>4, <2>6 DEF Kept
    <3>2. Abstract!Revise(r.key, Last(r.chain))
      BY <1>t, <2>1, <2>3, <2>5, <3>1, RevisedBy
    <3> QED BY <2>3, <3>2 DEF Abstract!Next
  <2>7. CASE "power" \notin Stops
    <3>1. DurableHistory = Restored(Append(rows, r))
      BY <2>2, <2>4, <2>7 DEF Kept
    <3>2. DurableHistory[r.key] = r.chain
      BY <1>t, <2>1, <2>3, <3>1, HistoryOfAppend DEF Restored
    <3> HIDE DEF DurableHistory
    <3>3. Abstract!Confirm(r.key, Last(r.chain))
      BY <2>1, <2>3, <2>5, <3>1, <3>2 DEF Abstract!Confirm, Abstract!Newest, Last,
         DurableHistory
    <3> QED BY <2>3, <3>3 DEF Abstract!Next
  <2> QED BY <2>6, <2>7
<1>5. CASE PowerLoss
  <2>1. PICK n \in synced..Len(file) : file' = SubSeq(file, 1, n) /\ synced' = n
    BY <1>5 DEF PowerLoss
  <2>2. "power" \in Stops /\ phase = "up" /\ UNCHANGED <<acked, refused>>
    BY <1>5 DEF PowerLoss, Stop
  <2>3. SubSeq(SubSeq(file, 1, n), 1, n) = SubSeq(file, 1, n)
    BY <1>t, <2>1
  <2>4. DurableHistory' = Restored(SubSeq(file, 1, n)) /\ DurableHistory = Restored(SubSeq(file, 1, synced))
    BY <2>1, <2>2, <2>3 DEF Kept, Restored
  <2>5. CASE n = synced
    BY <1>s, <2>2, <2>4, <2>5
  <2>6. CASE n # synced
    <3>1. synced = Len(rows)
      BY <2>2 DEF CleanInv, LogInv
    <3>2. PICK t \in Threads : pc[t] = "fsync" /\ file = Append(rows, held[t])
      BY <1>t, <2>1, <2>2, <2>6, <3>1 DEF CleanInv, LogInv
    <3> DEFINE r == held[t]
    <3>3. /\ r \in Revisions /\ r.chain # <<>> /\ Extends(r.chain, HistoryOf(rows, r.key)) /\ r.key \in Keys
          /\ Last(r.chain) \in Entries
      BY <1>c, <1>x, <3>2 DEF Locking
    <3>4. n = Len(file) /\ SubSeq(file, 1, n) = file /\ SubSeq(file, 1, synced) = rows
      BY <1>t, <2>1, <2>6, <3>1, <3>2, <3>3
    <3>5. Abstract!Revise(r.key, Last(r.chain))
      BY <1>t, <2>2, <2>4, <3>2, <3>3, <3>4, RevisedBy
    <3> QED BY <3>3, <3>5 DEF Abstract!Next
  <2> QED BY <2>5, <2>6
<1>6. ASSUME NEW t \in Threads, StoreFails(t) PROVE [Abstract!Next]_(Abstract!historyVars)
  BY <1>6, <1>k, <1>s, CleanFailure
<1>7. CASE UNCHANGED <<file, synced, acked, refused>>
  BY <1>7, <1>k, <1>s
<1> HIDE DEF DurableHistory
<1> QED
  BY <1>1, <1>2, <1>3, <1>4, <1>5, <1>6, <1>7 DEF Next, vars, disk, AppendCandidate,
     StorePayload,
     Rebuild, RebuildFails, ResolveAnchor, ResolveNeighbour, Kill, Stop, Open, OpenRaises,
     Retry

\* append() is one atomic step of RevisionHistory: every other step of the journal,
\* crash, error or rebuild leaves the abstract histories and answers as they are.
THEOREM JournalRefines == ASSUME JournalParameters, CleanStorage PROVE Spec => ImplementsHistory
<1>1. Init => CleanInv /\ Abstract!Init
  BY InitClean, InitRefines
<1>2. CleanInv /\ [Next]_vars => CleanInv'
  BY StepClean
<1>3. CleanInv /\ CleanInv' /\ [Next]_vars => [Abstract!Next]_(Abstract!historyVars)
  BY StepRefines
<1> QED BY <1>1, <1>2, <1>3, PTL DEF Spec, ImplementsHistory, Abstract!Spec
=============================================================================
