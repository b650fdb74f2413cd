----------------------------- MODULE NativeProofs -----------------------------
(***************************************************************************)
(* Proofs about the native runtime: what the memory of turns and the       *)
(* structural text memory answered survives; the lineage search finds what *)
(* its rules say, and the relations derived from claims are complete; what *)
(* a question is answered with stands; the readers of the states of an     *)
(* entity and of the episodes of a session answer the right one; the index *)
(* of the memory answers as a scan of its rows; and a window is read whole *)
(* under its token.                                                        *)
(***************************************************************************)
EXTENDS MCNative, SequenceTheorems, FiniteSetTheorems, TLAPS

-----------------------------------------------------------------------------
(* Turns and episodes.  A batch cuts the stored rows at the slot after the *)
(* handle's, so a turn must be answered only when its slot, and the slots  *)
(* it marks, are within the handle; between a turn's batch and its answer  *)
(* the request carries them.  The store holds the slots above those a      *)
(* format erased without reporting it.  The ids of derived rows nest       *)
(* without bound, so rows have no one set to belong to: a sequence of rows *)
(* is one over some set of them.                                           *)

IsRow(r) ==
    /\ r = [id |-> r.id, space |-> r.space, type |-> r.type, root |-> r.root,
            parents |-> r.parents, claim |-> r.claim, sure |-> r.sure, gone |-> r.gone]
    /\ r.gone \in BOOLEAN
IsRows(s) == \E S : s \in Seq(S) /\ \A r \in S : IsRow(r)

\* Stored rows of a set, at the slots above the erased ones.
StoredIn(rows, from, S) == \E m \in Nat : from <= m /\ rows \in [from + 1..m -> S]
OnDisk(rows, from) == \E S : StoredIn(rows, from, S) /\ \A r \in S : IsRow(r)

\* A row and what is stored of it, which may be marked already.
StoredAs(row, onDisk) ==
    /\ onDisk = [row EXCEPT !.gone = onDisk.gone]
    /\ row.gone => onDisk.gone
    /\ onDisk.gone => row.gone \/ faults > 0

EpisodeIds == {Episode(n) : n \in Nat}

MemoryTyped ==
    /\ faults \in Nat /\ counter \in Nat
    /\ stored = [turns |-> stored.turns, episodes |-> stored.episodes,
                 counter |-> stored.counter]
    /\ stored.counter \in Nat
    /\ erased = [turns |-> erased.turns, episodes |-> erased.episodes]
    /\ erased.turns \in Nat /\ erased.episodes \in Nat
    /\ IsRows(turns) /\ OnDisk(stored.turns, erased.turns)
    /\ episodes \in Seq(EpisodeIds)
    /\ StoredIn(stored.episodes, erased.episodes, EpisodeIds)

\* The handle's rows above the erased ones are on disk in their places.
HandleStored ==
    request # Down =>
      /\ erased.turns <= Len(turns) /\ erased.episodes <= Len(episodes)
      /\ \A i \in erased.turns + 1..Len(turns) :
           i \in DOMAIN stored.turns /\ StoredAs(turns[i], stored.turns[i])
      /\ \A i \in erased.episodes + 1..Len(episodes) :
           i \in DOMAIN stored.episodes /\ stored.episodes[i] = episodes[i]

\* The slots no later batch cuts away.
Slots == IF request # Down THEN erased.turns + 1..Len(turns) ELSE DOMAIN stored.turns
EpisodeSlots ==
    IF request # Down THEN erased.episodes + 1..Len(episodes) ELSE DOMAIN stored.episodes

AnswersStored ==
    /\ \A turn \in learned :
         /\ turn.slot \in Slots /\ stored.turns[turn.slot].id = turn.id
         /\ \A c \in turn.corrects :
              c \in 1..erased.turns \/ (c \in Slots /\ stored.turns[c].gone)
    /\ \A episode \in told :
         episode.slot \in EpisodeSlots /\ stored.episodes[episode.slot] = episode.id

\* The request being answered stored its turn and its marks.
RequestStored ==
    request # Down /\ request # Idle =>
      /\ request.slot \in erased.turns + 1..Len(turns)
      /\ \A c \in request.corrects : c \in 1..Len(turns) /\ turns[c].gone

MemoryInv == MemoryTyped /\ HandleStored /\ AnswersStored /\ RequestStored

-----------------------------------------------------------------------------
(* Sequences of rows.                                                      *)

LEMMA RowsGive ==
  ASSUME NEW s, IsRows(s)
  PROVE  Len(s) \in Nat /\ DOMAIN s = 1..Len(s) /\ \A i \in 1..Len(s) : IsRow(s[i])
<1>1. PICK S : s \in Seq(S) /\ \A r \in S : IsRow(r)
  BY DEF IsRows
<1> QED BY <1>1

LEMMA NoRows == IsRows(<<>>)
<1>1. PICK none : none = {}
  OBVIOUS
<1>2. <<>> \in Seq(none) /\ \A r \in none : IsRow(r)
  BY <1>1, EmptySeq, Zenon
<1>3. \E S : <<>> \in Seq(S) /\ \A r \in S : IsRow(r)
  BY <1>2, Zenon
<1> QED BY <1>3, Zenon DEF IsRows

LEMMA AppendRows ==
  ASSUME NEW s, IsRows(s), NEW row, IsRow(row)
  PROVE  /\ IsRows(Append(s, row)) /\ Len(Append(s, row)) = Len(s) + 1
         /\ \A i \in 1..Len(s) : Append(s, row)[i] = s[i]
         /\ Append(s, row)[Len(s) + 1] = row
<1>1. PICK S : s \in Seq(S) /\ \A r \in S : IsRow(r)
  BY DEF IsRows
<1> DEFINE T == S \cup {row}
<1>2. s \in Seq(T) /\ row \in T /\ \A r \in T : IsRow(r)
  BY <1>1
<1> HIDE DEF T
<1>3. /\ Append(s, row) \in Seq(T) /\ Len(Append(s, row)) = Len(s) + 1
      /\ \A i \in 1..Len(s) : Append(s, row)[i] = s[i]
      /\ Append(s, row)[Len(s) + 1] = row
  BY <1>2, AppendProperties
<1> QED BY <1>2, <1>3 DEF IsRows

\* A store is a function on the slots above the erased ones.
LEMMA DiskGives ==
  ASSUME NEW rows, NEW from \in Nat, OnDisk(rows, from)
  PROVE  /\ \E m \in Nat : from <= m /\ DOMAIN rows = from + 1..m
         /\ \A i \in DOMAIN rows : IsRow(rows[i])
<1>1. PICK S : StoredIn(rows, from, S) /\ \A r \in S : IsRow(r)
  BY DEF OnDisk
<1>2. PICK m \in Nat : from <= m /\ rows \in [from + 1..m -> S]
  BY <1>1 DEF StoredIn
<1> QED BY <1>1, <1>2

LEMMA NothingStored ==
  ASSUME NEW from \in Nat, NEW S
  PROVE  StoredIn(<<>>, from, S)
<1>1. <<>> \in Seq(S) /\ Len(<<>>) = 0
  BY EmptySeq
<1>2. <<>> \in [1..0 -> S]
  BY <1>1
<1>3. from + 1..from = {} /\ 1..0 = {}
  OBVIOUS
<1>4. <<>> \in [from + 1..from -> S]
  BY <1>2, <1>3, Zenon
<1>5. from <= from
  OBVIOUS
<1> QED BY <1>4, <1>5, Zenon DEF StoredIn

LEMMA NothingOnDisk == ASSUME NEW from \in Nat PROVE OnDisk(<<>>, from)
<1>1. PICK none : none = {}
  OBVIOUS
<1>2. StoredIn(<<>>, from, none) /\ \A r \in none : IsRow(r)
  BY <1>1, NothingStored
<1> QED BY <1>2, Zenon DEF OnDisk

\* A store from which nothing is erased is a sequence of rows.
LEMMA DiskIsRows ==
  ASSUME NEW rows, OnDisk(rows, 0)
  PROVE  IsRows(rows)
<1>1. PICK S : StoredIn(rows, 0, S) /\ \A r \in S : IsRow(r)
  BY DEF OnDisk
<1>2. PICK m \in Nat : rows \in [0 + 1..m -> S]
  BY <1>1 DEF StoredIn
<1>3. rows \in Seq(S)
  BY <1>2
<1> QED BY <1>1, <1>3 DEF IsRows

\* And a store that opens has lost all of its rows or none.
LEMMA OpensWhole ==
  ASSUME NEW rows, NEW from \in Nat, NEW S, StoredIn(rows, from, S),
         \A i \in DOMAIN rows : 1..i \subseteq DOMAIN rows
  PROVE  StoredIn(rows, 0, S) /\ (from = 0 \/ DOMAIN rows = {})
<1>1. PICK m \in Nat : from <= m /\ rows \in [from + 1..m -> S]
  BY DEF StoredIn
<1>2. CASE from = 0
  BY <1>1, <1>2
<1>3. CASE from # 0
  <2>1. DOMAIN rows = {}
    <3> SUFFICES ASSUME NEW i \in DOMAIN rows PROVE FALSE
      OBVIOUS
    <3>1. i \in from + 1..m /\ 1 \in 1..i
      BY <1>1
    <3>2. 1 \in from + 1..m
      BY <1>1, <3>1
    <3> QED BY <1>3, <3>2
  <2>2. 0 + 1..0 = {}
    OBVIOUS
  <2>3. from + 1..m = {}
    BY <1>1, <2>1
  <2>4. rows \in [0 + 1..0 -> S]
    BY <1>1, <2>2, <2>3, Zenon
  <2>5. 0 \in Nat /\ 0 <= 0
    OBVIOUS
  <2> QED BY <2>1, <2>4, <2>5, Zenon DEF StoredIn
<1> QED BY <1>2, <1>3

\* A row is written after the handle's, of which the store has those not erased.
LEMMA WrittenIn ==
  ASSUME NEW rows, NEW from \in Nat, NEW n \in Nat, from <= n, NEW S, NEW row \in S,
         StoredIn(rows, from, S), from + 1..n \subseteq DOMAIN rows
  PROVE  LET new == Written(rows, n + 1, row)
         IN  /\ StoredIn(new, from, S) /\ DOMAIN new = from + 1..n + 1
             /\ \A i \in from + 1..n : new[i] = rows[i]
             /\ new[n + 1] = row
<1>1. PICK m \in Nat : from <= m /\ rows \in [from + 1..m -> S]
  BY DEF StoredIn
<1> DEFINE slots == {j \in DOMAIN rows : j < n + 1} \cup {n + 1}
           new == Written(rows, n + 1, row)
<1>2. DOMAIN rows = from + 1..m
  BY <1>1
<1>3. slots = from + 1..n + 1
  <2>1. \A j \in slots : j \in from + 1..n + 1
    BY <1>2
  <2>2. \A j \in from + 1..n + 1 : j \in slots
    OBVIOUS
  <2> QED BY <2>1, <2>2
<1>4. new = [i \in slots |-> IF i = n + 1 THEN row ELSE rows[i]]
  BY DEF Written
<1> HIDE DEF slots, new
<1>5. \A i \in slots : i # n + 1 => i \in from + 1..n /\ i \in DOMAIN rows
  BY <1>3
<1>6. \A i \in slots : (IF i = n + 1 THEN row ELSE rows[i]) \in S
  BY <1>1, <1>2, <1>5
<1>7. new \in [from + 1..n + 1 -> S]
  BY <1>3, <1>4, <1>6
<1>8. n + 1 \in Nat /\ from <= n + 1
  OBVIOUS
<1>9. StoredIn(new, from, S)
  BY <1>7, <1>8 DEF StoredIn
<1>10. \A i \in from + 1..n : i \in slots /\ i # n + 1
  BY <1>3
<1>11. n + 1 \in slots
  BY <1>3
<1> QED BY <1>4, <1>7, <1>9, <1>10, <1>11 DEF new

\* A mark changes nothing else of a row.
LEMMA MarkedRow ==
  ASSUME NEW r, IsRow(r)
  PROVE  /\ \A x \in BOOLEAN :
              /\ IsRow([r EXCEPT !.gone = x]) /\ [r EXCEPT !.gone = x].gone = x
              /\ [r EXCEPT !.gone = x].id = r.id
         /\ \A x, y : [[r EXCEPT !.gone = x] EXCEPT !.gone = y] = [r EXCEPT !.gone = y]
         /\ [r EXCEPT !.gone = r.gone] = r
<1>1. \A x : [r EXCEPT !.gone = x] =
              [id |-> r.id, space |-> r.space, type |-> r.type, root |-> r.root,
               parents |-> r.parents, claim |-> r.claim, sure |-> r.sure, gone |-> x]
  BY DEF IsRow
<1>2. \A x \in BOOLEAN : IsRow([r EXCEPT !.gone = x])
  <2> SUFFICES ASSUME NEW x \in BOOLEAN PROVE IsRow([r EXCEPT !.gone = x])
    OBVIOUS
  <2>1. PICK m : m = [id |-> r.id, space |-> r.space, type |-> r.type, root |-> r.root,
                      parents |-> r.parents, claim |-> r.claim, sure |-> r.sure, gone |-> x]
    OBVIOUS
  <2>2. IsRow(m)
    BY <2>1 DEF IsRow
  <2> QED BY <1>1, <2>1, <2>2
<1>3. \A x, y : [[r EXCEPT !.gone = x] EXCEPT !.gone = y] = [r EXCEPT !.gone = y]
  BY <1>1
<1>4. \A x : [r EXCEPT !.gone = x].gone = x /\ [r EXCEPT !.gone = x].id = r.id
  BY <1>1
<1>5. [r EXCEPT !.gone = r.gone] = r
  BY <1>1 DEF IsRow
<1> QED BY <1>2, <1>3, <1>4, <1>5

LEMMA MarkedRows ==
  ASSUME NEW s, IsRows(s), NEW slots
  PROVE  /\ IsRows(Marked(s, slots)) /\ Len(Marked(s, slots)) = Len(s)
         /\ \A i \in 1..Len(s) :
              Marked(s, slots)[i] = IF i \in slots THEN [s[i] EXCEPT !.gone = TRUE] ELSE s[i]
<1>1. PICK S : s \in Seq(S) /\ \A r \in S : IsRow(r)
  BY DEF IsRows
<1> DEFINE T == S \cup {[r EXCEPT !.gone = TRUE] : r \in S}
           m == Marked(s, slots)
<1>2. \A r \in T : IsRow(r)
  <2> SUFFICES ASSUME NEW r \in T PROVE IsRow(r)
    OBVIOUS
  <2>1. CASE r \in S
    BY <1>1, <2>1
  <2>2. CASE r \notin S
    <3>1. PICK q \in S : r = [q EXCEPT !.gone = TRUE]
      BY <2>2
    <3> QED BY <1>1, <3>1, TRUE \in BOOLEAN, MarkedRow
  <2> QED BY <2>1, <2>2
<1>0. DOMAIN s = 1..Len(s)
  BY <1>1
<1>3. m = [i \in 1..Len(s) |-> IF i \in slots THEN [s[i] EXCEPT !.gone = TRUE] ELSE s[i]]
  BY <1>0 DEF Marked
<1>4. \A i \in 1..Len(s) : (IF i \in slots THEN [s[i] EXCEPT !.gone = TRUE] ELSE s[i]) \in T
  <2> SUFFICES ASSUME NEW i \in 1..Len(s)
               PROVE  s[i] \in T /\ [s[i] EXCEPT !.gone = TRUE] \in T
    BY Zenon
  <2>1. s[i] \in S
    BY <1>1
  <2> QED BY <2>1
<1>5. Len(s) \in Nat
  BY <1>1
<1> HIDE DEF m, T
<1>6. m \in [1..Len(s) -> T]
  BY <1>3, <1>4
<1>7. m \in Seq(T) /\ Len(m) = Len(s)
  BY <1>5, <1>6
<1> QED BY <1>2, <1>3, <1>7 DEF IsRows, m

LEMMA MarkedOnDisk ==
  ASSUME NEW rows, NEW from \in Nat, OnDisk(rows, from), NEW slots
  PROVE  /\ OnDisk(Marked(rows, slots), from) /\ DOMAIN Marked(rows, slots) = DOMAIN rows
         /\ \A i \in DOMAIN rows :
              Marked(rows, slots)[i] = IF i \in slots THEN [rows[i] EXCEPT !.gone = TRUE]
                                       ELSE rows[i]
<1>1. PICK S : StoredIn(rows, from, S) /\ \A r \in S : IsRow(r)
  BY DEF OnDisk
<1>2. PICK m \in Nat : from <= m /\ rows \in [from + 1..m -> S]
  BY <1>1 DEF StoredIn
<1> DEFINE T == S \cup {[r EXCEPT !.gone = TRUE] : r \in S}
           new == Marked(rows, slots)
<1>3. \A r \in T : IsRow(r)
  <2> SUFFICES ASSUME NEW r \in T PROVE IsRow(r)
    OBVIOUS
  <2>1. CASE r \in S
    BY <1>1, <2>1
  <2>2. CASE r \notin S
    <3>1. PICK q \in S : r = [q EXCEPT !.gone = TRUE]
      BY <2>2
    <3> QED BY <1>1, <3>1, TRUE \in BOOLEAN, MarkedRow
  <2> QED BY <2>1, <2>2
<1>4. DOMAIN rows = from + 1..m
  BY <1>2
<1>5. new = [i \in from + 1..m |-> IF i \in slots THEN [rows[i] EXCEPT !.gone = TRUE] ELSE rows[i]]
  BY <1>4 DEF Marked
<1>6. \A i \in from + 1..m :
        (IF i \in slots THEN [rows[i] EXCEPT !.gone = TRUE] ELSE rows[i]) \in T
  <2> SUFFICES ASSUME NEW i \in from + 1..m
               PROVE  rows[i] \in T /\ [rows[i] EXCEPT !.gone = TRUE] \in T
    BY Zenon
  <2>1. rows[i] \in S
    BY <1>2
  <2> QED BY <2>1
<1> HIDE DEF new, T
<1>7. new \in [from + 1..m -> T]
  BY <1>5, <1>6
<1>8. StoredIn(new, from, T)
  BY <1>2, <1>7 DEF StoredIn
<1>9. OnDisk(new, from)
  BY <1>3, <1>8 DEF OnDisk
<1> QED BY <1>4, <1>5, <1>7, <1>9 DEF new

-----------------------------------------------------------------------------
(* A turn reaches the store and then the handle.                           *)

\* The stored rows after a batch: those of the handle's slots, marked, and the new.
LEMMA BatchRows ==
  ASSUME MemoryInv, request # Down, NEW row, IsRow(row), NEW next \in Nat, NEW slots
  PROVE  LET n == Len(turns)
             new == Batch(stored, n + 1, row, next, slots)
         IN  /\ new = [turns |-> new.turns, episodes |-> stored.episodes, counter |-> next]
             /\ OnDisk(new.turns, erased.turns) /\ DOMAIN new.turns = erased.turns + 1..n + 1
             /\ \A i \in erased.turns + 1..n : new.turns[i] =
                  IF i \in slots THEN [stored.turns[i] EXCEPT !.gone = TRUE] ELSE stored.turns[i]
             /\ new.turns[n + 1] = row
<1> DEFINE n == Len(turns)
           e == erased.turns
           marked == Marked(stored.turns, slots)
           written == Written(marked, n + 1, row)
           new == Batch(stored, n + 1, row, next, slots)
<1>1. /\ n \in Nat /\ e \in Nat /\ e <= n /\ OnDisk(stored.turns, e)
      /\ e + 1..n \subseteq DOMAIN stored.turns
  BY RowsGive DEF MemoryInv, MemoryTyped, HandleStored
<1> HIDE DEF n, e
<1>2. /\ OnDisk(marked, e) /\ DOMAIN marked = DOMAIN stored.turns
      /\ \A i \in DOMAIN stored.turns : marked[i] =
           IF i \in slots THEN [stored.turns[i] EXCEPT !.gone = TRUE] ELSE stored.turns[i]
  BY <1>1, MarkedOnDisk
<1> HIDE DEF marked
<1>3. PICK S : StoredIn(marked, e, S) /\ \A r \in S : IsRow(r)
  BY <1>2 DEF OnDisk
<1> DEFINE T == S \cup {row}
<1>4. StoredIn(marked, e, T) /\ row \in T /\ \A r \in T : IsRow(r)
  <2>1. PICK m \in Nat : e <= m /\ marked \in [e + 1..m -> S]
    BY <1>3 DEF StoredIn
  <2>2. marked \in [e + 1..m -> T]
    BY <2>1
  <2> QED BY <1>3, <2>1, <2>2 DEF StoredIn
<1> HIDE DEF T
<1>5. /\ StoredIn(written, e, T) /\ DOMAIN written = e + 1..n + 1
      /\ \A i \in e + 1..n : written[i] = marked[i]
      /\ written[n + 1] = row
  BY <1>1, <1>2, <1>4, WrittenIn
<1>6. new = [turns |-> written, episodes |-> stored.episodes, counter |-> next]
  <2>1. stored = [turns |-> stored.turns, episodes |-> stored.episodes, counter |-> stored.counter]
    BY DEF MemoryInv, MemoryTyped
  <2>2. new = [stored EXCEPT !.turns = Written(Marked(@, slots), n + 1, row), !.counter = next]
    BY DEF Batch
  <2>3. new = [stored EXCEPT !.turns = written, !.counter = next]
    BY <2>2 DEF marked
  <2> HIDE DEF new, written
  <2> QED BY <2>1, <2>3
<1>7. new.turns = written
  BY <1>6
<1>8. OnDisk(written, e)
  BY <1>4, <1>5 DEF OnDisk
<1> HIDE DEF new, written
<1>9. \A i \in e + 1..n : new.turns[i] =
        IF i \in slots THEN [stored.turns[i] EXCEPT !.gone = TRUE] ELSE stored.turns[i]
  BY <1>1, <1>2, <1>5, <1>7
<1> QED BY <1>5, <1>6, <1>7, <1>8, <1>9 DEF new, n, e

LEMMA StoreKeeps ==
  ASSUME MemoryInv, request # Down, request' # Down, NEW row, IsRow(row),
         NEW next \in Nat, NEW slots, slots \subseteq 1..Len(turns),
         NEW outcome \in Outcomes, Store(row, next, slots, outcome),
         UNCHANGED <<episodes, erased, learned, told>>
  PROVE  /\ MemoryTyped' /\ HandleStored' /\ AnswersStored'
         /\ outcome = "durable" => /\ Len(turns') = Len(turns) + 1
                                  /\ \A c \in slots : turns'[c].gone
         /\ outcome # "durable" => turns' = turns
         /\ \A i \in 1..Len(turns) : i \in 1..Len(turns') /\ (turns[i].gone => turns'[i].gone)
<1>0. PICK n, e, new : /\ n = Len(turns) /\ e = erased.turns
                       /\ new = Batch(stored, n + 1, row, next, slots)
  OBVIOUS
<1>1. /\ n \in Nat /\ e \in Nat /\ e <= n
      /\ IsRows(turns) /\ OnDisk(stored.turns, e) /\ faults \in Nat /\ counter \in Nat
      /\ \A i \in 1..n : IsRow(turns[i])
      /\ \A i \in e + 1..n : i \in DOMAIN stored.turns /\ StoredAs(turns[i], stored.turns[i])
      /\ \A i \in e + 1..n : i \in 1..n
  <2>1. /\ n \in Nat /\ e \in Nat /\ e <= n /\ IsRows(turns) /\ OnDisk(stored.turns, e)
        /\ faults \in Nat /\ counter \in Nat
        /\ \A i \in e + 1..n : i \in DOMAIN stored.turns /\ StoredAs(turns[i], stored.turns[i])
    BY <1>0, RowsGive DEF MemoryInv, MemoryTyped, HandleStored
  <2>2. \A i \in 1..n : IsRow(turns[i])
    BY <1>0, <2>1, RowsGive
  <2> QED BY <2>1, <2>2
<1>2. /\ new = [turns |-> new.turns, episodes |-> stored.episodes, counter |-> next]
      /\ OnDisk(new.turns, e) /\ DOMAIN new.turns = e + 1..n + 1
      /\ \A i \in e + 1..n : new.turns[i] =
           IF i \in slots THEN [stored.turns[i] EXCEPT !.gone = TRUE] ELSE stored.turns[i]
      /\ new.turns[n + 1] = row
  BY <1>0, BatchRows
<1>3. \A i \in e + 1..n : [stored.turns[i] EXCEPT !.gone = TRUE] = [turns[i] EXCEPT !.gone = TRUE]
  <2> SUFFICES ASSUME NEW i \in e + 1..n
               PROVE  [stored.turns[i] EXCEPT !.gone = TRUE] = [turns[i] EXCEPT !.gone = TRUE]
    OBVIOUS
  <2>1. stored.turns[i] = [turns[i] EXCEPT !.gone = stored.turns[i].gone] /\ IsRow(turns[i])
    BY <1>1 DEF StoredAs
  <2>2. PICK g : g = stored.turns[i].gone
    OBVIOUS
  <2>3. stored.turns[i] = [turns[i] EXCEPT !.gone = g]
    BY <2>1, <2>2
  <2>4. \A x, y : [[turns[i] EXCEPT !.gone = x] EXCEPT !.gone = y] = [turns[i] EXCEPT !.gone = y]
    BY <2>1, MarkedRow
  <2> QED BY <2>3, <2>4
<1>4. \A i \in 1..n :
        /\ IsRow([turns[i] EXCEPT !.gone = TRUE]) /\ [turns[i] EXCEPT !.gone = TRUE].gone = TRUE
        /\ [turns[i] EXCEPT !.gone = TRUE].id = turns[i].id
        /\ [[turns[i] EXCEPT !.gone = TRUE] EXCEPT !.gone = TRUE] = [turns[i] EXCEPT !.gone = TRUE]
        /\ i \in e + 1..n => stored.turns[i].id = turns[i].id
  <2> SUFFICES ASSUME NEW i \in 1..n
               PROVE  /\ IsRow([turns[i] EXCEPT !.gone = TRUE]) /\ [turns[i] EXCEPT !.gone = TRUE].gone = TRUE
                      /\ [turns[i] EXCEPT !.gone = TRUE].id = turns[i].id
                      /\ [[turns[i] EXCEPT !.gone = TRUE] EXCEPT !.gone = TRUE]
                           = [turns[i] EXCEPT !.gone = TRUE]
                      /\ i \in e + 1..n => stored.turns[i].id = turns[i].id
    OBVIOUS
  <2>1. IsRow(turns[i])
    BY <1>1
  <2>2. /\ \A x \in BOOLEAN :
             /\ IsRow([turns[i] EXCEPT !.gone = x]) /\ [turns[i] EXCEPT !.gone = x].gone = x
             /\ [turns[i] EXCEPT !.gone = x].id = turns[i].id
        /\ \A x, y : [[turns[i] EXCEPT !.gone = x] EXCEPT !.gone = y] = [turns[i] EXCEPT !.gone = y]
    BY <2>1, MarkedRow
  <2>3. i \in e + 1..n => stored.turns[i].id = turns[i].id
    <3> SUFFICES ASSUME i \in e + 1..n PROVE stored.turns[i].id = turns[i].id
      OBVIOUS
    <3>1. /\ i \in DOMAIN stored.turns
          /\ stored.turns[i] = [turns[i] EXCEPT !.gone = stored.turns[i].gone]
      BY <1>1 DEF StoredAs
    <3>2. stored.turns[i].gone \in BOOLEAN
      BY <1>1, <3>1, DiskGives DEF IsRow
    <3> QED BY <2>2, <3>1, <3>2
  <2> QED BY <2>2, <2>3, TRUE \in BOOLEAN
<1>5. \A turn \in learned : turn.slot \in e + 1..n /\ stored.turns[turn.slot].id = turn.id
        /\ \A c \in turn.corrects : c \in 1..e \/ (c \in e + 1..n /\ stored.turns[c].gone)
  BY <1>0 DEF MemoryInv, AnswersStored, Slots
<1>6. \A turn \in learned : new.turns[turn.slot].id = turn.id
        /\ \A c \in turn.corrects : c \in 1..e \/ (c \in e + 1..n /\ new.turns[c].gone)
  <2>0. \A i \in e + 1..n : i \in 1..n
    BY <1>1
  <2>1. \A i \in e + 1..n : new.turns[i].id = stored.turns[i].id
    BY <1>2, <1>3, <1>4, <2>0, ZenonT(60)
  <2>2. \A i \in e + 1..n : stored.turns[i].gone => new.turns[i].gone
    <3> SUFFICES ASSUME NEW i \in e + 1..n, stored.turns[i].gone PROVE new.turns[i].gone
      OBVIOUS
    <3>1. [stored.turns[i] EXCEPT !.gone = TRUE].gone = TRUE
      BY <1>3, <1>4, <2>0, Zenon
    <3>2. CASE i \in slots
      BY <1>2, <3>1, <3>2, Zenon
    <3>3. CASE i \notin slots
      BY <1>2, <3>3, Zenon
    <3> QED BY <3>2, <3>3
  <2> QED BY <1>5, <2>1, <2>2
<1>7. /\ episodes \in Seq(EpisodeIds) /\ StoredIn(stored.episodes, erased.episodes, EpisodeIds)
      /\ erased = [turns |-> erased.turns, episodes |-> erased.episodes]
      /\ erased.episodes \in Nat /\ erased.episodes <= Len(episodes)
      /\ stored = [turns |-> stored.turns, episodes |-> stored.episodes, counter |-> stored.counter]
      /\ stored.counter \in Nat
      /\ \A i \in erased.episodes + 1..Len(episodes) :
           i \in DOMAIN stored.episodes /\ stored.episodes[i] = episodes[i]
      /\ \A episode \in told : episode.slot \in erased.episodes + 1..Len(episodes)
                               /\ stored.episodes[episode.slot] = episode.id
  BY DEF MemoryInv, MemoryTyped, HandleStored, AnswersStored, EpisodeSlots
<1>8. CASE outcome = "refused"
  <2>1. stored' = stored /\ turns' = turns /\ counter' = counter /\ faults' = faults + 1
    BY <1>8 DEF Store
  <2>2. MemoryTyped'
    BY <1>0, <1>1, <1>7, <2>1 DEF MemoryTyped
  <2>3. HandleStored'
    <3>1. \A i \in e + 1..n : StoredAs(turns[i], stored.turns[i])'
      BY <1>1, <2>1 DEF StoredAs
    <3> QED BY <1>0, <1>1, <1>7, <2>1, <3>1 DEF HandleStored
  <2>4. AnswersStored'
    BY <1>0, <1>5, <1>7, <2>1 DEF AnswersStored, Slots, EpisodeSlots
  <2> QED BY <1>8, <2>1, <2>2, <2>3, <2>4
<1>9. CASE outcome = "unsure"
  <2>1. stored' = new /\ turns' = turns /\ counter' = counter /\ faults' = faults + 1
    BY <1>0, <1>9 DEF Store
  <2>2. MemoryTyped'
    BY <1>0, <1>1, <1>2, <1>7, <2>1 DEF MemoryTyped
  <2>3. HandleStored'
    <3>1. \A i \in e + 1..n : StoredAs(turns[i], new.turns[i])'
      <4> SUFFICES ASSUME NEW i \in e + 1..n PROVE StoredAs(turns[i], new.turns[i])'
        OBVIOUS
      <4>0. faults' > 0
        BY <1>1, <2>1
      <4>1. CASE i \in slots
        <5>1. new.turns[i] = [turns[i] EXCEPT !.gone = TRUE] /\ new.turns[i].gone = TRUE
          <6>1. new.turns[i] = [stored.turns[i] EXCEPT !.gone = TRUE]
            BY <1>2, <4>1, Zenon
          <6>2. i \in 1..n
            BY <1>1
          <6> QED BY <1>3, <1>4, <6>1, <6>2, Zenon
        <5>2. new.turns[i] = [turns[i] EXCEPT !.gone = new.turns[i].gone]
          BY <5>1
        <5> QED BY <2>1, <4>0, <5>1, <5>2 DEF StoredAs
      <4>2. CASE i \notin slots
        <5>1. new.turns[i] = stored.turns[i]
          BY <1>2, <4>2
        <5> QED BY <1>1, <2>1, <4>0, <5>1 DEF StoredAs
      <4> QED BY <4>1, <4>2
    <3> QED BY <1>0, <1>1, <1>2, <1>7, <2>1, <3>1 DEF HandleStored
  <2>4. AnswersStored'
    BY <1>0, <1>2, <1>5, <1>6, <1>7, <2>1 DEF AnswersStored, Slots, EpisodeSlots
  <2> QED BY <1>9, <2>1, <2>2, <2>3, <2>4
<1>10. CASE outcome = "durable"
  <2>1. stored' = new /\ turns' = Append(Marked(turns, slots), row) /\ counter' = next /\ faults' = faults
    BY <1>0, <1>10 DEF Store
  <2>2. /\ IsRows(turns') /\ Len(turns') = n + 1
        /\ \A i \in 1..n : turns'[i] = IF i \in slots THEN [turns[i] EXCEPT !.gone = TRUE] ELSE turns[i]
        /\ turns'[n + 1] = row
    <3> DEFINE marked == Marked(turns, slots)
    <3>1. /\ IsRows(marked) /\ Len(marked) = n
          /\ \A i \in 1..n : marked[i] = IF i \in slots THEN [turns[i] EXCEPT !.gone = TRUE] ELSE turns[i]
      BY <1>0, <1>1, MarkedRows
    <3> HIDE DEF marked
    <3>2. /\ IsRows(Append(marked, row)) /\ Len(Append(marked, row)) = n + 1
          /\ \A i \in 1..n : Append(marked, row)[i] = marked[i]
          /\ Append(marked, row)[n + 1] = row
      BY <3>1, AppendRows
    <3>3. turns' = Append(marked, row)
      BY <2>1 DEF marked
    <3> QED BY <3>1, <3>2, <3>3
  <2>3. MemoryTyped'
    BY <1>0, <1>1, <1>2, <1>7, <2>1, <2>2 DEF MemoryTyped
  <2>4. HandleStored'
    <3>1. \A i \in e + 1..n + 1 : StoredAs(turns'[i], new.turns[i])
      <4> SUFFICES ASSUME NEW i \in e + 1..n + 1 PROVE StoredAs(turns'[i], new.turns[i])
        OBVIOUS
      <4>1. CASE i = n + 1
        BY <1>2, <2>2, <4>1, MarkedRow, ZenonT(60) DEF StoredAs
      <4>2. CASE i \in e + 1..n /\ i \in slots
        <5>1. new.turns[i] = [turns[i] EXCEPT !.gone = TRUE] /\ turns'[i] = new.turns[i]
          BY <1>1, <1>2, <1>3, <2>2, <4>2
        <5>2. new.turns[i] = [new.turns[i] EXCEPT !.gone = new.turns[i].gone]
          BY <1>4, <4>2, <5>1, MarkedRow
        <5> QED BY <5>1, <5>2 DEF StoredAs
      <4>3. CASE i \in e + 1..n /\ i \notin slots
        BY <1>1, <1>2, <2>2, <4>3, ZenonT(60) DEF StoredAs
      <4> QED BY <1>1, <4>1, <4>2, <4>3
    <3>2. \A i \in e + 1..n + 1 : StoredAs(turns[i], stored.turns[i])'
      BY <2>1, <3>1 DEF StoredAs
    <3> QED BY <1>0, <1>1, <1>2, <1>7, <2>1, <2>2, <3>2 DEF HandleStored
  <2>5. AnswersStored'
    <3>1. \A turn \in learned' : /\ turn.slot \in Slots' /\ stored'.turns[turn.slot].id = turn.id
                                 /\ \A c \in turn.corrects :
                                      c \in 1..e \/ (c \in Slots' /\ stored'.turns[c].gone)
      <4>1. Slots' = e + 1..n + 1 /\ \A i \in e + 1..n : i \in e + 1..n + 1
        BY <1>0, <1>1, <2>2 DEF Slots
      <4> QED BY <1>5, <1>6, <2>1, <4>1
    <3>2. \A episode \in told' : /\ episode.slot \in EpisodeSlots'
                                 /\ stored'.episodes[episode.slot] = episode.id
      BY <1>2, <1>7, <2>1 DEF EpisodeSlots
    <3> QED BY <1>0, <3>1, <3>2 DEF AnswersStored
  <2>6. \A i \in 1..n : turns[i].gone => turns'[i].gone
    BY <1>4, <2>2
  <2>7. \A c \in slots : turns'[c].gone
    BY <1>0, <1>4, <2>2
  <2> QED BY <1>0, <1>1, <1>10, <2>2, <2>3, <2>4, <2>5, <2>6, <2>7
<1> QED BY <1>8, <1>9, <1>10 DEF Outcomes

-----------------------------------------------------------------------------
(* One lemma for each operation.                                           *)

\* A set of slots has a first: the intervals that end in it are ordered by inclusion.
LEMMA FirstSlot ==
  ASSUME NEW n \in Nat, NEW found, found \subseteq 1..n, found # {}
  PROVE  \E x \in found : \A y \in found : x <= y
<1> DEFINE below == {1..x : x \in found}
<1>1. IsFiniteSet(1..n)
  BY FS_Interval
<1>2. below \subseteq FiniteSubsetsOf(1..n) /\ below # {}
  <2>1. \A x \in found : 1..x \in SUBSET (1..n)
    OBVIOUS
  <2>2. \A T \in SUBSET (1..n) : IsFiniteSet(T)
    BY <1>1, FS_Subset
  <2>3. \A x \in found : 1..x \in FiniteSubsetsOf(1..n)
    BY <2>1, <2>2, Zenon DEF FiniteSubsetsOf
  <2> QED BY <2>3, Zenon
<1> HIDE DEF below
<1>3. PICK least \in below : \A other \in below :
        ~(<<other, least>> \in StrictSubsetOrdering(1..n))
  BY <1>2, FS_StrictSubsetOrderingWellFounded, WFMin
<1>4. PICK x \in found : least = 1..x
  BY DEF below
<1>5. \A y \in found : x <= y
  <2> SUFFICES ASSUME NEW y \in found, y < x PROVE FALSE
    OBVIOUS
  <2>1. 1..y \in below /\ 1..y \in SUBSET (1..n) /\ 1..x \in SUBSET (1..n)
    BY DEF below
  <2>2. 1..y \subseteq 1..x /\ 1..y # 1..x
    OBVIOUS
  <2> QED BY <1>3, <1>4, <2>1, <2>2 DEF StrictSubsetOrdering
<1> QED BY <1>5

LEMMA SlotsFound ==
  ASSUME MemoryInv, NEW space, NEW c, SlotOf(turns, space, c) # 0
  PROVE  SlotOf(turns, space, c) \in 1..Len(turns)
<1> DEFINE found == {i \in 1..Len(turns) : turns[i].space = space /\ turns[i].id = c}
<1>1. SlotOf(turns, space, c) = IF found # {} THEN Min(found) ELSE 0
  BY DEF SlotOf, SelectInSeq
<1>2. found # {} /\ SlotOf(turns, space, c) = Min(found)
  BY <1>1
<1>3. Min(found) = CHOOSE x \in found : \A y \in found : x <= y
  BY DEF Min
<1>4. \E x \in found : \A y \in found : x <= y
  <2>1. Len(turns) \in Nat
    BY RowsGive DEF MemoryInv, MemoryTyped
  <2>2. found \subseteq 1..Len(turns) /\ found # {}
    BY <1>2
  <2> HIDE DEF found
  <2> QED BY <2>1, <2>2, FirstSlot
<1>5. Min(found) \in found
  BY <1>3, <1>4
<1> QED BY <1>2, <1>5

\* A client's turn: its slot and the slots it marks are within the handle.
LEMMA LearnKeeps ==
  ASSUME MemoryInv, NEW space, NEW type, NEW claim, NEW parents, NEW corrects, NEW chosen,
         NEW sure, NEW outcome \in Outcomes,
         Learn(space, type, claim, sure, parents, corrects, chosen, outcome)
  PROVE  MemoryInv'
<1> DEFINE slots == {SlotOf(turns, space, c) : c \in corrects}
           row(root) == [id |-> Turn(counter + 1), space |-> space, type |-> type, root |-> root,
                         parents |-> parents \cup corrects, claim |-> claim, sure |-> sure,
                         gone |-> FALSE]
<1>1. PICK root :
        /\ Store(row(root), counter + 1, slots, outcome)
        /\ IF outcome = "durable"
           THEN request' = [state |-> "busy", slot |-> Len(turns'), corrects |-> slots, kept |-> TRUE]
           ELSE request' = request
  BY DEF Learn
<1>2. request = Idle /\ 0 \notin slots /\ UNCHANGED <<episodes, erased, learned, told>>
  BY DEF Learn
<1>3. request # Down /\ request' # Down
  BY <1>1, <1>2 DEF Idle, Down
<1>4. slots \subseteq 1..Len(turns)
  BY <1>2, SlotsFound
<1>5. IsRow(row(root)) /\ counter + 1 \in Nat
  BY DEF IsRow, MemoryInv, MemoryTyped
<1> HIDE DEF slots, row
<1>6. /\ MemoryTyped' /\ HandleStored' /\ AnswersStored'
      /\ outcome = "durable" => /\ Len(turns') = Len(turns) + 1
                               /\ \A c \in slots : turns'[c].gone
      /\ outcome # "durable" => turns' = turns
      /\ \A i \in 1..Len(turns) : i \in 1..Len(turns') /\ (turns[i].gone => turns'[i].gone)
  BY <1>1, <1>2, <1>3, <1>4, <1>5, StoreKeeps
<1>7. RequestStored'
  <2>1. CASE outcome = "durable"
    <3>1. request'.slot = Len(turns') /\ request'.corrects = slots
      BY <1>1, <2>1
    <3>2. Len(turns) \in Nat
      BY RowsGive DEF MemoryInv, MemoryTyped
    <3>3. \A c \in slots : c \in 1..Len(turns') /\ turns'[c].gone
      BY <1>4, <1>6, <2>1, <3>2
    <3>4. request'.slot \in erased'.turns + 1..Len(turns')
      BY <1>2, <1>3, <1>6, <2>1, <3>1, <3>2 DEF MemoryInv, MemoryTyped, HandleStored
    <3> QED BY <3>1, <3>3, <3>4 DEF RequestStored
  <2>2. CASE outcome # "durable"
    BY <1>1, <1>2, <2>2 DEF RequestStored, Idle
  <2> QED BY <2>1, <2>2
<1> QED BY <1>6, <1>7 DEF MemoryInv

LEMMA DeriveKeeps ==
  ASSUME MemoryInv, NEW outcome \in Outcomes, DeriveNext(outcome)
  PROVE  MemoryInv'
<1> DEFINE row(next, root) ==
             [id |-> next.id, space |-> next.space, type |-> "derived_relation", root |-> root,
              parents |-> next.parents, claim |-> next.claim, sure |-> TRUE, gone |-> FALSE]
<1>1. PICK next, root : Store(row(next, root), counter, {}, outcome)
  BY DEF DeriveNext
<1>2. /\ request.state = "busy" /\ request' = [request EXCEPT !.kept = @ /\ outcome = "durable"]
      /\ UNCHANGED <<episodes, erased, learned, told>>
  BY DEF DeriveNext
<1>3. request # Down /\ request # Idle
  BY <1>2 DEF Down, Idle
<1>4. IsRow(row(next, root)) /\ counter \in Nat
  BY DEF IsRow, MemoryInv, MemoryTyped
<1>5. request'.state = "busy" /\ request'.slot = request.slot /\ request'.corrects = request.corrects
  BY <1>2
<1>6. request' # Down
  BY <1>5 DEF Down
<1> HIDE DEF row
<1>7. /\ MemoryTyped' /\ HandleStored' /\ AnswersStored'
      /\ \A i \in 1..Len(turns) : i \in 1..Len(turns') /\ (turns[i].gone => turns'[i].gone)
  BY <1>1, <1>2, <1>3, <1>4, <1>6, StoreKeeps
<1>8. RequestStored'
  <2>1. Len(turns) \in Nat /\ Len(turns') \in Nat
    BY <1>7, RowsGive DEF MemoryInv, MemoryTyped
  <2>2. Len(turns) <= Len(turns')
    <3>1. CASE Len(turns) = 0
      BY <2>1, <3>1
    <3>2. CASE Len(turns) # 0
      BY <1>7, <2>1, <3>2
    <3> QED BY <3>1, <3>2
  <2> QED BY <1>2, <1>3, <1>5, <1>7, <2>1, <2>2 DEF MemoryInv, MemoryTyped, RequestStored
<1> QED BY <1>7, <1>8 DEF MemoryInv

LEMMA AnswerKeeps == ASSUME MemoryInv, Answer PROVE MemoryInv'
<1>1. /\ request.state = "busy" /\ request' = Idle
      /\ learned' = learned \cup {[slot |-> request.slot, id |-> turns[request.slot].id,
                                  corrects |-> request.corrects]}
      /\ UNCHANGED <<turns, episodes, counter, stored, erased, told, faults>>
  BY DEF Answer
<1>2. request # Down /\ request # Idle /\ request' # Down
  BY <1>1 DEF Down, Idle
<1>3. /\ request.slot \in erased.turns + 1..Len(turns)
      /\ \A c \in request.corrects : c \in 1..Len(turns) /\ turns[c].gone
  BY <1>2 DEF MemoryInv, RequestStored
<1>4. /\ Len(turns) \in Nat /\ erased.turns \in Nat
      /\ \A i \in erased.turns + 1..Len(turns) :
           i \in 1..Len(turns) /\ i \in DOMAIN stored.turns /\ StoredAs(turns[i], stored.turns[i])
  BY <1>2, RowsGive DEF MemoryInv, MemoryTyped, HandleStored
<1>5. \A i \in erased.turns + 1..Len(turns) :
        stored.turns[i].id = turns[i].id /\ (turns[i].gone => stored.turns[i].gone)
  <2> SUFFICES ASSUME NEW i \in erased.turns + 1..Len(turns)
               PROVE  stored.turns[i].id = turns[i].id /\ (turns[i].gone => stored.turns[i].gone)
    OBVIOUS
  <2>1. /\ (turns[i].gone => stored.turns[i].gone)
        /\ stored.turns[i] = [turns[i] EXCEPT !.gone = stored.turns[i].gone]
    BY <1>4 DEF StoredAs
  <2>2. IsRow(turns[i])
    BY <1>4, RowsGive DEF MemoryInv, MemoryTyped
  <2>3. IsRow(stored.turns[i])
    BY <1>4, DiskGives DEF MemoryInv, MemoryTyped
  <2>4. \A x \in BOOLEAN : [turns[i] EXCEPT !.gone = x].id = turns[i].id
    BY <2>2, MarkedRow, ZenonT(60)
  <2> QED BY <2>1, <2>3, <2>4 DEF IsRow
<1>6. MemoryTyped' /\ HandleStored'
  BY <1>1, <1>2 DEF MemoryInv, MemoryTyped, HandleStored, StoredAs
<1>7. AnswersStored'
  <2>1. /\ Slots' = Slots /\ EpisodeSlots' = EpisodeSlots
        /\ Slots = erased.turns + 1..Len(turns)
    BY <1>1, <1>2 DEF Slots, EpisodeSlots
  <2>2. \A c \in request.corrects : c \in 1..erased.turns \/ (c \in Slots /\ stored.turns[c].gone)
    <3> SUFFICES ASSUME NEW c \in request.corrects, c \notin 1..erased.turns
                 PROVE  c \in Slots /\ stored.turns[c].gone
      OBVIOUS
    <3>1. c \in 1..Len(turns) /\ turns[c].gone
      BY <1>3
    <3>2. c \in erased.turns + 1..Len(turns)
      BY <1>4, <3>1
    <3> QED BY <1>5, <2>1, <3>1, <3>2
  <2>3. \A turn \in learned' :
          /\ turn.slot \in Slots /\ stored.turns[turn.slot].id = turn.id
          /\ \A c \in turn.corrects : c \in 1..erased.turns \/ (c \in Slots /\ stored.turns[c].gone)
    BY <1>1, <1>3, <1>5, <2>1, <2>2 DEF MemoryInv, AnswersStored
  <2> QED BY <1>1, <2>1, <2>3 DEF MemoryInv, AnswersStored
<1>8. RequestStored'
  BY <1>1 DEF RequestStored
<1> QED BY <1>6, <1>7, <1>8 DEF MemoryInv

LEMMA KillKeeps == ASSUME MemoryInv, Kill PROVE MemoryInv'
<1>1. /\ turns' = <<>> /\ episodes' = <<>> /\ counter' = 0 /\ request # Down /\ request' = Down
      /\ UNCHANGED <<stored, erased, learned, told, faults>>
  BY DEF Kill
<1>2. IsRows(<<>>)
  BY NoRows
<1>3. MemoryTyped' /\ HandleStored' /\ RequestStored'
  BY <1>1, <1>2 DEF MemoryInv, MemoryTyped, HandleStored, RequestStored
<1>4. Slots \subseteq Slots' /\ EpisodeSlots \subseteq EpisodeSlots'
  BY <1>1 DEF MemoryInv, HandleStored, Slots, EpisodeSlots
<1>5. AnswersStored'
  BY <1>1, <1>4 DEF MemoryInv, AnswersStored
<1> QED BY <1>3, <1>5 DEF MemoryInv

\* A store that opens lost none of its rows or holds none, which answers nothing.
LEMMA OpenKeeps == ASSUME MemoryInv, Open PROVE MemoryInv'
<1>1. /\ turns' = stored.turns /\ episodes' = stored.episodes /\ counter' = stored.counter
      /\ request = Down /\ request' = Idle /\ erased' = [turns |-> 0, episodes |-> 0]
      /\ UNCHANGED <<stored, learned, told, faults>> /\ Opens(stored)
  BY DEF Open, NoneErased
<1>2. /\ \A i \in DOMAIN stored.turns : 1..i \subseteq DOMAIN stored.turns
      /\ \A i \in DOMAIN stored.episodes : 1..i \subseteq DOMAIN stored.episodes
  BY <1>1 DEF Opens
<1>3. PICK S : StoredIn(stored.turns, erased.turns, S) /\ \A r \in S : IsRow(r)
  BY DEF MemoryInv, MemoryTyped, OnDisk
<1>4. /\ erased.turns \in Nat /\ erased.episodes \in Nat
      /\ StoredIn(stored.episodes, erased.episodes, EpisodeIds)
  BY DEF MemoryInv, MemoryTyped
<1>5. /\ StoredIn(stored.turns, 0, S) /\ (erased.turns = 0 \/ DOMAIN stored.turns = {})
      /\ StoredIn(stored.episodes, 0, EpisodeIds)
  BY <1>2, <1>3, <1>4, OpensWhole
<1>6. OnDisk(stored.turns, 0) /\ IsRows(stored.turns)
  BY <1>3, <1>5, DiskIsRows DEF OnDisk
<1>7. stored.episodes \in Seq(EpisodeIds)
  <2>1. PICK m \in Nat : stored.episodes \in [0 + 1..m -> EpisodeIds]
    BY <1>5 DEF StoredIn
  <2> QED BY <2>1
<1>8. MemoryTyped'
  BY <1>1, <1>5, <1>6, <1>7 DEF MemoryInv, MemoryTyped
<1>9. /\ DOMAIN stored.turns = 1..Len(stored.turns) /\ Len(stored.turns) \in Nat
      /\ DOMAIN stored.episodes = 1..Len(stored.episodes) /\ Len(stored.episodes) \in Nat
      /\ \A i \in 1..Len(stored.turns) : IsRow(stored.turns[i])
  BY <1>6, <1>7, RowsGive
<1>10. HandleStored'
  <2>1. \A i \in 1..Len(stored.turns) : StoredAs(turns[i], stored.turns[i])'
    BY <1>1, <1>9, MarkedRow DEF StoredAs
  <2> QED BY <1>1, <1>9, <2>1 DEF HandleStored
<1>11. AnswersStored'
  <2>1. Slots' = Slots /\ EpisodeSlots' = EpisodeSlots /\ Slots = DOMAIN stored.turns
    BY <1>1, <1>9 DEF Slots, EpisodeSlots, Idle, Down
  <2>2. \A turn \in learned : \A c \in turn.corrects : c \in Slots /\ stored.turns[c].gone
    BY <1>5, <2>1 DEF MemoryInv, AnswersStored
  <2> QED BY <1>1, <2>1, <2>2 DEF MemoryInv, AnswersStored
<1>12. RequestStored'
  BY <1>1 DEF RequestStored
<1> QED BY <1>8, <1>10, <1>11, <1>12 DEF MemoryInv

\* A format that clears the store leaves no answer, and the handle as it was or empty.
LEMMA FormatKeeps ==
  ASSUME MemoryInv, NEW outcome, Format(outcome)
  PROVE  MemoryInv'
<1>1. request = Idle /\ request' = request /\ request # Down /\ faults' \in Nat
  BY DEF Format, Idle, Down, MemoryInv, MemoryTyped
<1>2. CASE outcome = "refused"
  <2>1. faults' = faults + 1 /\ UNCHANGED <<turns, episodes, counter, stored, erased, learned, told>>
    BY <1>2 DEF Format
  <2>2. MemoryTyped' /\ AnswersStored' /\ RequestStored'
    BY <1>1, <2>1 DEF MemoryInv, MemoryTyped, AnswersStored, RequestStored, Slots, EpisodeSlots
  <2>3. HandleStored'
    BY <1>1, <2>1 DEF MemoryInv, MemoryTyped, HandleStored, StoredAs
  <2> QED BY <2>2, <2>3 DEF MemoryInv
<1>3. CASE outcome # "refused"
  <2>1. /\ stored' = [turns |-> <<>>, episodes |-> <<>>, counter |-> 0]
        /\ learned' = {} /\ told' = {}
    BY <1>3 DEF Format, Nothing
  <2>2. stored'.turns = <<>> /\ stored'.episodes = <<>> /\ stored'.counter = 0
    BY <2>1
  <2>3. /\ IsRows(turns') /\ episodes' \in Seq(EpisodeIds) /\ counter' \in Nat
        /\ erased' = [turns |-> Len(turns'), episodes |-> Len(episodes')]
    <3>1. CASE outcome = "unsure"
      BY <1>3, <3>1 DEF Format, MemoryInv, MemoryTyped
    <3>2. CASE outcome # "unsure"
      <4>1. turns' = <<>> /\ episodes' = <<>> /\ counter' = 0 /\ erased' = [turns |-> 0, episodes |-> 0]
        BY <1>3, <3>2 DEF Format, NoneErased
      <4>2. Len(<<>>) = 0
        BY EmptySeq
      <4> QED BY <4>1, <4>2, NoRows
    <3> QED BY <3>1, <3>2
  <2>4. /\ Len(turns') \in Nat /\ Len(episodes') \in Nat
        /\ erased'.turns = Len(turns') /\ erased'.episodes = Len(episodes')
    BY <2>3, RowsGive
  <2>5. MemoryTyped'
    <3>1. OnDisk(<<>>, Len(turns')) /\ StoredIn(<<>>, Len(episodes'), EpisodeIds)
      BY <2>4, NothingOnDisk, NothingStored
    <3> QED BY <1>1, <2>1, <2>2, <2>3, <2>4, <3>1 DEF MemoryTyped
  <2>6. HandleStored' /\ AnswersStored' /\ RequestStored'
    BY <1>1, <2>1, <2>2, <2>4 DEF HandleStored, AnswersStored, RequestStored
  <2> QED BY <2>5, <2>6 DEF MemoryInv
<1> QED BY <1>2, <1>3

LEMMA StoreEpisodeKeeps ==
  ASSUME MemoryInv, NEW outcome \in Outcomes, StoreEpisode(outcome)
  PROVE  MemoryInv'
<1>1. PICK n, e, id, new :
        /\ n = Len(episodes) /\ e = erased.episodes /\ id = Episode(counter + 1)
        /\ new = Written(stored.episodes, n + 1, id)
  OBVIOUS
<1>2. /\ request = Idle /\ UNCHANGED <<turns, erased, queue, request, learned, reopens>>
      /\ stored' = IF outcome = "refused" THEN stored
                   ELSE [stored EXCEPT !.episodes = Written(@, n + 1, id), !.counter = counter + 1]
      /\ faults' = IF outcome = "durable" THEN faults ELSE faults + 1
      /\ IF outcome = "durable"
         THEN /\ episodes' = Append(episodes, id) /\ counter' = counter + 1
              /\ told' = told \cup {[slot |-> n + 1, id |-> id]}
         ELSE UNCHANGED <<episodes, counter, told>>
  BY <1>1 DEF StoreEpisode
<1>3. request # Down /\ request' # Down /\ request' = Idle
  BY <1>2 DEF Idle, Down
<1>4. /\ episodes \in Seq(EpisodeIds) /\ StoredIn(stored.episodes, e, EpisodeIds)
      /\ n \in Nat /\ e \in Nat /\ e <= n
      /\ counter \in Nat /\ faults \in Nat /\ stored.counter \in Nat
      /\ \A i \in e + 1..n : i \in DOMAIN stored.episodes /\ stored.episodes[i] = episodes[i]
      /\ \A episode \in told : /\ episode.slot \in e + 1..n
                               /\ stored.episodes[episode.slot] = episode.id
      /\ stored = [turns |-> stored.turns, episodes |-> stored.episodes, counter |-> stored.counter]
  BY <1>1, <1>3 DEF MemoryInv, MemoryTyped, HandleStored, AnswersStored, EpisodeSlots
<1>5. id \in EpisodeIds /\ counter + 1 \in Nat
  BY <1>1, <1>4 DEF EpisodeIds
<1>6. /\ StoredIn(new, e, EpisodeIds) /\ DOMAIN new = e + 1..n + 1 /\ new[n + 1] = id
      /\ \A i \in e + 1..n : new[i] = stored.episodes[i]
  <2>1. e + 1..n \subseteq DOMAIN stored.episodes
    BY <1>4
  <2>2. n \in Nat /\ e \in Nat /\ e <= n /\ StoredIn(stored.episodes, e, EpisodeIds)
    BY <1>4
  <2>3. PICK rows : rows = stored.episodes
    OBVIOUS
  <2>4. /\ StoredIn(Written(rows, n + 1, id), e, EpisodeIds)
        /\ DOMAIN Written(rows, n + 1, id) = e + 1..n + 1
        /\ \A i \in e + 1..n : Written(rows, n + 1, id)[i] = rows[i]
        /\ Written(rows, n + 1, id)[n + 1] = id
    <3> HIDE <1>1
    <3> QED BY <1>5, <2>1, <2>2, <2>3, WrittenIn
  <2> QED BY <1>1, <2>3, <2>4
<1>7. stored'.turns = stored.turns /\ turns' = turns /\ faults' >= faults /\ faults' \in Nat
  BY <1>2, <1>4
<1>8. \A i : StoredAs(turns[i], stored.turns[i]) => StoredAs(turns[i], stored.turns[i])'
  BY <1>4, <1>7 DEF StoredAs
<1>9. /\ stored' = [turns |-> stored.turns, episodes |-> stored'.episodes, counter |-> stored'.counter]
      /\ stored'.counter \in Nat /\ counter' \in Nat
      /\ stored'.episodes = IF outcome = "refused" THEN stored.episodes ELSE new
  <2>2. CASE outcome = "refused"
    BY <1>2, <1>4, <2>2
  <2>3. CASE outcome # "refused"
    <3>1. stored' = [turns |-> stored.turns, episodes |-> new, counter |-> counter + 1]
      BY <1>1, <1>2, <1>4, <2>3
    <3>2. /\ stored'.turns = stored.turns /\ stored'.episodes = new
          /\ stored'.counter = counter + 1
      BY <3>1
    <3>3. counter' \in Nat
      BY <1>2, <1>4, <1>5
    <3> QED BY <1>5, <2>3, <3>1, <3>2, <3>3
  <2> QED BY <2>2, <2>3
<1>10. CASE outcome = "durable"
  <2>1. /\ episodes' = Append(episodes, id) /\ stored'.episodes = new
        /\ told' = told \cup {[slot |-> n + 1, id |-> id]}
    BY <1>2, <1>9, <1>10
  <2>2. /\ episodes' \in Seq(EpisodeIds) /\ Len(episodes') = n + 1 /\ episodes'[n + 1] = id
        /\ \A i \in 1..n : episodes'[i] = episodes[i]
    BY <1>1, <1>4, <1>5, <2>1, AppendProperties
  <2>3. MemoryTyped'
    BY <1>1, <1>2, <1>6, <1>7, <1>9, <2>1, <2>2 DEF MemoryInv, MemoryTyped
  <2>4. HandleStored'
    <3>1. \A i \in e + 1..n + 1 : i \in DOMAIN stored'.episodes /\ stored'.episodes[i] = episodes'[i]
      <4> SUFFICES ASSUME NEW i \in e + 1..n + 1 PROVE i \in DOMAIN new /\ new[i] = episodes'[i]
        BY <2>1
      <4>0. n \in Nat /\ e \in Nat
        BY <1>4
      <4>1. i = n + 1 \/ (i \in e + 1..n /\ i \in 1..n)
        BY <4>0
      <4> QED BY <1>4, <1>6, <2>2, <4>1
    <3> QED BY <1>1, <1>2, <1>3, <1>4, <1>7, <1>8, <2>1, <2>2, <3>1 DEF MemoryInv, HandleStored
  <2>5. AnswersStored'
    <3>1. EpisodeSlots' = e + 1..n + 1 /\ Slots' = Slots
      BY <1>1, <1>2, <1>3, <1>7, <2>2 DEF Slots, EpisodeSlots
    <3>2. \A episode \in told : /\ episode.slot \in e + 1..n + 1 /\ episode.slot \in e + 1..n
                                /\ new[episode.slot] = episode.id
      BY <1>4, <1>6
    <3>3. \A episode \in told' \ told : episode.slot = n + 1 /\ episode.id = id
      BY <2>1
    <3>4. n + 1 \in e + 1..n + 1
      BY <1>4
    <3>5. \A episode \in told' : /\ episode.slot \in e + 1..n + 1
                                 /\ stored'.episodes[episode.slot] = episode.id
      BY <1>6, <2>1, <3>2, <3>3, <3>4
    <3> QED BY <1>2, <1>7, <3>1, <3>5, ZenonT(60) DEF MemoryInv, AnswersStored
  <2> QED BY <1>3, <2>3, <2>4, <2>5 DEF MemoryInv, RequestStored
<1>11. CASE outcome # "durable"
  <2>1. UNCHANGED <<episodes, told>>
    BY <1>2, <1>11
  <2>2. /\ StoredIn(stored'.episodes, e, EpisodeIds)
        /\ \A i \in e + 1..n : i \in DOMAIN stored'.episodes
                              /\ stored'.episodes[i] = stored.episodes[i]
    <3>1. \A i \in e + 1..n : i \in e + 1..n + 1
      BY <1>4
    <3> QED BY <1>4, <1>6, <1>9, <3>1
  <2>3. MemoryTyped'
    BY <1>1, <1>2, <1>7, <1>9, <2>1, <2>2 DEF MemoryInv, MemoryTyped
  <2>4. HandleStored'
    BY <1>1, <1>2, <1>3, <1>4, <1>7, <1>8, <2>1, <2>2 DEF MemoryInv, HandleStored
  <2>5. AnswersStored'
    <3>1. EpisodeSlots' = e + 1..n /\ Slots' = Slots
      BY <1>1, <1>2, <1>3, <1>7, <2>1 DEF Slots, EpisodeSlots
    <3> QED BY <1>2, <1>4, <1>7, <2>1, <2>2, <3>1 DEF MemoryInv, AnswersStored
  <2> QED BY <1>3, <2>3, <2>4, <2>5 DEF MemoryInv, RequestStored
<1> QED BY <1>10, <1>11

-----------------------------------------------------------------------------
(* The invariant.                                                          *)

LEMMA InitMemory == MobileInit => MemoryInv
<1> SUFFICES ASSUME MobileInit PROVE MemoryInv
  OBVIOUS
<1>1. /\ turns = <<>> /\ episodes = <<>> /\ counter = 0 /\ faults = 0
      /\ request = Idle /\ learned = {} /\ told = {}
      /\ stored = [turns |-> <<>>, episodes |-> <<>>, counter |-> 0]
      /\ erased = [turns |-> 0, episodes |-> 0]
  BY DEF MobileInit, Nothing, NoneErased
<1>2. /\ stored.turns = <<>> /\ stored.episodes = <<>> /\ stored.counter = 0
      /\ erased.turns = 0 /\ erased.episodes = 0
  BY <1>1
<1>3. MemoryTyped
  BY <1>1, <1>2, NoRows, NothingOnDisk, NothingStored DEF MemoryTyped
<1>4. HandleStored /\ AnswersStored /\ RequestStored
  BY <1>1, <1>2 DEF HandleStored, AnswersStored, RequestStored
<1> QED BY <1>3, <1>4 DEF MemoryInv

LEMMA MemoryInvIsInductive == MemoryInv /\ [MobileNext]_mobileVars => MemoryInv'
<1> SUFFICES ASSUME MemoryInv, [MobileNext]_mobileVars PROVE MemoryInv'
  OBVIOUS
<1>1. ASSUME NEW outcome \in Outcomes, NEW space \in Spaces, NEW claim, NEW type, NEW sure,
             LearnStatement(space, type, claim, sure, outcome)
      PROVE  MemoryInv'
  BY <1>1, LearnKeeps DEF LearnStatement
<1>2. ASSUME NEW outcome \in Outcomes, NEW space \in Spaces, NEW claim, NEW corrects, NEW sure,
             LearnCorrection(space, claim, sure, corrects, outcome)
      PROVE  MemoryInv'
  BY <1>2, LearnKeeps DEF LearnCorrection
<1>3. ASSUME NEW outcome \in Outcomes, NEW space \in Spaces, NEW claim, NEW type,
             NEW sure, NEW parents, NEW chosen,
             LearnEcho(space, type, claim, sure, parents, chosen, outcome)
      PROVE  MemoryInv'
  BY <1>3, LearnKeeps DEF LearnEcho
<1>4. ASSUME NEW outcome \in Outcomes, DeriveNext(outcome) PROVE MemoryInv'
  BY <1>4, DeriveKeeps
<1>5. ASSUME NEW outcome \in Outcomes, StoreEpisode(outcome) PROVE MemoryInv'
  BY <1>5, StoreEpisodeKeeps
<1>6. CASE Answer
  BY <1>6, AnswerKeeps
<1>7. CASE Kill
  BY <1>7, KillKeeps
<1>8. CASE Open
  BY <1>8, OpenKeeps
<1>9. ASSUME NEW outcome, Format(outcome) PROVE MemoryInv'
  BY <1>9, FormatKeeps
<1>10. CASE UNCHANGED mobileVars
  BY <1>10 DEF mobileVars, MemoryInv, MemoryTyped, HandleStored, AnswersStored, RequestStored,
               StoredAs, Slots, EpisodeSlots
<1> QED BY <1>1, <1>2, <1>3, <1>4, <1>5, <1>6, <1>7, <1>8, <1>9, <1>10
        DEF MobileNext, MobileStep, FormatStep

LEMMA MemoryInvGives == MemoryInv => AckedTurnsSurvive
<1> SUFFICES ASSUME MemoryInv PROVE AckedTurnsSurvive
  OBVIOUS
<1>1. /\ Len(turns) \in Nat /\ DOMAIN turns = 1..Len(turns)
      /\ episodes \in Seq(EpisodeIds) /\ DOMAIN episodes = 1..Len(episodes)
      /\ erased.turns \in Nat /\ erased.episodes \in Nat
  BY RowsGive DEF MemoryInv, MemoryTyped
<1>2. PICK m \in Nat, k \in Nat :
        /\ erased.turns <= m /\ DOMAIN stored.turns = erased.turns + 1..m
        /\ erased.episodes <= k /\ DOMAIN stored.episodes = erased.episodes + 1..k
  <2>1. \E m \in Nat : erased.turns <= m /\ DOMAIN stored.turns = erased.turns + 1..m
    BY <1>1, DiskGives DEF MemoryInv, MemoryTyped
  <2>2. \E k \in Nat : erased.episodes <= k /\ DOMAIN stored.episodes = erased.episodes + 1..k
    BY DEF MemoryInv, MemoryTyped, StoredIn
  <2> QED BY <2>1, <2>2
<1>3. Slots \subseteq DOMAIN stored.turns /\ EpisodeSlots \subseteq DOMAIN stored.episodes
  BY DEF MemoryInv, HandleStored, Slots, EpisodeSlots
<1>4. \A turn \in learned :
        /\ turn.slot \in DOMAIN stored.turns /\ stored.turns[turn.slot].id = turn.id
        /\ \A c \in turn.corrects \cap DOMAIN stored.turns : stored.turns[c].gone
        /\ \A c \in turn.corrects \ DOMAIN stored.turns : c <= erased.turns
  <2> SUFFICES ASSUME NEW turn \in learned
               PROVE  /\ turn.slot \in DOMAIN stored.turns /\ stored.turns[turn.slot].id = turn.id
                      /\ \A c \in turn.corrects \cap DOMAIN stored.turns : stored.turns[c].gone
                      /\ \A c \in turn.corrects \ DOMAIN stored.turns : c <= erased.turns
    OBVIOUS
  <2>1. /\ turn.slot \in Slots /\ stored.turns[turn.slot].id = turn.id
        /\ \A c \in turn.corrects : c \in 1..erased.turns \/ (c \in Slots /\ stored.turns[c].gone)
    BY DEF MemoryInv, AnswersStored
  <2>2. \A c \in turn.corrects : c \in DOMAIN stored.turns => c \notin 1..erased.turns
    BY <1>1, <1>2
  <2> QED BY <1>1, <1>3, <2>1, <2>2
<1>5. \A episode \in told : /\ episode.slot \in DOMAIN stored.episodes
                           /\ stored.episodes[episode.slot] = episode.id
  BY <1>3 DEF MemoryInv, AnswersStored
<1>6. request # Down =>
        \A i \in DOMAIN episodes : i > erased.episodes =>
          i \in DOMAIN stored.episodes /\ stored.episodes[i] = episodes[i]
  BY <1>1 DEF MemoryInv, HandleStored
<1>7. request # Down =>
        \A i \in DOMAIN turns : i > erased.turns =>
          i \in DOMAIN stored.turns /\ StoredAs(turns[i], stored.turns[i])
  BY <1>1 DEF MemoryInv, HandleStored
<1>8. erased = NoneErased => Opens(stored)
  <2> SUFFICES ASSUME erased = NoneErased PROVE Opens(stored)
    OBVIOUS
  <2>1. DOMAIN stored.turns = 1..m /\ DOMAIN stored.episodes = 1..k
    BY <1>2 DEF NoneErased
  <2> QED BY <2>1 DEF Opens
<1> QED BY <1>4, <1>5, <1>6, <1>7, <1>8 DEF AckedTurnsSurvive, StoredAs

\* Whatever namespaces, claims, failed writes and formats, kills and restarts there
\* are, a turn or an episode the native memory answered with OK stays on disk at its
\* place with the turns it corrects marked, the running handle holds what is on disk
\* but for the rows an unreported clear erased, and only a store written after such
\* a clear does not open (save_turn_impl, memoria_mobile_learn_turn_json,
\* memoria_mobile_open, memoria_mobile_format_json).
THEOREM TurnsSurvive == MobileSpec => []AckedTurnsSurvive
<1>1. MobileSpec => []MemoryInv
  BY InitMemory, MemoryInvIsInductive, PTL DEF MobileSpec
<1> QED BY <1>1, MemoryInvGives, PTL

-----------------------------------------------------------------------------
(* Structural text: what was observed stays observed, whatever fails.      *)
(* While the process runs the store may hold one row more than the memory, *)
(* so an answer must stand on the rows the memory holds, and a new row     *)
(* must differ from those only: the row after them is the one it replaces. *)

\* Rows and the memory of them are records clients sent.
RowsTyped ==
    /\ lost \in Nat /\ StoredIn(records, lost, Records)
    /\ observations \in Seq(Records) /\ serving \in BOOLEAN

\* The memory above the lost rows is what the store holds, but for one row at most.
MemoryIsStored ==
    serving =>
      /\ lost <= Len(observations) /\ DOMAIN records \subseteq lost + 1..Len(observations) + 1
      /\ \A i \in lost + 1..Len(observations) :
           i \in DOMAIN records /\ records[i] = observations[i]

\* An answer names a row that no failed request can replace.
AnswersHeld ==
    \A r \in acked :
      \E i \in DOMAIN records : records[i] = r /\ (serving => i <= Len(observations))

\* No two rows share an identity.
IdentitiesApart ==
    \A i, j \in DOMAIN records : i # j => ~SameIdentity(records[i], records[j])

StoreInv == RowsTyped /\ MemoryIsStored /\ AnswersHeld /\ IdentitiesApart

-----------------------------------------------------------------------------
(* The row written for an observation.                                     *)

\* persist_observation() keeps the rows the memory holds, in their places, and
\* puts the new one after them.
LEMMA PersistedRows ==
  ASSUME StoreInv, serving, NEW record \in Records
  PROVE  LET new == Persisted(records, observations, record)
             n == Len(observations)
         IN  /\ StoredIn(new, lost, Records) /\ DOMAIN new = lost + 1..n + 1
             /\ \A i \in lost + 1..n : new[i] = observations[i]
             /\ new[n + 1] = record
<1> DEFINE n == Len(observations)
           new == Written(records, n + 1, record)
<1>1. /\ n \in Nat /\ lost \in Nat /\ lost <= n /\ StoredIn(records, lost, Records)
      /\ lost + 1..n \subseteq DOMAIN records
      /\ \A i \in lost + 1..n : records[i] = observations[i]
  BY DEF StoreInv, RowsTyped, MemoryIsStored
<1>2. Persisted(records, observations, record) = new
  BY DEF Persisted, Written
<1> HIDE DEF n
<1>3. /\ StoredIn(new, lost, Records) /\ DOMAIN new = lost + 1..n + 1
      /\ \A i \in lost + 1..n : new[i] = records[i]
      /\ new[n + 1] = record
  <2>1. PICK rows, k, from, S : rows = records /\ k = n /\ from = lost /\ S = Records
    OBVIOUS
  <2>2. /\ k \in Nat /\ from \in Nat /\ from <= k /\ StoredIn(rows, from, S) /\ record \in S
        /\ from + 1..k \subseteq DOMAIN rows
    BY <1>1, <2>1
  <2>3. /\ StoredIn(Written(rows, k + 1, record), from, S)
        /\ DOMAIN Written(rows, k + 1, record) = from + 1..k + 1
        /\ \A i \in from + 1..k : Written(rows, k + 1, record)[i] = rows[i]
        /\ Written(rows, k + 1, record)[k + 1] = record
    BY <2>2, WrittenIn
  <2> QED BY <2>1, <2>3
<1> HIDE DEF new
<1> QED BY <1>1, <1>2, <1>3 DEF n

\* The rows after a write that did or did not reach the store.
LEMMA ObserveKeeps ==
  ASSUME StoreInv, NEW record \in Records, NEW outcome \in WriteOutcomes,
         Observe(record, outcome)
  PROVE  StoreInv'
<1> DEFINE n == Len(observations)
           new == Persisted(records, observations, record)
<1>1. serving /\ serving' = serving /\ lost' = lost
  BY DEF Observe
<1>2. /\ n \in Nat /\ lost \in Nat /\ lost <= n
      /\ \A i \in lost + 1..n : i \in 1..n /\ i \in DOMAIN records /\ records[i] = observations[i]
  BY <1>1 DEF StoreInv, RowsTyped, MemoryIsStored
<1>3. /\ StoredIn(new, lost, Records) /\ DOMAIN new = lost + 1..n + 1
      /\ \A i \in lost + 1..n : new[i] = observations[i]
      /\ new[n + 1] = record
  BY <1>1, PersistedRows
<1>4. \A i \in 1..n : ~SameIdentity(observations[i], record) /\ ~SameIdentity(record, observations[i])
  BY DEF Observe, StoreInv, RowsTyped, SameIdentity
<1>5. \A i, j \in lost + 1..n + 1 : i # j => ~SameIdentity(new[i], new[j])
  <2>1. \A i, j \in lost + 1..n : i # j => ~SameIdentity(observations[i], observations[j])
    BY <1>1, <1>2 DEF StoreInv, IdentitiesApart, MemoryIsStored
  <2> SUFFICES ASSUME NEW i \in lost + 1..n + 1, NEW j \in lost + 1..n + 1, i # j
               PROVE  ~SameIdentity(new[i], new[j])
    OBVIOUS
  <2>2. CASE i = n + 1
    <3>1. j \in lost + 1..n /\ j \in 1..n
      BY <1>2, <2>2
    <3> QED BY <1>3, <1>4, <2>2, <3>1
  <2>3. CASE j = n + 1
    <3>1. i \in lost + 1..n /\ i \in 1..n
      BY <1>2, <2>3
    <3> QED BY <1>3, <1>4, <2>3, <3>1
  <2>4. CASE i \in lost + 1..n /\ j \in lost + 1..n
    BY <1>3, <2>1, <2>4
  <2> QED BY <1>2, <2>2, <2>3, <2>4
<1>6. \A r \in acked : \E i \in lost + 1..n : observations[i] = r
  <2> SUFFICES ASSUME NEW r \in acked PROVE \E i \in lost + 1..n : observations[i] = r
    OBVIOUS
  <2>1. PICK i \in DOMAIN records : records[i] = r /\ i <= n
    BY <1>1 DEF StoreInv, AnswersHeld
  <2>2. i \in lost + 1..n
    BY <1>1, <1>2, <2>1 DEF StoreInv, MemoryIsStored
  <2> QED BY <1>2, <2>1, <2>2
<1>7. observations \in Seq(Records)
  BY DEF StoreInv, RowsTyped
<1> HIDE DEF new
<1>8. CASE outcome = "durable"
  <2>1. /\ records' = new /\ observations' = Append(observations, record)
        /\ acked' = acked \cup {record}
    BY <1>8 DEF Observe, new
  <2>2. /\ observations' \in Seq(Records) /\ Len(observations') = n + 1
        /\ \A i \in 1..n : observations'[i] = observations[i]
        /\ observations'[n + 1] = record
    BY <1>2, <1>7, <2>1
  <2>3. RowsTyped'
    BY <1>1, <1>3, <2>1, <2>2 DEF StoreInv, RowsTyped
  <2>4. MemoryIsStored'
    <3>1. \A i \in lost + 1..n + 1 : new[i] = observations'[i]
      <4> SUFFICES ASSUME NEW i \in lost + 1..n + 1 PROVE new[i] = observations'[i]
        OBVIOUS
      <4>1. CASE i = n + 1
        BY <1>3, <2>2, <4>1
      <4>2. CASE i \in lost + 1..n
        BY <1>2, <1>3, <2>2, <4>2
      <4> QED BY <1>2, <4>1, <4>2
    <3> QED BY <1>1, <1>2, <1>3, <2>1, <2>2, <3>1 DEF MemoryIsStored
  <2>5. AnswersHeld'
    <3> SUFFICES ASSUME NEW r \in acked \cup {record}
                 PROVE  \E i \in lost + 1..n + 1 : new[i] = r
      BY <1>3, <2>1, <2>2 DEF AnswersHeld
    <3>1. CASE r = record
      BY <1>2, <1>3, <3>1
    <3>2. CASE r \in acked
      <4>1. PICK i \in lost + 1..n : observations[i] = r
        BY <1>6, <3>2
      <4> QED BY <1>2, <1>3, <4>1
    <3> QED BY <3>1, <3>2
  <2>6. IdentitiesApart'
    BY <1>3, <1>5, <2>1 DEF IdentitiesApart
  <2> QED BY <2>3, <2>4, <2>5, <2>6 DEF StoreInv
<1>9. CASE outcome = "refused"
  <2>1. UNCHANGED <<records, observations, acked>>
    BY <1>9 DEF Observe
  <2> QED BY <1>1, <2>1 DEF StoreInv, RowsTyped, MemoryIsStored, AnswersHeld, IdentitiesApart
<1>10. CASE outcome \in {"unsure", "within", "recent"}
  <2>1. records' = new /\ UNCHANGED <<observations, acked>>
    BY <1>10 DEF Observe, new
  <2>2. RowsTyped' /\ MemoryIsStored'
    BY <1>1, <1>2, <1>3, <1>7, <2>1 DEF StoreInv, RowsTyped, MemoryIsStored
  <2>3. AnswersHeld'
    <3> SUFFICES ASSUME NEW r \in acked PROVE \E i \in lost + 1..n + 1 : new[i] = r /\ i <= n
      BY <1>3, <2>1 DEF AnswersHeld
    <3>1. PICK i \in lost + 1..n : observations[i] = r
      BY <1>6
    <3> QED BY <1>2, <1>3, <3>1
  <2>4. IdentitiesApart'
    BY <1>3, <1>5, <2>1 DEF IdentitiesApart
  <2> QED BY <2>2, <2>3, <2>4 DEF StoreInv
<1> QED BY <1>8, <1>9, <1>10 DEF WriteOutcomes

-----------------------------------------------------------------------------

\* A record that is there already, restarts, formats and readers.
LEMMA ObserveAgainKeeps ==
  ASSUME StoreInv, NEW record \in Records, ObserveAgain(record)
  PROVE  StoreInv'
<1>1. serving /\ UNCHANGED <<records, observations, lost, serving>>
  BY DEF ObserveAgain
<1>2. PICK n \in DOMAIN observations :
        /\ observations[n] = record
        /\ acked' = IF n <= lost THEN acked ELSE acked \cup {record}
  BY DEF ObserveAgain
<1>3. AnswersHeld'
  <2>1. CASE n <= lost
    BY <1>1, <1>2, <2>1 DEF StoreInv, AnswersHeld
  <2>2. CASE ~(n <= lost)
    <3>1. n \in lost + 1..Len(observations)
      BY <1>2, <2>2 DEF StoreInv, RowsTyped
    <3>2. n \in DOMAIN records /\ records[n] = record /\ n <= Len(observations)
      BY <1>1, <1>2, <3>1 DEF StoreInv, RowsTyped, MemoryIsStored
    <3> QED BY <1>1, <1>2, <2>2, <3>2 DEF StoreInv, AnswersHeld
  <2> QED BY <2>1, <2>2
<1>4. records' = records /\ observations' = observations /\ lost' = lost /\ serving' = serving
  BY <1>1
<1>5. RowsTyped' /\ MemoryIsStored' /\ IdentitiesApart'
  BY <1>4 DEF StoreInv, RowsTyped, MemoryIsStored, IdentitiesApart
<1> QED BY <1>3, <1>5 DEF StoreInv

LEMMA KillStructuralKeeps == ASSUME StoreInv, KillStructural PROVE StoreInv'
<1>1. /\ records' = records /\ lost' = lost /\ acked' = acked /\ ~serving' /\ serving' \in BOOLEAN
      /\ observations' = <<>>
  BY DEF KillStructural
<1>2. RowsTyped' /\ MemoryIsStored'
  BY <1>1 DEF StoreInv, RowsTyped, MemoryIsStored
<1>3. AnswersHeld' /\ IdentitiesApart'
  BY <1>1 DEF StoreInv, AnswersHeld, IdentitiesApart
<1> QED BY <1>2, <1>3 DEF StoreInv

LEMMA OpenStructuralKeeps == ASSUME StoreInv, OpenStructural PROVE StoreInv'
<1>1. /\ records' = records /\ lost' = 0 /\ acked' = acked /\ serving' \in BOOLEAN
      /\ observations' = records /\ \A i \in DOMAIN records : 1..i \subseteq DOMAIN records
  BY DEF OpenStructural, Loads
<1>2. lost \in Nat /\ StoredIn(records, lost, Records)
  BY DEF StoreInv, RowsTyped
<1>3. StoredIn(records, 0, Records)
  BY <1>1, <1>2, OpensWhole
<1>4. records \in Seq(Records)
  <2>1. PICK m \in Nat : records \in [0 + 1..m -> Records]
    BY <1>3 DEF StoredIn
  <2> QED BY <2>1
<1>5. RowsTyped' /\ MemoryIsStored'
  BY <1>1, <1>3, <1>4 DEF RowsTyped, MemoryIsStored
<1>6. AnswersHeld' /\ IdentitiesApart'
  BY <1>1, <1>4 DEF StoreInv, AnswersHeld, IdentitiesApart
<1> QED BY <1>5, <1>6 DEF StoreInv

\* A format that clears the store leaves no answer, and the memory as it was or empty.
LEMMA FormatStructuralKeeps ==
  ASSUME StoreInv, NEW outcome, FormatStructural(outcome)
  PROVE  StoreInv'
<1>1. CASE outcome = "refused"
  BY <1>1 DEF FormatStructural, StoreInv, RowsTyped, MemoryIsStored, AnswersHeld, IdentitiesApart
<1>2. CASE outcome # "refused"
  <2>1. records' = <<>> /\ acked' = {} /\ serving' \in BOOLEAN
    BY <1>2 DEF FormatStructural
  <2>2. observations' \in Seq(Records) /\ lost' = Len(observations')
    <3>1. CASE outcome = "unsure"
      BY <1>2, <3>1 DEF FormatStructural, StoreInv, RowsTyped
    <3>2. CASE outcome # "unsure"
      <4>1. observations' = <<>> /\ lost' = 0
        BY <1>2, <3>2 DEF FormatStructural
      <4> QED BY <4>1, EmptySeq
    <3> QED BY <3>1, <3>2
  <2>3. Len(observations') \in Nat
    BY <2>2
  <2>4. StoredIn(<<>>, Len(observations'), Records)
    BY <2>3, NothingStored
  <2>5. RowsTyped' /\ MemoryIsStored'
    BY <2>1, <2>2, <2>3, <2>4 DEF RowsTyped, MemoryIsStored
  <2>6. AnswersHeld' /\ IdentitiesApart'
    BY <2>1 DEF AnswersHeld, IdentitiesApart
  <2> QED BY <2>5, <2>6 DEF StoreInv
<1> QED BY <1>1, <1>2

\* The store, the memory and the answers depend on nothing else.
LEMMA QuietKeeps ==
  ASSUME StoreInv, UNCHANGED <<records, observations, lost, serving, acked>>
  PROVE  StoreInv'
BY DEF StoreInv, RowsTyped, MemoryIsStored, AnswersHeld, IdentitiesApart

LEMMA StoreInvIsInductive ==
  ASSUME StoreInv, [StructuralNext]_structuralVars
  PROVE  StoreInv'
<1>1. ASSUME NEW record \in Records, NEW outcome \in WriteOutcomes, Observe(record, outcome)
      PROVE  StoreInv'
  BY <1>1, ObserveKeeps
<1>2. ASSUME NEW record \in Records, ObserveAgain(record)
      PROVE  StoreInv'
  BY <1>2, ObserveAgainKeeps
<1>3. CASE KillStructural \/ OpenStructural \/ \E outcome : FormatStructural(outcome)
  BY <1>3, KillStructuralKeeps, OpenStructuralKeeps, FormatStructuralKeeps
<1>4. CASE \E hierarchy \in Hierarchies, limit \in PageLimits : ReadWindow(hierarchy, limit)
  <2>1. UNCHANGED <<records, observations, lost, serving, acked>>
    BY <1>4 DEF ReadWindow
  <2> QED BY <2>1, QuietKeeps
<1>5. CASE ForgetWindow
  BY <1>5, QuietKeeps DEF ForgetWindow
<1>6. CASE UNCHANGED structuralVars
  BY <1>6, QuietKeeps DEF structuralVars
<1> QED BY <1>1, <1>2, <1>3, <1>4, <1>5, <1>6 DEF StructuralNext

LEMMA StoreInvGives == ASSUME StoreInv PROVE ObservationsSurvive
<1>1. PICK m \in Nat : lost \in Nat /\ DOMAIN records = lost + 1..m
  BY DEF StoreInv, RowsTyped, StoredIn
<1>2. acked \subseteq {records[i] : i \in DOMAIN records}
  BY DEF StoreInv, AnswersHeld
<1>3. ASSUME serving
      PROVE  /\ \A i \in DOMAIN observations \ 1..lost :
                  i \in DOMAIN records /\ records[i] = observations[i]
             /\ DOMAIN records \subseteq lost + 1..Len(observations) + 1
  <2>1. Len(observations) \in Nat /\ DOMAIN observations = 1..Len(observations)
    BY DEF StoreInv, RowsTyped
  <2>2. \A i \in DOMAIN observations \ 1..lost : i \in lost + 1..Len(observations)
    BY <1>1, <2>1
  <2> QED BY <1>3, <2>2 DEF StoreInv, MemoryIsStored
<1>4. \A i, j \in DOMAIN records : i # j => ~SameIdentity(records[i], records[j])
  BY DEF StoreInv, IdentitiesApart
<1>5. lost = 0 => Loads(records)
  BY <1>1 DEF Loads
<1> QED BY <1>2, <1>3, <1>4, <1>5 DEF ObservationsSurvive

LEMMA InitStore == StructuralInit => StoreInv
<1> SUFFICES ASSUME StructuralInit PROVE StoreInv
  OBVIOUS
<1>1. /\ observations = <<>> /\ records = <<>> /\ lost = 0 /\ serving = TRUE /\ acked = {}
      /\ StoredIn(<<>>, 0, Records)
  BY NothingStored DEF StructuralInit
<1> QED BY <1>1 DEF StoreInv, RowsTyped, MemoryIsStored, AnswersHeld, IdentitiesApart

\* Observations answered with OK stay stored and in memory, one row for each
\* identity, through writes, updates and formats that fail, kills and reopenings; a
\* store opens unless it was written to after a clear that was not reported
\* (persist_observation, load_persisted, memoria_mobile_format_json).
THEOREM ObservedIsKept ==
  StructuralInit /\ [][StructuralNext]_structuralVars => []ObservationsSurvive
<1>1. StoreInv /\ [StructuralNext]_structuralVars => StoreInv'
  BY StoreInvIsInductive
<1> QED BY <1>1, InitStore, StoreInvGives, PTL

-----------------------------------------------------------------------------
(* What is read fact by fact: a function over the places of a sequence,    *)
(* each value from the one before.                                         *)

LEMMA MaxExists ==
  ASSUME NEW S \in SUBSET Nat, IsFiniteSet(S), S # {}
  PROVE  \E m \in S : \A j \in S : j <= m
<1> DEFINE above(n) == {j \in S : j > n}
           family == {above(n) : n \in S}
<1>1. family # {} /\ family \subseteq FiniteSubsetsOf(S)
  <2>1. \A n \in S : above(n) \in SUBSET S /\ IsFiniteSet(above(n))
    BY FS_Subset
  <2> QED BY <2>1 DEF FiniteSubsetsOf
<1>2. IsWellFoundedOn(StrictSubsetOrdering(S), FiniteSubsetsOf(S))
  BY FS_StrictSubsetOrderingWellFounded
<1> HIDE DEF family
<1>3. PICK least \in family : \A A \in family : ~(<<A, least>> \in StrictSubsetOrdering(S))
  BY <1>1, <1>2, WFMin
<1>4. PICK m \in S : least = above(m)
  BY DEF family
<1>5. ASSUME NEW j \in S, j > m PROVE FALSE
  <2>1. above(j) \in family
    BY DEF family
  <2>2. /\ j \in least /\ j \notin above(j)
        /\ \A x \in above(j) : x \in least
    <3>1. \A x \in S : x > j => x > m
      BY <1>5
    <3> QED BY <1>4, <1>5, <3>1
  <2>3. <<above(j), least>> \in StrictSubsetOrdering(S)
    BY <1>4, <2>2 DEF StrictSubsetOrdering
  <2> QED BY <1>3, <2>1, <2>3
<1> QED BY <1>5

LEMMA Upwards ==
  ASSUME NEW N \in Nat, NEW P, 0 \in P, \A n \in 0..N : n < N /\ n \in P => n + 1 \in P
  PROVE  0..N \subseteq P
<1> DEFINE good == {m \in 0..N : 0..m \subseteq P}
<1>1. good \in SUBSET Nat /\ IsFiniteSet(good) /\ 0 \in good
  <2>1. IsFiniteSet(0..N) /\ good \subseteq 0..N
    BY FS_Interval
  <2> QED BY <2>1, FS_Subset
<1> HIDE DEF good
<1>2. PICK m \in good : \A j \in good : j <= m
  BY <1>1, MaxExists
<1> USE DEF good
<1>3. ASSUME m < N PROVE FALSE
  <2>1. m + 1 \in P /\ m + 1 \in 0..N
    BY <1>3
  <2>2. \A n \in 0..m + 1 : n \in 0..m \/ n = m + 1
    OBVIOUS
  <2>3. m + 1 \in good
    BY <2>1, <2>2
  <2> QED BY <1>2, <2>3
<1> QED BY <1>3

Steps(S, N) == [S \X (1..N) -> S]
ValuesOf(S, N, start, step) ==
  {f \in [0..N -> S] : f[0] = start /\ \A n \in 1..N : f[n] = step[<<f[n - 1], n>>]}

LEMMA StepwiseExists ==
  ASSUME NEW N \in Nat, NEW S, NEW start \in S, NEW step \in Steps(S, N)
  PROVE  ValuesOf(S, N, start, step) # {}
<1> USE DEF Steps
<1> DEFINE Upto(m, f) == /\ f \in [0..m -> S]
                         /\ f[0] = start /\ \A n \in 1..m : f[n] = step[<<f[n - 1], n>>]
           P == {m \in 0..N : \E f : Upto(m, f)}
<1>1. 0 \in P
  <2> DEFINE g == [n \in 0..0 |-> start]
  <2>1. Upto(0, g)
    OBVIOUS
  <2> HIDE DEF g
  <2> QED BY <2>1
<1>2. ASSUME NEW m \in 0..N, m < N, m \in P PROVE m + 1 \in P
  <2>1. PICK f : Upto(m, f)
    BY <1>2
  <2> DEFINE g == [n \in 0..m + 1 |-> IF n <= m THEN f[n] ELSE step[<<f[m], m + 1>>]]
  <2>2. m + 1 \in 1..N /\ f[m] \in S
    BY <1>2, <2>1
  <2>3. g \in [0..m + 1 -> S]
    BY <2>1, <2>2
  <2>4. ASSUME NEW n \in 1..m + 1 PROVE g[n] = step[<<g[n - 1], n>>]
    <3>1. CASE n <= m
      <4>1. n \in 1..m /\ n \in 0..m + 1 /\ n - 1 \in 0..m + 1 /\ n - 1 <= m
        BY <3>1
      <4>2. g[n] = f[n] /\ g[n - 1] = f[n - 1]
        BY <3>1, <4>1
      <4> QED BY <2>1, <4>1, <4>2
    <3>2. CASE n = m + 1
      <4>1. g[n] = step[<<f[m], m + 1>>] /\ n - 1 = m /\ m \in 0..m + 1
        BY <3>2
      <4>2. g[n - 1] = f[m]
        BY <4>1
      <4> QED BY <3>2, <4>1, <4>2
    <3> QED BY <3>1, <3>2
  <2>6. g[0] = start
    BY <2>1
  <2> HIDE DEF g
  <2>5. Upto(m + 1, g)
    BY <2>3, <2>4, <2>6
  <2> QED BY <2>2, <2>5
<1>3. N \in P
  <2> HIDE DEF P
  <2>1. 0..N \subseteq P
    BY <1>1, <1>2, Upwards
  <2> QED BY <2>1
<1> QED BY <1>3 DEF ValuesOf

-----------------------------------------------------------------------------
(* The temporal state, fact by fact.                                       *)

States == [latest : Nat, previous : Nat]
NoState == [latest |-> 0, previous |-> 0]

\* After n known: the latest of them, and the latest of the earlier ones.
StateOf(known, state, n) ==
  /\ state \in States
  /\ n = 0 => state = NoState
  /\ n > 0 =>
       /\ state.latest \in 1..n
       /\ \A m \in 1..n : known[m].order <= known[state.latest].order
       /\ \A m \in 1..n : known[m].order < known[state.latest].order =>
            state.previous # 0 /\ known[m].order <= known[state.previous].order
       /\ state.previous # 0 =>
            state.previous \in 1..n /\ known[state.previous].order < known[state.latest].order

LEMMA LaterReads ==
  ASSUME NEW Pool, \A fact \in Pool : fact.order \in Nat, NEW known \in Seq(Pool),
         NEW n \in 1..Len(known), NEW state \in States,
         StateOf(known, state, n - 1)
  PROVE  StateOf(known, Later(known, state, n), n)
<1> DEFINE next == Later(known, state, n)
<1> SUFFICES StateOf(known, next, n)
  OBVIOUS
<1>1. \A m \in 1..n : known[m].order \in Nat
  <2>1. \A m \in 1..n : known[m] \in Pool
    OBVIOUS
  <2> QED BY <2>1
<1>2. \A m \in 1..n : m \in 1..n - 1 \/ m = n
  OBVIOUS
<1>3. CASE n = 1
  <2>1. state.latest = 0
    BY <1>3 DEF StateOf, NoState
  <2>2. next = [latest |-> n, previous |-> 0]
    BY <2>1 DEF Later
  <2>3. \A m \in 1..n : m = n
    BY <1>3
  <2> HIDE DEF next
  <2>4. next \in States /\ next.latest = n /\ next.previous = 0 /\ n \in 1..n
    BY <2>2 DEF States
  <2>5. \A m \in 1..n : known[m].order <= known[next.latest].order
                          /\ ~(known[m].order < known[next.latest].order)
    BY <1>1, <2>3, <2>4
  <2> QED BY <2>4, <2>5 DEF StateOf
<1>4. CASE n > 1
  <2> DEFINE l == state.latest
             p == state.previous
  <2>1. /\ l \in 1..n - 1 /\ l # 0 /\ n - 1 \in Nat /\ p \in Nat
        /\ \A m \in 1..n - 1 : known[m].order <= known[l].order
        /\ \A m \in 1..n - 1 : known[m].order < known[l].order =>
             p # 0 /\ known[m].order <= known[p].order
        /\ p # 0 => p \in 1..n - 1 /\ known[p].order < known[l].order
    BY <1>4 DEF StateOf, States
  <2>2. \A k \in 1..n - 1 : k \in 1..n /\ known[k].order \in Nat
    BY <1>1
  <2>3. n \in 1..n /\ known[n].order \in Nat /\ known[l].order \in Nat
    BY <1>1, <2>1, <2>2
  <2>4. CASE known[n].order > known[l].order
    <3>1. next = [latest |-> n, previous |-> l]
      BY <2>1, <2>4 DEF Later
    <3> HIDE DEF next, l, p
    <3>2. next \in States /\ next.latest = n /\ next.previous = l
      BY <2>1, <3>1 DEF States
    <3>3. \A m \in 1..n : known[m].order <= known[n].order
                            /\ (known[m].order < known[n].order => known[m].order <= known[l].order)
      BY <1>1, <1>2, <2>1, <2>3, <2>4
    <3>4. l \in 1..n /\ known[l].order < known[n].order
      BY <2>1, <2>2, <2>3, <2>4
    <3> QED BY <2>1, <2>3, <3>2, <3>3, <3>4 DEF StateOf
  <2>5. CASE known[n].order < known[l].order /\ (p = 0 \/ known[n].order > known[p].order)
    <3>1. next = [state EXCEPT !.previous = n]
      BY <2>1, <2>3, <2>5 DEF Later
    <3>2. next = [latest |-> l, previous |-> n]
      BY <3>1 DEF States
    <3> HIDE DEF next, l, p
    <3>3. next \in States /\ next.latest = l /\ next.previous = n
      BY <2>1, <3>2 DEF States
    <3>4. \A m \in 1..n : known[m].order <= known[l].order
      BY <1>1, <1>2, <2>1, <2>3, <2>5
    <3>5. ASSUME NEW m \in 1..n, known[m].order < known[l].order
          PROVE  known[m].order <= known[n].order
      <4>1. CASE m = n
        BY <2>3, <4>1
      <4>2. CASE m \in 1..n - 1
        <5>1. p # 0 /\ known[m].order <= known[p].order /\ p \in 1..n - 1
          BY <2>1, <3>5, <4>2
        <5>2. known[m].order \in Nat /\ known[p].order \in Nat /\ known[n].order > known[p].order
          BY <2>2, <2>5, <4>2, <5>1
        <5> QED BY <2>3, <5>1, <5>2
      <4> QED BY <1>2, <4>1, <4>2
    <3> QED BY <2>1, <2>2, <2>3, <2>5, <3>3, <3>4, <3>5 DEF StateOf
  <2>6. CASE /\ ~(known[n].order > known[l].order)
             /\ ~(known[n].order < known[l].order /\ (p = 0 \/ known[n].order > known[p].order))
    <3>1. next = state
      BY <2>1, <2>6 DEF Later
    <3>2. next \in States /\ next.latest = l /\ next.previous = p
      BY <3>1
    <3> HIDE DEF next, l, p
    <3>3. \A m \in 1..n : known[m].order <= known[l].order
      BY <1>1, <1>2, <2>1, <2>3, <2>6
    <3>4. ASSUME NEW m \in 1..n, known[m].order < known[l].order
          PROVE  p # 0 /\ known[m].order <= known[p].order
      <4>1. CASE m = n
        <5>1. p # 0 /\ ~(known[n].order > known[p].order)
          BY <2>6, <3>4, <4>1
        <5> QED BY <2>1, <2>2, <2>3, <4>1, <5>1
      <4>2. CASE m \in 1..n - 1
        BY <2>1, <3>4, <4>2
      <4> QED BY <1>2, <4>1, <4>2
    <3>5. p # 0 => p \in 1..n
      BY <2>1, <2>2
    <3> QED BY <2>1, <2>2, <2>3, <3>2, <3>3, <3>4, <3>5 DEF StateOf
  <2> QED BY <2>4, <2>5, <2>6
<1> QED BY <1>3, <1>4

LEMMA TemporalStateReads ==
  ASSUME NEW Pool, \A fact \in Pool : fact.order \in Nat, NEW known \in Seq(Pool)
  PROVE  StateOf(known, TemporalState(known), Len(known))
<1> DEFINE N == Len(known)
           step == [p \in States \X (1..N) |-> IF StateOf(known, p[1], p[2] - 1)
                                              THEN Later(known, p[1], p[2]) ELSE NoState]
           Is(f) == f = [n \in 0..N |-> IF n = 0 THEN NoState ELSE Later(known, f[n - 1], n)]
           after == CHOOSE f : Is(f)
<1>1. N \in Nat /\ NoState \in States
  BY DEF NoState, States
<1>2. step \in Steps(States, N)
  <2>1. ASSUME NEW x \in States, NEW n \in 1..N, StateOf(known, x, n - 1)
        PROVE  Later(known, x, n) \in States
    BY <2>1, LaterReads DEF StateOf
  <2> QED BY <1>1, <2>1 DEF Steps
<1>3. \A x \in States, n \in 1..N :
        StateOf(known, x, n - 1) => step[<<x, n>>] = Later(known, x, n)
  OBVIOUS
<1> HIDE DEF step, N
<1>4. PICK f \in [0..N -> States] : f[0] = NoState /\ \A n \in 1..N : f[n] = step[<<f[n - 1], n>>]
  <2>1. ValuesOf(States, N, NoState, step) # {}
    BY <1>1, <1>2, StepwiseExists
  <2> QED BY <2>1 DEF ValuesOf
<1> DEFINE P == {n \in 0..N : StateOf(known, f[n], n) /\ (n > 0 => f[n] = Later(known, f[n - 1], n))}
<1>5. 0..N \subseteq P
  <2>1. 0 \in P
    BY <1>1, <1>4 DEF StateOf
  <2>2. ASSUME NEW n \in 0..N, n < N, n \in P PROVE n + 1 \in P
    <3>1. n + 1 \in 1..N /\ n + 1 \in 0..N /\ (n + 1) - 1 = n /\ n + 1 > 0
      BY <1>1, <2>2
    <3>2. StateOf(known, f[n], n) /\ f[n] \in States
      BY <2>2
    <3>3. f[n + 1] = Later(known, f[n], n + 1)
      BY <1>3, <1>4, <3>1, <3>2
    <3>4. StateOf(known, f[n + 1], n + 1)
      BY <3>1, <3>2, <3>3, LaterReads DEF N
    <3> QED BY <3>1, <3>3, <3>4
  <2> HIDE DEF P
  <2> QED BY <1>1, <2>1, <2>2, Upwards
<1>6. Is(f)
  <2>1. \A n \in 0..N : n # 0 => n > 0
    BY <1>1
  <2>2. \A n \in 0..N : f[n] = IF n = 0 THEN NoState ELSE Later(known, f[n - 1], n)
    BY <1>4, <1>5, <2>1
  <2> QED BY <2>2
<1>7. Is(after)
  BY <1>6
<1>8. TemporalState(known) = after[N]
  BY DEF TemporalState, NoState, N
<1> HIDE DEF after
<1> DEFINE Q == {n \in 0..N : after[n] = f[n]}
<1>9. 0..N \subseteq Q
  <2>1. 0 \in Q
    <3>1. 0 \in 0..N
      BY <1>1
    <3> QED BY <1>4, <1>7, <3>1
  <2>2. ASSUME NEW n \in 0..N, n < N, n \in Q PROVE n + 1 \in Q
    <3>1. n + 1 \in 0..N /\ (n + 1) - 1 = n /\ n + 1 # 0 /\ n + 1 > 0
      BY <1>1, <2>2
    <3>2. f[n + 1] = Later(known, f[n], n + 1)
      BY <1>5, <3>1
    <3>3. after[n + 1] = Later(known, after[n], n + 1)
      BY <1>7, <3>1
    <3> QED BY <2>2, <3>1, <3>2, <3>3
  <2> HIDE DEF Q
  <2> QED BY <1>1, <2>1, <2>2, Upwards
<1>10. N \in 0..N
  BY <1>1
<1> QED BY <1>5, <1>8, <1>9, <1>10 DEF N

LEMMA HistoryReads ==
  ASSUME NEW Pool, \A fact \in Pool : fact.order \in Nat, NEW known \in Seq(Pool), known # <<>>
  PROVE  HistoryIsExact(known)
<1> DEFINE state == TemporalState(known)
           latest == {n \in DOMAIN known : \A m \in DOMAIN known : known[m].order <= known[n].order}
           before == (DOMAIN known) \ latest
           earlier == {n \in before : \A m \in before : known[m].order <= known[n].order}
<1>1. DOMAIN known = 1..Len(known) /\ Len(known) > 0 /\ \A n \in DOMAIN known : known[n].order \in Nat
  <2>1. DOMAIN known = 1..Len(known) /\ Len(known) > 0 /\ \A n \in 1..Len(known) : known[n] \in Pool
    OBVIOUS
  <2> QED BY <2>1
<1>2. StateOf(known, state, Len(known))
  BY TemporalStateReads
<1> HIDE DEF state
<1>3. state.latest \in latest
  BY <1>1, <1>2 DEF StateOf
<1>4. \A n \in DOMAIN known : n \in before <=> known[n].order < known[state.latest].order
  BY <1>1, <1>2 DEF StateOf
<1>5. IF earlier = {} THEN state.previous = 0 ELSE state.previous \in earlier
  <2>1. ASSUME state.previous # 0 PROVE state.previous \in earlier
    BY <1>1, <1>2, <1>4, <2>1 DEF StateOf
  <2>2. ASSUME state.previous = 0 PROVE before = {}
    BY <1>1, <1>2, <1>4, <2>2 DEF StateOf
  <2> QED BY <2>1, <2>2
<1> QED BY <1>3, <1>5 DEF HistoryIsExact, state

-----------------------------------------------------------------------------
(* The episode recalled, one by one.                                       *)

Recalls == [best : Nat, score : Nat, unsure : BOOLEAN]
NoRecall == [best |-> 0, score |-> 0, unsure |-> FALSE]

Fits(wanted, episode) == Asked(wanted, episode) /\ EpisodeScore(wanted, episode) > 0

\* Better in score, or as good and later.
Precedes(wanted, a, b) ==
  \/ EpisodeScore(wanted, a) < EpisodeScore(wanted, b)
  \/ EpisodeScore(wanted, a) = EpisodeScore(wanted, b) /\ a.order < b.order
Rivals(wanted, a, b) ==
  EpisodeScore(wanted, a) = EpisodeScore(wanted, b) /\ a.order = b.order

\* After n episodes: one that fits best, and whether it has a rival with another id.
RecallOf(wanted, sequence, state, n) ==
  /\ state \in Recalls
  /\ state.best = 0 => state = NoRecall /\ \A m \in 1..n : ~Fits(wanted, sequence[m])
  /\ state.best # 0 =>
       /\ state.best \in 1..n /\ Fits(wanted, sequence[state.best])
       /\ state.score = EpisodeScore(wanted, sequence[state.best])
       /\ \A m \in 1..n : Fits(wanted, sequence[m]) =>
            \/ Precedes(wanted, sequence[m], sequence[state.best])
            \/ Rivals(wanted, sequence[m], sequence[state.best])
       /\ state.unsure <=> \E m \in 1..n : /\ Fits(wanted, sequence[m])
                                           /\ Rivals(wanted, sequence[m], sequence[state.best])
                                           /\ sequence[m].id # sequence[state.best].id

\* Of two episodes one precedes the other or they are rivals, and both are orders.
Measured(wanted, a) == a.order \in Nat /\ EpisodeScore(wanted, a) \in Nat

LEMMA TwoMeasures ==
  ASSUME NEW s \in Nat, NEW t \in Nat, NEW m \in Nat, NEW n \in Nat
  PROVE  s < t \/ (s = t /\ m < n) \/ (s = t /\ m = n) \/ t < s \/ (t = s /\ n < m)
OBVIOUS

LEMMA OrderOfTwo ==
  ASSUME NEW wanted, NEW a, NEW b, Measured(wanted, a), Measured(wanted, b)
  PROVE  Precedes(wanted, a, b) \/ Rivals(wanted, a, b) \/ Precedes(wanted, b, a)
<1>1. PICK s \in Nat : s = EpisodeScore(wanted, a)
  BY DEF Measured
<1>2. PICK t \in Nat : t = EpisodeScore(wanted, b)
  BY DEF Measured
<1>3. PICK m \in Nat : m = a.order
  BY DEF Measured
<1>4. PICK n \in Nat : n = b.order
  BY DEF Measured
<1> QED BY <1>1, <1>2, <1>3, <1>4, TwoMeasures DEF Precedes, Rivals

LEMMA ThreeMeasures ==
  ASSUME NEW s \in Nat, NEW t \in Nat, NEW u \in Nat, NEW m \in Nat, NEW n \in Nat, NEW o \in Nat,
         s < t \/ (s = t /\ m < n) \/ (s = t /\ m = n), t < u \/ (t = u /\ n < o)
  PROVE  (s < u \/ (s = u /\ m < o)) /\ ~(s = u /\ m = o)
OBVIOUS

LEMMA OrderOfThree ==
  ASSUME NEW wanted, NEW a, NEW b, NEW c,
         Measured(wanted, a), Measured(wanted, b), Measured(wanted, c),
         Precedes(wanted, a, b) \/ Rivals(wanted, a, b), Precedes(wanted, b, c)
  PROVE  Precedes(wanted, a, c) /\ ~Rivals(wanted, a, c)
<1>1. PICK s \in Nat : s = EpisodeScore(wanted, a)
  BY DEF Measured
<1>2. PICK t \in Nat : t = EpisodeScore(wanted, b)
  BY DEF Measured
<1>3. PICK u \in Nat : u = EpisodeScore(wanted, c)
  BY DEF Measured
<1>4. PICK m \in Nat : m = a.order
  BY DEF Measured
<1>5. PICK n \in Nat : n = b.order
  BY DEF Measured
<1>6. PICK o \in Nat : o = c.order
  BY DEF Measured
<1>7. s < t \/ (s = t /\ m < n) \/ (s = t /\ m = n)
  BY <1>1, <1>2, <1>4, <1>5 DEF Precedes, Rivals
<1>8. t < u \/ (t = u /\ n < o)
  BY <1>2, <1>3, <1>5, <1>6 DEF Precedes
<1>9. (s < u \/ (s = u /\ m < o)) /\ ~(s = u /\ m = o)
  BY <1>7, <1>8, ThreeMeasures
<1> QED BY <1>1, <1>3, <1>4, <1>6, <1>9 DEF Precedes, Rivals

LEMMA NoneBetter ==
  ASSUME NEW wanted, NEW a, NEW b, Measured(wanted, a), Measured(wanted, b)
  PROVE  /\ Precedes(wanted, a, b) \/ Rivals(wanted, a, b) =>
              /\ EpisodeScore(wanted, a) <= EpisodeScore(wanted, b)
              /\ EpisodeScore(wanted, b) <= EpisodeScore(wanted, a) => a.order <= b.order
         /\ EpisodeScore(wanted, a) <= EpisodeScore(wanted, b)
            /\ EpisodeScore(wanted, b) <= EpisodeScore(wanted, a)
            /\ a.order <= b.order /\ b.order <= a.order => Rivals(wanted, a, b)
<1>1. PICK s \in Nat : s = EpisodeScore(wanted, a)
  BY DEF Measured
<1>2. PICK t \in Nat : t = EpisodeScore(wanted, b)
  BY DEF Measured
<1>3. PICK m \in Nat : m = a.order
  BY DEF Measured
<1>4. PICK n \in Nat : n = b.order
  BY DEF Measured
<1>5. /\ s < t \/ (s = t /\ m < n) \/ (s = t /\ m = n) => s <= t /\ (t <= s => m <= n)
      /\ s <= t /\ t <= s /\ m <= n /\ n <= m => s = t /\ m = n
  OBVIOUS
<1> QED BY <1>1, <1>2, <1>3, <1>4, <1>5 DEF Precedes, Rivals

LEMMA RecalledReads ==
  ASSUME NEW Stories, NEW wanted,
         \A episode \in Stories : episode.order \in Nat /\ EpisodeScore(wanted, episode) \in Nat,
         NEW sequence \in Seq(Stories), NEW n \in 1..Len(sequence), NEW state \in Recalls,
         RecallOf(wanted, sequence, state, n - 1)
  PROVE  RecallOf(wanted, sequence, Recalled(wanted, sequence, state, n), n)
<1> DEFINE next == Recalled(wanted, sequence, state, n)
           new == sequence[n]
           best == sequence[state.best]
           Worth(e) == EpisodeScore(wanted, e)
<1> SUFFICES RecallOf(wanted, sequence, next, n)
  OBVIOUS
<1>1. \A m \in 1..n : sequence[m].order \in Nat /\ Worth(sequence[m]) \in Nat
  <2>1. \A m \in 1..n : sequence[m] \in Stories
    OBVIOUS
  <2> QED BY <2>1
<1>2. /\ \A m \in 1..n : m \in 1..n - 1 \/ m = n
      /\ \A m \in 1..n - 1 : m \in 1..n /\ m # 0
      /\ n \in 1..n /\ n # 0 /\ n \in Nat
  OBVIOUS
<1>3. new.order \in Nat /\ Worth(new) \in Nat
  BY <1>1, <1>2
<1>4. CASE ~Fits(wanted, new)
  <2>1. next = state
    BY <1>3, <1>4 DEF Recalled, Fits
  <2> HIDE DEF next
  <2>2. CASE state.best = 0
    <3>1. \A m \in 1..n : ~Fits(wanted, sequence[m])
      BY <1>2, <1>4, <2>2 DEF RecallOf
    <3> QED BY <2>1, <2>2, <3>1 DEF RecallOf
  <2>3. CASE state.best # 0
    <3>1. /\ \A m \in 1..n : Fits(wanted, sequence[m]) =>
               Precedes(wanted, sequence[m], best) \/ Rivals(wanted, sequence[m], best)
          /\ state.unsure <=> \E m \in 1..n : /\ Fits(wanted, sequence[m])
                                              /\ Rivals(wanted, sequence[m], best)
                                              /\ sequence[m].id # best.id
          /\ state.best \in 1..n /\ Fits(wanted, best) /\ state.score = Worth(best)
      BY <1>2, <1>4, <2>3 DEF RecallOf
    <3> QED BY <2>1, <2>3, <3>1 DEF RecallOf
  <2> QED BY <2>2, <2>3
<1>5. CASE Fits(wanted, new) /\ state.best = 0
  <2>1. next = [best |-> n, score |-> Worth(new), unsure |-> FALSE]
    BY <1>3, <1>5 DEF Recalled, Fits
  <2> HIDE DEF next
  <2>2. /\ next \in Recalls /\ next.best = n /\ next.score = Worth(new) /\ ~next.unsure
    BY <1>2, <1>3, <2>1 DEF Recalls
  <2>3. \A m \in 1..n : Fits(wanted, sequence[m]) => m = n
    BY <1>2, <1>5 DEF RecallOf
  <2>4. Rivals(wanted, new, new)
    BY DEF Rivals
  <2> QED BY <1>2, <1>5, <2>2, <2>3, <2>4 DEF RecallOf
<1>6. CASE Fits(wanted, new) /\ state.best # 0
  <2>1. /\ state.best \in 1..n - 1 /\ Fits(wanted, best) /\ state.score = Worth(best)
        /\ \A m \in 1..n - 1 : Fits(wanted, sequence[m]) =>
             Precedes(wanted, sequence[m], best) \/ Rivals(wanted, sequence[m], best)
        /\ state.unsure <=> \E m \in 1..n - 1 : /\ Fits(wanted, sequence[m])
                                                /\ Rivals(wanted, sequence[m], best)
                                                /\ sequence[m].id # best.id
    BY <1>6 DEF RecallOf
  <2>2. best.order \in Nat /\ Worth(best) \in Nat /\ state.best \in 1..n
    BY <1>1, <1>2, <2>1
  <2>3. state.unsure \in BOOLEAN /\ state.best \in Nat /\ state.score \in Nat
    BY DEF Recalls
  <2>4. CASE Precedes(wanted, best, new)
    <3>1. /\ next.best = n /\ next.score = Worth(new) /\ next.unsure = FALSE
          /\ next \in Recalls
      <4>1. CASE Worth(new) > state.score
        <5>1. next = [best |-> n, score |-> Worth(new), unsure |-> FALSE]
          BY <1>3, <1>6, <4>1 DEF Recalled, Fits
        <5> HIDE DEF next
        <5> QED BY <1>2, <1>3, <5>1 DEF Recalls
      <4>2. CASE ~(Worth(new) > state.score)
        <5>1. new.order > best.order /\ Worth(new) = state.score
          BY <1>3, <2>1, <2>2, <2>4, <4>2 DEF Precedes
        <5>2. next = [state EXCEPT !.best = n, !.unsure = FALSE]
          BY <1>3, <1>6, <4>2, <5>1 DEF Recalled, Fits
        <5> HIDE DEF next
        <5> QED BY <1>2, <2>3, <5>1, <5>2 DEF Recalls
      <4> QED BY <4>1, <4>2
    <3> HIDE DEF next
    <3>2. ASSUME NEW m \in 1..n, Fits(wanted, sequence[m]), m # n
          PROVE  Precedes(wanted, sequence[m], new) /\ ~Rivals(wanted, sequence[m], new)
      <4>1. Precedes(wanted, sequence[m], best) \/ Rivals(wanted, sequence[m], best)
        BY <1>2, <2>1, <3>2
      <4>2. sequence[m].order \in Nat /\ Worth(sequence[m]) \in Nat
        BY <1>1
      <4>3. Measured(wanted, sequence[m]) /\ Measured(wanted, best) /\ Measured(wanted, new)
        BY <1>3, <2>2, <4>2 DEF Measured
      <4> HIDE DEF best, new
      <4> QED BY <2>4, <4>1, <4>3, OrderOfThree
    <3>3. Rivals(wanted, new, new)
      BY DEF Rivals
    <3> QED BY <1>2, <1>6, <3>1, <3>2, <3>3 DEF RecallOf
  <2>5. CASE ~Precedes(wanted, best, new)
    <3>1. Precedes(wanted, new, best) \/ Rivals(wanted, new, best)
      <4>1. Measured(wanted, best) /\ Measured(wanted, new)
        BY <1>3, <2>2 DEF Measured
      <4> HIDE DEF best, new
      <4> QED BY <2>5, <4>1, OrderOfTwo
    <3>2. /\ next.best = state.best /\ next.score = state.score /\ next \in Recalls
          /\ next.unsure = (state.unsure \/ (Rivals(wanted, new, best) /\ new.id # best.id))
      <4>1. CASE Rivals(wanted, new, best) /\ new.id # best.id
        <5>1. next = [state EXCEPT !.unsure = TRUE]
          <6>1. Worth(new) = state.score /\ new.order = best.order
            BY <2>1, <4>1 DEF Rivals
          <6>2. ~(Worth(new) = 0) /\ ~(Worth(new) > state.score) /\ ~(Worth(new) < state.score)
                /\ ~(new.order > best.order)
            BY <1>3, <1>6, <6>1 DEF Fits
          <6> QED BY <1>6, <4>1, <6>1, <6>2 DEF Recalled, Fits
        <5> HIDE DEF next
        <5> QED BY <2>3, <4>1, <5>1 DEF Recalls
      <4>2. CASE ~(Rivals(wanted, new, best) /\ new.id # best.id)
        <5>1. next = state
          BY <1>3, <1>6, <2>1, <2>2, <2>5, <4>2 DEF Recalled, Fits, Rivals, Precedes
        <5> HIDE DEF next
        <5> QED BY <2>3, <4>2, <5>1
      <4> QED BY <4>1, <4>2
    <3> HIDE DEF next
    <3>3. \A m \in 1..n : Fits(wanted, sequence[m]) =>
            Precedes(wanted, sequence[m], best) \/ Rivals(wanted, sequence[m], best)
      BY <1>2, <2>1, <3>1
    <3>4. next.unsure <=> \E m \in 1..n : /\ Fits(wanted, sequence[m])
                                          /\ Rivals(wanted, sequence[m], best)
                                          /\ sequence[m].id # best.id
      BY <1>2, <1>6, <2>1, <2>3, <3>2
    <3> QED BY <1>6, <2>1, <2>2, <3>2, <3>3, <3>4 DEF RecallOf
  <2> QED BY <2>4, <2>5
<1> QED BY <1>4, <1>5, <1>6

LEMMA RecallReads ==
  ASSUME NEW Stories, NEW wanted,
         \A episode \in Stories : episode.order \in Nat /\ EpisodeScore(wanted, episode) \in Nat,
         NEW sequence \in Seq(Stories)
  PROVE  \E state : /\ RecallOf(wanted, sequence, state, Len(sequence))
                    /\ RecallLatest(wanted, sequence) = IF state.unsure THEN 0 ELSE state.best
<1> DEFINE N == Len(sequence)
           step == [p \in Recalls \X (1..N) |->
                      IF RecallOf(wanted, sequence, p[1], p[2] - 1)
                      THEN Recalled(wanted, sequence, p[1], p[2]) ELSE NoRecall]
           Is(f) == f = [n \in 0..N |-> IF n = 0 THEN NoRecall
                                        ELSE Recalled(wanted, sequence, f[n - 1], n)]
           after == CHOOSE f : Is(f)
<1>1. N \in Nat /\ NoRecall \in Recalls
  BY DEF NoRecall, Recalls
<1>2. step \in Steps(Recalls, N)
  <2>1. ASSUME NEW x \in Recalls, NEW n \in 1..N, RecallOf(wanted, sequence, x, n - 1)
        PROVE  Recalled(wanted, sequence, x, n) \in Recalls
    BY <2>1, RecalledReads DEF RecallOf
  <2> QED BY <1>1, <2>1 DEF Steps
<1>3. \A x \in Recalls, n \in 1..N :
        RecallOf(wanted, sequence, x, n - 1) => step[<<x, n>>] = Recalled(wanted, sequence, x, n)
  OBVIOUS
<1> HIDE DEF step, N
<1>4. PICK f \in [0..N -> Recalls] : f[0] = NoRecall /\ \A n \in 1..N : f[n] = step[<<f[n - 1], n>>]
  <2>1. ValuesOf(Recalls, N, NoRecall, step) # {}
    BY <1>1, <1>2, StepwiseExists
  <2> QED BY <2>1 DEF ValuesOf
<1> DEFINE P == {n \in 0..N : /\ RecallOf(wanted, sequence, f[n], n)
                              /\ n > 0 => f[n] = Recalled(wanted, sequence, f[n - 1], n)}
<1>5. 0..N \subseteq P
  <2>1. 0 \in P
    <3>1. RecallOf(wanted, sequence, NoRecall, 0)
      BY <1>1 DEF RecallOf, NoRecall
    <3> QED BY <1>1, <1>4, <3>1
  <2>2. ASSUME NEW n \in 0..N, n < N, n \in P PROVE n + 1 \in P
    <3>1. n + 1 \in 1..N /\ n + 1 \in 0..N /\ (n + 1) - 1 = n /\ n + 1 > 0
      BY <1>1, <2>2
    <3>2. RecallOf(wanted, sequence, f[n], n) /\ f[n] \in Recalls
      BY <2>2
    <3>3. f[n + 1] = Recalled(wanted, sequence, f[n], n + 1)
      BY <1>3, <1>4, <3>1, <3>2
    <3>4. RecallOf(wanted, sequence, f[n + 1], n + 1)
      BY <3>1, <3>2, <3>3, RecalledReads DEF N
    <3> QED BY <3>1, <3>3, <3>4
  <2> HIDE DEF P
  <2> QED BY <1>1, <2>1, <2>2, Upwards
<1>6. Is(f)
  <2>1. \A n \in 0..N : n # 0 => n > 0
    BY <1>1
  <2>2. \A n \in 0..N : f[n] = IF n = 0 THEN NoRecall ELSE Recalled(wanted, sequence, f[n - 1], n)
    BY <1>4, <1>5, <2>1
  <2> QED BY <2>2
<1>7. Is(after)
  BY <1>6
<1>8. RecallLatest(wanted, sequence) = IF after[N].unsure THEN 0 ELSE after[N].best
  BY DEF RecallLatest, NoRecall, N
<1> HIDE DEF after
<1> DEFINE Q == {n \in 0..N : after[n] = f[n]}
<1>9. 0..N \subseteq Q
  <2>1. 0 \in Q
    <3>1. 0 \in 0..N
      BY <1>1
    <3> QED BY <1>4, <1>7, <3>1
  <2>2. ASSUME NEW n \in 0..N, n < N, n \in Q PROVE n + 1 \in Q
    <3>1. n + 1 \in 0..N /\ (n + 1) - 1 = n /\ n + 1 # 0 /\ n + 1 > 0
      BY <1>1, <2>2
    <3>2. f[n + 1] = Recalled(wanted, sequence, f[n], n + 1)
      BY <1>5, <3>1
    <3>3. after[n + 1] = Recalled(wanted, sequence, after[n], n + 1)
      BY <1>7, <3>1
    <3> QED BY <2>2, <3>1, <3>2, <3>3
  <2> HIDE DEF Q
  <2> QED BY <1>1, <2>1, <2>2, Upwards
<1>10. N \in 0..N
  BY <1>1
<1>11. after[N] = f[N] /\ RecallOf(wanted, sequence, f[N], N)
  BY <1>5, <1>9, <1>10
<1> QED BY <1>8, <1>11 DEF N

LEMMA RecallExact ==
  ASSUME NEW Stories, NEW wanted,
         \A episode \in Stories : episode.order \in Nat /\ EpisodeScore(wanted, episode) \in Nat,
         NEW sequence \in Seq(Stories)
  PROVE  RecallIsExact(wanted, sequence)
<1> DEFINE matching == {n \in DOMAIN sequence :
                          Asked(wanted, sequence[n]) /\ EpisodeScore(wanted, sequence[n]) > 0}
           best == {n \in matching : \A m \in matching :
                      EpisodeScore(wanted, sequence[m]) <= EpisodeScore(wanted, sequence[n])}
           latest == {n \in best : \A m \in best : sequence[m].order <= sequence[n].order}
           ids == {sequence[n].id : n \in latest}
           answer == RecallLatest(wanted, sequence)
<1>1. PICK state : /\ RecallOf(wanted, sequence, state, Len(sequence))
                   /\ answer = IF state.unsure THEN 0 ELSE state.best
  BY RecallReads
<1>2. /\ DOMAIN sequence = 1..Len(sequence)
      /\ \A n \in DOMAIN sequence :
           sequence[n].order \in Nat /\ EpisodeScore(wanted, sequence[n]) \in Nat
  <2>1. DOMAIN sequence = 1..Len(sequence) /\ \A n \in 1..Len(sequence) : sequence[n] \in Stories
    OBVIOUS
  <2> QED BY <2>1
<1>3. \A n \in DOMAIN sequence : n \in matching <=> Fits(wanted, sequence[n])
  BY DEF Fits
<1> HIDE DEF answer
<1>4. CASE state.best = 0
  <2>1. matching = {}
    BY <1>1, <1>2, <1>3, <1>4 DEF RecallOf
  <2>2. answer = 0
    BY <1>1, <1>4 DEF RecallOf, NoRecall
  <2>3. ids = {}
    BY <2>1
  <2>4. Cardinality({}) = 0
    BY FS_EmptySet
  <2>5. Cardinality(ids) # 1
    <3> HIDE DEF ids
    <3> QED BY <2>3, <2>4
  <2> QED BY <2>2, <2>5 DEF RecallIsExact, answer
<1>5. CASE state.best # 0
  <2>1. state.best \in matching
    BY <1>1, <1>2, <1>3, <1>5 DEF RecallOf
  <2>2. \A m \in matching : \/ Precedes(wanted, sequence[m], sequence[state.best])
                            \/ Rivals(wanted, sequence[m], sequence[state.best])
    BY <1>1, <1>2, <1>3, <1>5 DEF RecallOf
  <2>3. state.unsure <=> \E m \in matching : /\ Rivals(wanted, sequence[m], sequence[state.best])
                                             /\ sequence[m].id # sequence[state.best].id
    BY <1>1, <1>2, <1>3, <1>5 DEF RecallOf
  <2>4. \A m \in matching : sequence[m].order \in Nat /\ EpisodeScore(wanted, sequence[m]) \in Nat
    BY <1>2
  <2> HIDE DEF matching
  <2>5. state.best \in best
    <3>1. \A m \in matching : Measured(wanted, sequence[m])
      BY <2>4 DEF Measured
    <3>2. \A m \in matching : EpisodeScore(wanted, sequence[m]) <= EpisodeScore(wanted, sequence[state.best])
      BY <2>1, <2>2, <3>1, NoneBetter
    <3> QED BY <2>1, <3>2
  <2>6. \A m \in best : EpisodeScore(wanted, sequence[m]) = EpisodeScore(wanted, sequence[state.best])
    BY <2>1, <2>4, <2>5
  <2>7. state.best \in latest
    <3>1. \A m \in matching : Measured(wanted, sequence[m])
      BY <2>4 DEF Measured
    <3>2. \A m \in best : m \in matching
      OBVIOUS
    <3>3. \A m \in best : EpisodeScore(wanted, sequence[state.best]) <= EpisodeScore(wanted, sequence[m])
      BY <2>1, <3>2
    <3>4. \A m \in best : sequence[m].order <= sequence[state.best].order
      <4> HIDE DEF best
      <4> QED BY <2>1, <2>2, <3>1, <3>2, <3>3, NoneBetter
    <3> QED BY <2>5, <3>4
  <2>8. \A m \in matching : m \in latest <=> Rivals(wanted, sequence[m], sequence[state.best])
    <3>1. ASSUME NEW m \in latest PROVE Rivals(wanted, sequence[m], sequence[state.best])
      <4>1. m \in matching /\ Measured(wanted, sequence[m])
            /\ Measured(wanted, sequence[state.best])
        BY <2>1, <2>4 DEF Measured
      <4>2. /\ EpisodeScore(wanted, sequence[m]) <= EpisodeScore(wanted, sequence[state.best])
            /\ EpisodeScore(wanted, sequence[state.best]) <= EpisodeScore(wanted, sequence[m])
            /\ sequence[m].order <= sequence[state.best].order
            /\ sequence[state.best].order <= sequence[m].order
        BY <2>1, <2>5, <2>7, <4>1
      <4> QED BY <4>1, <4>2, NoneBetter
    <3>2. ASSUME NEW m \in matching, Rivals(wanted, sequence[m], sequence[state.best])
          PROVE  m \in latest
      BY <2>4, <2>5, <2>7, <3>2 DEF Rivals
    <3> QED BY <3>1, <3>2
  <2>9. latest \subseteq matching
    OBVIOUS
  <2> HIDE DEF latest, best
  <2>10. CASE state.unsure
    <3>1. PICK m \in latest : sequence[m].id # sequence[state.best].id
      BY <2>3, <2>8, <2>10
    <3>2. ~(\E x : ids = {x})
      BY <2>7, <3>1
    <3>3. Cardinality(ids) # 1
      <4>1. IsFiniteSet(DOMAIN sequence)
        BY <1>2, FS_Interval
      <4>2. IsFiniteSet(latest)
        BY <2>9, <4>1, FS_Subset DEF matching
      <4> DEFINE f == [n \in latest |-> sequence[n].id]
      <4>3. f \in Surjection(latest, ids)
        BY DEF Surjection
      <4> HIDE DEF f, ids
      <4>4. IsFiniteSet(ids)
        BY <4>2, <4>3, FS_Surjection
      <4> QED BY <3>2, <4>4, FS_Singleton
    <3>4. answer = 0
      BY <1>1, <2>10
    <3> QED BY <3>3, <3>4 DEF RecallIsExact, answer, latest, best, matching
  <2>11. CASE ~state.unsure
    <3>1. \A m \in latest : sequence[m].id = sequence[state.best].id
      BY <2>3, <2>8, <2>9, <2>11
    <3>2. ids = {sequence[state.best].id}
      BY <2>7, <3>1
    <3>3. Cardinality(ids) = 1
      BY <3>2, FS_Singleton
    <3>4. answer = state.best
      BY <1>1, <2>11
    <3> QED BY <2>7, <3>3, <3>4 DEF RecallIsExact, answer, latest, best, matching
  <2> QED BY <2>10, <2>11
<1> QED BY <1>4, <1>5

-----------------------------------------------------------------------------
(* The readers of the runtime.                                             *)

LEMMA OverlapIsNat ==
  ASSUME NEW words, NEW text, IsFiniteSet(words)
  PROVE  Overlap(words, text) \in Nat
<1>1. CASE words = {}
  BY <1>1 DEF Overlap
<1>2. CASE words # {}
  <2>1. PICK c \in Nat : c = Cardinality(words)
    BY FS_CardinalityType
  <2>2. c > 0
    BY <1>2, <2>1, FS_EmptySet
  <2>3. PICK d \in Nat : d = Cardinality(words \cap text)
    <3>1. IsFiniteSet(words \cap text)
      BY FS_Subset
    <3> QED BY <3>1, FS_CardinalityType
  <2>4. (12 * d) \div c \in Nat
    BY <2>2
  <2> QED BY <1>2, <2>1, <2>3, <2>4 DEF Overlap
<1> QED BY <1>1, <1>2

LEMMA ScoreIsNat ==
  ASSUME NEW wanted, NEW episode, IsFiniteSet(wanted.words), IsFiniteSet(wanted.topics)
  PROVE  EpisodeScore(wanted, episode) \in Nat
<1>1. PICK overlap \in Nat :
        overlap = Overlap(wanted.words, episode.words \cup episode.topics \cup ToSet(episode.event))
  BY OverlapIsNat
<1>2. PICK c \in Nat : c = Cardinality(wanted.topics)
  BY FS_CardinalityType
<1>3. PICK met \in Nat : met = (IF wanted.event = None THEN 0 ELSE 24)
  OBVIOUS
<1> QED BY <1>1, <1>2, <1>3 DEF EpisodeScore, Explicit

\* Facts with an order each, learned in any order: the state answered is the
\* latest of them and the one before it (memoria_temporal_state_resolve).
THEOREM EveryHistoryExact ==
  ASSUME NEW Pool, \A fact \in Pool : fact.order \in Nat, NEW known \in Seq(Pool), known # <<>>
  PROVE  HistoryIsExact(known)
BY HistoryReads

\* Episodes stored in any order, of a request with finitely many words and
\* topics: the latest of the best matches is recalled, and none when two of
\* them share one order (memoria_episode_recall_latest).
THEOREM EveryRecallExact ==
  ASSUME NEW Stories, \A episode \in Stories : episode.order \in Nat, NEW sequence \in Seq(Stories),
         NEW wanted, IsFiniteSet(wanted.words), IsFiniteSet(wanted.topics)
  PROVE  RecallIsExact(wanted, sequence)
<1>1. \A episode \in Stories : EpisodeScore(wanted, episode) \in Nat
  BY ScoreIsNat
<1> QED BY <1>1, RecallExact

\* The lists a behaviour is given.
ReadersInv ==
  /\ focus = "histories" => given \in Histories
  /\ focus = "sessions" => given \in Sessions

LEMMA ReadersInvGives == ReadersInv => ReadersExact
<1> SUFFICES ASSUME ReadersInv PROVE ReadersExact
  OBVIOUS
<1>1. ASSUME focus = "histories" PROVE HistoryIsExact(given)
  <2>1. PICK n \in 1..4 : given \in [1..n -> [order: 1..3]]
    BY <1>1 DEF ReadersInv, Histories
  <2>2. given \in Seq([order: 1..3]) /\ Len(given) = n
    <3>1. PICK pool : pool = [order: 1..3]
      OBVIOUS
    <3>2. given \in [1..n -> pool]
      BY <2>1, <3>1
    <3>3. given \in Seq(pool) /\ Len(given) = n
      BY <3>2
    <3> QED BY <3>1, <3>3
  <2>4. given # <<>>
    BY <2>2
  <2>3. \A fact \in [order: 1..3] : fact.order \in Nat
    OBVIOUS
  <2> QED BY <2>2, <2>3, <2>4, EveryHistoryExact
<1>2. ASSUME focus = "sessions", NEW wanted \in Wanted PROVE RecallIsExact(wanted, given)
  <2> DEFINE stories == {Told(id, "s", <<"met">>, topics, order) :
                           id \in {1, 2}, topics \in {{"rain"}, {}}, order \in {1, 2}}
                        \cup {Told(3, "s", None, {"garden"}, 1), Told(3, "r", <<"met">>, {"rain"}, 3)}
  <2>1. PICK n \in 1..3 : given \in [1..n -> stories]
    BY <1>2 DEF ReadersInv, Sessions
  <2>2. \A episode \in stories : episode.order \in Nat
    BY DEF Told
  <2> HIDE DEF stories
  <2>3. given \in Seq(stories)
    BY <2>1
  <2>4. /\ wanted.words \in {{"garden", "rain"}, {"snow"}}
        /\ wanted.topics \in {{}, {"garden"}}
    BY DEF Wanted
  <2>5. IsFiniteSet({}) /\ IsFiniteSet({"garden"}) /\ IsFiniteSet({"snow"})
        /\ IsFiniteSet({"garden", "rain"})
    <3>1. \A x : IsFiniteSet({x})
      BY FS_Singleton
    <3>2. {"garden", "rain"} = {"garden"} \cup {"rain"}
      OBVIOUS
    <3>3. IsFiniteSet({"garden"} \cup {"rain"})
      BY <3>1, FS_Union
    <3> QED BY <3>1, <3>2, <3>3, FS_EmptySet
  <2>6. IsFiniteSet(wanted.words) /\ IsFiniteSet(wanted.topics)
    BY <2>4, <2>5
  <2> QED BY <2>2, <2>3, <2>6, EveryRecallExact
<1> QED BY <1>1, <1>2 DEF ReadersExact

\* The lists a reader is given stay as they are, and it reads each of them
\* exactly (temporal_state_kernel.c, episodic_kernel.c).
THEOREM ReadersAlwaysExact == Spec => []ReadersExact
<1>1. Init => ReadersInv
  BY DEF Init, MemoryInit, ReadersInv, Views!ViewFoci
<1>2. ReadersInv /\ [Next]_<<focus, memoryVars, viewVars>> => ReadersInv'
  <2>1. MemoryNext => UNCHANGED <<focus, given>>
    BY DEF MemoryNext
  <2>2. Views!ViewsNext /\ UNCHANGED memoryVars => UNCHANGED <<focus, given>>
    BY DEF Views!ViewsNext, memoryVars
  <2>3. UNCHANGED <<focus, memoryVars, viewVars>> => UNCHANGED <<focus, given>>
    BY DEF memoryVars
  <2> QED BY <2>1, <2>2, <2>3 DEF ReadersInv, Next
<1> QED BY <1>1, <1>2, ReadersInvGives, PTL DEF Spec

-----------------------------------------------------------------------------
(* The index.                                                              *)

LEMMA MinExists ==
  ASSUME NEW S \in SUBSET Nat, S # {}
  PROVE  Min(S) \in S /\ \A j \in S : Min(S) <= j
<1>1. PICK n \in S : TRUE
  OBVIOUS
<1> DEFINE short == {m \in 0..n : n - m \in S}
<1>2. short \in SUBSET Nat /\ IsFiniteSet(short) /\ 0 \in short
  <2>1. IsFiniteSet(0..n) /\ short \subseteq 0..n
    BY <1>1, FS_Interval
  <2> QED BY <1>1, <2>1, FS_Subset
<1> HIDE DEF short
<1>3. PICK m \in short : \A j \in short : j <= m
  BY <1>2, MaxExists
<1>4. n - m \in S /\ m \in 0..n
  BY DEF short
<1>5. ASSUME NEW j \in S PROVE n - m <= j
  <2>1. CASE j > n
    BY <1>4, <2>1
  <2>2. CASE ~(j > n)
    <3>1. n - j \in 0..n /\ n - (n - j) = j
      BY <1>1, <2>2
    <3>2. n - j \in short
      BY <3>1 DEF short
    <3> QED BY <1>3, <1>4, <3>1, <3>2
  <2> QED BY <2>1, <2>2
<1> QED BY <1>4, <1>5 DEF Min

-----------------------------------------------------------------------------
(* The table.                                                              *)

\* Every slot is looked at.
LEMMA EverySlot ==
  ASSUME NEW c \in Nat, c > 0, NEW h \in Nat
  PROVE  /\ \A k \in Nat : (h + k) % c \in 0..c - 1
         /\ \A p \in 0..c - 1 : \E k \in 0..c - 1 : (h + k) % c = p
<1>1. \A k \in Nat : (h + k) % c \in 0..c - 1
  OBVIOUS
<1>2. ASSUME NEW p \in 0..c - 1 PROVE \E k \in 0..c - 1 : (h + k) % c = p
  <2>1. PICK a \in Nat, r \in 0..c - 1 : h = c * a + r
    <3>1. h \div c \in Nat /\ h % c \in 0..c - 1 /\ h = c * (h \div c) + (h % c)
      OBVIOUS
    <3> QED BY <3>1
  <2>2. \A b \in Nat : (c * b + p) % c = p
    OBVIOUS
  <2>3. CASE r <= p
    <3>1. p - r \in 0..c - 1 /\ h + (p - r) = c * a + p
      BY <2>1, <2>3
    <3> QED BY <2>2, <3>1
  <2>4. CASE ~(r <= p)
    <3>1. p - r + c \in 0..c - 1
      BY <2>4
    <3>2. h + (p - r + c) = c * (a + 1) + p /\ a + 1 \in Nat
      <4>1. c * (a + 1) = c * a + c
        OBVIOUS
      <4> QED BY <2>1, <4>1
    <3>3. (c * (a + 1) + p) % c = p
      BY <2>2, <3>2
    <3> QED BY <3>1, <3>2, <3>3
  <2> QED BY <2>3, <2>4
<1> QED BY <1>1, <1>2

TableEntries == {Free} \cup {Entry(r, q) : r \in Nat \ {0}, q \in Nat}
Tables(c) == [0..c - 1 -> TableEntries]
Taken(t) == {p \in DOMAIN t : t[p] # Free}

Occurs(held, r, q) == r \in 1..Len(held) /\ q \in 1..Len(held[r])

\* The slot is met before any that is free.
Near(t, hash, p) ==
  \E k \in 0..Capacity(t) - 1 :
    At(t, hash, k) = p /\ \A j \in 0..k - 1 : t[At(t, hash, j)] # Free

\* Each key has one entry, which a search meets.
TableSound(held, t, c) ==
  /\ t \in Tables(c)
  /\ \A p \in Taken(t) :
       /\ Occurs(held, t[p].row, t[p].place) /\ KeyOf(held, t[p]) \in Keys
       /\ Near(t, Hash[KeyOf(held, t[p])], p)
  /\ \A p, q \in Taken(t) : KeyOf(held, t[p]) = KeyOf(held, t[q]) => p = q

\* An entry of the rows whose key is in none of the slots.
IsNew(held, t, entry) ==
  /\ entry \in TableEntries /\ entry # Free
  /\ Occurs(held, entry.row, entry.place) /\ KeyOf(held, entry) \in Keys
  /\ \A q \in Taken(t) : KeyOf(held, t[q]) # KeyOf(held, entry)

\* One slot more is taken.
Enters(t, new, p, entry) ==
  /\ Taken(new) = Taken(t) \cup {p} /\ p \notin Taken(t)
  /\ new[p] = entry /\ \A q \in Taken(t) : new[q] = t[q]
  /\ Cardinality(Taken(new)) = Cardinality(Taken(t)) + 1

LEMMA CapacityOf ==
  ASSUME NEW c \in Nat, NEW t \in Tables(c)
  PROVE  /\ Capacity(t) = c /\ DOMAIN t = 0..c - 1
         /\ IsFiniteSet(Taken(t)) /\ Cardinality(Taken(t)) \in Nat
         /\ Cardinality(Taken(t)) < c => \E p \in 0..c - 1 : t[p] = Free
<1>1. DOMAIN t = 0..c - 1
  BY DEF Tables
<1>2. IsFiniteSet(0..c - 1) /\ Cardinality(0..c - 1) = c
  BY FS_Interval
<1>3. IsFiniteSet(Taken(t))
  BY <1>1, <1>2, FS_Subset DEF Taken
<1>4. ASSUME \A p \in 0..c - 1 : t[p] # Free PROVE Cardinality(Taken(t)) = c
  <2>1. Taken(t) = 0..c - 1
    BY <1>1, <1>4 DEF Taken
  <2> QED BY <1>2, <2>1
<1> QED BY <1>1, <1>2, <1>3, <1>4, FS_CardinalityType DEF Capacity

LEMMA EntryAdded ==
  ASSUME NEW held, NEW c \in Nat, NEW t, TableSound(held, t, c),
         NEW entry, IsNew(held, t, entry), NEW p \in 0..c - 1, t[p] = Free,
         Near(t, Hash[KeyOf(held, entry)], p),
         NEW new, new = [t EXCEPT ![p] = entry]
  PROVE  TableSound(held, new, c) /\ Enters(t, new, p, entry)
<1>1. t \in Tables(c) /\ DOMAIN t = 0..c - 1 /\ Capacity(t) = c /\ IsFiniteSet(Taken(t))
  BY CapacityOf DEF TableSound
<1>2. new = [t EXCEPT ![p] = entry]
  OBVIOUS
<1>3. /\ new \in Tables(c) /\ DOMAIN new = 0..c - 1 /\ new[p] = entry
      /\ \A q \in 0..c - 1 : q # p => new[q] = t[q]
  BY <1>1, <1>2 DEF Tables, IsNew
<1>4. Capacity(new) = c
  BY <1>3, CapacityOf
<1>5. Taken(new) = Taken(t) \cup {p} /\ p \notin Taken(t)
  BY <1>1, <1>3 DEF Taken, IsNew
<1>6. \A q \in Taken(t) : new[q] = t[q]
  BY <1>1, <1>3, <1>5 DEF Taken
<1>7. Cardinality(Taken(new)) = Cardinality(Taken(t)) + 1
  BY <1>1, <1>5, FS_AddElement
<1>8. ASSUME NEW h, NEW q, Near(t, h, q) PROVE Near(new, h, q)
  <2>1. PICK k \in 0..c - 1 : At(t, h, k) = q /\ \A j \in 0..k - 1 : t[At(t, h, j)] # Free
    BY <1>1, <1>8 DEF Near
  <2>2. \A j : At(new, h, j) = At(t, h, j)
    BY <1>1, <1>4 DEF At
  <2>3. \A j \in 0..k - 1 : new[At(t, h, j)] # Free
    <3> SUFFICES ASSUME NEW j \in 0..k - 1 PROVE new[At(t, h, j)] # Free
      OBVIOUS
    <3>1. CASE At(t, h, j) = p
      BY <1>3, <3>1 DEF IsNew
    <3>2. CASE At(t, h, j) # p
      BY <1>2, <2>1, <3>2, <1>1
    <3> QED BY <3>1, <3>2
  <2> QED BY <1>4, <2>1, <2>2, <2>3 DEF Near
<1>9. TableSound(held, new, c)
  <2>1. \A q \in Taken(new) :
          /\ Occurs(held, new[q].row, new[q].place) /\ KeyOf(held, new[q]) \in Keys
          /\ Near(new, Hash[KeyOf(held, new[q])], q)
    BY <1>3, <1>5, <1>6, <1>8 DEF TableSound, IsNew
  <2>2. \A q, r \in Taken(new) : KeyOf(held, new[q]) = KeyOf(held, new[r]) => q = r
    <3>1. \A q \in Taken(t) : KeyOf(held, new[q]) = KeyOf(held, t[q])
      BY <1>6
    <3>2. KeyOf(held, new[p]) = KeyOf(held, entry)
      BY <1>3
    <3>3. \A q \in Taken(t) : KeyOf(held, t[q]) # KeyOf(held, entry)
      BY DEF IsNew
    <3>4. \A q, r \in Taken(t) : KeyOf(held, t[q]) = KeyOf(held, t[r]) => q = r
      BY DEF TableSound
    <3> QED BY <1>5, <3>1, <3>2, <3>3, <3>4
  <2> QED BY <1>3, <2>1, <2>2 DEF TableSound
<1> QED BY <1>3, <1>5, <1>6, <1>7, <1>9 DEF Enters

\* A search for the key stops here: at its entry, or where it would enter.
Stops(held, t, key, p) ==
  /\ StopsAt(held, t, key) = {p} /\ Near(t, Hash[key], p)
  /\ t[p] # Free => KeyOf(held, t[p]) = key
  /\ t[p] = Free => \A q \in Taken(t) : KeyOf(held, t[q]) # key

LEMMA Searched ==
  ASSUME NEW held, NEW c \in Nat, NEW t, TableSound(held, t, c), NEW key \in Keys,
         NEW free \in 0..c - 1, t[free] = Free
  PROVE  \E p \in 0..c - 1 : Stops(held, t, key, p)
<1> DEFINE h == Hash[key]
           stops == {k \in 0..Capacity(t) - 1 :
                       LET entry == t[At(t, Hash[key], k)]
                       IN  entry = Free \/ Matches(held, entry, key)}
<1>1. t \in Tables(c) /\ DOMAIN t = 0..c - 1 /\ Capacity(t) = c /\ c > 0 /\ h \in Nat
  BY CapacityOf, IndexAssumption DEF TableSound
<1>2. \A k \in 0..c - 1 : k \in stops <=> t[At(t, h, k)] = Free \/ KeyOf(held, t[At(t, h, k)]) = key
  BY <1>1 DEF Matches
<1>3. stops \subseteq 0..c - 1 /\ StopsAt(held, t, key) =
        IF stops = {} THEN {} ELSE {At(t, h, Min(stops))}
  BY <1>1 DEF StopsAt
<1> HIDE DEF stops
<1>4. /\ \A k \in Nat : At(t, h, k) \in 0..c - 1
      /\ \A p \in 0..c - 1 : \E k \in 0..c - 1 : At(t, h, k) = p
  <2> HIDE DEF h
  <2> QED BY <1>1, EverySlot DEF At
<1> HIDE DEF h
<1>5. stops # {}
  BY <1>2, <1>4
<1>6. PICK k \in stops : k = Min(stops) /\ \A j \in stops : k <= j
  <2>1. stops \in SUBSET Nat
    BY <1>3
  <2> QED BY <1>5, <2>1, MinExists
<1>7. PICK p \in 0..c - 1 : p = At(t, h, k)
  BY <1>3, <1>4
<1>8. StopsAt(held, t, key) = {p}
  BY <1>3, <1>5, <1>6, <1>7
<1>9. \A j \in 0..k - 1 : t[At(t, h, j)] # Free /\ KeyOf(held, t[At(t, h, j)]) # key
  <2> SUFFICES ASSUME NEW j \in 0..k - 1 PROVE j \in 0..c - 1 /\ j \notin stops
    BY <1>2
  <2> QED BY <1>3, <1>6
<1>10. Near(t, h, p)
  BY <1>1, <1>3, <1>7, <1>9 DEF Near
<1>11. t[p] # Free => KeyOf(held, t[p]) = key
  BY <1>2, <1>3, <1>7
<1>12. ASSUME t[p] = Free, NEW q \in Taken(t), KeyOf(held, t[q]) = key PROVE FALSE
  <2>1. Near(t, h, q)
    BY <1>12 DEF TableSound, h
  <2>2. PICK m \in 0..c - 1 : At(t, h, m) = q /\ \A j \in 0..m - 1 : t[At(t, h, j)] # Free
    BY <1>1, <2>1 DEF Near
  <2>3. m \in stops
    BY <1>2, <1>12, <2>2
  <2>4. k = m
    <3>1. k \in 0..c - 1 /\ k <= m
      BY <1>3, <1>6, <2>3
    <3>2. ~(k < m)
      BY <1>7, <1>12, <2>2, <3>1
    <3> QED BY <2>2, <3>1, <3>2
  <2> QED BY <1>7, <1>12, <2>2, <2>4 DEF Taken
<1> QED BY <1>8, <1>10, <1>11, <1>12 DEF h, Stops

-----------------------------------------------------------------------------
(* A table that grows.                                                     *)

LEMMA FittingFits ==
  ASSUME NEW desired \in Nat, NEW least \in Nat, least > 0
  PROVE  /\ Fitting(desired, least) \in Nat /\ Fitting(desired, least) > 0
         /\ ~TooFull(desired, Fitting(desired, least)) /\ desired < Fitting(desired, least)
<1> DEFINE Is(f) == f = [n \in 0..desired |->
                           IF n = 0 THEN least ELSE Enlarged(desired, f[n - 1])]
           grown == CHOOSE f : Is(f)
           step == [p \in Nat \X (1..desired) |-> Enlarged(desired, p[1])]
<1>1. \A x \in Nat : Enlarged(desired, x) \in Nat
  BY DEF Enlarged
<1>2. step \in Steps(Nat, desired) /\ \A x \in Nat, n \in 1..desired : step[<<x, n>>] = Enlarged(desired, x)
  BY <1>1 DEF Steps
<1> HIDE DEF step
<1>3. \E f : Is(f)
  <2>0. ValuesOf(Nat, desired, least, step) # {}
    BY <1>2, StepwiseExists
  <2>1. PICK f \in [0..desired -> Nat] :
          f[0] = least /\ \A n \in 1..desired : f[n] = step[<<f[n - 1], n>>]
    BY <2>0 DEF ValuesOf
  <2>2. \A n \in 0..desired : f[n] = IF n = 0 THEN least ELSE Enlarged(desired, f[n - 1])
    <3>1. \A n \in 0..desired : n # 0 => n \in 1..desired /\ n - 1 \in 0..desired
      OBVIOUS
    <3> QED BY <1>2, <2>1, <3>1
  <2>3. Is(f)
    BY <2>1, <2>2
  <2> QED BY <2>3
<1>4. Is(grown)
  BY <1>3
<1>5. Fitting(desired, least) = grown[desired]
  BY DEF Fitting
<1> HIDE DEF grown
<1>6. \A n \in 0..desired : grown[n] = IF n = 0 THEN least ELSE Enlarged(desired, grown[n - 1])
  BY <1>4
<1> DEFINE P == {n \in 0..desired : /\ grown[n] \in Nat /\ grown[n] > 0
                                    /\ TooFull(desired, grown[n]) /\ n > 0 => grown[n] >= 2 * n}
<1>7. 0..desired \subseteq P
  <2>1. 0 \in P
    BY <1>6
  <2>2. ASSUME NEW n \in 0..desired, n < desired, n \in P PROVE n + 1 \in P
    <3>1. n + 1 \in 0..desired /\ grown[n + 1] = Enlarged(desired, grown[n])
      BY <1>6, <2>2
    <3> QED BY <2>2, <3>1 DEF Enlarged, TooFull
  <2> HIDE DEF P
  <2> QED BY <2>1, <2>2, Upwards
<1>8. desired \in P
  BY <1>7
<1>9. ~TooFull(desired, grown[desired])
  BY <1>8 DEF TooFull
<1> QED BY <1>5, <1>8, <1>9 DEF TooFull

LEMMA MovedAdds ==
  ASSUME NEW held, NEW c \in Nat, NEW t, TableSound(held, t, c),
         NEW entry, IsNew(held, t, entry), NEW free \in 0..c - 1, t[free] = Free,
         NEW new, new = Moved(held, t, entry)
  PROVE  TableSound(held, new, c) /\ \E p : Enters(t, new, p, entry)
<1> DEFINE h == Hash[KeyOf(held, entry)]
           S == {n \in 0..Capacity(t) - 1 : t[At(t, h, n)] = Free}
<1>1. t \in Tables(c) /\ Capacity(t) = c /\ c > 0 /\ h \in Nat
  BY CapacityOf, IndexAssumption DEF TableSound, IsNew
<1>2. Moved(held, t, entry) = [t EXCEPT ![At(t, h, Min(S))] = entry]
  BY DEF Moved
<1>3. S \subseteq 0..c - 1 /\ \A n \in 0..c - 1 : n \in S <=> t[At(t, h, n)] = Free
  BY <1>1
<1> HIDE DEF S, h
<1>4. /\ \A k \in Nat : At(t, h, k) \in 0..c - 1
      /\ \A p \in 0..c - 1 : \E k \in 0..c - 1 : At(t, h, k) = p
  <2>1. \A k : At(t, h, k) = (h + k) % c
    BY <1>1 DEF At
  <2>2. /\ \A k \in Nat : (h + k) % c \in 0..c - 1
        /\ \A p \in 0..c - 1 : \E k \in 0..c - 1 : (h + k) % c = p
    BY <1>1, EverySlot
  <2> QED BY <2>1, <2>2
<1>5. S # {} /\ S \in SUBSET Nat
  BY <1>3, <1>4
<1>6. PICK k \in S : k = Min(S) /\ \A j \in S : k <= j
  BY <1>5, MinExists
<1>7. PICK p \in 0..c - 1 : p = At(t, h, k) /\ t[p] = Free
  BY <1>3, <1>4
<1>8. Near(t, h, p)
  <2>1. \A j \in 0..k - 1 : j \in 0..c - 1 /\ j \notin S
    BY <1>3, <1>6
  <2> QED BY <1>1, <1>3, <1>7, <2>1 DEF Near
<1>9. new = [t EXCEPT ![p] = entry]
  BY <1>2, <1>6, <1>7
<1>11. TableSound(held, new, c) /\ Enters(t, new, p, entry)
  <2>1. Near(t, Hash[KeyOf(held, entry)], p)
    BY <1>8 DEF h
  <2> QED BY <1>7, <1>9, <2>1, EntryAdded
<1> QED BY <1>11

\* The entries of the one are those of the other.
SameEntries(t, new) ==
  /\ \A q \in Taken(new) : \E p \in Taken(t) : new[q] = t[p]
  /\ \A p \in Taken(t) : \E q \in Taken(new) : new[q] = t[p]
  /\ Cardinality(Taken(new)) = Cardinality(Taken(t))

LEMMA RehashKeeps ==
  ASSUME NEW held, NEW c \in Nat, NEW t, TableSound(held, t, c),
         NEW d \in Nat, Cardinality(Taken(t)) < d
  PROVE  TableSound(held, Rehash(held, t, d), d) /\ SameEntries(t, Rehash(held, t, d))
<1> DEFINE next(x, n) == IF t[n - 1] = Free THEN x ELSE Moved(held, x, t[n - 1])
           Is(f) == f = [n \in 0..c |-> IF n = 0 THEN NewTable(d) ELSE next(f[n - 1], n)]
           moved == CHOOSE f : Is(f)
           step == [p \in Tables(d) \X (1..c) |-> next(p[1], p[2])]
           T(n) == {p \in Taken(t) : p < n}
<1>1. t \in Tables(c) /\ Capacity(t) = c /\ DOMAIN t = 0..c - 1 /\ IsFiniteSet(Taken(t))
  BY CapacityOf DEF TableSound
<1>2. \A p \in 0..c - 1 : t[p] \in TableEntries
  BY <1>1 DEF Tables
<1>3. /\ step \in Steps(Tables(d), c)
      /\ \A x \in Tables(d), n \in 1..c : step[<<x, n>>] = next(x, n)
  <2>1. ASSUME NEW x \in Tables(d), NEW n \in 1..c PROVE next(x, n) \in Tables(d)
    <3>1. t[n - 1] \in TableEntries
      BY <1>2
    <3>2. \A e \in TableEntries : Moved(held, x, e) \in Tables(d)
      BY DEF Moved, Tables
    <3> QED BY <3>1, <3>2
  <2> HIDE DEF next
  <2> QED BY <2>1 DEF Steps
<1>4. NewTable(d) \in Tables(d) /\ Taken(NewTable(d)) = {}
  BY DEF NewTable, Tables, TableEntries, Taken
<1>5. Rehash(held, t, d) = moved[c]
  BY <1>1 DEF Rehash
<1> HIDE DEF step, next
<1>6. \E f : Is(f)
  <2>1. PICK f \in [0..c -> Tables(d)] :
          f[0] = NewTable(d) /\ \A n \in 1..c : f[n] = step[<<f[n - 1], n>>]
    BY <1>3, <1>4, StepwiseExists DEF ValuesOf
  <2>2. \A n \in 0..c : f[n] = IF n = 0 THEN NewTable(d) ELSE next(f[n - 1], n)
    <3>1. \A n \in 0..c : n # 0 => n \in 1..c /\ n - 1 \in 0..c
      OBVIOUS
    <3> QED BY <1>3, <2>1, <3>1
  <2>3. Is(f)
    BY <2>1, <2>2
  <2> QED BY <2>3
<1>7. Is(moved)
  BY <1>6
<1> HIDE DEF moved
<1>8. \A n \in 0..c : moved[n] = IF n = 0 THEN NewTable(d) ELSE next(moved[n - 1], n)
  BY <1>7
<1> DEFINE Carried(new, n) ==
             /\ TableSound(held, new, d)
             /\ \A q \in Taken(new) : \E p \in T(n) : new[q] = t[p]
             /\ \A p \in T(n) : \E q \in Taken(new) : new[q] = t[p]
             /\ Cardinality(Taken(new)) = Cardinality(T(n))
           P == {n \in 0..c : Carried(moved[n], n)}
<1>9. 0..c \subseteq P
  <2>1. 0 \in P
    <3>1. moved[0] = NewTable(d) /\ 0 \in 0..c
      BY <1>8
    <3>2. T(0) = {}
      BY <1>1 DEF Taken
    <3>3. TableSound(held, NewTable(d), d)
      BY <1>4 DEF TableSound
    <3>4. Carried(NewTable(d), 0)
      BY <1>4, <3>2, <3>3
    <3> HIDE DEF Carried
    <3> QED BY <3>1, <3>4
  <2>2. ASSUME NEW n \in 0..c, n < c, n \in P PROVE n + 1 \in P
    <3>1. n + 1 \in 0..c /\ (n + 1) - 1 = n /\ n \in 0..c - 1
      BY <2>2
    <3>2. moved[n + 1] = IF t[n] = Free THEN moved[n] ELSE Moved(held, moved[n], t[n])
      BY <1>8, <3>1 DEF next
    <3>3. Carried(moved[n], n)
      BY <2>2
    <3>4. PICK old : old = moved[n]
      OBVIOUS
    <3>5. PICK new : new = moved[n + 1]
      OBVIOUS
    <3>6. CASE t[n] = Free
      <4>1. T(n + 1) = T(n)
        BY <1>1, <3>6 DEF Taken
      <4> QED BY <3>1, <3>2, <3>3, <3>6, <4>1
    <3>7. CASE t[n] # Free
      <4>1. n \in Taken(t) /\ t[n] \in TableEntries
        BY <1>1, <1>2, <3>1, <3>7 DEF Taken
      <4>2. T(n + 1) = T(n) \cup {n} /\ n \notin T(n)
        BY <1>1, <4>1 DEF Taken
      <4>3. /\ IsFiniteSet(T(n)) /\ Cardinality(T(n)) <= Cardinality(Taken(t))
            /\ Cardinality(T(n)) \in Nat /\ Cardinality(Taken(t)) \in Nat
        <5>1. T(n) \in SUBSET Taken(t)
          OBVIOUS
        <5> HIDE DEF T
        <5> QED BY <1>1, <5>1, FS_Subset, FS_CardinalityType
      <4>4. Cardinality(T(n + 1)) = Cardinality(T(n)) + 1
        <5> HIDE DEF T
        <5> QED BY <4>2, <4>3, FS_AddElement
      <4> HIDE DEF T
      <4>5. TableSound(held, old, d) /\ Cardinality(Taken(old)) < d
        BY <3>3, <3>4, <4>3
      <4>6. PICK free \in 0..d - 1 : old[free] = Free
        BY <4>5, CapacityOf DEF TableSound
      <4>7. Occurs(held, t[n].row, t[n].place) /\ KeyOf(held, t[n]) \in Keys
        BY <4>1 DEF TableSound
      <4>8. \A q \in Taken(old) : KeyOf(held, old[q]) # KeyOf(held, t[n])
        <5> SUFFICES ASSUME NEW q \in Taken(old) PROVE KeyOf(held, old[q]) # KeyOf(held, t[n])
          OBVIOUS
        <5>1. PICK p \in T(n) : old[q] = t[p]
          BY <3>3, <3>4
        <5>2. p \in Taken(t) /\ p # n
          BY <4>2, <5>1 DEF T
        <5> QED BY <4>1, <5>1, <5>2 DEF TableSound
      <4>9. new = Moved(held, old, t[n])
        BY <3>2, <3>4, <3>5, <3>7
      <4>10. TableSound(held, new, d) /\ \E p : Enters(old, new, p, t[n])
        <5>1. IsNew(held, old, t[n])
          BY <3>7, <4>1, <4>7, <4>8 DEF IsNew
        <5> QED BY <4>5, <4>6, <4>9, <5>1, MovedAdds
      <4>11. Carried(new, n + 1)
        <5>1. PICK p : Enters(old, new, p, t[n])
          BY <4>10
        <5>2. \A q \in Taken(new) : \E r \in T(n + 1) : new[q] = t[r]
          BY <3>3, <3>4, <4>2, <5>1 DEF Enters
        <5>3. \A r \in T(n + 1) : \E q \in Taken(new) : new[q] = t[r]
          BY <3>3, <3>4, <4>2, <5>1 DEF Enters
        <5>4. Cardinality(Taken(new)) = Cardinality(T(n + 1))
          BY <3>3, <3>4, <4>4, <5>1 DEF Enters
        <5> QED BY <4>10, <5>2, <5>3, <5>4
      <4> QED BY <3>1, <3>5, <4>11
    <3> QED BY <3>6, <3>7
  <2> HIDE DEF P
  <2> QED BY <2>1, <2>2, Upwards
<1>10. c \in P
  BY <1>9
<1>11. T(c) = Taken(t)
  BY <1>1 DEF Taken
<1>12. Carried(moved[c], c)
  BY <1>10
<1> HIDE DEF T
<1> QED BY <1>5, <1>11, <1>12 DEF SameEntries

LEMMA ReserveKeeps ==
  ASSUME NEW held, NEW c \in Nat, NEW t, TableSound(held, t, c),
         NEW desired \in Nat, Cardinality(Taken(t)) <= desired
  PROVE  \E d \in Nat : /\ d > 0 /\ desired < d
                        /\ TableSound(held, Reserve(held, t, desired), d)
                        /\ SameEntries(t, Reserve(held, t, desired))
<1>1. t \in Tables(c) /\ Capacity(t) = c /\ Cardinality(Taken(t)) \in Nat
  BY CapacityOf DEF TableSound
<1>2. PICK least : least = IF t = NoTable THEN InitialCapacity ELSE Capacity(t)
  OBVIOUS
<1>3. least \in Nat /\ least > 0
  <2>1. ASSUME c = 0 PROVE t = NoTable
    BY <1>1, <2>1 DEF Tables, NoTable
  <2> QED BY <1>1, <1>2, <2>1, IndexAssumption
<1>4. PICK d \in Nat : d = Fitting(desired, least) /\ d > 0 /\ desired < d
  BY <1>3, FittingFits
<1>5. Reserve(held, t, desired) = IF d = c THEN t ELSE Rehash(held, t, d)
  BY <1>1, <1>2, <1>4 DEF Reserve
<1>6. CASE d = c
  BY <1>4, <1>5, <1>6 DEF SameEntries
<1>7. CASE d # c
  <2>1. Cardinality(Taken(t)) < d
    BY <1>1, <1>4
  <2> QED BY <1>4, <1>5, <1>7, <2>1, RehashKeeps
<1> QED BY <1>6, <1>7

-----------------------------------------------------------------------------
(* The keys of a row, entered one by one.                                  *)

IndexOf(c) == [ok: BOOLEAN, used: Nat, table: Tables(c)]
IndexSound(held, built, c) ==
  /\ built \in IndexOf(c) /\ TableSound(held, built.table, c)
  /\ built.used = Cardinality(Taken(built.table))

\* Rows of named keys and of empty ids.
AreRows(held) ==
  /\ Len(held) \in Nat /\ DOMAIN held = 1..Len(held)
  /\ \A r \in 1..Len(held) :
       /\ Len(held[r]) \in Nat /\ DOMAIN held[r] = 1..Len(held[r])
       /\ \A n \in 1..Len(held[r]) : held[r][n] \in Keys \cup {Nameless}

\* No row before it, and no place before it, has the key of an entry.
Earliest(held, entry) ==
  \A s \in 1..entry.row : \A o \in 1..Len(held[s]) :
    held[s][o] = KeyOf(held, entry) => s = entry.row /\ entry.place <= o

\* The table holds the first occurrences of the keys up to the n-th of a row.
CompleteTo(held, t, row, n) ==
  /\ \A p \in Taken(t) : Earliest(held, t[p])
  /\ \A s \in 1..Len(held) : \A o \in 1..Len(held[s]) :
       s < row \/ (s = row /\ o <= n) => \E p \in Taken(t) : KeyOf(held, t[p]) = held[s][o]

\* What the insertion of the n-th key of a row does.
Inserted(held, built, new, row, n) ==
  \/ /\ new.table = built.table
     /\ \E p \in Taken(built.table) : KeyOf(held, built.table[p]) = held[row][n]
  \/ /\ IsNew(held, built.table, Entry(row, n))
     /\ \E p : Enters(built.table, new.table, p, Entry(row, n))

\* The entry of the n-th key of a row.
IsEntry(held, row, n, entry) ==
  /\ entry \in TableEntries /\ entry # Free /\ entry.row = row /\ entry.place = n
  /\ KeyOf(held, entry) = held[row][n] /\ Occurs(held, row, n)

LEMMA EntryOf ==
  ASSUME NEW held, NEW row \in 1..Len(held), NEW n \in 1..Len(held[row]), AreRows(held)
  PROVE  IsEntry(held, row, n, Entry(row, n))
<1>1. row \in Nat \ {0} /\ n \in Nat
  BY DEF AreRows
<1>2. Entry(row, n).row = row /\ Free.row = 0 /\ Entry(row, n).place = n
  BY DEF Entry, Free
<1>3. Entry(row, n) \in TableEntries
  BY <1>1 DEF TableEntries
<1> QED BY <1>1, <1>2, <1>3 DEF KeyOf, Occurs, IsEntry

LEMMA InsertTyped ==
  ASSUME NEW held, NEW c \in Nat, NEW built \in IndexOf(c), NEW entry \in TableEntries
  PROVE  Insert(held, built, entry) \in IndexOf(c)
<1>1. [built EXCEPT !.ok = FALSE] \in IndexOf(c)
  BY DEF IndexOf
<1>2. \A p : [built EXCEPT !.table[p] = entry, !.used = @ + 1] \in IndexOf(c)
  <2> SUFFICES ASSUME NEW p PROVE [built EXCEPT !.table[p] = entry, !.used = @ + 1] \in IndexOf(c)
    OBVIOUS
  <2>1. built.table \in Tables(c) /\ built.used + 1 \in Nat
    BY DEF IndexOf
  <2>2. [built.table EXCEPT ![p] = entry] \in Tables(c)
    BY <2>1 DEF Tables
  <2> QED BY <2>1, <2>2 DEF IndexOf
<1> QED BY <1>1, <1>2 DEF Insert

\* The index after the n-th key of a row: no more than one slot is taken, and
\* only an empty id makes it fail.
Follows(held, c, built, new, row, n) ==
  /\ IndexSound(held, new, c) /\ new.used <= built.used + 1
  /\ new.ok = (built.ok /\ held[row][n] # Nameless)
  /\ new.ok => Inserted(held, built, new, row, n)

LEMMA InsertKeeps ==
  ASSUME NEW held, AreRows(held), NEW c \in Nat, NEW built, IndexSound(held, built, c),
         built.used < c, NEW row \in 1..Len(held), NEW n \in 1..Len(held[row])
  PROVE  Follows(held, c, built, Insert(held, built, Entry(row, n)), row, n)
<1>1. PICK entry : entry = Entry(row, n) /\ IsEntry(held, row, n, entry)
  BY EntryOf
<1>2. PICK new : new = Insert(held, built, entry)
  OBVIOUS
<1>3. PICK t : t = built.table
  OBVIOUS
<1>4. PICK key : key = held[row][n] /\ key \in Keys \cup {Nameless}
  BY DEF AreRows
<1>5. /\ built.ok \in BOOLEAN /\ built.used \in Nat /\ t \in Tables(c)
      /\ TableSound(held, t, c) /\ built.used = Cardinality(Taken(t))
  BY <1>3 DEF IndexSound, IndexOf
<1>6. built = [ok |-> built.ok, used |-> built.used, table |-> t] /\ built \in IndexOf(c)
  BY <1>3 DEF IndexSound, IndexOf
<1>7. new \in IndexOf(c)
  BY <1>1, <1>2, <1>6, InsertTyped DEF IsEntry
<1>8. KeyOf(held, entry) = key
  BY <1>1, <1>4 DEF IsEntry
<1>9. CASE ~built.ok \/ key = Nameless
  <2>1. new = [built EXCEPT !.ok = FALSE]
    BY <1>2, <1>8, <1>9 DEF Insert
  <2>2. new.ok = FALSE /\ new.used = built.used /\ new.table = t
    BY <1>6, <2>1
  <2>3. IndexSound(held, new, c)
    BY <1>5, <1>7, <2>2 DEF IndexSound
  <2>4. new.used <= built.used + 1
    BY <1>5, <2>2
  <2> QED BY <1>1, <1>2, <1>4, <1>5, <1>9, <2>2, <2>3, <2>4 DEF Follows
<1>10. CASE built.ok /\ key # Nameless
  <2>1. key \in Keys
    BY <1>4, <1>10
  <2>2. PICK free \in 0..c - 1 : t[free] = Free
    <3>1. Cardinality(Taken(t)) < c
      BY <1>5
    <3> QED BY <1>5, <3>1, CapacityOf
  <2>3. PICK p \in 0..c - 1 : Stops(held, t, key, p)
    BY <1>5, <2>1, <2>2, Searched
  <2>4. new = IF t[p] # Free THEN built
              ELSE [built EXCEPT !.table[p] = entry, !.used = @ + 1]
    BY <1>2, <1>3, <1>8, <1>10, <2>3 DEF Insert, Stops
  <2>5. CASE t[p] # Free
    <3>1. new = built /\ p \in Taken(t)
      BY <1>5, <2>4, <2>5 DEF Taken, Tables
    <3>2. KeyOf(held, t[p]) = held[row][n]
      BY <1>4, <2>3, <2>5 DEF Stops
    <3>3. Inserted(held, built, new, row, n)
      BY <1>3, <3>1, <3>2 DEF Inserted
    <3>4. new.used <= built.used + 1
      BY <1>5, <3>1
    <3> QED BY <1>1, <1>2, <1>4, <1>10, <3>1, <3>3, <3>4 DEF Follows
  <2>6. CASE t[p] = Free
    <3>1. PICK tnew : tnew = [t EXCEPT ![p] = entry]
      OBVIOUS
    <3>2. new = [ok |-> built.ok, used |-> built.used + 1, table |-> tnew]
      <4>1. new = [built EXCEPT !.table = [built.table EXCEPT ![p] = entry],
                                !.used = built.used + 1]
        BY <2>4, <2>6
      <4>2. new = [built EXCEPT !.table = tnew, !.used = built.used + 1]
        BY <1>3, <3>1, <4>1
      <4> QED BY <1>6, <4>2
    <3>3. new.ok = built.ok /\ new.used = built.used + 1 /\ new.table = tnew
      BY <3>2
    <3>4. IsNew(held, t, entry)
      BY <1>1, <1>8, <2>1, <2>3, <2>6 DEF IsNew, IsEntry, Stops
    <3>5. Near(t, Hash[KeyOf(held, entry)], p)
      BY <1>8, <2>3 DEF Stops
    <3>6. TableSound(held, tnew, c) /\ Enters(t, tnew, p, entry)
      BY <1>5, <2>6, <3>1, <3>4, <3>5, EntryAdded
    <3>7. built.used + 1 = Cardinality(Taken(tnew))
      BY <1>5, <3>6 DEF Enters
    <3>8. Inserted(held, built, new, row, n)
      BY <1>1, <1>3, <3>3, <3>4, <3>6 DEF Inserted
    <3>9. IndexSound(held, new, c)
      BY <1>7, <3>3, <3>6, <3>7 DEF IndexSound
    <3>10. new.used <= built.used + 1
      BY <1>5, <3>3
    <3> QED BY <1>1, <1>2, <1>4, <1>10, <3>3, <3>8, <3>9, <3>10 DEF Follows
  <2> QED BY <2>5, <2>6
<1> QED BY <1>5, <1>9, <1>10

LEMMA InsertCompletes ==
  ASSUME NEW held, AreRows(held), NEW built, NEW new,
         NEW row \in 1..Len(held), NEW n \in 1..Len(held[row]),
         Inserted(held, built, new, row, n), CompleteTo(held, built.table, row, n - 1)
  PROVE  CompleteTo(held, new.table, row, n)
<1>1. PICK t, u : t = built.table /\ u = new.table
  OBVIOUS
<1>2. \A s \in 1..Len(held) : \A o \in 1..Len(held[s]) :
        s < row \/ (s = row /\ o <= n) => s < row \/ (s = row /\ o <= n - 1) \/ (s = row /\ o = n)
  BY DEF AreRows
<1>3. /\ \A p \in Taken(t) : Earliest(held, t[p])
      /\ \A s \in 1..Len(held) : \A o \in 1..Len(held[s]) :
           s < row \/ (s = row /\ o <= n - 1) => \E p \in Taken(t) : KeyOf(held, t[p]) = held[s][o]
  BY <1>1 DEF CompleteTo
<1>4. CASE u = t /\ \E p \in Taken(t) : KeyOf(held, t[p]) = held[row][n]
  <2>1. \A s \in 1..Len(held) : \A o \in 1..Len(held[s]) :
          s < row \/ (s = row /\ o <= n) => \E p \in Taken(u) : KeyOf(held, u[p]) = held[s][o]
    BY <1>2, <1>3, <1>4
  <2> QED BY <1>1, <1>3, <1>4, <2>1 DEF CompleteTo
<1>5. CASE IsNew(held, t, Entry(row, n)) /\ \E p : Enters(t, u, p, Entry(row, n))
  <2>1. PICK p : Enters(t, u, p, Entry(row, n))
    BY <1>5
  <2>2. PICK entry : entry = Entry(row, n)
    OBVIOUS
  <2>3. /\ entry.row = row /\ entry.place = n /\ KeyOf(held, entry) = held[row][n]
        /\ \A q \in Taken(t) : KeyOf(held, t[q]) # held[row][n]
        /\ Taken(u) = Taken(t) \cup {p} /\ u[p] = entry /\ \A q \in Taken(t) : u[q] = t[q]
    BY <1>5, <2>1, <2>2, EntryOf DEF IsNew, Enters, IsEntry
  <2>4. Earliest(held, entry)
    <3> SUFFICES ASSUME NEW s \in 1..row, NEW o \in 1..Len(held[s]), held[s][o] = held[row][n]
                 PROVE  s = row /\ n <= o
      BY <2>3 DEF Earliest
    <3>1. s \in 1..Len(held) /\ Len(held[s]) \in Nat
      BY DEF AreRows
    <3>2. ~(s < row \/ (s = row /\ o <= n - 1))
      BY <1>3, <2>3, <3>1
    <3> QED BY <3>1, <3>2
  <2>5. \A q \in Taken(u) : Earliest(held, u[q])
    BY <1>3, <2>3, <2>4
  <2>6. \A s \in 1..Len(held) : \A o \in 1..Len(held[s]) :
          s < row \/ (s = row /\ o <= n) => \E q \in Taken(u) : KeyOf(held, u[q]) = held[s][o]
    <3> SUFFICES ASSUME NEW s \in 1..Len(held), NEW o \in 1..Len(held[s]),
                        s < row \/ (s = row /\ o <= n)
                 PROVE  \E q \in Taken(u) : KeyOf(held, u[q]) = held[s][o]
      OBVIOUS
    <3>1. CASE s < row \/ (s = row /\ o <= n - 1)
      <4>1. PICK q \in Taken(t) : KeyOf(held, t[q]) = held[s][o]
        BY <1>3, <3>1
      <4>2. q \in Taken(u) /\ u[q] = t[q]
        BY <2>3
      <4> QED BY <4>1, <4>2
    <3>2. CASE s = row /\ o = n
      <4>1. p \in Taken(u) /\ KeyOf(held, u[p]) = held[s][o]
        BY <2>3, <3>2
      <4> QED BY <4>1
    <3> QED BY <1>2, <3>1, <3>2
  <2> QED BY <1>1, <2>5, <2>6 DEF CompleteTo
<1> QED BY <1>1, <1>4, <1>5 DEF Inserted
-----------------------------------------------------------------------------
(* A row, and all rows.                                                    *)

\* The index after a row: one slot more at most for each of its keys.
RowEntered(held, c, built, new, row) ==
  /\ IndexSound(held, new, c) /\ new.used <= built.used + Len(held[row])
  /\ new.ok = (built.ok /\ \A n \in 1..Len(held[row]) : held[row][n] # Nameless)
  /\ new.ok /\ CompleteTo(held, built.table, row, 0) => CompleteTo(held, new.table, row + 1, 0)

LEMMA InsertRowSteps ==
  ASSUME NEW held, AreRows(held), NEW c \in Nat, NEW built \in IndexOf(c),
         NEW row \in 1..Len(held)
  PROVE  \E after : /\ InsertRow(held, built, row) = after[Len(held[row])]
                    /\ after[0] = built
                    /\ \A n \in 1..Len(held[row]) :
                         after[n] = Insert(held, after[n - 1], Entry(row, n))
<1>1. PICK l \in Nat : l = Len(held[row])
  BY DEF AreRows
<1> DEFINE Is(f) == f = [n \in 0..Len(held[row]) |->
                           IF n = 0 THEN built ELSE Insert(held, f[n - 1], Entry(row, n))]
           after == CHOOSE f : Is(f)
           step == [p \in IndexOf(c) \X (1..l) |-> Insert(held, p[1], Entry(row, p[2]))]
<1>2. \A n \in 1..l : Entry(row, n) \in TableEntries
  BY <1>1, EntryOf DEF IsEntry
<1>3. /\ step \in Steps(IndexOf(c), l)
      /\ \A x \in IndexOf(c), n \in 1..l : step[<<x, n>>] = Insert(held, x, Entry(row, n))
  BY <1>2, InsertTyped DEF Steps
<1> HIDE DEF step
<1>4. \E f : Is(f)
  <2>0. ValuesOf(IndexOf(c), l, built, step) # {}
    BY <1>3, StepwiseExists
  <2>1. PICK f \in [0..l -> IndexOf(c)] :
          f[0] = built /\ \A n \in 1..l : f[n] = step[<<f[n - 1], n>>]
    BY <2>0 DEF ValuesOf
  <2>2. \A n \in 0..l : f[n] = IF n = 0 THEN built ELSE Insert(held, f[n - 1], Entry(row, n))
    <3>1. \A n \in 0..l : n # 0 => n \in 1..l /\ n - 1 \in 0..l
      OBVIOUS
    <3> QED BY <1>3, <2>1, <3>1
  <2>3. Is(f)
    BY <1>1, <2>1, <2>2
  <2> QED BY <2>3
<1>5. Is(after)
  BY <1>4
<1>6. InsertRow(held, built, row) = after[l]
  BY <1>1 DEF InsertRow
<1> HIDE DEF after
<1>7. \A n \in 0..l : after[n] = IF n = 0 THEN built ELSE Insert(held, after[n - 1], Entry(row, n))
  BY <1>1, <1>5
<1>8. after[0] = built
  BY <1>7
<1>9. \A n \in 1..l : after[n] = Insert(held, after[n - 1], Entry(row, n))
  BY <1>7
<1> QED BY <1>1, <1>6, <1>8, <1>9

LEMMA InsertRowKeeps ==
  ASSUME NEW held, AreRows(held), NEW c \in Nat, NEW built, IndexSound(held, built, c),
         NEW row \in 1..Len(held), built.used + Len(held[row]) < c
  PROVE  RowEntered(held, c, built, InsertRow(held, built, row), row)
<1>1. PICK l \in Nat : l = Len(held[row])
  BY DEF AreRows
<1>2. built \in IndexOf(c) /\ built.ok \in BOOLEAN /\ built.used \in Nat
  BY DEF IndexSound, IndexOf
<1>3. PICK after : /\ InsertRow(held, built, row) = after[l]
                   /\ after[0] = built
                   /\ \A n \in 1..l : after[n] = Insert(held, after[n - 1], Entry(row, n))
  BY <1>1, <1>2, InsertRowSteps
<1> DEFINE Reached(new, n) ==
             /\ IndexSound(held, new, c) /\ new.used <= built.used + n
             /\ new.ok = (built.ok /\ \A m \in 1..n : held[row][m] # Nameless)
             /\ new.ok /\ CompleteTo(held, built.table, row, 0) =>
                  CompleteTo(held, new.table, row, n)
           P == {n \in 0..l : Reached(after[n], n)}
<1>4. 0..l \subseteq P
  <2>1. 0 \in P
    <3>1. Reached(built, 0)
      BY <1>2
    <3> HIDE DEF Reached
    <3> QED BY <1>3, <3>1
  <2>2. ASSUME NEW n \in 0..l, n < l, n \in P PROVE n + 1 \in P
    <3>1. PICK old, m : old = after[n] /\ m = n + 1
      OBVIOUS
    <3>2. m \in 1..l /\ m - 1 = n /\ m \in 0..l
      BY <2>2, <3>1
    <3>3. PICK new : new = after[m] /\ new = Insert(held, old, Entry(row, m))
      BY <1>3, <3>1, <3>2
    <3>4. Reached(old, n)
      BY <2>2, <3>1
    <3>5. old.used \in Nat /\ old.used < c
      BY <1>1, <1>2, <2>2, <3>4 DEF IndexSound, IndexOf
    <3>6. Follows(held, c, old, new, row, m)
      BY <1>1, <3>2, <3>3, <3>4, <3>5, InsertKeeps
    <3>7. IndexSound(held, new, c) /\ new.used <= built.used + m
      <4>1. IndexSound(held, new, c) /\ new.used \in Nat /\ new.used <= old.used + 1
        BY <3>6 DEF Follows, IndexSound, IndexOf
      <4>2. old.used <= built.used + n
        BY <3>4
      <4>3. PICK u, v, w \in Nat : u = new.used /\ v = old.used /\ w = built.used
        BY <1>2, <3>5, <4>1
      <4>4. u <= w + m
        <5>1. u <= v + 1 /\ v <= w + n
          BY <4>1, <4>2, <4>3
        <5>2. m = n + 1
          BY <3>1
        <5> QED BY <5>1, <5>2
      <4> QED BY <4>1, <4>3, <4>4
    <3>8. new.ok = (built.ok /\ \A k \in 1..m : held[row][k] # Nameless)
      <4>1. \A k \in 1..m : k \in 1..n \/ k = m
        BY <3>1
      <4>2. \A k \in 1..n : k \in 1..m
        BY <3>1
      <4>3. new.ok = (old.ok /\ held[row][m] # Nameless)
        BY <3>6 DEF Follows
      <4>4. old.ok = (built.ok /\ \A k \in 1..n : held[row][k] # Nameless)
        BY <3>4
      <4>5. m \in 1..m
        BY <3>2
      <4> HIDE DEF Reached
      <4> QED BY <4>1, <4>2, <4>3, <4>4, <4>5, Zenon
    <3>9. ASSUME new.ok, CompleteTo(held, built.table, row, 0)
          PROVE  CompleteTo(held, new.table, row, m)
      <4>1. old.ok /\ Inserted(held, old, new, row, m)
        BY <3>6, <3>9 DEF Follows, IndexSound, IndexOf
      <4>2. CompleteTo(held, old.table, row, m - 1)
        BY <3>2, <3>4, <3>9, <4>1
      <4> QED BY <1>1, <3>2, <4>1, <4>2, InsertCompletes
    <3>10. Reached(new, m)
      BY <3>7, <3>8, <3>9
    <3> HIDE DEF Reached
    <3> QED BY <3>1, <3>2, <3>3, <3>10
  <2> HIDE DEF P
  <2> QED BY <2>1, <2>2, Upwards
<1>5. PICK new : new = InsertRow(held, built, row)
  OBVIOUS
<1>6. Reached(new, l)
  BY <1>3, <1>4, <1>5
<1>7. ASSUME CompleteTo(held, new.table, row, l) PROVE CompleteTo(held, new.table, row + 1, 0)
  <2>1. \A s \in 1..Len(held) : \A o \in 1..Len(held[s]) :
          s < row + 1 \/ (s = row + 1 /\ o <= 0) => s < row \/ (s = row /\ o <= l)
    BY <1>1 DEF AreRows
  <2> QED BY <1>7, <2>1 DEF CompleteTo
<1>8. RowEntered(held, c, built, new, row)
  BY <1>1, <1>6, <1>7 DEF RowEntered
<1> QED BY <1>5, <1>8

LEMMA InsertRowTyped ==
  ASSUME NEW held, AreRows(held), NEW c \in Nat, NEW built \in IndexOf(c),
         NEW row \in 1..Len(held)
  PROVE  InsertRow(held, built, row) \in IndexOf(c)
<1>1. PICK l \in Nat : l = Len(held[row])
  BY DEF AreRows
<1>2. PICK after : /\ InsertRow(held, built, row) = after[l]
                   /\ after[0] = built
                   /\ \A n \in 1..l : after[n] = Insert(held, after[n - 1], Entry(row, n))
  BY <1>1, InsertRowSteps
<1> DEFINE P == {n \in 0..l : after[n] \in IndexOf(c)}
<1>3. 0..l \subseteq P
  <2>1. 0 \in P
    BY <1>2
  <2>2. ASSUME NEW n \in 0..l, n < l, n \in P PROVE n + 1 \in P
    <3>1. n + 1 \in 1..l /\ (n + 1) - 1 = n /\ n + 1 \in 0..l
      BY <2>2
    <3>2. after[n + 1] = Insert(held, after[n], Entry(row, n + 1))
      BY <1>2, <3>1
    <3>3. Entry(row, n + 1) \in TableEntries
      BY <1>1, <3>1, EntryOf DEF IsEntry
    <3> QED BY <2>2, <3>1, <3>2, <3>3, InsertTyped
  <2> HIDE DEF P
  <2> QED BY <2>1, <2>2, Upwards
<1> QED BY <1>2, <1>3

\* The keys of the first rows, counted.
Counts(held, count) ==
  /\ count \in [0..Len(held) -> Nat] /\ count[0] = 0
  /\ \A n \in 1..Len(held) : count[n] = count[n - 1] + Len(held[n])

LEMMA CountsGrow ==
  ASSUME NEW held, AreRows(held), NEW count, Counts(held, count)
  PROVE  \A n \in 0..Len(held) : count[n] <= count[Len(held)]
<1>1. PICK l \in Nat : l = Len(held)
  BY DEF AreRows
<1>2. /\ count \in [0..l -> Nat]
      /\ \A n \in 1..l : count[n] = count[n - 1] + Len(held[n]) /\ Len(held[n]) \in Nat
  BY <1>1 DEF Counts, AreRows
<1> DEFINE P == {n \in 0..l : \A m \in 0..n : count[m] <= count[n]}
<1>3. 0..l \subseteq P
  <2>1. 0 \in P
    BY <1>2
  <2>2. ASSUME NEW n \in 0..l, n < l, n \in P PROVE n + 1 \in P
    <3>1. n + 1 \in 1..l /\ (n + 1) - 1 = n /\ n + 1 \in 0..l
      BY <2>2
    <3>2. count[n + 1] = count[n] + Len(held[n + 1]) /\ Len(held[n + 1]) \in Nat
      BY <1>2, <3>1
    <3>3. \A m \in 0..n + 1 : m \in 0..n \/ m = n + 1
      OBVIOUS
    <3>4. \A m \in 0..n : count[m] \in Nat /\ count[m] <= count[n]
      BY <1>2, <2>2
    <3>5. count[n] \in Nat /\ count[n + 1] \in Nat
      BY <1>2, <3>1
    <3>6. \A m \in 0..n + 1 : count[m] <= count[n + 1]
      BY <3>2, <3>3, <3>4, <3>5
    <3> QED BY <3>1, <3>6
  <2> HIDE DEF P
  <2> QED BY <2>1, <2>2, Upwards
<1> QED BY <1>1, <1>3

LEMMA NoTableSound ==
  ASSUME NEW held
  PROVE  TableSound(held, NoTable, 0) /\ Taken(NoTable) = {} /\ Cardinality(Taken(NoTable)) = 0
<1>1. NoTable \in Tables(0) /\ Taken(NoTable) = {}
  BY DEF NoTable, Tables, Taken
<1> QED BY <1>1, FS_EmptySet DEF TableSound

\* An index that is made from all rows.
RebuiltSteps(held, count, after, new) ==
  /\ Counts(held, count) /\ new = after[Len(held)]
  /\ after[0] = [ok |-> TRUE, used |-> 0, table |-> Reserve(held, NoTable, count[Len(held)])]
  /\ \A n \in 1..Len(held) : after[n] = InsertRow(held, after[n - 1], n)

LEMMA RebuiltFollows ==
  ASSUME NEW held, AreRows(held)
  PROVE  \E count, after : RebuiltSteps(held, count, after, Rebuilt(held))
<1>1. PICK l \in Nat : l = Len(held)
  BY DEF AreRows
<1> DEFINE IsCount(f) == f = [n \in 0..Len(held) |-> IF n = 0 THEN 0 ELSE f[n - 1] + Len(held[n])]
           count == CHOOSE f : IsCount(f)
           empty == Reserve(held, NoTable, count[Len(held)])
           first == [ok |-> TRUE, used |-> 0, table |-> empty]
           Is(f) == f = [n \in 0..Len(held) |->
                           IF n = 0 THEN [ok |-> TRUE, used |-> 0, table |-> empty]
                           ELSE InsertRow(held, f[n - 1], n)]
           after == CHOOSE f : Is(f)
<1>2. Rebuilt(held) = after[Len(held)]
  BY DEF Rebuilt
<1>3. Counts(held, count)
  <2> DEFINE step == [p \in Nat \X (1..l) |-> p[1] + Len(held[p[2]])]
  <2>1. \A n \in 1..l : Len(held[n]) \in Nat
    BY <1>1 DEF AreRows
  <2>2. step \in Steps(Nat, l) /\ \A x \in Nat, n \in 1..l : step[<<x, n>>] = x + Len(held[n])
    BY <2>1 DEF Steps
  <2> HIDE DEF step
  <2>3. ValuesOf(Nat, l, 0, step) # {}
    BY <2>2, StepwiseExists
  <2>4. PICK f \in [0..l -> Nat] : f[0] = 0 /\ \A n \in 1..l : f[n] = step[<<f[n - 1], n>>]
    BY <2>3 DEF ValuesOf
  <2>5. \A n \in 1..l : n - 1 \in 0..l /\ f[n] = f[n - 1] + Len(held[n])
    <3>1. \A n \in 1..l : n - 1 \in 0..l
      OBVIOUS
    <3> QED BY <2>2, <2>4, <3>1
  <2>6. \A n \in 0..l : f[n] = IF n = 0 THEN 0 ELSE f[n - 1] + Len(held[n])
    <3>1. \A n \in 0..l : n # 0 => n \in 1..l
      OBVIOUS
    <3> QED BY <2>4, <2>5, <3>1
  <2>7. IsCount(f)
    BY <1>1, <2>4, <2>6
  <2>8. IsCount(count)
    BY <2>7
  <2> HIDE DEF count
  <2>9. \A n \in 0..l : count[n] = IF n = 0 THEN 0 ELSE count[n - 1] + Len(held[n])
    BY <1>1, <2>8
  <2> DEFINE P == {n \in 0..l : count[n] = f[n]}
  <2>10. 0..l \subseteq P
    <3>1. 0 \in P
      BY <2>4, <2>9
    <3>2. ASSUME NEW n \in 0..l, n < l, n \in P PROVE n + 1 \in P
      <4>1. n + 1 \in 1..l /\ (n + 1) - 1 = n /\ n + 1 \in 0..l /\ n + 1 # 0
        BY <3>2
      <4>2. count[n + 1] = count[n] + Len(held[n + 1])
        BY <2>9, <4>1
      <4>3. f[n + 1] = f[n] + Len(held[n + 1])
        BY <2>5, <4>1
      <4> QED BY <3>2, <4>1, <4>2, <4>3
    <3> HIDE DEF P
    <3> QED BY <3>1, <3>2, Upwards
  <2>11. count = [n \in 0..l |-> IF n = 0 THEN 0 ELSE count[n - 1] + Len(held[n])]
    BY <1>1, <2>8
  <2>12. count \in [0..l -> Nat]
    <3>1. DOMAIN count = 0..l /\ count = [n \in 0..l |-> count[n]]
      BY <2>11
    <3>2. \A n \in 0..l : count[n] \in Nat
      BY <2>4, <2>10
    <3> QED BY <3>1, <3>2
  <2>13. \A n \in 1..l : count[n] = count[n - 1] + Len(held[n])
    <3>1. \A n \in 1..l : n # 0 /\ n \in 0..l
      OBVIOUS
    <3> QED BY <2>9, <3>1
  <2> QED BY <1>1, <2>9, <2>12, <2>13 DEF Counts
<1> HIDE DEF count
<1>4. PICK d \in Nat : first \in IndexOf(d)
  <2>1. PICK desired \in Nat : desired = count[Len(held)]
    BY <1>1, <1>3 DEF Counts
  <2>2. PICK d \in Nat : TableSound(held, Reserve(held, NoTable, desired), d)
    <3>1. Cardinality(Taken(NoTable)) <= desired /\ TableSound(held, NoTable, 0)
      <4>1. Cardinality(Taken(NoTable)) = 0
        BY NoTableSound
      <4> QED BY <4>1, NoTableSound
    <3> QED BY <3>1, ReserveKeeps
  <2> QED BY <2>1, <2>2 DEF TableSound, IndexOf
<1>5. \E f : Is(f)
  <2> DEFINE step == [p \in IndexOf(d) \X (1..l) |-> InsertRow(held, p[1], p[2])]
  <2>1. /\ step \in Steps(IndexOf(d), l)
        /\ \A x \in IndexOf(d), n \in 1..l : step[<<x, n>>] = InsertRow(held, x, n)
    BY <1>1, InsertRowTyped DEF Steps
  <2> HIDE DEF step
  <2>2. ValuesOf(IndexOf(d), l, first, step) # {}
    <3> HIDE DEF first
    <3> QED BY <1>4, <2>1, StepwiseExists
  <2>3. PICK f \in [0..l -> IndexOf(d)] :
          f[0] = first /\ \A n \in 1..l : f[n] = step[<<f[n - 1], n>>]
    BY <2>2 DEF ValuesOf
  <2>4. \A n \in 0..l : f[n] = IF n = 0 THEN first ELSE InsertRow(held, f[n - 1], n)
    <3>1. \A n \in 0..l : n # 0 => n \in 1..l /\ n - 1 \in 0..l
      OBVIOUS
    <3> QED BY <2>1, <2>3, <3>1
  <2>5. Is(f)
    BY <1>1, <2>3, <2>4
  <2> QED BY <2>5
<1>6. Is(after)
  BY <1>5
<1> HIDE DEF after
<1>7. \A n \in 0..l : after[n] = IF n = 0 THEN first ELSE InsertRow(held, after[n - 1], n)
  BY <1>1, <1>6
<1> HIDE DEF first
<1>8. after[0] = first /\ \A n \in 1..l : after[n] = InsertRow(held, after[n - 1], n)
  <2>1. 0 \in 0..l /\ \A n \in 1..l : n \in 0..l /\ n # 0
    OBVIOUS
  <2> QED BY <1>7, <2>1, Zenon
<1> QED BY <1>1, <1>2, <1>3, <1>8 DEF RebuiltSteps, first

\* An index made from all rows: only an empty id makes it fail.
AllEntered(held, c, new) ==
  /\ IndexSound(held, new, c) /\ new.used < c
  /\ new.ok = (\A r \in 1..Len(held) : \A n \in 1..Len(held[r]) : held[r][n] # Nameless)
  /\ new.ok => CompleteTo(held, new.table, Len(held) + 1, 0)

LEMMA RebuiltKeeps ==
  ASSUME NEW held, AreRows(held)
  PROVE  \E c \in Nat : AllEntered(held, c, Rebuilt(held))
<1>1. PICK l \in Nat : l = Len(held)
  BY DEF AreRows
<1>2. PICK count, after : RebuiltSteps(held, count, after, Rebuilt(held))
  BY RebuiltFollows
<1>3. /\ count \in [0..l -> Nat] /\ count[0] = 0 /\ Rebuilt(held) = after[l]
      /\ \A n \in 1..l : count[n] = count[n - 1] + Len(held[n])
      /\ \A n \in 1..l : after[n] = InsertRow(held, after[n - 1], n)
  BY <1>1, <1>2 DEF RebuiltSteps, Counts
<1>4. \A n \in 0..l : count[n] <= count[l]
  BY <1>1, <1>2, CountsGrow DEF RebuiltSteps
<1>5. PICK desired \in Nat : desired = count[l]
  BY <1>3
<1>6. PICK empty : empty = Reserve(held, NoTable, desired)
  OBVIOUS
<1>7. PICK d \in Nat : /\ desired < d /\ TableSound(held, empty, d)
                       /\ SameEntries(NoTable, empty)
  <2>1. Cardinality(Taken(NoTable)) <= desired /\ TableSound(held, NoTable, 0)
    <3>1. Cardinality(Taken(NoTable)) = 0
      BY NoTableSound
    <3> QED BY <3>1, NoTableSound
  <2> QED BY <1>6, <2>1, ReserveKeeps
<1>8. after[0] = [ok |-> TRUE, used |-> 0, table |-> empty]
  BY <1>1, <1>2, <1>5, <1>6 DEF RebuiltSteps
<1>9. Taken(empty) = {} /\ Cardinality(Taken(empty)) = 0
  BY <1>7, NoTableSound DEF SameEntries
<1> DEFINE NoneEmpty(n) == \A r \in 1..n : \A o \in 1..Len(held[r]) : held[r][o] # Nameless
           Reached(new, n) ==
             /\ IndexSound(held, new, d) /\ new.used <= count[n]
             /\ new.ok = NoneEmpty(n)
             /\ new.ok => CompleteTo(held, new.table, n + 1, 0)
           P == {n \in 0..l : Reached(after[n], n)}
<1>10. 0..l \subseteq P
  <2>1. 0 \in P
    <3>1. PICK new : new = after[0]
      OBVIOUS
    <3>2. new.ok = TRUE /\ new.used = 0 /\ new.table = empty
      BY <1>8, <3>1
    <3>3. new \in IndexOf(d)
      BY <1>7, <1>8, <3>1 DEF IndexOf, TableSound
    <3>4. IndexSound(held, new, d)
      BY <1>7, <1>9, <3>2, <3>3 DEF IndexSound
    <3>5. CompleteTo(held, empty, 0 + 1, 0)
      BY <1>9 DEF CompleteTo, AreRows
    <3>6. new.used <= count[0] /\ NoneEmpty(0)
      BY <1>3, <3>2
    <3> HIDE DEF NoneEmpty
    <3>7. Reached(new, 0)
      <4>1. new.ok = NoneEmpty(0)
        BY <3>2, <3>6
      <4>2. CompleteTo(held, new.table, 0 + 1, 0)
        BY <3>2, <3>5
      <4> QED BY <3>4, <3>6, <4>1, <4>2
    <3> HIDE DEF Reached
    <3> QED BY <3>1, <3>7
  <2>2. ASSUME NEW n \in 0..l, n < l, n \in P PROVE n + 1 \in P
    <3>1. PICK old, m : old = after[n] /\ m = n + 1
      OBVIOUS
    <3>2. m \in 1..l /\ m - 1 = n /\ m \in 0..l /\ n \in 0..l
      BY <2>2, <3>1
    <3>3. PICK new : new = after[m] /\ new = InsertRow(held, old, m)
      BY <1>3, <3>1, <3>2
    <3>4. Reached(old, n)
      BY <2>2, <3>1
    <3> HIDE DEF NoneEmpty
    <3>5. PICK v, k, a, b \in Nat :
             /\ v = old.used /\ k = Len(held[m]) /\ a = count[n] /\ b = count[m]
      BY <1>1, <1>3, <3>2, <3>4 DEF IndexSound, IndexOf, AreRows
    <3>6. v <= a /\ b = a + k /\ b <= desired /\ v + k < d
      <4>1. v <= a /\ b = a + k /\ b <= desired
        BY <1>3, <1>4, <1>5, <3>2, <3>4, <3>5
      <4> QED BY <1>7, <4>1
    <3>7. RowEntered(held, d, old, new, m)
      <4>1. old.used + Len(held[m]) < d
        BY <3>5, <3>6
      <4> QED BY <1>1, <3>2, <3>3, <3>4, <4>1, InsertRowKeeps
    <3>8. IndexSound(held, new, d)
      BY <3>7 DEF RowEntered
    <3>9. new.used <= count[m]
      <4>1. PICK u \in Nat : u = new.used
        BY <3>8 DEF IndexSound, IndexOf
      <4>2. u <= v + k
        BY <3>5, <3>7, <4>1 DEF RowEntered
      <4>3. u <= b
        BY <3>6, <4>2
      <4> QED BY <3>5, <4>1, <4>3
    <3>10. new.ok = NoneEmpty(m)
      <4>1. \A r \in 1..m : r \in 1..n \/ r = m
        BY <3>1
      <4>2. (\A r \in 1..n : r \in 1..m) /\ m \in 1..m
        BY <3>1, <3>2
      <4>3. new.ok = (old.ok /\ \A o \in 1..Len(held[m]) : held[m][o] # Nameless)
        BY <3>7 DEF RowEntered
      <4>4. old.ok = NoneEmpty(n)
        BY <3>4
      <4> HIDE DEF Reached
      <4> QED BY <4>1, <4>2, <4>3, <4>4, Zenon DEF NoneEmpty
    <3>11. ASSUME new.ok PROVE CompleteTo(held, new.table, m + 1, 0)
      <4>1. old.ok
        BY <3>7, <3>11 DEF RowEntered
      <4>2. CompleteTo(held, old.table, m, 0)
        BY <3>1, <3>4, <4>1
      <4> QED BY <3>7, <3>11, <4>2 DEF RowEntered
    <3>12. Reached(new, m)
      BY <3>8, <3>9, <3>10, <3>11
    <3> HIDE DEF Reached
    <3> QED BY <3>1, <3>2, <3>3, <3>12
  <2> HIDE DEF P
  <2> QED BY <2>1, <2>2, Upwards
<1>11. PICK new : new = Rebuilt(held)
  OBVIOUS
<1>12. Reached(new, l)
  <2> HIDE DEF Reached
  <2>1. l \in P
    <3> HIDE DEF P
    <3> QED BY <1>10
  <2> QED BY <1>3, <1>11, <2>1
<1>13. new.used < d
  <2>1. PICK u \in Nat : u = new.used
    BY <1>12 DEF IndexSound, IndexOf
  <2>2. u <= desired
    BY <1>5, <1>12, <2>1
  <2>3. u < d
    BY <1>7, <2>2
  <2> QED BY <2>1, <2>3
<1>14. AllEntered(held, d, new)
  BY <1>1, <1>12, <1>13 DEF AllEntered
<1> QED BY <1>11, <1>14

-----------------------------------------------------------------------------
(* Rows are only added, and the table finds what a scan would.             *)

LEMMA RowsAre ==
  ASSUME NEW held \in Seq(Turns)
  PROVE  AreRows(held)
<1>1. Len(held) \in Nat /\ DOMAIN held = 1..Len(held) /\ \A r \in 1..Len(held) : held[r] \in Turns
  OBVIOUS
<1>2. \A t \in Turns : t \in Seq(Keys \cup {Nameless})
  BY IndexAssumption
<1>3. \A r \in 1..Len(held) : held[r] \in Seq(Keys \cup {Nameless})
  BY <1>1, <1>2
<1>4. \A r \in 1..Len(held) :
        /\ Len(held[r]) \in Nat /\ DOMAIN held[r] = 1..Len(held[r])
        /\ \A n \in 1..Len(held[r]) : held[r][n] \in Keys \cup {Nameless}
  <2> DEFINE K == Keys \cup {Nameless}
  <2> HIDE DEF K
  <2>1. \A s \in Seq(K) : /\ Len(s) \in Nat /\ DOMAIN s = 1..Len(s)
                          /\ \A n \in 1..Len(s) : s[n] \in K
    OBVIOUS
  <2> QED BY <1>3, <2>1 DEF K
<1> QED BY <1>1, <1>4 DEF AreRows

\* Only a row's own key may be an empty id, and each row has one.
LEMMA NamedRows ==
  ASSUME NEW held \in Seq(Turns)
  PROVE  /\ AllNamed(held) <=>
              \A r \in 1..Len(held) : \A n \in 1..Len(held[r]) : held[r][n] # Nameless
         /\ \A r \in 1..Len(held) : 1 \in 1..Len(held[r])
<1>1. AreRows(held)
  BY RowsAre
<1>2. \A r \in 1..Len(held) : held[r] \in Turns
  OBVIOUS
<1>3. \A t \in Turns : t # <<>> /\ \A place \in 2..Len(t) : t[place] \in Keys /\ Nameless \notin Keys
  BY IndexAssumption
<1>4. \A r \in 1..Len(held) : Len(held[r]) # 0
  <2>1. \A t \in Seq(Keys \cup {Nameless}) : Len(t) = 0 => t = <<>>
    BY EmptySeq
  <2>2. \A t \in Turns : t \in Seq(Keys \cup {Nameless}) /\ t # <<>>
    BY IndexAssumption
  <2> QED BY <1>2, <2>1, <2>2
<1>5. \A r \in 1..Len(held) : 1 \in 1..Len(held[r])
  BY <1>1, <1>4 DEF AreRows
<1>6. \A r \in 1..Len(held) : \A n \in 1..Len(held[r]) : n # 1 => held[r][n] # Nameless
  <2> SUFFICES ASSUME NEW r \in 1..Len(held), NEW n \in 1..Len(held[r]), n # 1
               PROVE  held[r][n] # Nameless
    OBVIOUS
  <2>1. n \in 2..Len(held[r])
    BY <1>1 DEF AreRows
  <2>2. held[r] \in Turns
    BY <1>2
  <2> QED BY <1>3, <2>1, <2>2
<1>7. DOMAIN held = 1..Len(held)
  OBVIOUS
<1> QED BY <1>5, <1>6, <1>7 DEF AllNamed

\* A row is added.
LEMMA HeldExtends ==
  ASSUME NEW held \in Seq(Turns), NEW row \in Turns, NEW c \in Nat, NEW t,
         TableSound(held, t, c)
  PROVE  /\ TableSound(Append(held, row), t, c)
         /\ CompleteTo(held, t, Len(held) + 1, 0) =>
              CompleteTo(Append(held, row), t, Len(held) + 1, 0)
<1>1. PICK l \in Nat : l = Len(held) /\ AreRows(held)
  BY RowsAre
<1>2. PICK more : more = Append(held, row)
  OBVIOUS
<1>3. Len(more) = l + 1 /\ \A r \in 1..l : more[r] = held[r]
  <2> HIDE DEF IndexAssumption
  <2> QED BY <1>1, <1>2, AppendProperties
<1>4. \A r, q : Occurs(held, r, q) => Occurs(more, r, q)
  BY <1>1, <1>3 DEF Occurs
<1>5. \A entry : Occurs(held, entry.row, entry.place) => KeyOf(more, entry) = KeyOf(held, entry)
  BY <1>1, <1>3 DEF Occurs, KeyOf
<1>6. \A p \in Taken(t) : /\ Occurs(held, t[p].row, t[p].place) /\ t[p].row \in 1..l
                          /\ KeyOf(more, t[p]) = KeyOf(held, t[p])
  BY <1>1, <1>5 DEF TableSound, Occurs
<1>7. TableSound(more, t, c)
  BY <1>4, <1>6 DEF TableSound
<1>8. ASSUME CompleteTo(held, t, l + 1, 0) PROVE CompleteTo(more, t, l + 1, 0)
  <2>1. \A p \in Taken(t) : Earliest(more, t[p])
    <3> SUFFICES ASSUME NEW p \in Taken(t), NEW s \in 1..t[p].row, NEW o \in 1..Len(more[s]),
                        more[s][o] = KeyOf(more, t[p])
                 PROVE  s = t[p].row /\ t[p].place <= o
      BY DEF Earliest
    <3>1. s \in 1..l /\ more[s] = held[s]
      BY <1>3, <1>6
    <3>2. Earliest(held, t[p])
      BY <1>8 DEF CompleteTo
    <3> QED BY <1>6, <3>1, <3>2 DEF Earliest
  <2>2. \A s \in 1..Len(more) : \A o \in 1..Len(more[s]) :
          s < l + 1 \/ (s = l + 1 /\ o <= 0) => \E p \in Taken(t) : KeyOf(more, t[p]) = more[s][o]
    <3> SUFFICES ASSUME NEW s \in 1..l + 1, NEW o \in 1..Len(more[s]),
                        s < l + 1 \/ (s = l + 1 /\ o <= 0)
                 PROVE  \E p \in Taken(t) : KeyOf(more, t[p]) = more[s][o]
      BY <1>3
    <3>1. AreRows(more)
      <4>1. more \in Seq(Turns)
        BY <1>2
      <4> QED BY <4>1, RowsAre
    <3>2. s < l + 1
      BY <1>3, <3>1 DEF AreRows
    <3>3. s \in 1..l /\ more[s] = held[s]
      BY <1>3, <3>2
    <3>4. PICK p \in Taken(t) : KeyOf(held, t[p]) = held[s][o]
      BY <1>1, <1>8, <3>2, <3>3 DEF CompleteTo
    <3> QED BY <1>6, <3>3, <3>4
  <2> QED BY <2>1, <2>2 DEF CompleteTo
<1> QED BY <1>1, <1>2, <1>7, <1>8

\* The same entries in other slots.
LEMMA EntriesCarried ==
  ASSUME NEW held, NEW t, NEW new, SameEntries(t, new), NEW row, NEW n,
         CompleteTo(held, t, row, n)
  PROVE  CompleteTo(held, new, row, n)
BY DEF SameEntries, CompleteTo

LEMMA ScanFinds ==
  ASSUME NEW c \in Nat, memories \in Seq(Turns), TableSound(memories, table, c),
         Cardinality(Taken(table)) < c,
         CompleteTo(memories, table, Len(memories) + 1, 0), NEW key \in Keys
  PROVE  Find(key) = Scan(key)
<1>1. PICK l \in Nat : l = Len(memories) /\ DOMAIN memories = 1..l
  OBVIOUS
<1>2. /\ AreRows(memories)
      /\ \A r \in 1..l : /\ DOMAIN memories[r] = 1..Len(memories[r])
                         /\ Len(memories[r]) \in Nat
  BY <1>1, RowsAre DEF AreRows
<1>3. table \in Tables(c) /\ DOMAIN table = 0..c - 1
  BY CapacityOf DEF TableSound
<1>4. PICK free \in 0..c - 1 : table[free] = Free
  BY <1>3, CapacityOf
<1>5. table # NoTable
  BY <1>3, <1>4 DEF NoTable
<1>6. PICK p \in 0..c - 1 : Stops(memories, table, key, p)
  BY <1>4, Searched
<1>7. Find(key) = table[p]
  BY <1>5, <1>6 DEF Find, Stops
<1> DEFINE rows == {r \in DOMAIN memories : \E n \in DOMAIN memories[r] : memories[r][n] = key}
           row == memories[Min(rows)]
           places == {n \in DOMAIN row : row[n] = key}
<1>8. Scan(key) = IF rows = {} THEN NotFound ELSE Entry(Min(rows), Min(places))
  BY DEF Scan
<1>9. CASE table[p] = Free
  <2>1. \A r \in 1..l : \A n \in 1..Len(memories[r]) : memories[r][n] # key
    <3> SUFFICES ASSUME NEW r \in 1..l, NEW n \in 1..Len(memories[r]), memories[r][n] = key
                 PROVE  FALSE
      OBVIOUS
    <3>1. PICK q \in Taken(table) : KeyOf(memories, table[q]) = memories[r][n]
      BY <1>1 DEF CompleteTo
    <3> QED BY <1>6, <1>9, <3>1 DEF Stops
  <2>2. rows = {}
    BY <1>1, <1>2, <2>1
  <2> QED BY <1>7, <1>8, <1>9, <2>2 DEF NotFound
<1>10. CASE table[p] # Free
  <2>1. PICK entry : entry = table[p]
    OBVIOUS
  <2>2. KeyOf(memories, entry) = key /\ p \in Taken(table)
    BY <1>3, <1>6, <1>10, <2>1 DEF Stops, Taken
  <2>3. Occurs(memories, entry.row, entry.place) /\ Earliest(memories, entry)
    BY <2>1, <2>2 DEF TableSound, CompleteTo
  <2>4. entry = Entry(entry.row, entry.place)
    <3>1. entry \in TableEntries /\ entry # Free
      BY <1>3, <1>10, <2>1 DEF Tables
    <3>2. PICK r \in Nat \ {0}, q \in Nat : entry = Entry(r, q)
      BY <3>1 DEF TableEntries
    <3> QED BY <3>2 DEF Entry
  <2>5. PICK r, q : /\ r = entry.row /\ q = entry.place /\ memories[r][q] = key
                    /\ r \in 1..l /\ q \in 1..Len(memories[r])
    BY <1>1, <2>2, <2>3 DEF Occurs, KeyOf
  <2>6. \A s \in 1..r : \A o \in 1..Len(memories[s]) : memories[s][o] = key => s = r /\ q <= o
    BY <2>2, <2>3, <2>5 DEF Earliest
  <2>7. r \in rows /\ \A s \in rows : s \in 1..l /\ r <= s
    <3>1. \A s \in rows : s \in 1..l /\ \E o \in 1..Len(memories[s]) : memories[s][o] = key
      BY <1>1, <1>2
    <3>2. r \in rows
      BY <1>1, <1>2, <2>5
    <3> HIDE DEF rows
    <3>3. \A s \in rows : r <= s
      <4> SUFFICES ASSUME NEW s \in rows, s < r PROVE FALSE
        BY <2>5, <3>1
      <4>1. s \in 1..r
        BY <2>5, <3>1
      <4> QED BY <2>6, <3>1, <4>1
    <3> QED BY <3>1, <3>2, <3>3
  <2> HIDE DEF rows
  <2>8. Min(rows) = r
    <3>1. rows \in SUBSET Nat /\ rows # {}
      BY <2>7
    <3>2. Min(rows) \in rows /\ \A s \in rows : Min(rows) <= s
      BY <3>1, MinExists
    <3>3. PICK m \in Nat : m = Min(rows) /\ m <= r /\ r <= m
      BY <2>7, <3>1, <3>2
    <3>4. r \in Nat
      BY <2>5
    <3> QED BY <3>3, <3>4
  <2>9. places = {n \in 1..Len(memories[r]) : memories[r][n] = key}
    BY <1>2, <2>5, <2>8
  <2>10. q \in places /\ \A o \in places : o \in Nat /\ q <= o
    <3>1. \A o \in places : o \in 1..Len(memories[r]) /\ memories[r][o] = key
      BY <2>9
    <3>2. r \in 1..r
      BY <2>5
    <3> QED BY <2>5, <2>6, <2>9, <3>1, <3>2
  <2> HIDE DEF places
  <2>11. Min(places) = q
    <3>1. places \in SUBSET Nat /\ places # {}
      BY <2>10
    <3>2. Min(places) \in places /\ \A o \in places : Min(places) <= o
      BY <3>1, MinExists
    <3> QED BY <1>2, <2>5, <2>10, <3>1, <3>2
  <2>12. rows # {}
    BY <2>7
  <2> QED BY <1>7, <1>8, <2>1, <2>4, <2>5, <2>8, <2>11, <2>12
<1> QED BY <1>9, <1>10

\* Every slot that is taken holds an entry of the rows, once for a key and where
\* a search meets it; one slot stays free; the count is right; and while every
\* row is named, each key is entered at its first occurrence.
IndexInv ==
  /\ memories \in Seq(Turns)
  /\ used = Cardinality(Taken(table))
  /\ \E c \in Nat : TableSound(memories, table, c) /\ (c # 0 => used < c)
  /\ AllNamed(memories) => CompleteTo(memories, table, Len(memories) + 1, 0)

LEMMA NothingEntered ==
  \A t : Taken(t) = {} => CompleteTo(<<>>, t, Len(<<>>) + 1, 0)
<1>1. Len(<<>>) = 0
  OBVIOUS
<1> QED BY <1>1 DEF CompleteTo

LEMMA InitIndexed == IndexInit => IndexInv
<1> SUFFICES ASSUME IndexInit PROVE IndexInv
  OBVIOUS
<1>1. PICK c \in Nat : c = InitialCapacity /\ c > 0
  BY IndexAssumption
<1>2. table \in Tables(c) /\ Taken(table) = {}
  BY <1>1 DEF IndexInit, NewTable, Tables, TableEntries, Taken
<1>3. used = 0 /\ Cardinality(Taken(table)) = 0
  BY <1>2, FS_EmptySet DEF IndexInit
<1>4. TableSound(memories, table, c)
  BY <1>2 DEF TableSound
<1>5. CompleteTo(memories, table, Len(memories) + 1, 0)
  BY <1>2, NothingEntered DEF IndexInit
<1>6. memories \in Seq(Turns)
  BY DEF IndexInit
<1> QED BY <1>1, <1>3, <1>4, <1>5, <1>6 DEF IndexInv

LEMMA GivenUp ==
  ASSUME NEW held, held \in Seq(Turns), memories' = held, table' = NoTable, used' = 0,
         AllNamed(held) => held = <<>>
  PROVE  IndexInv'
<1>1. TableSound(held, NoTable, 0) /\ Taken(NoTable) = {} /\ Cardinality(Taken(NoTable)) = 0
  BY NoTableSound
<1>2. AllNamed(held) => CompleteTo(held, NoTable, Len(held) + 1, 0)
  BY <1>1, NothingEntered
<1>3. \E c \in Nat : TableSound(held, NoTable, c) /\ (c # 0 => 0 < c)
  BY <1>1
<1> QED BY <1>1, <1>2, <1>3 DEF IndexInv

LEMMA ClearKeeps == ASSUME IndexInv, Clear PROVE IndexInv'
<1>1. <<>> \in Seq(Turns)
  OBVIOUS
<1>2. PICK held : held = <<>> /\ held \in Seq(Turns)
  BY <1>1
<1>3. memories' = held /\ table' = NoTable /\ used' = 0
  BY <1>2 DEF Clear
<1> QED BY <1>2, <1>3, GivenUp

LEMMA ReopenKeeps == ASSUME IndexInv, Reopen PROVE IndexInv'
<1>1. PICK held \in Seq(Turns) : held = memories /\ memories' = held
  BY DEF IndexInv, Reopen
<1>2. PICK new : new = Rebuilt(held)
  OBVIOUS
<1>3. AreRows(held)
  BY RowsAre
<1>4. PICK c \in Nat : AllEntered(held, c, new)
  BY <1>2, <1>3, RebuiltKeeps
<1>5. new.ok <=> AllNamed(held)
  BY <1>4, NamedRows DEF AllEntered
<1>6. /\ table' = IF new.ok THEN new.table ELSE NoTable
      /\ used' = IF new.ok THEN new.used ELSE 0
  BY <1>1, <1>2 DEF Reopen
<1>7. CASE ~new.ok
  <2>1. table' = NoTable /\ used' = 0 /\ ~AllNamed(held)
    BY <1>5, <1>6, <1>7
  <2> QED BY <1>1, <2>1, GivenUp
<1>8. CASE new.ok
  <2>1. table' = new.table /\ used' = new.used
    BY <1>6, <1>8
  <2> QED BY <1>1, <1>4, <1>8, <2>1 DEF AllEntered, IndexSound, IndexInv
<1> QED BY <1>7, <1>8

LEMMA LearnRowKeeps ==
  ASSUME IndexInv, NEW row \in Turns, NEW saved \in BOOLEAN, LearnRow(row, saved)
  PROVE  IndexInv'
<1>1. PICK held \in Seq(Turns) : held = memories /\ AreRows(held)
  BY RowsAre DEF IndexInv
<1>2. PICK b \in Nat : TableSound(held, table, b)
  BY <1>1 DEF IndexInv
<1>3. used \in Nat /\ used = Cardinality(Taken(table)) /\ Len(row) \in Nat
  <2>1. row \in Seq(Keys \cup {Nameless})
    BY IndexAssumption
  <2> QED BY <1>2, <2>1, CapacityOf DEF IndexInv, TableSound
<1>4. PICK desired \in Nat : desired = used + Len(row)
  BY <1>3
<1>5. PICK roomy : roomy = Reserve(held, table, desired)
  OBVIOUS
<1>6. PICK c \in Nat : /\ c > 0 /\ desired < c
                       /\ TableSound(held, roomy, c) /\ SameEntries(table, roomy)
  <2>1. Cardinality(Taken(table)) <= desired
    BY <1>3, <1>4
  <2> QED BY <1>2, <1>5, <2>1, ReserveKeeps
<1>7. used = Cardinality(Taken(roomy)) /\ used < c
  BY <1>3, <1>4, <1>6 DEF SameEntries
<1>8. AllNamed(held) => CompleteTo(held, roomy, Len(held) + 1, 0)
  BY <1>1, <1>6, EntriesCarried DEF IndexInv
<1>9. PICK more : more = Append(held, row)
  OBVIOUS
<1>10. PICK first : first = [ok |-> TRUE, used |-> used, table |-> roomy]
  OBVIOUS
<1>11. PICK built : built = InsertRow(more, first, Len(more))
  OBVIOUS
<1>12. /\ ~saved => table' = roomy /\ memories' = held /\ used' = used
       /\ saved => /\ memories' = more
                   /\ table' = IF built.ok THEN built.table ELSE NoTable
                   /\ used' = IF built.ok THEN built.used ELSE 0
  BY <1>1, <1>4, <1>5, <1>9, <1>10, <1>11 DEF LearnRow
<1>13. CASE ~saved
  BY <1>6, <1>7, <1>8, <1>12, <1>13 DEF IndexInv
<1>14. CASE saved
  <2>1. /\ more \in Seq(Turns) /\ Len(more) = Len(held) + 1 /\ more[Len(more)] = row
        /\ \A r \in 1..Len(held) : more[r] = held[r]
    <3> HIDE DEF IndexAssumption
    <3> QED BY <1>9, AppendProperties
  <2>2. AreRows(more) /\ Len(held) \in Nat /\ Len(more) \in 1..Len(more)
    BY <1>1, <2>1, RowsAre DEF AreRows
  <2>3. TableSound(more, roomy, c)
    BY <1>6, <1>9, HeldExtends
  <2>4. first.used = used /\ first.ok = TRUE /\ first.table = roomy
    BY <1>10
  <2>5. IndexSound(more, first, c)
    <3>1. first \in IndexOf(c)
      BY <1>3, <1>6, <1>10 DEF IndexOf, TableSound
    <3> QED BY <1>7, <2>3, <2>4, <3>1 DEF IndexSound
  <2>6. first.used + Len(more[Len(more)]) < c
    BY <1>4, <1>6, <2>1, <2>4
  <2>7. RowEntered(more, c, first, built, Len(more))
    BY <1>11, <2>2, <2>5, <2>6, InsertRowKeeps
  <2>8. AllNamed(more) => AllNamed(held) /\ built.ok
    <3>1. AllNamed(more) => AllNamed(held)
      <4>1. DOMAIN held = 1..Len(held) /\ DOMAIN more = 1..Len(more) /\ 1..Len(held) \subseteq 1..Len(more)
        BY <2>1, <2>2
      <4> QED BY <2>1, <4>1 DEF AllNamed
    <3>2. AllNamed(more) => \A n \in 1..Len(more[Len(more)]) : more[Len(more)][n] # Nameless
      BY <2>1, <2>2, NamedRows
    <3> QED BY <2>4, <2>7, <3>1, <3>2 DEF RowEntered
  <2>9. CASE ~built.ok
    <3>1. memories' = more /\ table' = NoTable /\ used' = 0 /\ ~AllNamed(more)
      BY <1>12, <1>14, <2>8, <2>9
    <3> QED BY <2>1, <3>1, GivenUp
  <2>10. CASE built.ok
    <3>1. memories' = more /\ table' = built.table /\ used' = built.used
      BY <1>12, <1>14, <2>10
    <3>2. TableSound(more, built.table, c) /\ built.used = Cardinality(Taken(built.table))
      BY <2>7 DEF RowEntered, IndexSound
    <3>3. built.used < c
      <4>1. PICK u \in Nat : u = built.used
        BY <2>7 DEF RowEntered, IndexSound, IndexOf
      <4>2. u <= used + Len(row)
        BY <2>1, <2>4, <2>7, <4>1 DEF RowEntered
      <4>3. u < c
        BY <1>3, <1>4, <1>6, <4>2
      <4> QED BY <4>1, <4>3
    <3>4. AllNamed(more) => CompleteTo(more, built.table, Len(more) + 1, 0)
      <4> SUFFICES ASSUME AllNamed(more)
                   PROVE  CompleteTo(more, built.table, Len(more) + 1, 0)
        OBVIOUS
      <4>1. CompleteTo(more, roomy, Len(more), 0)
        <5>1. CompleteTo(held, roomy, Len(held) + 1, 0)
          BY <1>8, <2>8
        <5>2. CompleteTo(more, roomy, Len(held) + 1, 0)
          BY <1>6, <1>9, <5>1, HeldExtends
        <5> QED BY <2>1, <5>2
      <4> QED BY <2>4, <2>7, <2>10, <4>1 DEF RowEntered
    <3> QED BY <2>1, <3>1, <3>2, <3>3, <3>4 DEF IndexInv
  <2> QED BY <2>9, <2>10
<1> QED BY <1>13, <1>14

LEMMA IndexInvIsInductive == IndexInv /\ [IndexNext]_indexVars => IndexInv'
<1> SUFFICES ASSUME IndexInv, [IndexNext]_indexVars PROVE IndexInv'
  OBVIOUS
<1>1. ASSUME NEW row \in Turns, NEW saved \in BOOLEAN, LearnRow(row, saved) PROVE IndexInv'
  BY <1>1, LearnRowKeeps
<1>2. CASE Reopen
  BY <1>2, ReopenKeeps
<1>3. CASE Clear
  BY <1>3, ClearKeeps
<1>4. CASE UNCHANGED indexVars
  BY <1>4 DEF indexVars, IndexInv
<1> QED BY <1>1, <1>2, <1>3, <1>4 DEF IndexNext

LEMMA IndexInvGives == IndexInv => LookupIsScan
<1> SUFFICES ASSUME IndexInv PROVE LookupIsScan
  OBVIOUS
<1>1. PICK c \in Nat : TableSound(memories, table, c) /\ (c # 0 => used < c)
  BY DEF IndexInv
<1>2. memories \in Seq(Turns) /\ used = Cardinality(Taken(table))
  BY DEF IndexInv
<1>3. table \in Tables(c) /\ Capacity(table) = c
  BY <1>1, CapacityOf DEF TableSound
<1>4. table # NoTable => c # 0
  BY <1>3 DEF Tables, NoTable
<1>5. used = Cardinality({p \in DOMAIN table : table[p] # Free})
  BY <1>2 DEF Taken
<1>6. AllNamed(memories) \/ table = NoTable => \A key \in Keys : Find(key) = Scan(key)
  <2>1. CASE table = NoTable
    BY <2>1 DEF Find
  <2>2. CASE AllNamed(memories) /\ table # NoTable
    <3>1. CompleteTo(memories, table, Len(memories) + 1, 0)
      BY <2>2 DEF IndexInv
    <3> QED BY <1>1, <1>2, <1>4, <2>2, <3>1, ScanFinds
  <2> QED BY <2>1, <2>2
<1>7. table # NoTable => used < Capacity(table)
  BY <1>1, <1>3, <1>4
<1> QED BY <1>5, <1>6, <1>7 DEF LookupIsScan

\* The index answers as a scan of the rows, for every hash, capacity and set of
\* turns and however many rows are learnt: no collision, growth or rebuild loses a
\* key or answers another, and a search always meets a free slot.
THEOREM LookupAlwaysScan == IndexSpec => []LookupIsScan
<1>1. IndexInit => IndexInv
  BY InitIndexed
<1>2. IndexInv /\ [IndexNext]_indexVars => IndexInv'
  BY IndexInvIsInductive
<1>3. IndexInv => LookupIsScan
  BY IndexInvGives
<1> QED BY <1>1, <1>2, <1>3, PTL DEF IndexSpec

-----------------------------------------------------------------------------
(* Lineage.  What a search of a graph of ids answers, whatever the graph:  *)
(* an id that is found names parents, or else a source, inside the graph,  *)
(* and a root is a user's turn.                                            *)

RootIds == {NoRoot} \cup {Turn(n) : n \in Nat}

Followed(nodes) ==
    \A id \in DOMAIN nodes : nodes[id].found =>
      /\ nodes[id].parents \subseteq DOMAIN nodes
      /\ nodes[id].parents = {} => nodes[id].root \in DOMAIN nodes
      /\ nodes[id].type \in FactualRoots => \E n \in Nat : id = Turn(n)

LEMMA IdsApart ==
  /\ \A n : Turn(n) # NoRoot /\ Turn(n)[1] = "turn" /\ Turn(n)[2] = n
  /\ \A x : Relation(x)[1] = "relation" /\ Relation(x)[2] = x
  /\ \A c, p : /\ Semantic(c, p)[1] = "semantic" /\ Semantic(c, p)[2] = c
               /\ Semantic(c, p)[3] = p
BY DEF Turn, Relation, Semantic, NoRoot

LEMMA LeastIsOne ==
  ASSUME NEW roots \in SUBSET {Turn(n) : n \in Nat}, roots # {}
  PROVE  LeastRoot(roots) \in roots
<1> DEFINE numbers == {root[2] : root \in roots}
<1>1. numbers \in SUBSET Nat /\ numbers # {}
  BY IdsApart
<1>2. \A root \in roots : root = Turn(root[2])
  BY IdsApart
<1>3. LeastRoot(roots) = Turn(Min(numbers))
  BY DEF LeastRoot
<1> HIDE DEF numbers
<1>4. Min(numbers) \in numbers
  BY <1>1, MinExists
<1>5. PICK root \in roots : Min(numbers) = root[2]
  BY <1>4 DEF numbers
<1> QED BY <1>2, <1>3, <1>5

\* The root of an id is that of an id beyond it, or its own.
LEMMA RootedFrom ==
  ASSUME NEW nodes, Followed(nodes), NEW beyond \in [DOMAIN nodes -> RootIds],
         NEW id \in DOMAIN nodes, Rooted(nodes, beyond, id) # NoRoot
  PROVE  /\ id \in Rests(nodes, {p \in DOMAIN nodes : beyond[p] # NoRoot})
         /\ \/ Rooted(nodes, beyond, id) = id /\ nodes[id].type \in FactualRoots
            \/ \E p \in DOMAIN nodes : Rooted(nodes, beyond, id) = beyond[p]
<1> DEFINE node == nodes[id]
           above == {beyond[p] : p \in node.parents}
           standing == {p \in DOMAIN nodes : beyond[p] # NoRoot}
<1>1. node.found /\ ~node.gone
  BY DEF Rooted
<1>2. above \subseteq RootIds /\ above \ {NoRoot} \subseteq {Turn(n) : n \in Nat}
  BY <1>1 DEF Followed, RootIds
<1>3. CASE node.type \in FactualRoots
  <2>1. Rooted(nodes, beyond, id) = id
    BY <1>1, <1>3 DEF Rooted
  <2> QED BY <1>1, <1>3, <2>1 DEF Rests
<1>4. CASE node.type \notin FactualRoots /\ node.parents = {}
  <2>1. Rooted(nodes, beyond, id) = beyond[node.root] /\ node.root \in DOMAIN nodes
    BY <1>1, <1>4 DEF Rooted, Followed
  <2>2. node.root \in standing
    BY <2>1
  <2> QED BY <1>1, <1>4, <2>1, <2>2 DEF Rests
<1>5. CASE node.type \notin FactualRoots /\ node.parents # {} /\ node.type = "derived_relation"
  <2>1. Rooted(nodes, beyond, id) = AllParents(above)
    BY <1>1, <1>5 DEF Rooted
  <2>2. NoRoot \notin above /\ AllParents(above) = LeastRoot(above)
    BY <2>1 DEF AllParents
  <2>3. node.parents \subseteq DOMAIN nodes
    BY <1>1 DEF Followed
  <2>4. node.parents \subseteq standing
    BY <2>2, <2>3
  <2>5. above # {}
    BY <1>5
  <2>6. LeastRoot(above) \in above
    <3> HIDE DEF above
    <3> QED BY <1>2, <2>2, <2>5, LeastIsOne
  <2>7. PICK p \in node.parents : LeastRoot(above) = beyond[p]
    BY <2>6
  <2>8. id \in Rests(nodes, standing)
    BY <1>1, <1>5, <2>4 DEF Rests
  <2> QED BY <2>1, <2>2, <2>3, <2>7, <2>8
<1>6. CASE node.type \notin FactualRoots /\ node.parents # {} /\ node.type # "derived_relation"
  <2>1. Rooted(nodes, beyond, id) = LeastRoot(above \ {NoRoot})
    BY <1>1, <1>6 DEF Rooted
  <2>2. above \ {NoRoot} # {}
    BY <2>1 DEF LeastRoot
  <2>3. LeastRoot(above \ {NoRoot}) \in above \ {NoRoot}
    <3> HIDE DEF above
    <3> QED BY <1>2, <2>2, LeastIsOne
  <2>4. PICK p \in node.parents : LeastRoot(above \ {NoRoot}) = beyond[p]
    BY <2>3
  <2>5. p \in DOMAIN nodes /\ p \in standing
    BY <1>1, <2>3, <2>4 DEF Followed
  <2>6. id \in Rests(nodes, standing)
    BY <1>1, <1>6, <2>4, <2>5 DEF Rests
  <2> QED BY <2>1, <2>4, <2>5, <2>6
<1> QED BY <1>3, <1>4, <1>5, <1>6

\* What rests on ids that have a root has one.
LEMMA RootedWhenRests ==
  ASSUME NEW nodes, Followed(nodes), NEW beyond \in [DOMAIN nodes -> RootIds],
         NEW S, \A p \in S : p \in DOMAIN nodes => beyond[p] # NoRoot,
         NEW id \in Rests(nodes, S), id \in S => FALSE
  PROVE  Rooted(nodes, beyond, id) # NoRoot
<1> DEFINE node == nodes[id]
           above == {beyond[p] : p \in node.parents}
<1>1. id \in DOMAIN nodes /\ node.found /\ ~node.gone
  BY DEF Rests
<1>2. above \subseteq RootIds /\ above \ {NoRoot} \subseteq {Turn(n) : n \in Nat}
  BY <1>1 DEF Followed, RootIds
<1>3. CASE node.type \in FactualRoots
  <2>1. Rooted(nodes, beyond, id) = id
    BY <1>1, <1>3 DEF Rooted
  <2> QED BY <1>1, <1>3, <2>1, IdsApart DEF Followed
<1>4. CASE node.type \notin FactualRoots /\ node.parents = {}
  <2>1. node.root \in S /\ node.root \in DOMAIN nodes
    BY <1>1, <1>4 DEF Rests, Followed
  <2>2. node.root # id
    BY <2>1
  <2>3. Rooted(nodes, beyond, id) = beyond[node.root]
    BY <1>1, <1>4, <2>2 DEF Rooted
  <2> QED BY <2>1, <2>3
<1>5. CASE node.type \notin FactualRoots /\ node.parents # {} /\ node.type = "derived_relation"
  <2>1. Rooted(nodes, beyond, id) = AllParents(above)
    BY <1>1, <1>5 DEF Rooted
  <2>2. node.parents \subseteq S /\ node.parents \subseteq DOMAIN nodes
    BY <1>1, <1>5 DEF Rests, Followed
  <2>3. NoRoot \notin above
    BY <2>2
  <2>4. above # {}
    BY <1>5
  <2>5. LeastRoot(above) \in above
    <3> HIDE DEF above
    <3> QED BY <1>2, <2>3, <2>4, LeastIsOne
  <2> QED BY <2>1, <2>3, <2>5 DEF AllParents
<1>6. CASE node.type \notin FactualRoots /\ node.parents # {} /\ node.type # "derived_relation"
  <2>1. Rooted(nodes, beyond, id) = LeastRoot(above \ {NoRoot})
    BY <1>1, <1>6 DEF Rooted
  <2>2. PICK p \in node.parents : p \in S
    BY <1>6 DEF Rests
  <2>3. beyond[p] \in above \ {NoRoot}
    BY <1>1, <2>2 DEF Followed
  <2>4. LeastRoot(above \ {NoRoot}) \in above \ {NoRoot}
    <3> HIDE DEF above
    <3> QED BY <1>2, <2>3, LeastIsOne
  <2> QED BY <2>1, <2>4
<1> QED BY <1>3, <1>4, <1>5, <1>6

\* What a search answers with some room left, by the ids being resolved.
Resolved(nodes) == [SUBSET DOMAIN nodes -> [DOMAIN nodes -> RootIds]]
Onward(nodes, search) ==
    [path \in SUBSET DOMAIN nodes |->
       [id \in DOMAIN nodes |->
          IF id \in path THEN NoRoot ELSE Rooted(nodes, search[path \cup {id}], id)]]
NoSearch(nodes) == [path \in SUBSET DOMAIN nodes |-> [id \in DOMAIN nodes |-> NoRoot]]

Resolution(nodes, searches) ==
    /\ searches \in [0..MaxVisited -> Resolved(nodes)]
    /\ searches[0] = NoSearch(nodes)
    /\ \A left \in 1..MaxVisited : searches[left] = Onward(nodes, searches[left - 1])
    /\ \A start \in DOMAIN nodes : RootIn(nodes, start) = searches[MaxVisited][{}][start]

LEMMA OnwardTyped ==
  ASSUME NEW nodes, Followed(nodes), NEW search \in Resolved(nodes)
  PROVE  Onward(nodes, search) \in Resolved(nodes)
<1> SUFFICES ASSUME NEW path \in SUBSET DOMAIN nodes, NEW id \in DOMAIN nodes, id \notin path
             PROVE  Rooted(nodes, search[path \cup {id}], id) \in RootIds
  BY DEF Onward, Resolved, RootIds
<1> DEFINE beyond == search[path \cup {id}]
<1>1. beyond \in [DOMAIN nodes -> RootIds]
  BY DEF Resolved
<1> HIDE DEF beyond
<1>2. CASE Rooted(nodes, beyond, id) = NoRoot
  BY <1>2 DEF RootIds, beyond
<1>3. CASE Rooted(nodes, beyond, id) # NoRoot
  <2>1. /\ nodes[id].found
        /\ \/ Rooted(nodes, beyond, id) = id /\ nodes[id].type \in FactualRoots
           \/ \E p \in DOMAIN nodes : Rooted(nodes, beyond, id) = beyond[p]
    BY <1>1, <1>3, RootedFrom DEF Rests
  <2> QED BY <1>1, <2>1 DEF Followed, RootIds, beyond
<1> QED BY <1>2, <1>3

LEMMA ResolutionExists ==
  ASSUME NEW nodes, Followed(nodes)
  PROVE  \E searches : Resolution(nodes, searches)
<1> DEFINE D == DOMAIN nodes
           R == Resolved(nodes)
           step == [p \in R \X (1..MaxVisited) |-> Onward(nodes, p[1])]
           Is(f) == f = [left \in 0..MaxVisited |->
                           [path \in SUBSET D |->
                              [id \in D |->
                                 IF left = 0 \/ id \in path THEN NoRoot
                                 ELSE Rooted(nodes, f[left - 1][path \cup {id}], id)]]]
           resolve == CHOOSE f : Is(f)
<1>1. MaxVisited \in Nat /\ NoSearch(nodes) \in R
  BY VisitedAssumption DEF NoSearch, Resolved, RootIds
<1>2. step \in Steps(R, MaxVisited)
  BY OnwardTyped DEF Steps
<1>3. PICK g \in [0..MaxVisited -> R] :
        g[0] = NoSearch(nodes) /\ \A n \in 1..MaxVisited : g[n] = Onward(nodes, g[n - 1])
  <2>1. \A x \in R, n \in 1..MaxVisited : step[<<x, n>>] = Onward(nodes, x)
    OBVIOUS
  <2> HIDE DEF step, R
  <2>2. ValuesOf(R, MaxVisited, NoSearch(nodes), step) # {}
    BY <1>1, <1>2, StepwiseExists
  <2>3. PICK g \in [0..MaxVisited -> R] :
          g[0] = NoSearch(nodes) /\ \A n \in 1..MaxVisited : g[n] = step[<<g[n - 1], n>>]
    BY <2>2 DEF ValuesOf
  <2>4. \A n \in 1..MaxVisited : n - 1 \in 0..MaxVisited
    BY <1>1
  <2> QED BY <2>1, <2>3, <2>4
<1>4. Is(g)
  <2> DEFINE h == [left \in 0..MaxVisited |->
                     [path \in SUBSET D |->
                        [id \in D |->
                           IF left = 0 \/ id \in path THEN NoRoot
                           ELSE Rooted(nodes, g[left - 1][path \cup {id}], id)]]]
  <2>1. ASSUME NEW left \in 0..MaxVisited PROVE g[left] = h[left]
    <3>1. CASE left = 0
      <4>1. h[left] = NoSearch(nodes)
        BY <3>1 DEF NoSearch
      <4> QED BY <1>3, <3>1, <4>1
    <3>2. CASE left # 0
      <4>1. left \in 1..MaxVisited
        BY <1>1, <3>2
      <4>2. h[left] = Onward(nodes, g[left - 1])
        BY <3>2 DEF Onward
      <4> QED BY <1>3, <4>1, <4>2
    <3> QED BY <3>1, <3>2
  <2> QED BY <1>3, <2>1
<1>5. Is(resolve)
  BY <1>4
<1>6. \A start \in D : RootIn(nodes, start) = resolve[MaxVisited][{}][start]
  BY DEF RootIn
<1> HIDE DEF resolve
<1>7. resolve[0] = NoSearch(nodes)
  BY <1>1, <1>5 DEF NoSearch
<1>8. \A left \in 1..MaxVisited : resolve[left] = Onward(nodes, resolve[left - 1])
  <2> SUFFICES ASSUME NEW left \in 1..MaxVisited
               PROVE  resolve[left] = Onward(nodes, resolve[left - 1])
    OBVIOUS
  <2>1. left \in 0..MaxVisited /\ left # 0
    BY <1>1
  <2>2. resolve[left] = [path \in SUBSET D |->
                           [id \in D |->
                              IF left = 0 \/ id \in path THEN NoRoot
                              ELSE Rooted(nodes, resolve[left - 1][path \cup {id}], id)]]
    <3> DEFINE h(f) == [path \in SUBSET D |->
                          [id \in D |->
                             IF left = 0 \/ id \in path THEN NoRoot
                             ELSE Rooted(nodes, f[left - 1][path \cup {id}], id)]]
    <3>1. resolve[left] = h(resolve)
      BY <1>5, <2>1
    <3> QED BY <3>1
  <2> HIDE DEF D
  <2> QED BY <2>1, <2>2 DEF Onward, D
<1> DEFINE P == {left \in 0..MaxVisited : resolve[left] \in R}
<1>9. 0..MaxVisited \subseteq P
  <2>1. 0 \in P
    BY <1>1, <1>7
  <2>2. ASSUME NEW n \in 0..MaxVisited, n < MaxVisited, n \in P PROVE n + 1 \in P
    <3>1. n + 1 \in 1..MaxVisited /\ (n + 1) - 1 = n /\ n + 1 \in 0..MaxVisited
      BY <1>1, <2>2
    <3>2. resolve[n + 1] = Onward(nodes, resolve[n])
      BY <1>8, <3>1
    <3> QED BY <2>2, <3>1, <3>2, OnwardTyped
  <2> HIDE DEF P
  <2> QED BY <1>1, <2>1, <2>2, Upwards
<1>10. resolve \in [0..MaxVisited -> R]
  <2>1. resolve = [left \in 0..MaxVisited |-> resolve[left]]
    BY <1>5
  <2> QED BY <1>9, <2>1
<1> QED BY <1>6, <1>7, <1>8, <1>10 DEF Resolution

\* What rests on a user's turn within some steps.
LEMMA RestsMore ==
  ASSUME NEW nodes, NEW S, NEW T, S \subseteq T
  PROVE  Rests(nodes, S) \subseteq Rests(nodes, T)
BY DEF Rests

Growth(nodes, depth, grown) ==
    /\ grown \in [0..depth -> SUBSET DOMAIN nodes]
    /\ grown[0] = {}
    /\ \A k \in 1..depth : grown[k] = Rests(nodes, grown[k - 1])

LEMMA GrowthGives ==
  ASSUME NEW nodes, NEW depth \in Nat
  PROVE  \E grown : Growth(nodes, depth, grown) /\ Grounded(nodes, depth) = grown[depth]
<1> DEFINE R == SUBSET DOMAIN nodes
           step == [p \in R \X (1..depth) |-> Rests(nodes, p[1])]
           Is(f) == f = [k \in 0..depth |-> IF k = 0 THEN {} ELSE Rests(nodes, f[k - 1])]
           grow == CHOOSE f : Is(f)
<1>1. {} \in R /\ \A S : Rests(nodes, S) \in R
  BY DEF Rests
<1>2. step \in Steps(R, depth)
  BY <1>1 DEF Steps
<1>3. PICK g \in [0..depth -> R] : g[0] = {} /\ \A n \in 1..depth : g[n] = Rests(nodes, g[n - 1])
  <2>1. \A x \in R, n \in 1..depth : step[<<x, n>>] = Rests(nodes, x)
    OBVIOUS
  <2> HIDE DEF step, R
  <2>2. ValuesOf(R, depth, {}, step) # {}
    BY <1>1, <1>2, StepwiseExists
  <2>3. PICK g \in [0..depth -> R] : g[0] = {} /\ \A n \in 1..depth : g[n] = step[<<g[n - 1], n>>]
    BY <2>2 DEF ValuesOf
  <2>4. \A n \in 1..depth : n - 1 \in 0..depth
    OBVIOUS
  <2> QED BY <2>1, <2>3, <2>4
<1>4. Is(g)
  <2>1. \A k \in 0..depth : k # 0 => k \in 1..depth
    OBVIOUS
  <2> QED BY <1>3, <2>1
<1>5. Is(grow)
  BY <1>4
<1>6. Grounded(nodes, depth) = grow[depth]
  BY DEF Grounded
<1> HIDE DEF grow
<1>7. grow[0] = {} /\ \A k \in 1..depth : grow[k] = Rests(nodes, grow[k - 1])
  <2>1. \A k \in 1..depth : k \in 0..depth /\ k # 0
    OBVIOUS
  <2>2. 0 \in 0..depth
    OBVIOUS
  <2> QED BY <1>5, <2>1, <2>2
<1>8. \A k \in 0..depth : grow[k] \in R
  <2>1. \A k \in 0..depth : k = 0 \/ k \in 1..depth
    OBVIOUS
  <2> HIDE DEF R
  <2> QED BY <1>1, <1>7, <2>1
<1>9. grow \in [0..depth -> R]
  <2>1. grow = [k \in 0..depth |-> grow[k]]
    BY <1>5
  <2> QED BY <1>8, <2>1
<1> QED BY <1>6, <1>7, <1>9 DEF Growth

LEMMA GrowthRises ==
  ASSUME NEW nodes, NEW depth \in Nat, NEW grown, Growth(nodes, depth, grown)
  PROVE  \A k \in 1..depth : grown[k - 1] \subseteq grown[k]
<1> DEFINE P == {k \in 0..depth : k > 0 => grown[k - 1] \subseteq grown[k]}
<1>1. 0 \in P
  OBVIOUS
<1>2. ASSUME NEW k \in 0..depth, k < depth, k \in P PROVE k + 1 \in P
  <2>1. k + 1 \in 0..depth /\ k + 1 \in 1..depth /\ (k + 1) - 1 = k
    BY <1>2
  <2>2. grown[k + 1] = Rests(nodes, grown[k])
    BY <2>1 DEF Growth
  <2>3. CASE k = 0
    BY <2>1, <2>3 DEF Growth
  <2>4. CASE k # 0
    <3>1. k \in 1..depth /\ grown[k] = Rests(nodes, grown[k - 1]) /\ grown[k - 1] \subseteq grown[k]
      BY <1>2, <2>4 DEF Growth
    <3> QED BY <2>1, <2>2, <3>1, RestsMore
  <2> QED BY <2>3, <2>4
<1> HIDE DEF P
<1>3. 0..depth \subseteq P
  BY <1>1, <1>2, Upwards
<1> QED BY <1>3 DEF P

\* Growth is the same whatever the depth it is taken to.
LEMMA GrowthIs ==
  ASSUME NEW nodes, NEW depth \in Nat, NEW grown, Growth(nodes, depth, grown), NEW n \in 0..depth
  PROVE  Grounded(nodes, n) = grown[n]
<1>1. PICK h : Growth(nodes, n, h) /\ Grounded(nodes, n) = h[n]
  BY GrowthGives
<1> DEFINE P == {k \in 0..n : h[k] = grown[k]}
<1>2. n \in Nat /\ 0 \in P
  <2>1. n \in Nat /\ 0 \in 0..n
    OBVIOUS
  <2>2. h[0] = {} /\ grown[0] = {}
    BY <1>1 DEF Growth
  <2> QED BY <2>1, <2>2
<1>3. ASSUME NEW k \in 0..n, k < n, k \in P PROVE k + 1 \in P
  <2>1. k + 1 \in 0..n /\ k + 1 \in 1..n /\ k + 1 \in 1..depth /\ (k + 1) - 1 = k
    BY <1>3
  <2> QED BY <1>1, <1>3, <2>1 DEF Growth
<1> HIDE DEF P
<1>4. 0..n \subseteq P
  BY <1>2, <1>3, Upwards
<1> QED BY <1>1, <1>4 DEF P

\* What a search answers rests on a user's turn, and is such a turn that stands.
IsRoot(nodes, root) ==
    /\ root \in DOMAIN nodes
    /\ nodes[root].found /\ ~nodes[root].gone /\ nodes[root].type \in FactualRoots

LEMMA SearchIsSound ==
  ASSUME NEW nodes, Followed(nodes), NEW searches, Resolution(nodes, searches),
         NEW grown, Growth(nodes, MaxVisited, grown)
  PROVE  \A path \in SUBSET DOMAIN nodes, id \in DOMAIN nodes :
           LET root == searches[MaxVisited][path][id]
           IN  root # NoRoot => id \in grown[MaxVisited] /\ IsRoot(nodes, root)
<1> DEFINE Sound(left) == \A path \in SUBSET DOMAIN nodes, id \in DOMAIN nodes :
              LET root == searches[left][path][id]
              IN  root # NoRoot => id \in grown[left] /\ IsRoot(nodes, root)
           P == {left \in 0..MaxVisited : Sound(left)}
<1>1. MaxVisited \in Nat /\ 0 \in P
  BY VisitedAssumption DEF Resolution, NoSearch
<1>2. ASSUME NEW n \in 0..MaxVisited, n < MaxVisited, n \in P PROVE n + 1 \in P
  <2>1. n + 1 \in 1..MaxVisited /\ (n + 1) - 1 = n /\ n + 1 \in 0..MaxVisited
    BY <1>1, <1>2
  <2>2. SUFFICES ASSUME NEW path \in SUBSET DOMAIN nodes, NEW id \in DOMAIN nodes,
                        searches[n + 1][path][id] # NoRoot
                 PROVE  /\ id \in grown[n + 1]
                        /\ IsRoot(nodes, searches[n + 1][path][id])
    BY <2>1
  <2> DEFINE beyond == searches[n][path \cup {id}]
             root == searches[n + 1][path][id]
             standing == {p \in DOMAIN nodes : beyond[p] # NoRoot}
  <2>3. searches[n + 1] = Onward(nodes, searches[n]) /\ grown[n + 1] = Rests(nodes, grown[n])
    BY <2>1 DEF Resolution, Growth
  <2>4. root = IF id \in path THEN NoRoot ELSE Rooted(nodes, beyond, id)
    BY <2>3 DEF Onward
  <2>5. root = Rooted(nodes, beyond, id) /\ root # NoRoot
    BY <2>2, <2>4
  <2>6. beyond \in [DOMAIN nodes -> RootIds]
    BY <1>2 DEF Resolution, Resolved
  <2>7. standing \subseteq grown[n]
    BY <1>2
  <2>8. \A p \in DOMAIN nodes : beyond[p] # NoRoot => IsRoot(nodes, beyond[p])
    BY <1>2
  <2> HIDE DEF beyond, root, P
  <2>9. /\ id \in Rests(nodes, standing)
        /\ \/ root = id /\ nodes[id].type \in FactualRoots
           \/ \E p \in DOMAIN nodes : root = beyond[p]
    BY <2>5, <2>6, RootedFrom
  <2>10. id \in grown[n + 1]
    BY <2>3, <2>7, <2>9, RestsMore
  <2>11. IsRoot(nodes, root)
    <3>1. nodes[id].found /\ ~nodes[id].gone
      BY <2>9 DEF Rests
    <3> QED BY <2>5, <2>8, <2>9, <3>1 DEF IsRoot
  <2> QED BY <2>10, <2>11 DEF root
<1> HIDE DEF P
<1>3. 0..MaxVisited \subseteq P
  BY <1>1, <1>2, Upwards
<1> QED BY <1>1, <1>3 DEF P

LEMMA SearchIsComplete ==
  ASSUME NEW nodes, Followed(nodes), NEW searches, Resolution(nodes, searches),
         NEW grown, Growth(nodes, MaxVisited, grown)
  PROVE  \A path \in SUBSET DOMAIN nodes, id \in grown[MaxVisited] :
           path \cap grown[MaxVisited] = {} => searches[MaxVisited][path][id] # NoRoot
<1> DEFINE Complete(k) == \A left \in k..MaxVisited, path \in SUBSET DOMAIN nodes,
                            id \in grown[k] :
              path \cap grown[k] = {} => searches[left][path][id] # NoRoot
           P == {k \in 0..MaxVisited : Complete(k)}
<1>1. MaxVisited \in Nat /\ 0 \in P
  BY VisitedAssumption DEF Growth
<1>2. ASSUME NEW n \in 0..MaxVisited, n < MaxVisited, n \in P PROVE n + 1 \in P
  <2>1. n + 1 \in 1..MaxVisited /\ (n + 1) - 1 = n /\ n + 1 \in 0..MaxVisited
    BY <1>1, <1>2
  <2>2. SUFFICES ASSUME NEW left \in n + 1..MaxVisited, NEW path \in SUBSET DOMAIN nodes,
                        NEW id \in grown[n + 1], path \cap grown[n + 1] = {}
                 PROVE  searches[left][path][id] # NoRoot
    BY <2>1
  <2>3. grown[n + 1] = Rests(nodes, grown[n]) /\ grown[n] \subseteq grown[n + 1]
    <3>1. grown[(n + 1) - 1] \subseteq grown[n + 1]
      BY <1>1, <2>1, GrowthRises
    <3> QED BY <2>1, <3>1 DEF Growth
  <2>4. id \in DOMAIN nodes /\ id \notin path /\ path \cap grown[n] = {}
    BY <2>2, <2>3 DEF Rests
  <2>5. left \in 1..MaxVisited /\ left \in n..MaxVisited /\ left - 1 \in n..MaxVisited
        /\ left - 1 \in 0..MaxVisited
    BY <1>1
  <2>6. CASE id \in grown[n]
    BY <1>2, <2>4, <2>5, <2>6
  <2>7. CASE id \notin grown[n]
    <3> DEFINE beyond == searches[left - 1][path \cup {id}]
    <3>1. (path \cup {id}) \cap grown[n] = {} /\ path \cup {id} \in SUBSET DOMAIN nodes
      BY <2>4, <2>7
    <3>2. \A p \in grown[n] : beyond[p] # NoRoot
      BY <1>2, <2>5, <3>1
    <3>3. beyond \in [DOMAIN nodes -> RootIds]
      BY <2>5, <3>1 DEF Resolution, Resolved
    <3>4. searches[left] = Onward(nodes, searches[left - 1])
      BY <2>5 DEF Resolution
    <3>5. searches[left][path][id] = Rooted(nodes, beyond, id)
      BY <2>4, <3>4 DEF Onward
    <3> HIDE DEF beyond, P
    <3> QED BY <2>3, <2>7, <3>2, <3>3, <3>5, RootedWhenRests
  <2> QED BY <2>6, <2>7
<1> HIDE DEF P
<1>3. 0..MaxVisited \subseteq P
  BY <1>1, <1>2, Upwards
<1>4. MaxVisited \in 0..MaxVisited /\ MaxVisited \in MaxVisited..MaxVisited
  BY <1>1
<1> QED BY <1>3, <1>4 DEF P

\* For every graph, however its lineages turn back on themselves: an id has a root
\* exactly when it rests on a user's turn within the limit, and the root is
\* such a turn, standing (memoria_lineage_resolve).
THEOREM SearchFindsLineage ==
  ASSUME NEW nodes, Followed(nodes), NEW start \in DOMAIN nodes
  PROVE  /\ RootIn(nodes, start) # NoRoot <=> start \in Grounded(nodes, MaxVisited)
         /\ RootIn(nodes, start) # NoRoot => IsRoot(nodes, RootIn(nodes, start))
<1>1. MaxVisited \in Nat
  BY VisitedAssumption
<1>2. PICK searches : Resolution(nodes, searches)
  BY ResolutionExists
<1>3. PICK grown : /\ Growth(nodes, MaxVisited, grown)
                  /\ Grounded(nodes, MaxVisited) = grown[MaxVisited]
  BY <1>1, GrowthGives
<1>4. RootIn(nodes, start) = searches[MaxVisited][{}][start]
  BY <1>2 DEF Resolution
<1>5. RootIn(nodes, start) # NoRoot =>
        start \in grown[MaxVisited] /\ IsRoot(nodes, RootIn(nodes, start))
  BY <1>2, <1>3, <1>4, SearchIsSound
<1>6. start \in grown[MaxVisited] => RootIn(nodes, start) # NoRoot
  BY <1>2, <1>3, <1>4, SearchIsComplete
<1> QED BY <1>3, <1>5, <1>6

-----------------------------------------------------------------------------
(* The rows lineage is read from.  A row names memories that came before   *)
(* it, and what the runtime derived names the turns that state it: both    *)
(* hold of the handle and of the store, and no mark changes them.          *)

Bears(row, space, id) == row.space = space /\ id \in {row.id, Relation(row.id)}

\* The first row that bears an id.
BornBy(rows, space, id, i) ==
    /\ i \in 1..Len(rows) /\ Bears(rows[i], space, id)
    /\ \A j \in 1..Len(rows) : Bears(rows[j], space, id) => i <= j

NodeOf(row, id) ==
    IF row.claim = Silent /\ id # row.id
    THEN [found |-> FALSE]
    ELSE [found |-> TRUE, id |-> id, gone |-> row.gone, root |-> row.root,
          type |-> IF id = row.id THEN row.type ELSE "derived_relation",
          parents |-> IF id = row.id THEN row.parents ELSE {row.id}]

LEMMA NodeReads ==
  ASSUME NEW rows, IsRows(rows), NEW space, NEW id
  PROVE  \/ /\ \A i \in 1..Len(rows) : ~Bears(rows[i], space, id)
            /\ NodeAt(rows, space, id) = [found |-> FALSE]
         \/ \E i : BornBy(rows, space, id, i) /\ NodeAt(rows, space, id) = NodeOf(rows[i], id)
<1> DEFINE found == {i \in 1..Len(rows) :
                       rows[i].space = space /\ id \in {rows[i].id, Relation(rows[i].id)}}
           first == IF found # {} THEN Min(found) ELSE 0
           row == rows[first]
<1>1. Len(rows) \in Nat
  BY RowsGive
<1>2. NodeAt(rows, space, id) =
        IF first = 0 \/ (row.claim = Silent /\ id # row.id) THEN [found |-> FALSE]
        ELSE [found |-> TRUE, id |-> id, gone |-> row.gone, root |-> row.root,
              type |-> IF id = row.id THEN row.type ELSE "derived_relation",
              parents |-> IF id = row.id THEN row.parents ELSE {row.id}]
  BY DEF NodeAt, SelectInSeq
<1>3. CASE found = {}
  <2>1. first = 0
    BY <1>3
  <2>2. NodeAt(rows, space, id) = [found |-> FALSE]
    BY <1>2, <2>1
  <2> QED BY <1>3, <2>2 DEF Bears
<1>4. CASE found # {}
  <2>1. found \in SUBSET Nat
    BY <1>1
  <2>2. Min(found) \in found /\ \A j \in found : Min(found) <= j
    <3> HIDE DEF found
    <3> QED BY <1>4, <2>1, MinExists
  <2>3. first = Min(found) /\ first \in 1..Len(rows) /\ first # 0
    BY <1>1, <1>4, <2>2
  <2>4. NodeAt(rows, space, id) = NodeOf(row, id)
    BY <1>2, <2>3 DEF NodeOf
  <2>5. BornBy(rows, space, id, first)
    BY <2>2, <2>3 DEF BornBy, Bears
  <2> HIDE DEF first
  <2> QED BY <2>4, <2>5
<1> QED BY <1>3, <1>4

\* Two turns of a namespace that state a claim, with their relations among parents.
TwiceStated(rows, space, claim, parents) ==
    \E a, b \in 1..Len(rows) :
      /\ rows[a].id # rows[b].id
      /\ \A s \in {a, b} :
           /\ rows[s].space = space /\ rows[s].claim = claim
           /\ rows[s].type \in Triggers /\ Relation(rows[s].id) \in parents

Derived(rows, row) ==
    /\ row.type = "derived_relation" /\ row.id = Semantic(row.claim, row.parents)
    /\ TwiceStated(rows, row.space, row.claim, row.parents)

Founded(rows, row) ==
    /\ row.space \in Spaces
    /\ row.parents \subseteq Ids(rows, row.space)
    /\ row.parents = {} => \E n \in Nat : row.root = Turn(n)
    /\ (\E n \in Nat : row.id = Turn(n)) \/ Derived(rows, row)

AllFounded(rows) == \A i \in 1..Len(rows) : Founded(rows, rows[i])

LEMMA IdsAreKnown ==
  ASSUME NEW rows, IsRows(rows)
  PROVE  /\ \A space : Ids(rows, space) \subseteq Known(rows)
         /\ \A i \in 1..Len(rows) :
              rows[i].id \in Known(rows) /\ rows[i].root \in Known(rows)
              /\ rows[i].id \in Ids(rows, rows[i].space)
BY RowsGive DEF Ids, Known

LEMMA RowsAreFollowed ==
  ASSUME NEW rows, IsRows(rows), AllFounded(rows), NEW space
  PROVE  Followed(Nodes(rows, space)) /\ DOMAIN Nodes(rows, space) = Known(rows)
<1> DEFINE nodes == Nodes(rows, space)
<1>1. DOMAIN nodes = Known(rows) /\ \A id \in Known(rows) : nodes[id] = NodeAt(rows, space, id)
  BY DEF Nodes
<1>2. ASSUME NEW id \in Known(rows), nodes[id].found
      PROVE  /\ nodes[id].parents \subseteq Known(rows) /\ nodes[id].root \in Known(rows)
             /\ nodes[id].type \in FactualRoots => \E n \in Nat : id = Turn(n)
  <2>1. PICK i : BornBy(rows, space, id, i) /\ nodes[id] = NodeOf(rows[i], id)
    BY <1>1, <1>2, NodeReads
  <2>2. i \in 1..Len(rows) /\ Founded(rows, rows[i])
    BY <2>1 DEF BornBy, AllFounded
  <2>3. nodes[id] = [found |-> TRUE, id |-> id, gone |-> rows[i].gone, root |-> rows[i].root,
                     type |-> IF id = rows[i].id THEN rows[i].type ELSE "derived_relation",
                     parents |-> IF id = rows[i].id THEN rows[i].parents ELSE {rows[i].id}]
    BY <1>2, <2>1 DEF NodeOf
  <2>4. nodes[id].root \in Known(rows) /\ rows[i].id \in Known(rows)
        /\ rows[i].parents \subseteq Known(rows)
    BY <2>2, <2>3, IdsAreKnown DEF Founded
  <2>5. CASE id = rows[i].id
    BY <2>2, <2>3, <2>4, <2>5 DEF Founded, Derived, FactualRoots
  <2>6. CASE id # rows[i].id
    BY <2>3, <2>4, <2>6 DEF FactualRoots
  <2> QED BY <2>5, <2>6
<1> HIDE DEF nodes
<1> SUFFICES Followed(nodes)
  BY <1>1 DEF nodes
<1> QED BY <1>1, <1>2 DEF Followed

LEMMA GroundedGives ==
  ASSUME IsRows(turns), AllFounded(turns)
  PROVE  LineageIsGrounded
<1> SUFFICES ASSUME NEW space \in Spaces, NEW id \in DOMAIN Nodes(turns, space)
             PROVE  LET nodes == Nodes(turns, space)
                        roots == Roots(turns, space)
                    IN  /\ roots[id] # NoRoot <=> id \in Grounded(nodes, MaxVisited)
                        /\ roots[id] # NoRoot => /\ nodes[roots[id]].type \in FactualRoots
                                                 /\ ~nodes[roots[id]].gone
  BY Zenon DEF LineageIsGrounded
<1>1. Roots(turns, space)[id] = RootIn(Nodes(turns, space), id)
  BY DEF Roots, RootsIn
<1>2. Followed(Nodes(turns, space))
  BY RowsAreFollowed
<1> QED BY <1>1, <1>2, SearchFindsLineage DEF IsRoot

\* What the roots of every namespace say of an id.
LEMMA StandsWhen ==
  ASSUME NEW rows, IsRows(rows), AllFounded(rows), NEW space \in Spaces, NEW id \in Known(rows)
  PROVE  AllRoots(rows)[space][id] # NoRoot <=> id \in Grounded(Nodes(rows, space), MaxVisited)
<1>1. Followed(Nodes(rows, space)) /\ id \in DOMAIN Nodes(rows, space)
  BY RowsAreFollowed
<1>2. AllRoots(rows)[space][id] = RootIn(Nodes(rows, space), id)
  BY <1>1 DEF AllRoots, Roots, RootsIn
<1> QED BY <1>1, <1>2, SearchFindsLineage

\* What an id that rests on a user's turn rests on, one step on.
LEMMA GroundedStep ==
  ASSUME NEW nodes, NEW id \in Grounded(nodes, MaxVisited)
  PROVE  \E below : /\ below \subseteq Grounded(nodes, MaxVisited)
                    /\ id \in Rests(nodes, below)
<1>1. MaxVisited \in Nat /\ MaxVisited \in 1..MaxVisited
  BY VisitedAssumption
<1>2. PICK grown : /\ Growth(nodes, MaxVisited, grown)
                  /\ Grounded(nodes, MaxVisited) = grown[MaxVisited]
  BY <1>1, GrowthGives
<1>3. grown[MaxVisited] = Rests(nodes, grown[MaxVisited - 1])
  BY <1>1, <1>2 DEF Growth
<1>4. grown[MaxVisited - 1] \subseteq grown[MaxVisited]
  BY <1>1, <1>2, GrowthRises
<1> QED BY <1>2, <1>3, <1>4

\* A derived row that stands: its parents stand, and so do the turns they are the
\* relations of.
LEMMA DerivedStands ==
  ASSUME NEW rows, IsRows(rows), AllFounded(rows), NEW i \in 1..Len(rows),
         Derived(rows, rows[i]),
         rows[i].id \in Grounded(Nodes(rows, rows[i].space), MaxVisited),
         NEW s \in 1..Len(rows), Relation(rows[s].id) \in rows[i].parents
  PROVE  rows[s].id \in Grounded(Nodes(rows, rows[i].space), MaxVisited)
<1> DEFINE space == rows[i].space
           nodes == Nodes(rows, space)
           stand == Grounded(nodes, MaxVisited)
<1>1. /\ DOMAIN nodes = Known(rows) /\ \A id \in Known(rows) : nodes[id] = NodeAt(rows, space, id)
      /\ \A k \in 1..Len(rows) : rows[k].id \in Known(rows)
      /\ \A k \in 1..Len(rows) : Relation(rows[k].id) \in Known(rows)
  BY RowsGive DEF Nodes, Known
<1>2. ASSUME NEW k \in 1..Len(rows)
      PROVE  rows[k].id[1] \in {"turn", "semantic"}
  BY IdsApart DEF AllFounded, Founded, Derived
<1>3. \A k, m \in 1..Len(rows) : rows[k].id # Relation(rows[m].id)
  BY <1>2, IdsApart
<1> HIDE DEF nodes, stand
<1>4. Relation(rows[s].id) \in stand
  <2>1. PICK below : below \subseteq stand /\ rows[i].id \in Rests(nodes, below)
    BY GroundedStep DEF nodes, stand
  <2>2. nodes[rows[i].id].found
    BY <2>1 DEF Rests
  <2>3. PICK f : BornBy(rows, space, rows[i].id, f) /\ nodes[rows[i].id] = NodeOf(rows[f], rows[i].id)
    BY <1>1, <2>2, NodeReads
  <2>4. f \in 1..Len(rows) /\ rows[f].id = rows[i].id
    BY <1>3, <2>3 DEF BornBy, Bears
  <2>5. rows[i].id[1] = "semantic"
    BY IdsApart DEF Derived
  <2>6. Derived(rows, rows[f])
    BY <2>4, <2>5, IdsApart DEF AllFounded, Founded
  <2>7. rows[f].parents = rows[i].parents
    <3>1. Semantic(rows[f].claim, rows[f].parents) = Semantic(rows[i].claim, rows[i].parents)
      BY <2>4, <2>6 DEF Derived
    <3> QED BY <3>1, IdsApart
  <2>8. nodes[rows[i].id].type = "derived_relation" /\ nodes[rows[i].id].parents = rows[i].parents
    BY <2>3, <2>4, <2>6, <2>7 DEF NodeOf, Derived
  <2>9. rows[i].parents \subseteq below
    BY <2>1, <2>8 DEF Rests, FactualRoots
  <2> QED BY <2>1, <2>9
<1>5. rows[s].id \in stand
  <2> DEFINE id == Relation(rows[s].id)
  <2>1. PICK below : below \subseteq stand /\ id \in Rests(nodes, below)
    BY <1>4, GroundedStep DEF nodes, stand
  <2>2. nodes[id].found
    BY <2>1 DEF Rests
  <2>3. PICK f : BornBy(rows, space, id, f) /\ nodes[id] = NodeOf(rows[f], id)
    BY <1>1, <2>2, NodeReads
  <2>4. f \in 1..Len(rows) /\ rows[f].id # id /\ id = Relation(rows[f].id)
    BY <1>3, <2>3 DEF BornBy, Bears
  <2>5. rows[f].id = rows[s].id
    BY <2>4, IdsApart
  <2>6. nodes[id].type = "derived_relation" /\ nodes[id].parents = {rows[s].id}
    BY <2>2, <2>3, <2>4, <2>5 DEF NodeOf
  <2>7. rows[s].id \in below
    BY <2>1, <2>6 DEF Rests, FactualRoots
  <2> QED BY <2>1, <2>7
<1> QED BY <1>5 DEF stand, nodes

LEMMA DerivationsGive ==
  ASSUME IsRows(turns), AllFounded(turns)
  PROVE  DerivationsGrounded
<1> SUFFICES ASSUME NEW i \in DOMAIN turns, turns[i].id[1] = "semantic",
                    Stands(turns, AllRoots(turns), i)
             PROVE  \E a, b \in DOMAIN turns :
                      /\ turns[a].id # turns[b].id
                      /\ \A s \in {a, b} : /\ turns[s].space = turns[i].space
                                           /\ turns[s].claim = turns[i].claim
                                           /\ turns[s].type # "assistant_generated"
                                           /\ Stands(turns, AllRoots(turns), s)
  BY DEF DerivationsGrounded
<1>1. DOMAIN turns = 1..Len(turns) /\ \A k \in 1..Len(turns) : turns[k].id \in Known(turns)
  BY RowsGive, IdsAreKnown
<1>2. Derived(turns, turns[i])
  BY <1>1, IdsApart DEF AllFounded, Founded
<1>3. PICK a, b \in 1..Len(turns) :
        /\ turns[a].id # turns[b].id
        /\ \A s \in {a, b} :
             /\ turns[s].space = turns[i].space /\ turns[s].claim = turns[i].claim
             /\ turns[s].type \in Triggers /\ Relation(turns[s].id) \in turns[i].parents
  BY <1>2 DEF Derived, TwiceStated
<1>4. \A k \in 1..Len(turns) :
        Stands(turns, AllRoots(turns), k) <=>
          turns[k].id \in Grounded(Nodes(turns, turns[k].space), MaxVisited)
  BY <1>1, StandsWhen DEF Stands, AllFounded, Founded
<1>5. turns[i].id \in Grounded(Nodes(turns, turns[i].space), MaxVisited)
  BY <1>1, <1>4
<1>6. \A s \in {a, b} : Stands(turns, AllRoots(turns), s)
  BY <1>1, <1>2, <1>3, <1>4, <1>5, DerivedStands
<1> QED BY <1>1, <1>3, <1>6 DEF Triggers

-----------------------------------------------------------------------------
(* What the operations store is founded.                                   *)

SameRow(row, other) ==
    /\ other.id = row.id /\ other.space = row.space /\ other.type = row.type
    /\ other.root = row.root /\ other.parents = row.parents /\ other.claim = row.claim
    /\ other.sure = row.sure

LongerBy(rows, more, row) ==
    /\ IsRows(more) /\ Len(more) = Len(rows) + 1 /\ more[Len(rows) + 1] = row
    /\ \A i \in 1..Len(rows) : SameRow(rows[i], more[i])

LEMMA LongerKeeps ==
  ASSUME NEW rows, IsRows(rows), NEW more, NEW row, LongerBy(rows, more, row)
  PROVE  /\ \A space : Ids(rows, space) \subseteq Ids(more, space)
         /\ \A space, claim, parents :
              TwiceStated(rows, space, claim, parents) => TwiceStated(more, space, claim, parents)
<1>1. /\ Len(rows) \in Nat /\ DOMAIN rows = 1..Len(rows)
      /\ DOMAIN more = 1..Len(more) /\ 1..Len(rows) \subseteq 1..Len(more)
      /\ \A i \in 1..Len(rows) : SameRow(rows[i], more[i])
  BY RowsGive DEF LongerBy
<1>2. \A space : Ids(rows, space) \subseteq Ids(more, space)
  BY <1>1 DEF Ids, SameRow
<1>3. ASSUME NEW space, NEW claim, NEW parents, TwiceStated(rows, space, claim, parents)
      PROVE  TwiceStated(more, space, claim, parents)
  <2>1. PICK a, b \in 1..Len(rows) :
          /\ rows[a].id # rows[b].id
          /\ \A s \in {a, b} :
               /\ rows[s].space = space /\ rows[s].claim = claim
               /\ rows[s].type \in Triggers /\ Relation(rows[s].id) \in parents
    BY <1>3 DEF TwiceStated
  <2>2. a \in 1..Len(more) /\ b \in 1..Len(more)
        /\ SameRow(rows[a], more[a]) /\ SameRow(rows[b], more[b])
    BY <1>1
  <2>3. /\ more[a].id # more[b].id
        /\ \A s \in {a, b} :
             /\ more[s].space = space /\ more[s].claim = claim
             /\ more[s].type \in Triggers /\ Relation(more[s].id) \in parents
    BY <2>1, <2>2 DEF SameRow
  <2> QED BY <2>2, <2>3 DEF TwiceStated
<1> QED BY <1>2, <1>3

LEMMA FoundedExtends ==
  ASSUME NEW rows, IsRows(rows), AllFounded(rows), NEW more, NEW row,
         LongerBy(rows, more, row), Founded(rows, row)
  PROVE  AllFounded(more)
<1>1. Len(rows) \in Nat
  BY RowsGive
<1>2. \A r, q : Founded(rows, r) /\ SameRow(r, q) => Founded(more, q)
  <2> SUFFICES ASSUME NEW r, NEW q, Founded(rows, r), SameRow(r, q) PROVE Founded(more, q)
    OBVIOUS
  <2>1. q.space \in Spaces /\ q.parents \subseteq Ids(more, q.space)
        /\ (q.parents = {} => \E n \in Nat : q.root = Turn(n))
    BY LongerKeeps DEF Founded, SameRow
  <2>2. Derived(rows, r) => Derived(more, q)
    BY LongerKeeps DEF Derived, SameRow
  <2>3. (\E n \in Nat : q.id = Turn(n)) \/ Derived(more, q)
    BY <2>2 DEF Founded, SameRow
  <2> QED BY <2>1, <2>3 DEF Founded
<1>3. ASSUME NEW i \in 1..Len(more) PROVE Founded(more, more[i])
  <2>1. CASE i \in 1..Len(rows)
    BY <1>2, <2>1 DEF AllFounded, LongerBy
  <2>2. CASE i \notin 1..Len(rows)
    <3>1. more[i] = row
      BY <1>1, <2>2 DEF LongerBy
    <3> QED BY <1>2, <3>1 DEF SameRow
  <2> QED BY <2>1, <2>2
<1> QED BY <1>3 DEF AllFounded

LEMMA MarkedSame ==
  ASSUME NEW r, IsRow(r), NEW x
  PROVE  SameRow(r, [r EXCEPT !.gone = x])
<1>1. [r EXCEPT !.gone = x] =
        [id |-> r.id, space |-> r.space, type |-> r.type, root |-> r.root,
         parents |-> r.parents, claim |-> r.claim, sure |-> r.sure, gone |-> x]
  BY DEF IsRow
<1> QED BY <1>1 DEF SameRow

LEMMA StoreExtends ==
  ASSUME MemoryInv, request # Down, NEW row, IsRow(row), NEW next \in Nat, NEW slots,
         NEW outcome, Store(row, next, slots, outcome)
  PROVE  /\ IF outcome = "durable" THEN LongerBy(turns, turns', row) ELSE turns' = turns
         /\ IF outcome = "refused" THEN stored' = stored
            ELSE erased.turns = 0 => LongerBy(turns, stored'.turns, row)
<1>1. Len(turns) \in Nat /\ IsRows(turns) /\ \A i \in 1..Len(turns) : IsRow(turns[i])
  BY RowsGive DEF MemoryInv, MemoryTyped
<1>2. IF outcome = "durable" THEN LongerBy(turns, turns', row) ELSE turns' = turns
  <2>1. CASE outcome = "durable"
    <3>1. turns' = Append(Marked(turns, slots), row)
      BY <2>1 DEF Store
    <3>2. /\ IsRows(Marked(turns, slots)) /\ Len(Marked(turns, slots)) = Len(turns)
          /\ \A i \in 1..Len(turns) :
               Marked(turns, slots)[i]
                 = IF i \in slots THEN [turns[i] EXCEPT !.gone = TRUE] ELSE turns[i]
      BY <1>1, MarkedRows
    <3>3. \A i \in 1..Len(turns) : SameRow(turns[i], Marked(turns, slots)[i])
      <4> SUFFICES ASSUME NEW i \in 1..Len(turns)
                   PROVE  SameRow(turns[i], Marked(turns, slots)[i])
        OBVIOUS
      <4>1. SameRow(turns[i], [turns[i] EXCEPT !.gone = TRUE])
        BY <1>1, MarkedSame
      <4>2. SameRow(turns[i], turns[i])
        BY DEF SameRow
      <4> QED BY <3>2, <4>1, <4>2, Zenon
    <3>4. PICK marked : marked = Marked(turns, slots)
      OBVIOUS
    <3>5. /\ IsRows(Append(marked, row)) /\ Len(Append(marked, row)) = Len(marked) + 1
          /\ \A i \in 1..Len(marked) : Append(marked, row)[i] = marked[i]
          /\ Append(marked, row)[Len(marked) + 1] = row
      BY <3>2, <3>4, AppendRows
    <3> QED BY <2>1, <3>1, <3>2, <3>3, <3>4, <3>5 DEF LongerBy
  <2>2. CASE outcome # "durable"
    BY <2>2 DEF Store
  <2> QED BY <2>1, <2>2
<1>3. IF outcome = "refused" THEN stored' = stored
      ELSE erased.turns = 0 => LongerBy(turns, stored'.turns, row)
  <2>1. CASE outcome = "refused"
    BY <2>1 DEF Store
  <2>2. ASSUME outcome # "refused", erased.turns = 0 PROVE LongerBy(turns, stored'.turns, row)
    <3>0. \A i \in 1..Len(turns) : /\ i \in DOMAIN stored.turns
                                  /\ StoredAs(turns[i], stored.turns[i])
                                  /\ IsRow(stored.turns[i])
      BY <1>1, <2>2, DiskGives DEF MemoryInv, MemoryTyped, HandleStored
    <3>1. PICK n, new : n = Len(turns) /\ new = Batch(stored, n + 1, row, next, slots)
      OBVIOUS
    <3>2. stored' = new
      BY <2>2, <3>1 DEF Store
    <3>3. /\ new = [turns |-> new.turns, episodes |-> stored.episodes, counter |-> next]
          /\ OnDisk(new.turns, 0) /\ DOMAIN new.turns = 1..n + 1
          /\ \A i \in 1..n : new.turns[i] =
               IF i \in slots THEN [stored.turns[i] EXCEPT !.gone = TRUE] ELSE stored.turns[i]
          /\ new.turns[n + 1] = row
      BY <2>2, <3>1, BatchRows
    <3>4. ASSUME NEW i \in 1..Len(turns) PROVE SameRow(turns[i], new.turns[i])
      <4>1. PICK x : stored.turns[i] = [turns[i] EXCEPT !.gone = x]
        BY <3>0 DEF StoredAs
      <4>2. SameRow(turns[i], stored.turns[i])
        <5>1. SameRow(turns[i], [turns[i] EXCEPT !.gone = x])
          BY <1>1, MarkedSame
        <5> QED BY <4>1, <5>1
      <4>3. SameRow(stored.turns[i], [stored.turns[i] EXCEPT !.gone = TRUE])
        BY <3>0, MarkedSame
      <4>4. SameRow(turns[i], [stored.turns[i] EXCEPT !.gone = TRUE])
        BY <4>2, <4>3 DEF SameRow
      <4> QED BY <3>1, <3>3, <4>2, <4>4, Zenon
    <3>5. IsRows(new.turns) /\ Len(new.turns) = n + 1
      <4>1. IsRows(new.turns) /\ DOMAIN new.turns = 1..n + 1
        BY <3>3, DiskIsRows
      <4>2. DOMAIN new.turns = 1..Len(new.turns) /\ Len(new.turns) \in Nat
        BY <4>1, RowsGive
      <4> QED BY <1>1, <3>1, <4>1, <4>2
    <3> QED BY <3>1, <3>2, <3>3, <3>4, <3>5 DEF LongerBy
  <2> QED BY <2>1, <2>2
<1> QED BY <1>2, <1>3

\* What a candidate asks the runtime to learn.
Derivable(rows, next) ==
    /\ next.space \in Spaces /\ next.parents \subseteq Ids(rows, next.space)
    /\ next.id = Semantic(next.claim, next.parents)
    /\ TwiceStated(rows, next.space, next.claim, next.parents)

LEMMA TwoElements ==
  ASSUME NEW S, Cardinality(S) >= 2
  PROVE  \E a, b \in S : a # b
<1> SUFFICES ASSUME \A a, b \in S : a = b PROVE FALSE
  OBVIOUS
<1>1. CASE S = {}
  BY <1>1, FS_EmptySet
<1>2. CASE S # {}
  <2>1. PICK a \in S : S = {a}
    BY <1>2
  <2>2. Cardinality({a}) = 1
    BY FS_Singleton
  <2> QED BY <2>1, <2>2
<1> QED BY <1>1, <1>2

\* A relation has a root only if its turn states a claim.
LEMMA RelationFound ==
  ASSUME NEW rows, IsRows(rows), AllFounded(rows), NEW space \in Spaces, NEW i \in 1..Len(rows),
         rows[i].space = space, AllRoots(rows)[space][Relation(rows[i].id)] # NoRoot
  PROVE  Relation(rows[i].id) \in Ids(rows, space)
<1> DEFINE nodes == Nodes(rows, space)
           id == Relation(rows[i].id)
<1>1. /\ DOMAIN nodes = Known(rows) /\ \A x \in Known(rows) : nodes[x] = NodeAt(rows, space, x)
      /\ \A k \in 1..Len(rows) : Relation(rows[k].id) \in Known(rows)
      /\ DOMAIN rows = 1..Len(rows)
  BY RowsGive DEF Nodes, Known
<1>2. \A k \in 1..Len(rows) : rows[k].id[1] \in {"turn", "semantic"}
  BY IdsApart DEF AllFounded, Founded, Derived
<1>3. \A k, m \in 1..Len(rows) : rows[k].id # Relation(rows[m].id)
  BY <1>2, IdsApart
<1> HIDE DEF nodes
<1>4. id \in Grounded(nodes, MaxVisited)
  BY <1>1, StandsWhen DEF nodes
<1>5. nodes[id].found
  BY <1>4, GroundedStep DEF Rests
<1>6. PICK f : BornBy(rows, space, id, f) /\ nodes[id] = NodeOf(rows[f], id)
  BY <1>1, <1>5, NodeReads
<1>7. f \in 1..Len(rows) /\ rows[f].space = space /\ rows[f].id # id /\ id = Relation(rows[f].id)
  BY <1>3, <1>6 DEF BornBy, Bears
<1>8. rows[f].claim # Silent
  BY <1>5, <1>6, <1>7 DEF NodeOf
<1> QED BY <1>1, <1>7, <1>8 DEF Ids

LEMMA CandidatesDerivable ==
  ASSUME NEW rows, IsRows(rows), AllFounded(rows), NEW next \in Candidates(rows)
  PROVE  Derivable(rows, next)
<1> DEFINE roots == AllRoots(rows)
<1>1. PICK i \in Due(rows, roots) : next = RequestFor(rows, roots, i)
  BY DEF Candidates, Requests
<1>2. i \in Claimed(rows, roots)
  BY <1>1 DEF Due, Considered
<1>3. i \in DOMAIN rows /\ Cardinality(SupportsOf(rows, roots, i)) >= 2
  BY <1>2 DEF Claimed, Evidence
<1> DEFINE space == rows[i].space
           claim == rows[i].claim
           supports == Supports(rows, roots, space, claim)
           parents == {Relation(rows[j].id) : j \in supports}
<1>4. /\ DOMAIN rows = 1..Len(rows) /\ Len(rows) \in Nat
      /\ next.space = space /\ next.claim = claim /\ next.parents = parents
      /\ next.id = Semantic(claim, parents)
      /\ Cardinality(supports) >= 2
  BY <1>1, <1>3, RowsGive DEF RequestFor, SupportsOf
<1>0. space \in Spaces
  BY <1>3, <1>4 DEF AllFounded, Founded
<1> HIDE DEF roots, space, claim
<1>5. /\ \A k \in supports :
           /\ k \in 1..Len(rows) /\ rows[k].space = space /\ rows[k].claim = claim
           /\ rows[k].type \in Triggers /\ roots[space][Relation(rows[k].id)] # NoRoot
      /\ \A k, j \in supports :
           j < k => roots[space][Relation(rows[j].id)] # roots[space][Relation(rows[k].id)]
  BY <1>4 DEF Supports, Valid, Evidence
<1>6. PICK a, b \in supports : a # b
  BY <1>4, TwoElements
<1>7. rows[a].id # rows[b].id
  <2>1. a < b \/ b < a
    BY <1>4, <1>5, <1>6
  <2>2. roots[space][Relation(rows[a].id)] # roots[space][Relation(rows[b].id)]
    BY <1>5, <2>1
  <2> QED BY <2>2
<1> HIDE DEF supports
<1>8. TwiceStated(rows, space, claim, parents)
  <2>1. \A s \in {a, b} : /\ rows[s].space = space /\ rows[s].claim = claim
                          /\ rows[s].type \in Triggers /\ Relation(rows[s].id) \in parents
    BY <1>5
  <2>2. a \in 1..Len(rows) /\ b \in 1..Len(rows)
    BY <1>5
  <2> QED BY <1>7, <2>1, <2>2 DEF TwiceStated
<1>9. parents \subseteq Ids(rows, space)
  BY <1>0, <1>5, RelationFound DEF roots
<1> QED BY <1>0, <1>4, <1>8, <1>9 DEF Derivable

-----------------------------------------------------------------------------
(* The invariant of lineage: rows and candidates are founded.              *)

FoundedInv ==
    /\ MemoryInv /\ AllFounded(turns) /\ (erased.turns = 0 => AllFounded(stored.turns))
    /\ \A next \in queue : Derivable(turns, next)
    /\ request.state # "busy" => queue = {}

LEMMA LearnFounded ==
  ASSUME FoundedInv, NEW space \in Spaces, NEW type, NEW claim, NEW parents, NEW corrects,
         NEW n \in Nat, NEW sure, NEW outcome \in Outcomes,
         Learn(space, type, claim, sure, parents, corrects, Turn(n), outcome)
  PROVE  FoundedInv'
<1> DEFINE above == parents \cup corrects
           id == Turn(counter + 1)
           slots == {SlotOf(turns, space, c) : c \in corrects}
           row(root) == [id |-> id, space |-> space, type |-> type, root |-> root,
                         parents |-> above, claim |-> claim, sure |-> sure, gone |-> FALSE]
<1>0. MemoryInv'
  BY LearnKeeps DEF FoundedInv
<1>1. PICK root \in UltimateSources(space, type, id, above, Turn(n)) :
        /\ Store(row(root), counter + 1, slots, outcome)
        /\ IF outcome = "durable"
           THEN /\ request' = [state |-> "busy", slot |-> Len(turns'), corrects |-> slots,
                               kept |-> TRUE]
                /\ queue' = IF type \in Triggers /\ claim # Silent THEN Candidates(turns') ELSE {}
           ELSE UNCHANGED <<request, queue>>
  BY DEF Learn
<1>2. request = Idle /\ above \subseteq Ids(turns, space) /\ erased' = erased
  BY DEF Learn
<1>3. request # Down /\ request.state # "busy" /\ queue = {}
  BY <1>2 DEF Idle, Down, FoundedInv
<1>4. IsRow(row(root)) /\ counter + 1 \in Nat
  BY DEF IsRow, FoundedInv, MemoryInv, MemoryTyped
<1>5. above = {} => root = Turn(n)
  BY <1>1 DEF UltimateSources
<1>6. Founded(turns, row(root))
  BY <1>2, <1>4, <1>5 DEF Founded
<1> HIDE DEF row, slots
<1>7. /\ IF outcome = "durable" THEN LongerBy(turns, turns', row(root)) ELSE turns' = turns
      /\ IF outcome = "refused" THEN stored' = stored
         ELSE erased.turns = 0 => LongerBy(turns, stored'.turns, row(root))
  BY <1>1, <1>3, <1>4, StoreExtends DEF FoundedInv
<1>8. IsRows(turns) /\ AllFounded(turns) /\ (erased.turns = 0 => AllFounded(stored.turns))
  BY DEF FoundedInv, MemoryInv, MemoryTyped
<1>9. \A more : LongerBy(turns, more, row(root)) => AllFounded(more) /\ IsRows(more)
  BY <1>6, <1>8, FoundedExtends DEF LongerBy
<1>10. AllFounded(turns') /\ (erased'.turns = 0 => AllFounded(stored'.turns))
  BY <1>2, <1>7, <1>8, <1>9
<1>11. \A next \in queue' : Derivable(turns', next)
  <2>1. CASE outcome = "durable"
    BY <1>1, <1>7, <1>9, <2>1, CandidatesDerivable
  <2>2. CASE outcome # "durable"
    BY <1>1, <1>3, <2>2
  <2> QED BY <2>1, <2>2
<1>12. request'.state # "busy" => queue' = {}
  BY <1>1, <1>3
<1> QED BY <1>0, <1>10, <1>11, <1>12 DEF FoundedInv

LEMMA DeriveFounded ==
  ASSUME FoundedInv, NEW outcome \in Outcomes, DeriveNext(outcome)
  PROVE  FoundedInv'
<1> DEFINE row(next, root) ==
             [id |-> next.id, space |-> next.space, type |-> "derived_relation", root |-> root,
              parents |-> next.parents, claim |-> next.claim, sure |-> TRUE, gone |-> FALSE]
<1>0. MemoryInv'
  BY DeriveKeeps DEF FoundedInv
<1>1. PICK next \in queue :
        /\ \E root : Store(row(next, root), counter, {}, outcome)
        /\ queue' = queue \ {next}
  BY DEF DeriveNext
<1>2. PICK root : Store(row(next, root), counter, {}, outcome)
  BY <1>1
<1>3. request.state = "busy" /\ request # Down /\ request'.state = "busy" /\ erased' = erased
  BY DEF DeriveNext, Down
<1>4. IsRow(row(next, root)) /\ counter \in Nat
  BY DEF IsRow, FoundedInv, MemoryInv, MemoryTyped
<1>5. Founded(turns, row(next, root))
  <2>1. Derivable(turns, next)
    BY DEF FoundedInv
  <2>2. Derived(turns, row(next, root))
    BY <2>1 DEF Derivable, Derived
  <2>3. next.parents # {}
    BY <2>1 DEF Derivable, TwiceStated
  <2> QED BY <2>1, <2>2, <2>3 DEF Founded, Derivable
<1> HIDE DEF row
<1>6. /\ IF outcome = "durable" THEN LongerBy(turns, turns', row(next, root)) ELSE turns' = turns
      /\ IF outcome = "refused" THEN stored' = stored
         ELSE erased.turns = 0 => LongerBy(turns, stored'.turns, row(next, root))
  BY <1>2, <1>3, <1>4, StoreExtends DEF FoundedInv
<1>7. IsRows(turns) /\ AllFounded(turns) /\ (erased.turns = 0 => AllFounded(stored.turns))
  BY DEF FoundedInv, MemoryInv, MemoryTyped
<1>8. AllFounded(turns') /\ (erased'.turns = 0 => AllFounded(stored'.turns))
  BY <1>3, <1>5, <1>6, <1>7, FoundedExtends
<1>9. ASSUME NEW other \in queue' PROVE Derivable(turns', other)
  <2>1. Derivable(turns, other)
    BY <1>1 DEF FoundedInv
  <2>2. CASE outcome = "durable"
    <3>1. LongerBy(turns, turns', row(next, root))
      BY <1>6, <2>2
    <3>2. /\ Ids(turns, other.space) \subseteq Ids(turns', other.space)
          /\ TwiceStated(turns', other.space, other.claim, other.parents)
      BY <1>7, <2>1, <3>1, LongerKeeps DEF Derivable
    <3> QED BY <2>1, <3>2 DEF Derivable
  <2>3. CASE outcome # "durable"
    BY <1>6, <2>1, <2>3
  <2> QED BY <2>2, <2>3
<1> QED BY <1>0, <1>3, <1>8, <1>9 DEF FoundedInv

\* What opens was never erased or holds no turn.
LEMMA OpenedWhole ==
  ASSUME MemoryInv, Open
  PROVE  erased.turns = 0 \/ DOMAIN stored.turns = {}
<1>1. \A i \in DOMAIN stored.turns : 1..i \subseteq DOMAIN stored.turns
  BY DEF Open, Opens
<1>2. PICK S : StoredIn(stored.turns, erased.turns, S)
  BY DEF MemoryInv, MemoryTyped, OnDisk
<1>3. erased.turns \in Nat
  BY DEF MemoryInv, MemoryTyped
<1> QED BY <1>1, <1>2, <1>3, OpensWhole

LEMMA NoneFounded == AllFounded(<<>>)
BY DEF AllFounded

LEMMA InitFounded == MobileInit => FoundedInv
BY InitMemory, NoneFounded DEF MobileInit, Nothing, FoundedInv

LEMMA FoundedIsInductive == FoundedInv /\ [MobileNext]_mobileVars => FoundedInv'
<1> SUFFICES ASSUME FoundedInv, [MobileNext]_mobileVars PROVE FoundedInv'
  OBVIOUS
<1>0. MemoryInv'
  BY MemoryInvIsInductive DEF FoundedInv
<1>1. ASSUME NEW outcome \in Outcomes, NEW space \in Spaces, NEW claim, NEW type, NEW sure,
             LearnStatement(space, type, claim, sure, outcome)
      PROVE  FoundedInv'
  <2>1. counter + 1 \in Nat
    BY DEF FoundedInv, MemoryInv, MemoryTyped
  <2> QED BY <1>1, <2>1, LearnFounded DEF LearnStatement
<1>2. ASSUME NEW outcome \in Outcomes, NEW space \in Spaces, NEW claim, NEW corrects, NEW sure,
             LearnCorrection(space, claim, sure, corrects, outcome)
      PROVE  FoundedInv'
  <2>1. counter + 1 \in Nat
    BY DEF FoundedInv, MemoryInv, MemoryTyped
  <2> QED BY <1>2, <2>1, LearnFounded DEF LearnCorrection
<1>3. ASSUME NEW outcome \in Outcomes, NEW space \in Spaces, NEW claim, NEW type,
             NEW sure, NEW parents, NEW n \in Nat,
             LearnEcho(space, type, claim, sure, parents, Turn(n), outcome)
      PROVE  FoundedInv'
  BY <1>3, LearnFounded DEF LearnEcho
<1>4. ASSUME NEW outcome \in Outcomes, DeriveNext(outcome) PROVE FoundedInv'
  BY <1>4, DeriveFounded
<1>5. ASSUME NEW outcome \in Outcomes, StoreEpisode(outcome) PROVE FoundedInv'
  <2>1. turns' = turns /\ queue' = queue /\ request' = request /\ erased' = erased
    BY <1>5 DEF StoreEpisode
  <2>2. stored'.turns = stored.turns
    <3>1. stored = [turns |-> stored.turns, episodes |-> stored.episodes,
                    counter |-> stored.counter]
      BY DEF FoundedInv, MemoryInv, MemoryTyped
    <3>2. \/ stored' = stored
          \/ \E e : stored' = [stored EXCEPT !.episodes = e, !.counter = counter + 1]
      BY <1>5 DEF StoreEpisode
    <3> QED BY <3>1, <3>2
  <2> QED BY <1>0, <2>1, <2>2 DEF FoundedInv
<1>6. CASE Answer
  BY <1>0, <1>6 DEF Answer, FoundedInv
<1>7. CASE Kill
  BY <1>0, <1>7, NoneFounded DEF Kill, FoundedInv
<1>8. CASE Open
  <2>1. /\ request.state # "busy" /\ queue' = {} /\ turns' = stored.turns /\ stored' = stored
        /\ request'.state # "busy"
    BY <1>8 DEF Open, Down, Idle, FoundedInv
  <2>2. erased.turns = 0 \/ DOMAIN stored.turns = {}
    BY <1>8, OpenedWhole DEF FoundedInv
  <2>3. AllFounded(stored.turns)
    <3>1. IsRows(stored.turns)
      BY <1>0, <2>1 DEF MemoryInv, MemoryTyped
    <3>2. DOMAIN stored.turns = 1..Len(stored.turns)
      BY <3>1, RowsGive
    <3> QED BY <2>2, <3>2 DEF FoundedInv, AllFounded
  <2> QED BY <1>0, <2>1, <2>3 DEF FoundedInv
<1>9. ASSUME NEW outcome, Format(outcome) PROVE FoundedInv'
  <2>1. /\ queue = {} /\ queue' = {} /\ (turns' = turns \/ turns' = <<>>)
        /\ (outcome = "refused" /\ stored' = stored /\ erased' = erased) \/ stored'.turns = <<>>
    BY <1>9 DEF Format, Idle, FoundedInv, Nothing
  <2> QED BY <1>0, <2>1, NoneFounded DEF FoundedInv
<1>10. CASE UNCHANGED mobileVars
  BY <1>0, <1>10 DEF mobileVars, FoundedInv
<1>11. \A outcome, space, claim, sure, type :
         (\E origin \in {Turn(n) : n \in 1..MaxTurns} :
            LearnEcho(space, type, claim, sure, {}, origin, outcome)) =>
         \E n \in Nat : LearnEcho(space, type, claim, sure, {}, Turn(n), outcome)
  OBVIOUS
<1>12. counter + 1 \in Nat
  BY DEF FoundedInv, MemoryInv, MemoryTyped
<1>13. CASE FormatStep
  BY <1>9, <1>13 DEF FormatStep
<1>14. CASE MobileStep(Values \cup {Silent}, BOOLEAN, Outcomes)
  <2>1. ASSUME NEW outcome \in Outcomes, NEW space \in Spaces, NEW claim, NEW sure,
               \/ \E type \in UserTypes : LearnStatement(space, type, claim, sure, outcome)
               \/ \E corrects : LearnCorrection(space, claim, sure, corrects, outcome)
        PROVE  FoundedInv'
    BY <1>1, <1>2, <2>1
  <2>2. ASSUME NEW outcome \in Outcomes, NEW space \in Spaces, NEW claim, NEW sure, NEW type,
               \/ \E parents : LearnEcho(space, type, claim, sure, parents, Turn(counter + 1), outcome)
               \/ \E origin \in {Turn(n) : n \in 1..MaxTurns} :
                    LearnEcho(space, type, claim, sure, {}, origin, outcome)
        PROVE  FoundedInv'
    BY <1>3, <1>11, <1>12, <2>2
  <2> QED BY <1>4, <1>5, <1>6, <1>7, <1>8, <1>14, <2>1, <2>2 DEF MobileStep
<1> QED BY <1>10, <1>13, <1>14 DEF MobileNext

\* Whatever is told, echoed and corrected, whatever lineage a client names, and
\* whatever writes fail: an id of the native memory has a root exactly when it rests on
\* a user's turn within the limit of the search, the root is such a turn, still
\* standing, and a derived relation stands only while two turns that state it
\* stand (memoria_lineage_resolve, maybe_auto_semantic_consolidate).
THEOREM LineageAlwaysHolds == MobileSpec => []LineageHolds
<1>1. MobileSpec => []FoundedInv
  BY InitFounded, FoundedIsInductive, PTL DEF MobileSpec
<1>2. FoundedInv => LineageHolds
  BY GroundedGives, DerivationsGive DEF FoundedInv, MemoryInv, MemoryTyped, LineageHolds
<1> QED BY <1>1, <1>2, PTL

-----------------------------------------------------------------------------
(* What is derived, and when.  A derived row changes no lineage that was   *)
(* there before: what a namespace can reach names no derived id it has not *)
(* met.                                                                    *)

\* Two graphs that agree on ids that lead nowhere else.
Agree(m, n, D) ==
    /\ D \subseteq DOMAIN m /\ D \subseteq DOMAIN n
    /\ \A id \in D :
         /\ n[id] = m[id]
         /\ m[id].found => /\ m[id].parents \subseteq D
                           /\ m[id].parents = {} => m[id].root \in D

LEMMA SameSearch ==
  ASSUME NEW m, NEW n, Followed(m), Followed(n), NEW D, Agree(m, n, D)
  PROVE  \A start \in D : RootIn(n, start) = RootIn(m, start)
<1>1. MaxVisited \in Nat /\ MaxVisited \in 0..MaxVisited
  BY VisitedAssumption
<1>2. PICK f : Resolution(m, f)
  BY ResolutionExists
<1>3. PICK g : Resolution(n, g)
  BY ResolutionExists
<1> DEFINE P == {left \in 0..MaxVisited :
                   \A path \in SUBSET D, id \in D : g[left][path][id] = f[left][path][id]}
<1>4. 0 \in P
  <2>1. \A path \in SUBSET D, id \in D : path \in SUBSET DOMAIN m /\ path \in SUBSET DOMAIN n
                                         /\ id \in DOMAIN m /\ id \in DOMAIN n
    BY DEF Agree
  <2>2. f[0] = NoSearch(m) /\ g[0] = NoSearch(n)
    BY <1>2, <1>3 DEF Resolution
  <2>3. \A path \in SUBSET D, id \in D :
          NoSearch(m)[path][id] = NoRoot /\ NoSearch(n)[path][id] = NoRoot
    BY <2>1 DEF NoSearch
  <2> QED BY <1>1, <2>2, <2>3
<1>5. ASSUME NEW k \in 0..MaxVisited, k < MaxVisited, k \in P PROVE k + 1 \in P
  <2>1. k + 1 \in 1..MaxVisited /\ (k + 1) - 1 = k /\ k + 1 \in 0..MaxVisited
    BY <1>1, <1>5
  <2>2. SUFFICES ASSUME NEW path \in SUBSET D, NEW id \in D
                 PROVE  g[k + 1][path][id] = f[k + 1][path][id]
    BY <2>1
  <2>3. f[k + 1] = Onward(m, f[k]) /\ g[k + 1] = Onward(n, g[k])
    BY <1>2, <1>3, <2>1 DEF Resolution
  <2> DEFINE past == f[k][path \cup {id}]
             beyond == g[k][path \cup {id}]
  <2>4. /\ path \in SUBSET DOMAIN m /\ path \in SUBSET DOMAIN n
        /\ id \in DOMAIN m /\ id \in DOMAIN n
    BY DEF Agree
  <2>5. /\ f[k + 1][path][id] = IF id \in path THEN NoRoot ELSE Rooted(m, past, id)
        /\ g[k + 1][path][id] = IF id \in path THEN NoRoot ELSE Rooted(n, beyond, id)
    BY <2>3, <2>4 DEF Onward
  <2>6. \A p \in D : beyond[p] = past[p]
    BY <1>5
  <2>7. Rooted(n, beyond, id) = Rooted(m, past, id)
    <3> HIDE DEF past, beyond
    <3>1. n[id] = m[id]
      BY DEF Agree
    <3>2. CASE ~m[id].found
      BY <3>1, <3>2 DEF Rooted
    <3>3. CASE m[id].found
      <4>1. {beyond[p] : p \in n[id].parents} = {past[p] : p \in m[id].parents}
        BY <2>6, <3>1, <3>3 DEF Agree
      <4>2. m[id].parents = {} => beyond[n[id].root] = past[m[id].root]
        BY <2>6, <3>1, <3>3 DEF Agree
      <4> QED BY <3>1, <4>1, <4>2 DEF Rooted
    <3> QED BY <3>2, <3>3
  <2> QED BY <2>5, <2>7
<1> HIDE DEF P
<1>6. 0..MaxVisited \subseteq P
  BY <1>1, <1>4, <1>5, Upwards
<1>7. ASSUME NEW start \in D PROVE RootIn(n, start) = RootIn(m, start)
  <2>1. g[MaxVisited][{}][start] = f[MaxVisited][{}][start]
    BY <1>1, <1>6 DEF P
  <2> QED BY <1>2, <1>3, <2>1 DEF Resolution, Agree
<1> QED BY <1>7

LEMMA SameGrowth ==
  ASSUME NEW m, NEW n, NEW D, Agree(m, n, D), NEW depth \in Nat
  PROVE  \A id \in D : id \in Grounded(n, depth) <=> id \in Grounded(m, depth)
<1>1. PICK f : Growth(m, depth, f) /\ Grounded(m, depth) = f[depth]
  BY GrowthGives
<1>2. PICK g : Growth(n, depth, g) /\ Grounded(n, depth) = g[depth]
  BY GrowthGives
<1> DEFINE P == {k \in 0..depth : \A id \in D : id \in g[k] <=> id \in f[k]}
<1>3. 0 \in P
  BY <1>1, <1>2 DEF Growth
<1>4. ASSUME NEW k \in 0..depth, k < depth, k \in P PROVE k + 1 \in P
  <2>1. k + 1 \in 1..depth /\ (k + 1) - 1 = k /\ k + 1 \in 0..depth
    BY <1>4
  <2>2. SUFFICES ASSUME NEW id \in D PROVE id \in g[k + 1] <=> id \in f[k + 1]
    BY <2>1
  <2>3. f[k + 1] = Rests(m, f[k]) /\ g[k + 1] = Rests(n, g[k])
    BY <1>1, <1>2, <2>1 DEF Growth
  <2>4. id \in DOMAIN m /\ id \in DOMAIN n /\ n[id] = m[id]
    BY DEF Agree
  <2>5. m[id].found => /\ m[id].parents \subseteq D
                       /\ m[id].parents = {} => m[id].root \in D
    BY DEF Agree
  <2>6. \A p \in D : p \in g[k] <=> p \in f[k]
    BY <1>4
  <2> HIDE DEF P
  <2> QED BY <2>3, <2>4, <2>5, <2>6 DEF Rests
<1> HIDE DEF P
<1>5. 0..depth \subseteq P
  BY <1>3, <1>4, Upwards
<1> QED BY <1>1, <1>2, <1>5 DEF P

\* What the lineage of a namespace can pass through: its own ids, and those of turns.
Reach(rows, space) ==
    {id \in Known(rows) :
       id \in Ids(rows, space) \/ \E n \in Nat : id = Turn(n) \/ id = Relation(Turn(n))}

Appended(rows, more, row) ==
    LongerBy(rows, more, row) /\ \A i \in 1..Len(rows) : more[i] = rows[i]

LEMMA DerivedAgrees ==
  ASSUME NEW rows, IsRows(rows), AllFounded(rows), NEW more, NEW row, Appended(rows, more, row),
         row.id[1] = "semantic", NEW space
  PROVE  Agree(Nodes(rows, space), Nodes(more, space), Reach(rows, space))
<1> DEFINE m == Nodes(rows, space)
           n == Nodes(more, space)
           D == Reach(rows, space)
<1>1. /\ IsRows(more) /\ Len(rows) \in Nat /\ Len(more) = Len(rows) + 1
      /\ DOMAIN rows = 1..Len(rows) /\ DOMAIN more = 1..Len(more)
      /\ \A i \in 1..Len(rows) : i \in 1..Len(more) /\ more[i] = rows[i]
      /\ \A i \in 1..Len(more) : i \in 1..Len(rows) \/ i = Len(rows) + 1
      /\ more[Len(rows) + 1] = row
  BY RowsGive DEF Appended, LongerBy
<1>2. Known(rows) \subseteq Known(more)
  BY <1>1 DEF Known
<1>3. /\ DOMAIN m = Known(rows) /\ DOMAIN n = Known(more)
      /\ \A id \in Known(rows) : m[id] = NodeAt(rows, space, id)
      /\ \A id \in Known(rows) : n[id] = NodeAt(more, space, id)
  BY <1>2 DEF Nodes
<1> HIDE DEF m, n
<1>4. ASSUME NEW id \in D PROVE n[id] = m[id]
  <2>1. id \in Known(rows)
    BY DEF Reach
  <2>2. CASE \E i \in 1..Len(rows) : Bears(rows[i], space, id)
    <3>1. PICK i : BornBy(rows, space, id, i) /\ m[id] = NodeOf(rows[i], id)
      BY <1>3, <2>1, <2>2, NodeReads
    <3>2. \A j \in 1..Len(more) : Bears(more[j], space, id) => i <= j
      BY <1>1, <3>1 DEF BornBy
    <3>3. Bears(more[i], space, id) /\ i \in 1..Len(more)
      BY <1>1, <3>1 DEF BornBy
    <3>4. PICK k : BornBy(more, space, id, k) /\ n[id] = NodeOf(more[k], id)
      BY <1>1, <1>3, <2>1, <3>3, NodeReads
    <3>5. k = i
      <4>1. k \in 1..Len(more) /\ i <= k /\ k <= i
        BY <3>2, <3>3, <3>4 DEF BornBy
      <4> QED BY <1>1, <3>3, <4>1
    <3>6. more[k] = rows[i]
      BY <1>1, <3>1, <3>5 DEF BornBy
    <3> QED BY <3>1, <3>4, <3>6
  <2>3. CASE ~ \E i \in 1..Len(rows) : Bears(rows[i], space, id)
    <3>1. id \notin Ids(rows, space)
      BY <1>1, <2>3 DEF Ids, Bears
    <3>2. id[1] = "turn" \/ (id[1] = "relation" /\ id[2][1] = "turn")
      BY <3>1, IdsApart DEF Reach
    <3>3. ~Bears(row, space, id)
      BY <3>2, IdsApart DEF Bears
    <3>4. \A i \in 1..Len(more) : ~Bears(more[i], space, id)
      BY <1>1, <2>3, <3>3
    <3>5. m[id] = [found |-> FALSE]
      BY <1>3, <2>1, <2>3, NodeReads DEF BornBy
    <3>6. n[id] = [found |-> FALSE]
      BY <1>1, <1>3, <2>1, <3>4, NodeReads DEF BornBy
    <3> QED BY <3>5, <3>6
  <2> QED BY <2>2, <2>3
<1>5. ASSUME NEW id \in D, m[id].found
      PROVE  m[id].parents \subseteq D /\ (m[id].parents = {} => m[id].root \in D)
  <2>1. PICK i : BornBy(rows, space, id, i) /\ m[id] = NodeOf(rows[i], id)
    BY <1>3, <1>5, NodeReads DEF Reach
  <2>2. i \in 1..Len(rows) /\ Founded(rows, rows[i]) /\ rows[i].space = space
    BY <2>1 DEF BornBy, Bears, AllFounded
  <2>3. /\ m[id].root = rows[i].root
        /\ m[id].parents = IF id = rows[i].id THEN rows[i].parents ELSE {rows[i].id}
    BY <1>5, <2>1 DEF NodeOf
  <2>4. /\ rows[i].root \in Known(rows) /\ rows[i].id \in Ids(rows, space)
        /\ Ids(rows, space) \subseteq D
    BY <2>2, IdsAreKnown DEF Reach
  <2>5. rows[i].parents \subseteq Ids(rows, space)
    BY <2>2 DEF Founded
  <2>6. rows[i].parents = {} => rows[i].root \in D
    BY <2>2, <2>4 DEF Founded, Reach
  <2> QED BY <2>3, <2>4, <2>5, <2>6
<1>6. D \subseteq Known(rows)
  BY DEF Reach
<1> HIDE DEF D
<1> SUFFICES Agree(m, n, D)
  BY DEF m, n, D
<1> QED BY <1>2, <1>3, <1>4, <1>5, <1>6 DEF Agree

RootOf(rows, space, id) == RootIn(Nodes(rows, space), id)

\* The turns that surely state a claim and whose relation has a root.
Supporting(rows, space, claim) ==
    {i \in 1..Len(rows) :
       /\ rows[i].space = space /\ rows[i].claim = claim /\ rows[i].type \in Triggers
       /\ rows[i].claim # Silent /\ rows[i].sure
       /\ RootOf(rows, space, Relation(rows[i].id)) # NoRoot}
SupportingOf(rows, i) == Supporting(rows, rows[i].space, rows[i].claim)

\* Where a claim that two roots support is stated first.
Firsts(rows) ==
    {i \in 1..Len(rows) :
       /\ i \in SupportingOf(rows, i) /\ \A j \in SupportingOf(rows, i) : i <= j
       /\ \E j \in SupportingOf(rows, i) : RootOf(rows, rows[i].space, Relation(rows[j].id))
                                             # RootOf(rows, rows[i].space, Relation(rows[i].id))}

\* A candidate rests on two roots, and nothing derived that stands says the same.
StillDue(rows, next) ==
    /\ \A p \in next.parents : \E i \in Supporting(rows, next.space, next.claim) :
         p = Relation(rows[i].id)
    /\ \E a, b \in next.parents : RootOf(rows, next.space, a) # RootOf(rows, next.space, b)
    /\ \A i \in 1..Len(rows) :
         /\ rows[i].type = "derived_relation"
         /\ rows[i].space = next.space /\ rows[i].claim = next.claim
         => RootOf(rows, next.space, rows[i].id) = NoRoot

\* No memory that supports a claim is at the end of the search.
Shallow(rows, space, claim) ==
    \A i \in Supporting(rows, space, claim) :
      Relation(rows[i].id) \in Grounded(Nodes(rows, space), MaxVisited - 1)

\* The claim of a row is among the first that two roots support.
Early(rows, i) ==
    /\ Cardinality(Evidence(rows)) <= MaxRelations
    /\ i \in Firsts(rows) /\ Cardinality({j \in Firsts(rows) : j < i}) < MaxCandidates
Warranted(rows, i) == Early(rows, i) /\ Shallow(rows, rows[i].space, rows[i].claim)

Met(rows, space, claim) ==
    \E i \in 1..Len(rows) :
      /\ rows[i].type = "derived_relation" /\ rows[i].space = space /\ rows[i].claim = claim
      /\ RootOf(rows, space, rows[i].id) # NoRoot \/ rows[i].gone

LEMMA AtLeastTwo ==
  ASSUME NEW S, IsFiniteSet(S), NEW a \in S, NEW b \in S, a # b
  PROVE  Cardinality(S) >= 2
<1>1. IsFiniteSet({a}) /\ Cardinality({a}) = 1
  BY FS_Singleton
<1>2. b \notin {a}
  OBVIOUS
<1>3. Cardinality({a} \cup {b}) = 1 + 1
  BY <1>1, <1>2, FS_AddElement
<1>4. Cardinality({a} \cup {b}) <= Cardinality(S)
  <2>1. {a} \cup {b} \in SUBSET S
    OBVIOUS
  <2> QED BY <2>1, FS_Subset
<1>5. Cardinality(S) \in Nat
  BY FS_CardinalityType
<1> QED BY <1>3, <1>4, <1>5

LEMMA RootsRead ==
  ASSUME NEW rows, NEW space \in Spaces, NEW id \in Known(rows)
  PROVE  AllRoots(rows)[space][id] = RootOf(rows, space, id)
<1>1. id \in DOMAIN Nodes(rows, space)
  BY DEF Nodes
<1> QED BY <1>1 DEF AllRoots, Roots, RootsIn, RootOf

\* What supports a claim: the first turn of every root that does, as many as there
\* is room for.
LEMMA SupportsAre ==
  ASSUME NEW rows, IsRows(rows), NEW space \in Spaces, NEW claim
  PROVE  LET supports == Supports(rows, AllRoots(rows), space, claim)
             root(i) == RootOf(rows, space, Relation(rows[i].id))
         IN  /\ supports \subseteq Supporting(rows, space, claim)
             /\ IsFiniteSet(supports)
             /\ \A i, j \in supports : i # j => root(i) # root(j)
             /\ \A i \in Supporting(rows, space, claim) :
                  (\A j \in Supporting(rows, space, claim) : i <= j) => i \in supports
             /\ (\E a, b \in Supporting(rows, space, claim) : root(a) # root(b))
                  => Cardinality(supports) >= 2
<1> DEFINE roots == AllRoots(rows)
           supports == Supports(rows, roots, space, claim)
           all == Supporting(rows, space, claim)
           root(i) == RootOf(rows, space, Relation(rows[i].id))
           firsts == {i \in all : \A j \in all : j < i => root(j) # root(i)}
<1>1. /\ Len(rows) \in Nat /\ DOMAIN rows = 1..Len(rows)
      /\ \A i \in 1..Len(rows) : Relation(rows[i].id) \in Known(rows)
  BY RowsGive DEF Known
<1>2. \A i \in 1..Len(rows) : roots[space][Relation(rows[i].id)] = root(i)
  BY <1>1, RootsRead
<1> HIDE DEF roots
<1>3. supports = {i \in firsts : Cardinality({j \in firsts : j < i}) < MaxRoots}
  <2>1. Valid(rows, roots, space, claim) = all
    BY <1>1, <1>2 DEF Valid, Evidence, Supporting
  <2> DEFINE found == {i \in all : \A j \in all : j < i =>
                        roots[space][Relation(rows[j].id)] # roots[space][Relation(rows[i].id)]}
  <2>2. supports = {i \in found : Cardinality({j \in found : j < i}) < MaxRoots}
    BY <2>1 DEF Supports
  <2>3. all \subseteq 1..Len(rows)
    BY DEF Supporting
  <2> HIDE DEF all
  <2>4. found = firsts
    <3> HIDE DEF root
    <3> QED BY <1>2, <2>3
  <2> HIDE DEF found, firsts, supports
  <2> QED BY <2>2, <2>4
<1>4. /\ all \subseteq 1..Len(rows) /\ firsts \subseteq all /\ supports \subseteq firsts
      /\ MaxRoots \in Nat /\ MaxRoots >= 2
  BY <1>3, ClaimLimits DEF Supporting
<1>4a. \A i \in firsts : i \in all /\ \A j \in all : j < i => root(j) # root(i)
  OBVIOUS
<1>4b. \A i \in all : (\A j \in all : j < i => root(j) # root(i)) => i \in firsts
  OBVIOUS
<1> HIDE DEF supports, firsts, all, root
<1>5. IsFiniteSet(supports)
  <2>1. IsFiniteSet(1..Len(rows))
    <3>1. PICK n : n = Len(rows)
      OBVIOUS
    <3>2. n \in Int /\ 1 \in Int
      BY <1>1, <3>1
    <3> QED BY <3>1, <3>2, FS_Interval
  <2>2. supports \in SUBSET (1..Len(rows))
    BY <1>4
  <2> QED BY <2>1, <2>2, FS_Subset
<1>6. ASSUME NEW i \in supports, NEW j \in supports, i # j PROVE root(i) # root(j)
  <2>1. i < j \/ j < i
    BY <1>1, <1>4, <1>6
  <2> QED BY <1>4, <1>4a, <2>1
<1>0. all \subseteq Nat
  BY <1>1, <1>4
<1>7. ASSUME NEW i \in all, \A j \in all : i <= j PROVE i \in supports
  <2>1. \A j \in all : ~(j < i)
    BY <1>0, <1>7
  <2>2. i \in firsts
    BY <1>4b, <2>1
  <2>3. {j \in firsts : j < i} = {}
    BY <1>4, <2>1
  <2>4. Cardinality({j \in firsts : j < i}) < MaxRoots
    <3>1. Cardinality({}) = 0
      BY FS_EmptySet
    <3> QED BY <1>4, <2>3, <3>1
  <2> QED BY <1>3, <2>2, <2>4
<1>8. ASSUME NEW a \in all, NEW b \in all, root(a) # root(b) PROVE Cardinality(supports) >= 2
  <2>1. PICK m : m \in all /\ \A j \in all : m <= j
    BY <1>0, MinExists
  <2>2. m \in supports /\ m \in firsts
    BY <1>4, <1>7, <2>1
  <2> DEFINE others == {j \in all : root(j) # root(m)}
  <2>3. others \in SUBSET Nat /\ others # {}
    BY <1>0, <1>8
  <2>4. PICK o : o \in others /\ \A j \in others : o <= j
    <3> HIDE DEF others
    <3> QED BY <2>3, MinExists
  <2>5. ASSUME NEW j \in all, j < o PROVE root(j) = root(m)
    <3>1. j \in Nat /\ o \in Nat
      BY <1>0, <2>4
    <3> QED BY <2>4, <2>5, <3>1
  <2>6. o \in all /\ root(o) # root(m)
    BY <2>4
  <2>7. o \in firsts
    BY <1>4b, <2>5, <2>6
  <2>8. ASSUME NEW j \in firsts, j < o PROVE j = m
    <3>1. j \in all /\ root(j) = root(m) /\ m <= j /\ j \in Nat /\ m \in Nat
      BY <1>0, <1>4a, <2>1, <2>5, <2>8
    <3>2. ~(m < j)
      BY <1>4a, <2>1, <3>1
    <3> QED BY <3>1, <3>2
  <2>9. Cardinality({j \in firsts : j < o}) <= 1
    <3> DEFINE before == {j \in firsts : j < o}
    <3>1. before \in SUBSET {m}
      BY <2>8
    <3> HIDE DEF before
    <3>2. Cardinality(before) <= Cardinality({m}) /\ Cardinality({m}) = 1
      BY <3>1, FS_Singleton, FS_Subset
    <3> QED BY <3>2 DEF before
  <2>10. Cardinality({j \in firsts : j < o}) < MaxRoots
    <3> DEFINE before == {j \in firsts : j < o}
    <3>1. before \in SUBSET {m}
      BY <2>8
    <3> HIDE DEF before
    <3>2. Cardinality(before) \in Nat
      BY <3>1, FS_Singleton, FS_Subset, FS_CardinalityType
    <3>3. Cardinality(before) < MaxRoots
      BY <1>4, <2>9, <3>2 DEF before
    <3> QED BY <3>3 DEF before
  <2>11. o \in supports
    BY <1>3, <2>7, <2>10
  <2> QED BY <1>5, <2>2, <2>6, <2>11, AtLeastTwo
<1> QED BY <1>4, <1>5, <1>6, <1>7, <1>8 DEF supports, all, root, roots

\* The claims a consolidation looks for are those two roots support.
LEMMA ClaimedAreFirsts ==
  ASSUME NEW rows, IsRows(rows), AllFounded(rows)
  PROVE  Claimed(rows, AllRoots(rows)) = Firsts(rows)
<1> DEFINE roots == AllRoots(rows)
<1>1. /\ Len(rows) \in Nat /\ DOMAIN rows = 1..Len(rows)
      /\ \A i \in 1..Len(rows) : rows[i].space \in Spaces
  BY RowsGive DEF AllFounded, Founded
<1>2. ASSUME NEW i \in 1..Len(rows) PROVE i \in Claimed(rows, roots) <=> i \in Firsts(rows)
  <2> DEFINE space == rows[i].space
             all == Supporting(rows, space, rows[i].claim)
             supports == Supports(rows, roots, space, rows[i].claim)
             root(j) == RootOf(rows, space, Relation(rows[j].id))
  <2>1. /\ supports \subseteq all /\ IsFiniteSet(supports)
        /\ \A k, j \in supports : k # j => root(k) # root(j)
        /\ \A k \in all : (\A j \in all : k <= j) => k \in supports
        /\ (\E a, b \in all : root(a) # root(b)) => Cardinality(supports) >= 2
    BY <1>1, SupportsAre
  <2>2. all \subseteq 1..Len(rows) /\ all \subseteq Nat
    BY <1>1 DEF Supporting
  <2>3. i \in all => i \in Evidence(rows)
    BY <1>1 DEF Supporting, Evidence
  <2>4. i \in Claimed(rows, roots) <=> /\ i \in Evidence(rows) /\ i \in supports
                                       /\ \A j \in supports : i <= j
                                       /\ Cardinality(supports) >= 2
    BY DEF Claimed, SupportsOf
  <2>5. i \in Firsts(rows) <=> /\ i \in all /\ \A j \in all : i <= j
                               /\ \E j \in all : root(j) # root(i)
    BY DEF Firsts, SupportingOf
  <2> HIDE DEF roots, space, all, supports, root
  <2>6. ASSUME i \in Claimed(rows, roots) PROVE i \in Firsts(rows)
    <3>1. i \in supports /\ i \in all
      BY <2>1, <2>4, <2>6
    <3>2. PICK m : m \in all /\ \A j \in all : m <= j
      BY <2>2, <3>1, MinExists
    <3>3. i <= m
      BY <2>1, <2>4, <2>6, <3>2
    <3>4. \A j \in all : i <= j
      BY <2>2, <3>1, <3>2, <3>3
    <3>5. PICK a \in supports, b \in supports : a # b
      BY <2>4, <2>6, TwoElements
    <3>6. \E j \in all : root(j) # root(i)
      BY <2>1, <3>5
    <3> QED BY <2>5, <3>1, <3>4, <3>6
  <2>7. ASSUME i \in Firsts(rows) PROVE i \in Claimed(rows, roots)
    <3>1. i \in all /\ (\A j \in all : i <= j) /\ \E j \in all : root(j) # root(i)
      BY <2>5, <2>7
    <3>2. i \in supports /\ (\A j \in supports : i <= j) /\ Cardinality(supports) >= 2
      BY <2>1, <3>1
    <3> QED BY <2>3, <2>4, <3>1, <3>2
  <2> QED BY <2>6, <2>7
<1>3. Claimed(rows, roots) \subseteq 1..Len(rows) /\ Firsts(rows) \subseteq 1..Len(rows)
  BY <1>1 DEF Claimed, Evidence, Firsts
<1> QED BY <1>2, <1>3

LEMMA CandidatesDue ==
  ASSUME NEW rows, IsRows(rows), AllFounded(rows)
  PROVE  /\ \A next \in Candidates(rows) : StillDue(rows, next)
         /\ \A p, q \in Candidates(rows) : p.space = q.space /\ p.claim = q.claim => p = q
         /\ \A i \in 1..Len(rows) : Warranted(rows, i) =>
              \/ Met(rows, rows[i].space, rows[i].claim)
              \/ \E next \in Candidates(rows) :
                   next.space = rows[i].space /\ next.claim = rows[i].claim
<1> DEFINE roots == AllRoots(rows)
           supports(i) == SupportsOf(rows, roots, i)
           root(space, i) == RootOf(rows, space, Relation(rows[i].id))
           derived(space, claim) ==
             {i \in 1..Len(rows) : /\ rows[i].type = "derived_relation"
                                   /\ rows[i].space = space /\ rows[i].claim = claim}
<1>1. /\ Len(rows) \in Nat /\ DOMAIN rows = 1..Len(rows)
      /\ \A i \in 1..Len(rows) : rows[i].id \in Known(rows) /\ rows[i].space \in Spaces
  BY RowsGive DEF Known, AllFounded, Founded
<1>2. ASSUME NEW space \in Spaces, NEW claim
      PROVE  AlreadyDerived(rows, roots, space, claim)
               <=> \E i \in derived(space, claim) : RootOf(rows, space, rows[i].id) # NoRoot
  <2>1. \A i \in 1..Len(rows) : rows[i].space = space =>
          roots[rows[i].space][rows[i].id] = RootOf(rows, space, rows[i].id)
    BY <1>1, RootsRead
  <2> HIDE DEF roots
  <2> QED BY <1>1, <2>1 DEF AlreadyDerived, Stands
<1>3. Claimed(rows, roots) = Firsts(rows)
  BY ClaimedAreFirsts
<1> HIDE DEF roots
<1>4. ASSUME NEW next \in Candidates(rows)
      PROVE  \E i \in Firsts(rows) :
               /\ next = RequestFor(rows, roots, i) /\ Cardinality(supports(i)) >= 2
               /\ ~AlreadyDerived(rows, roots, rows[i].space, rows[i].claim)
  <2>1. PICK i \in Due(rows, roots) : next = RequestFor(rows, roots, i)
    BY DEF Candidates, Requests, roots
  <2>2. i \in Claimed(rows, roots) /\ ~AlreadyDerived(rows, roots, rows[i].space, rows[i].claim)
    BY <2>1 DEF Due, Considered
  <2>3. Cardinality(supports(i)) >= 2
    BY <2>2 DEF Claimed
  <2> QED BY <1>3, <2>1, <2>2, <2>3
<1>5. \A i :
        LET next == RequestFor(rows, roots, i)
        IN  /\ next.space = rows[i].space /\ next.claim = rows[i].claim
            /\ next.parents = {Relation(rows[j].id) : j \in supports(i)}
  BY DEF RequestFor
<1>6. \A i \in 1..Len(rows) :
        /\ supports(i) \subseteq SupportingOf(rows, i)
        /\ \A j, k \in supports(i) :
             j # k => root(rows[i].space, j) # root(rows[i].space, k)
  BY <1>1, SupportsAre DEF roots, SupportsOf, SupportingOf
<1>7. ASSUME NEW next \in Candidates(rows) PROVE StillDue(rows, next)
  <2>1. PICK i \in Firsts(rows) :
          /\ next = RequestFor(rows, roots, i) /\ Cardinality(supports(i)) >= 2
          /\ ~AlreadyDerived(rows, roots, rows[i].space, rows[i].claim)
    BY <1>4
  <2>2. i \in 1..Len(rows) /\ rows[i].space \in Spaces
    BY <1>1 DEF Firsts
  <2>3. /\ next.space = rows[i].space /\ next.claim = rows[i].claim
        /\ next.parents = {Relation(rows[j].id) : j \in supports(i)}
    BY <1>5, <2>1
  <2>4. \A j \in derived(next.space, next.claim) : RootOf(rows, next.space, rows[j].id) = NoRoot
    BY <1>2, <2>1, <2>2, <2>3
  <2> HIDE DEF supports
  <2>5. PICK a \in supports(i), b \in supports(i) : a # b
    BY <2>1, TwoElements
  <2>6. root(next.space, a) # root(next.space, b)
    BY <1>6, <2>2, <2>3, <2>5
  <2>7. \A p \in next.parents : \E j \in Supporting(rows, next.space, next.claim) :
          p = Relation(rows[j].id)
    BY <1>6, <2>2, <2>3 DEF SupportingOf
  <2> QED BY <2>3, <2>4, <2>6, <2>7 DEF StillDue
<1>8. ASSUME NEW p \in Candidates(rows), NEW q \in Candidates(rows),
             p.space = q.space, p.claim = q.claim
      PROVE  p = q
  <2>1. PICK i \in Firsts(rows) : p = RequestFor(rows, roots, i)
    BY <1>4
  <2>2. PICK j \in Firsts(rows) : q = RequestFor(rows, roots, j)
    BY <1>4
  <2>3. SupportingOf(rows, i) = SupportingOf(rows, j)
    BY <1>5, <1>8, <2>1, <2>2 DEF SupportingOf
  <2>4. i <= j /\ j <= i /\ i \in Nat /\ j \in Nat
    BY <1>1, <2>3 DEF Firsts
  <2>5. i = j
    BY <2>4
  <2> QED BY <2>1, <2>2, <2>5
<1>9. ASSUME NEW i \in 1..Len(rows), Warranted(rows, i),
             ~Met(rows, rows[i].space, rows[i].claim)
      PROVE  \E next \in Candidates(rows) :
               next.space = rows[i].space /\ next.claim = rows[i].claim
  <2>1. ~AlreadyDerived(rows, roots, rows[i].space, rows[i].claim)
    BY <1>1, <1>2, <1>9 DEF Met
  <2>2. ~(Cardinality(Evidence(rows)) > MaxRelations)
    <3>1. IsFiniteSet(Evidence(rows))
      <4>1. PICK n : n = Len(rows)
        OBVIOUS
      <4>2. IsFiniteSet(1..n)
        BY <1>1, <4>1, FS_Interval
      <4>3. Evidence(rows) \in SUBSET (1..n)
        BY <1>1, <4>1 DEF Evidence
      <4> QED BY <4>2, <4>3, FS_Subset
    <3>2. PICK c : c = Cardinality(Evidence(rows)) /\ c \in Nat
      BY <3>1, FS_CardinalityType
    <3>3. c <= MaxRelations /\ MaxRelations \in Nat
      BY <1>9, <3>2, ClaimLimits DEF Warranted, Early
    <3> QED BY <3>2, <3>3
  <2>3. i \in Considered(rows, roots)
    BY <1>3, <1>9, <2>2 DEF Warranted, Early, Considered
  <2>4. RequestFor(rows, roots, i) \in Candidates(rows)
    BY <2>1, <2>3 DEF Due, Candidates, Requests, roots
  <2> QED BY <1>5, <2>4
<1> QED BY <1>7, <1>8, <1>9

-----------------------------------------------------------------------------
(* A derived row leaves what was there before as it was.                   *)

LEMMA DerivedKeepsRoots ==
  ASSUME NEW rows, IsRows(rows), AllFounded(rows), NEW more, NEW row, Appended(rows, more, row),
         AllFounded(more), row.id[1] = "semantic", row.type = "derived_relation", NEW space
  PROVE  /\ \A id \in Reach(rows, space) : RootOf(more, space, id) = RootOf(rows, space, id)
         /\ \A depth \in Nat : \A id \in Reach(rows, space) :
              id \in Grounded(Nodes(more, space), depth)
                <=> id \in Grounded(Nodes(rows, space), depth)
         /\ \A i \in 1..Len(rows) : rows[i].space = space => rows[i].id \in Reach(rows, space)
         /\ \A i \in 1..Len(rows) :
              rows[i].type \in Triggers => Relation(rows[i].id) \in Reach(rows, space)
<1>1. /\ IsRows(more) /\ Len(rows) \in Nat /\ Len(more) = Len(rows) + 1
      /\ DOMAIN rows = 1..Len(rows)
      /\ \A i \in 1..Len(rows) : i \in 1..Len(more) /\ more[i] = rows[i]
      /\ \A i \in 1..Len(more) : i \in 1..Len(rows) \/ i = Len(rows) + 1
      /\ more[Len(rows) + 1] = row
  BY RowsGive DEF Appended, LongerBy
<1>2. Agree(Nodes(rows, space), Nodes(more, space), Reach(rows, space))
  BY DerivedAgrees
<1>3. Followed(Nodes(rows, space)) /\ Followed(Nodes(more, space))
  BY <1>1, RowsAreFollowed
<1>4. \A id \in Reach(rows, space) : RootOf(more, space, id) = RootOf(rows, space, id)
  BY <1>2, <1>3, SameSearch DEF RootOf
<1>5. \A depth \in Nat : \A id \in Reach(rows, space) :
        id \in Grounded(Nodes(more, space), depth) <=> id \in Grounded(Nodes(rows, space), depth)
  BY <1>2, SameGrowth
<1>6. \A i \in 1..Len(rows) : rows[i].space = space => rows[i].id \in Reach(rows, space)
  BY IdsAreKnown DEF Reach
<1>7. ASSUME NEW i \in 1..Len(rows), rows[i].type \in Triggers
      PROVE  Relation(rows[i].id) \in Reach(rows, space)
  <2>1. PICK n \in Nat : rows[i].id = Turn(n)
    BY <1>7 DEF AllFounded, Founded, Derived, Triggers
  <2>2. Relation(rows[i].id) \in Known(rows)
    BY <1>1 DEF Known
  <2> QED BY <2>1, <2>2 DEF Reach
<1> QED BY <1>4, <1>5, <1>6, <1>7

LEMMA SupportingKept ==
  ASSUME NEW rows, IsRows(rows), AllFounded(rows), NEW more, NEW row, Appended(rows, more, row),
         AllFounded(more), row.id[1] = "semantic", row.type = "derived_relation",
         NEW space, NEW claim
  PROVE  Supporting(more, space, claim) = Supporting(rows, space, claim)
<1>1. /\ Len(rows) \in Nat /\ Len(more) = Len(rows) + 1
      /\ \A i \in 1..Len(rows) : i \in 1..Len(more) /\ more[i] = rows[i]
      /\ \A i \in 1..Len(more) : i \in 1..Len(rows) \/ i = Len(rows) + 1
      /\ more[Len(rows) + 1] = row
  BY RowsGive DEF Appended, LongerBy
<1>2. /\ \A id \in Reach(rows, space) : RootOf(more, space, id) = RootOf(rows, space, id)
      /\ \A i \in 1..Len(rows) :
           rows[i].type \in Triggers => Relation(rows[i].id) \in Reach(rows, space)
  BY DerivedKeepsRoots
<1>3. \A i \in 1..Len(more) : more[i].type \in Triggers => i \in 1..Len(rows)
  BY <1>1 DEF Triggers
<1>4. \A i \in 1..Len(rows) : rows[i].type \in Triggers =>
        RootOf(more, space, Relation(more[i].id)) = RootOf(rows, space, Relation(rows[i].id))
  BY <1>1, <1>2
<1> QED BY <1>1, <1>3, <1>4 DEF Supporting

LEMMA FirstsKept ==
  ASSUME NEW rows, IsRows(rows), AllFounded(rows), NEW more, NEW row, Appended(rows, more, row),
         AllFounded(more), row.id[1] = "semantic", row.type = "derived_relation"
  PROVE  Firsts(more) = Firsts(rows) /\ Evidence(more) = Evidence(rows)
<1>1. /\ Len(rows) \in Nat /\ Len(more) = Len(rows) + 1
      /\ DOMAIN rows = 1..Len(rows) /\ DOMAIN more = 1..Len(more)
      /\ \A i \in 1..Len(rows) : i \in 1..Len(more) /\ more[i] = rows[i]
      /\ \A i \in 1..Len(more) : i \in 1..Len(rows) \/ i = Len(rows) + 1
      /\ more[Len(rows) + 1] = row
  BY RowsGive DEF Appended, LongerBy
<1>2. \A i \in 1..Len(more) : more[i].type \in Triggers => i \in 1..Len(rows)
  BY <1>1 DEF Triggers
<1>3. Evidence(more) = Evidence(rows)
  BY <1>1, <1>2 DEF Evidence
<1>4. ASSUME NEW i \in 1..Len(rows)
      PROVE  /\ SupportingOf(more, i) = SupportingOf(rows, i)
             /\ \A j \in SupportingOf(rows, i) :
                  RootOf(more, more[i].space, Relation(more[j].id))
                    = RootOf(rows, rows[i].space, Relation(rows[j].id))
  <2>1. more[i].space = rows[i].space /\ more[i].claim = rows[i].claim
    BY <1>1
  <2>2. SupportingOf(more, i) = SupportingOf(rows, i)
    BY <2>1, SupportingKept DEF SupportingOf
  <2>3. \A id \in Reach(rows, rows[i].space) :
          RootOf(more, rows[i].space, id) = RootOf(rows, rows[i].space, id)
    BY DerivedKeepsRoots
  <2>4. \A j \in 1..Len(rows) :
          rows[j].type \in Triggers => Relation(rows[j].id) \in Reach(rows, rows[i].space)
    BY DerivedKeepsRoots
  <2>5. \A j \in SupportingOf(rows, i) :
          j \in 1..Len(rows) /\ rows[j].type \in Triggers /\ more[j] = rows[j]
    BY <1>1 DEF SupportingOf, Supporting
  <2> QED BY <2>1, <2>2, <2>3, <2>4, <2>5
<1>5. \A i \in Firsts(more) : i \in 1..Len(rows)
  BY <1>2 DEF Firsts, SupportingOf, Supporting
<1>6. \A i \in 1..Len(rows) : i \in Firsts(more) <=> i \in Firsts(rows)
  BY <1>1, <1>4 DEF Firsts
<1>7. Firsts(rows) \subseteq 1..Len(rows)
  BY DEF Firsts
<1> QED BY <1>3, <1>5, <1>6, <1>7

\* What is due of another claim stays due.
LEMMA OthersStayDue ==
  ASSUME NEW rows, IsRows(rows), AllFounded(rows), NEW more, NEW row, Appended(rows, more, row),
         AllFounded(more), row.id[1] = "semantic", row.type = "derived_relation",
         NEW next, StillDue(rows, next), row.space # next.space \/ row.claim # next.claim
  PROVE  StillDue(more, next)
<1> DEFINE space == next.space
           all == Supporting(rows, space, next.claim)
<1>1. /\ Len(rows) \in Nat /\ Len(more) = Len(rows) + 1
      /\ \A i \in 1..Len(rows) : more[i] = rows[i]
      /\ \A i \in 1..Len(more) : i \in 1..Len(rows) \/ i = Len(rows) + 1
      /\ more[Len(rows) + 1] = row
  BY RowsGive DEF Appended, LongerBy
<1>2. /\ \A id \in Reach(rows, space) : RootOf(more, space, id) = RootOf(rows, space, id)
      /\ \A i \in 1..Len(rows) : rows[i].space = space => rows[i].id \in Reach(rows, space)
      /\ \A i \in 1..Len(rows) :
           rows[i].type \in Triggers => Relation(rows[i].id) \in Reach(rows, space)
      /\ Supporting(more, space, next.claim) = all
  BY DerivedKeepsRoots, SupportingKept
<1>3. \A i \in all : i \in 1..Len(rows) /\ rows[i].type \in Triggers
  BY DEF Supporting
<1> HIDE DEF all
<1>4. \A p \in next.parents : \E i \in all : p = Relation(rows[i].id)
  BY DEF StillDue, all
<1>5. \A p \in next.parents : \E i \in all : p = Relation(more[i].id)
  BY <1>1, <1>3, <1>4
<1>6. \A p \in next.parents : RootOf(more, space, p) = RootOf(rows, space, p)
  BY <1>2, <1>3, <1>4
<1>7. \E a, b \in next.parents : RootOf(more, space, a) # RootOf(more, space, b)
  BY <1>6 DEF StillDue
<1>8. ASSUME NEW i \in 1..Len(more), more[i].type = "derived_relation",
             more[i].space = space, more[i].claim = next.claim
      PROVE  RootOf(more, space, more[i].id) = NoRoot
  <2>1. i \in 1..Len(rows) /\ more[i] = rows[i]
    BY <1>1, <1>8
  <2>2. RootOf(rows, space, rows[i].id) = NoRoot
    BY <1>8, <2>1 DEF StillDue
  <2> QED BY <1>2, <1>8, <2>1, <2>2
<1> QED BY <1>2, <1>5, <1>7, <1>8 DEF StillDue

\* What is shallow with the row was before it, and what was met still is.
LEMMA ShallowBefore ==
  ASSUME NEW rows, IsRows(rows), AllFounded(rows), NEW more, NEW row, Appended(rows, more, row),
         AllFounded(more), row.id[1] = "semantic", row.type = "derived_relation",
         NEW space, NEW claim
  PROVE  /\ Shallow(more, space, claim) => Shallow(rows, space, claim)
         /\ Met(rows, space, claim) => Met(more, space, claim)
<1> DEFINE all == Supporting(rows, space, claim)
           m == Nodes(rows, space)
           n == Nodes(more, space)
<1>1. /\ \A i \in 1..Len(rows) : more[i] = rows[i] /\ i \in 1..Len(more)
      /\ MaxVisited - 1 \in Nat
  BY RowsGive, VisitedAssumption DEF Appended, LongerBy
<1>2. /\ \A id \in Reach(rows, space) : RootOf(more, space, id) = RootOf(rows, space, id)
      /\ \A depth \in Nat : \A id \in Reach(rows, space) :
           id \in Grounded(n, depth) <=> id \in Grounded(m, depth)
      /\ \A i \in 1..Len(rows) : rows[i].space = space => rows[i].id \in Reach(rows, space)
      /\ \A i \in 1..Len(rows) :
           rows[i].type \in Triggers => Relation(rows[i].id) \in Reach(rows, space)
      /\ Supporting(more, space, claim) = all
  BY DerivedKeepsRoots, SupportingKept
<1>3. \A i \in all : i \in 1..Len(rows) /\ rows[i].type \in Triggers
  BY DEF Supporting
<1> HIDE DEF all, m, n
<1>4. \A i \in all : more[i].id = rows[i].id /\ Relation(rows[i].id) \in Reach(rows, space)
  BY <1>1, <1>2, <1>3
<1>5. ASSUME Shallow(more, space, claim) PROVE Shallow(rows, space, claim)
  <2>1. \A i \in all : Relation(more[i].id) \in Grounded(n, MaxVisited - 1)
    BY <1>2, <1>5 DEF Shallow, n
  <2>2. \A i \in all : Relation(rows[i].id) \in Grounded(m, MaxVisited - 1)
    BY <1>1, <1>2, <1>4, <2>1
  <2> QED BY <2>2 DEF Shallow, all, m
<1>6. ASSUME Met(rows, space, claim) PROVE Met(more, space, claim)
  <2>1. PICK i \in 1..Len(rows) :
          /\ rows[i].type = "derived_relation" /\ rows[i].space = space /\ rows[i].claim = claim
          /\ RootOf(rows, space, rows[i].id) # NoRoot \/ rows[i].gone
    BY <1>6 DEF Met
  <2>2. more[i] = rows[i] /\ i \in 1..Len(more)
        /\ RootOf(more, space, rows[i].id) = RootOf(rows, space, rows[i].id)
    BY <1>1, <1>2, <2>1
  <2> QED BY <2>1, <2>2 DEF Met
<1> QED BY <1>5, <1>6

\* The row learned for a claim meets it, unless it was corrected before.
LEMMA LearnedMeets ==
  ASSUME NEW rows, IsRows(rows), AllFounded(rows), NEW more, NEW row, Appended(rows, more, row),
         AllFounded(more), Derived(rows, row), NEW next, StillDue(rows, next),
         row.space = next.space, row.claim = next.claim, row.parents = next.parents,
         Shallow(more, next.space, next.claim)
  PROVE  Met(more, next.space, next.claim)
<1> DEFINE space == next.space
           n == Nodes(more, space)
           id == row.id
           below == Grounded(n, MaxVisited - 1)
<1>1. /\ IsRows(more) /\ Len(rows) \in Nat /\ Len(more) = Len(rows) + 1
      /\ \A i \in 1..Len(rows) : more[i] = rows[i]
      /\ Len(more) \in 1..Len(more) /\ more[Len(more)] = row
  BY RowsGive DEF Appended, LongerBy
<1>2. row.type = "derived_relation" /\ id = Semantic(next.claim, next.parents)
      /\ id[1] = "semantic"
  BY IdsApart DEF Derived
<1>3. Followed(n) /\ DOMAIN n = Known(more) /\ id \in Known(more)
      /\ n[id] = NodeAt(more, space, id)
  <2>1. Followed(n) /\ DOMAIN n = Known(more)
    BY <1>1, RowsAreFollowed
  <2>2. id \in Known(more)
    BY <1>1, IdsAreKnown
  <2> QED BY <2>1, <2>2 DEF Nodes
<1> HIDE DEF n
<1>4. PICK f : BornBy(more, space, id, f) /\ n[id] = NodeOf(more[f], id)
  BY <1>1, <1>3, NodeReads DEF Bears
<1>5. f \in 1..Len(more) /\ more[f].space = space /\ more[f].id = id
  BY <1>2, <1>4, IdsApart DEF BornBy, Bears
<1>6. Derived(more, more[f])
  BY <1>2, <1>5, IdsApart DEF AllFounded, Founded
<1>7. more[f].claim = next.claim /\ more[f].parents = next.parents
  <2>1. Semantic(more[f].claim, more[f].parents) = Semantic(next.claim, next.parents)
    BY <1>2, <1>5, <1>6 DEF Derived
  <2> QED BY <2>1, IdsApart
<1>8. CASE more[f].gone
  BY <1>5, <1>6, <1>7, <1>8 DEF Met, Derived
<1>9. CASE ~more[f].gone
  <2>1. n[id].found /\ n[id].type = "derived_relation" /\ n[id].parents = next.parents
        /\ n[id].gone = more[f].gone
    BY <1>4, <1>5, <1>6, <1>7 DEF NodeOf, Derived
  <2>2. next.parents # {}
    BY DEF StillDue
  <2>3. next.parents \subseteq below
    <3>1. Supporting(more, space, next.claim) = Supporting(rows, space, next.claim)
      <4>1. row.id[1] = "semantic" /\ row.type = "derived_relation"
        BY <1>2
      <4> HIDE DEF space
      <4> QED BY <4>1, SupportingKept
    <3>2. \A i \in Supporting(rows, space, next.claim) :
            Relation(more[i].id) \in below /\ i \in 1..Len(rows)
      BY <3>1 DEF Shallow, Supporting, n
    <3> HIDE DEF below
    <3> QED BY <1>1, <3>2 DEF StillDue
  <2>4. id \in Grounded(n, MaxVisited)
    <3>1. /\ MaxVisited \in Nat /\ MaxVisited \in 1..MaxVisited
          /\ MaxVisited - 1 \in 0..MaxVisited
      BY VisitedAssumption
    <3>2. PICK grown : /\ Growth(n, MaxVisited, grown)
                      /\ Grounded(n, MaxVisited) = grown[MaxVisited]
      BY <3>1, GrowthGives
    <3>3. grown[MaxVisited] = Rests(n, grown[MaxVisited - 1])
      BY <3>1, <3>2 DEF Growth
    <3>4. below = grown[MaxVisited - 1]
      BY <3>1, <3>2, GrowthIs
    <3>5. id \in Rests(n, below)
      <4> HIDE DEF below, id
      <4> QED BY <1>3, <1>9, <2>1, <2>2, <2>3 DEF Rests
    <3> QED BY <3>2, <3>3, <3>4, <3>5
  <2>5. RootOf(more, space, id) # NoRoot
    BY <1>3, <2>4, SearchFindsLineage DEF RootOf, n
  <2> QED BY <1>5, <1>6, <1>7, <2>5 DEF Met, Derived
<1> QED BY <1>8, <1>9

\* A row stored without corrections changes no other.
LEMMA StoreAppends ==
  ASSUME MemoryInv, request # Down, NEW row, IsRow(row), NEW next \in Nat,
         Store(row, next, {}, "durable")
  PROVE  Appended(turns, turns', row)
<1>1. LongerBy(turns, turns', row) /\ turns' = Append(Marked(turns, {}), row)
  BY StoreExtends DEF Store
<1>2. IsRows(turns)
  BY DEF MemoryInv, MemoryTyped
<1>3. /\ IsRows(Marked(turns, {})) /\ Len(Marked(turns, {})) = Len(turns)
      /\ \A i \in 1..Len(turns) : Marked(turns, {})[i]
           = IF i \in {} THEN [turns[i] EXCEPT !.gone = TRUE] ELSE turns[i]
  BY <1>2, MarkedRows
<1>4. PICK marked : marked = Marked(turns, {})
  OBVIOUS
<1>5. \A i \in 1..Len(marked) : Append(marked, row)[i] = marked[i]
  BY <1>3, <1>4, AppendRows
<1> QED BY <1>1, <1>3, <1>4, <1>5 DEF Appended

-----------------------------------------------------------------------------
(* The invariant of consolidation: what is left to learn is still due, and *)
(* every claim among the first two roots support is met or left to learn.  *)

Consolidating ==
    /\ request.state = "busy" /\ request.kept
    /\ turns[request.slot].type \in Triggers /\ turns[request.slot].claim # Silent

LeftToLearn(space, claim) == \E next \in queue : next.space = space /\ next.claim = claim

ClaimsInv ==
    /\ FoundedInv
    /\ request.state = "busy" =>
         /\ request = [state |-> "busy", slot |-> request.slot, corrects |-> request.corrects,
                       kept |-> request.kept]
         /\ request.kept \in BOOLEAN
    /\ \A next \in queue : StillDue(turns, next)
    /\ \A p, q \in queue : p.space = q.space /\ p.claim = q.claim => p = q
    /\ Consolidating => \A i \in 1..Len(turns) : Warranted(turns, i) =>
         \/ Met(turns, turns[i].space, turns[i].claim)
         \/ LeftToLearn(turns[i].space, turns[i].claim)

LEMMA LearnClaims ==
  ASSUME ClaimsInv, NEW space \in Spaces, NEW type, NEW claim, NEW parents, NEW corrects,
         NEW n \in Nat, NEW sure, NEW outcome \in Outcomes,
         Learn(space, type, claim, sure, parents, corrects, Turn(n), outcome)
  PROVE  ClaimsInv'
<1> DEFINE above == parents \cup corrects
           id == Turn(counter + 1)
           slots == {SlotOf(turns, space, c) : c \in corrects}
           row(root) == [id |-> id, space |-> space, type |-> type, root |-> root,
                         parents |-> above, claim |-> claim, sure |-> sure, gone |-> FALSE]
<1>0. FoundedInv'
  BY LearnFounded DEF ClaimsInv
<1>1. PICK root :
        /\ Store(row(root), counter + 1, slots, outcome)
        /\ IF outcome = "durable"
           THEN /\ request' = [state |-> "busy", slot |-> Len(turns'), corrects |-> slots,
                               kept |-> TRUE]
                /\ queue' = IF type \in Triggers /\ claim # Silent THEN Candidates(turns') ELSE {}
           ELSE UNCHANGED <<request, queue>>
  BY DEF Learn
<1>2. request # Down /\ request.state # "busy" /\ queue = {}
  BY DEF Learn, Idle, Down, ClaimsInv, FoundedInv
<1>3. CASE outcome # "durable"
  <2>1. request' = request /\ queue' = queue
    BY <1>1, <1>3
  <2> QED BY <1>0, <1>2, <2>1 DEF ClaimsInv, Consolidating
<1>4. CASE outcome = "durable"
  <2>1. IsRow(row(root)) /\ counter + 1 \in Nat
    BY DEF IsRow, ClaimsInv, FoundedInv, MemoryInv, MemoryTyped
  <2>2. row(root).type = type /\ row(root).claim = claim
    OBVIOUS
  <2> HIDE DEF row, slots
  <2>3. LongerBy(turns, turns', row(root))
    BY <1>1, <1>2, <1>4, <2>1, StoreExtends DEF ClaimsInv, FoundedInv
  <2>4. IsRows(turns') /\ turns'[Len(turns')] = row(root)
    BY <2>3 DEF LongerBy
  <2>5. /\ request' = [state |-> "busy", slot |-> Len(turns'), corrects |-> slots, kept |-> TRUE]
        /\ queue' = IF type \in Triggers /\ claim # Silent THEN Candidates(turns') ELSE {}
    BY <1>1, <1>4
  <2>6. Consolidating' => queue' = Candidates(turns')
    BY <2>2, <2>4, <2>5 DEF Consolidating
  <2>7. \A next \in queue' : next \in Candidates(turns')
    BY <2>5
  <2>8. /\ \A next \in Candidates(turns') : StillDue(turns', next)
        /\ \A p, q \in Candidates(turns') : p.space = q.space /\ p.claim = q.claim => p = q
        /\ \A i \in 1..Len(turns') : Warranted(turns', i) =>
             \/ Met(turns', turns'[i].space, turns'[i].claim)
             \/ \E next \in Candidates(turns') :
                  next.space = turns'[i].space /\ next.claim = turns'[i].claim
    BY <1>0, <2>4, CandidatesDue DEF FoundedInv
  <2>9. Consolidating' => \A i \in 1..Len(turns') : Warranted(turns', i) =>
          \/ Met(turns', turns'[i].space, turns'[i].claim)
          \/ \E next \in queue' : next.space = turns'[i].space /\ next.claim = turns'[i].claim
    BY <2>6, <2>8
  <2>10. /\ \A next \in queue' : StillDue(turns', next)
         /\ \A p, q \in queue' : p.space = q.space /\ p.claim = q.claim => p = q
    BY <2>7, <2>8
  <2>11. /\ request' = [state |-> "busy", slot |-> request'.slot, corrects |-> request'.corrects,
                        kept |-> request'.kept]
         /\ request'.kept \in BOOLEAN
    BY <2>5
  <2> QED BY <1>0, <2>9, <2>10, <2>11 DEF ClaimsInv, LeftToLearn
<1> QED BY <1>3, <1>4

\* What a step of the consolidation learns.
LEMMA DerivesRow ==
  ASSUME FoundedInv, NEW outcome \in Outcomes, DeriveNext(outcome)
  PROVE  \E next \in queue : \E row :
           /\ queue' = queue \ {next} /\ Derived(turns, row)
           /\ row.space = next.space /\ row.claim = next.claim /\ row.parents = next.parents
           /\ IF outcome = "durable" THEN Appended(turns, turns', row) ELSE turns' = turns
<1> DEFINE row(next, root) ==
             [id |-> next.id, space |-> next.space, type |-> "derived_relation", root |-> root,
              parents |-> next.parents, claim |-> next.claim, sure |-> TRUE, gone |-> FALSE]
<1>1. PICK next \in queue :
        /\ \E root : Store(row(next, root), counter, {}, outcome)
        /\ queue' = queue \ {next}
  BY DEF DeriveNext
<1>2. PICK root : Store(row(next, root), counter, {}, outcome)
  BY <1>1
<1>3. request # Down
  BY DEF DeriveNext, Down
<1>4. IsRow(row(next, root)) /\ counter \in Nat
  BY DEF IsRow, FoundedInv, MemoryInv, MemoryTyped
<1>5. Derived(turns, row(next, root))
  <2>1. Derivable(turns, next)
    BY DEF FoundedInv
  <2> QED BY <2>1 DEF Derivable, Derived
<1>6. /\ row(next, root).space = next.space /\ row(next, root).claim = next.claim
      /\ row(next, root).parents = next.parents
  OBVIOUS
<1> HIDE DEF row
<1>7. IF outcome = "durable" THEN Appended(turns, turns', row(next, root)) ELSE turns' = turns
  BY <1>2, <1>3, <1>4, StoreAppends DEF FoundedInv, Store
<1> QED BY <1>1, <1>5, <1>6, <1>7

LEMMA DeriveClaims ==
  ASSUME ClaimsInv, NEW outcome \in Outcomes, DeriveNext(outcome)
  PROVE  ClaimsInv'
<1>0. FoundedInv' /\ FoundedInv
  BY DeriveFounded DEF ClaimsInv
<1> DEFINE Learns(next, row) ==
             /\ queue' = queue \ {next} /\ Derived(turns, row)
             /\ row.space = next.space /\ row.claim = next.claim /\ row.parents = next.parents
             /\ IF outcome = "durable" THEN Appended(turns, turns', row) ELSE turns' = turns
<1>1a. PICK next \in queue : \E row : Learns(next, row)
  BY <1>0, DerivesRow
<1>1. PICK row : Learns(next, row)
  BY <1>1a
<1>2. /\ request' = [state |-> "busy", slot |-> request.slot, corrects |-> request.corrects,
                     kept |-> request.kept /\ outcome = "durable"]
      /\ request.state = "busy" /\ request.kept \in BOOLEAN
  BY DEF DeriveNext, ClaimsInv
<1>3. /\ request' = [state |-> "busy", slot |-> request'.slot, corrects |-> request'.corrects,
                     kept |-> request'.kept]
      /\ request'.kept \in BOOLEAN
  BY <1>2
<1>4. \A p, q \in queue' : p.space = q.space /\ p.claim = q.claim => p = q
  BY <1>1 DEF ClaimsInv
<1>5. CASE outcome # "durable"
  <2>1. turns' = turns /\ ~request'.kept
    BY <1>1, <1>2, <1>5
  <2>2. \A other \in queue' : StillDue(turns', other)
    BY <1>1, <2>1 DEF ClaimsInv
  <2> QED BY <1>0, <1>3, <1>4, <2>1, <2>2 DEF ClaimsInv, Consolidating
<1>6. CASE outcome = "durable"
  <2>1. Appended(turns, turns', row)
    BY <1>1, <1>6
  <2>2. IsRows(turns) /\ AllFounded(turns) /\ AllFounded(turns') /\ StillDue(turns, next)
    BY <1>0 DEF FoundedInv, MemoryInv, MemoryTyped, ClaimsInv
  <2>3. row.id[1] = "semantic" /\ row.type = "derived_relation"
    BY <1>1, IdsApart DEF Derived
  <2>4. ASSUME NEW other \in queue' PROVE StillDue(turns', other)
    <3>1. StillDue(turns, other) /\ (row.space # other.space \/ row.claim # other.claim)
      BY <1>1 DEF ClaimsInv
    <3> QED BY <2>1, <2>2, <2>3, <3>1, OthersStayDue
  <2>5. ASSUME Consolidating', NEW i \in 1..Len(turns'), Warranted(turns', i)
        PROVE  \/ Met(turns', turns'[i].space, turns'[i].claim)
               \/ \E left \in queue' :
                    left.space = turns'[i].space /\ left.claim = turns'[i].claim
    <3>0. PICK space, claim : space = turns'[i].space /\ claim = turns'[i].claim
      OBVIOUS
    <3>0a. Firsts(turns') = Firsts(turns) /\ Evidence(turns') = Evidence(turns)
      BY <2>1, <2>2, <2>3, FirstsKept
    <3>0b. i \in 1..Len(turns) /\ turns'[i] = turns[i]
      BY <2>1, <2>5, <3>0a DEF Warranted, Early, Firsts, Appended
    <3>1. /\ Warranted(turns, i) /\ Shallow(turns', space, claim)
          /\ Met(turns, space, claim) => Met(turns', space, claim)
      <4>1. /\ Shallow(turns', space, claim) => Shallow(turns, space, claim)
            /\ Met(turns, space, claim) => Met(turns', space, claim)
        BY <2>1, <2>2, <2>3, ShallowBefore
      <4>2. Early(turns, i) /\ Shallow(turns', space, claim)
        BY <2>5, <3>0, <3>0a DEF Warranted, Early
      <4> QED BY <3>0, <3>0b, <4>1, <4>2 DEF Warranted
    <3>2. request.slot \in 1..Len(turns)
      <4>1. request.slot \in erased.turns + 1..Len(turns)
        BY <1>0, <1>2 DEF FoundedInv, MemoryInv, RequestStored, Down, Idle
      <4>2. erased.turns \in Nat /\ Len(turns) \in Nat
        BY <2>2, <1>0, RowsGive DEF FoundedInv, MemoryInv, MemoryTyped
      <4> QED BY <4>1, <4>2
    <3>3. Consolidating
      <4>1. turns'[request.slot] = turns[request.slot]
        BY <2>1, <3>2 DEF Appended
      <4> QED BY <1>2, <1>6, <2>5, <4>1 DEF Consolidating
    <3>4. Met(turns, space, claim) \/ LeftToLearn(space, claim)
      BY <3>0, <3>0b, <3>1, <3>3 DEF ClaimsInv
    <3>5. CASE next.space = space /\ next.claim = claim
      BY <1>1, <2>1, <2>2, <3>0, <3>1, <3>5, LearnedMeets
    <3>6. CASE ~(next.space = space /\ next.claim = claim)
      BY <1>1, <3>0, <3>1, <3>4, <3>6 DEF LeftToLearn
    <3> QED BY <3>5, <3>6
  <2> QED BY <1>0, <1>3, <1>4, <2>4, <2>5 DEF ClaimsInv, LeftToLearn
<1> QED BY <1>5, <1>6

LEMMA InitClaims == MobileInit => ClaimsInv
BY InitFounded DEF MobileInit, Idle, ClaimsInv, Consolidating

LEMMA QuietClaims ==
  ASSUME ClaimsInv, FoundedInv', queue' = {}, request'.state # "busy"
  PROVE  ClaimsInv'
BY DEF ClaimsInv, Consolidating

LEMMA ClaimsIsInductive == ClaimsInv /\ [MobileNext]_mobileVars => ClaimsInv'
<1> SUFFICES ASSUME ClaimsInv, [MobileNext]_mobileVars PROVE ClaimsInv'
  OBVIOUS
<1>0. FoundedInv' /\ (request.state # "busy" => queue = {}) /\ counter + 1 \in Nat
  BY FoundedIsInductive DEF ClaimsInv, FoundedInv, MemoryInv, MemoryTyped
<1>1. ASSUME NEW outcome \in Outcomes, NEW space \in Spaces, NEW claim, NEW type, NEW sure,
             LearnStatement(space, type, claim, sure, outcome)
      PROVE  ClaimsInv'
  BY <1>0, <1>1, LearnClaims DEF LearnStatement
<1>2. ASSUME NEW outcome \in Outcomes, NEW space \in Spaces, NEW claim, NEW corrects, NEW sure,
             LearnCorrection(space, claim, sure, corrects, outcome)
      PROVE  ClaimsInv'
  BY <1>0, <1>2, LearnClaims DEF LearnCorrection
<1>3. ASSUME NEW outcome \in Outcomes, NEW space \in Spaces, NEW claim, NEW type,
             NEW sure, NEW parents, NEW n \in Nat,
             LearnEcho(space, type, claim, sure, parents, Turn(n), outcome)
      PROVE  ClaimsInv'
  BY <1>3, LearnClaims DEF LearnEcho
<1>4. ASSUME NEW outcome \in Outcomes, DeriveNext(outcome) PROVE ClaimsInv'
  BY <1>4, DeriveClaims
<1>5. ASSUME NEW outcome \in Outcomes, StoreEpisode(outcome) PROVE ClaimsInv'
  <2>1. request = Idle /\ request' = request /\ queue' = queue
    BY <1>5 DEF StoreEpisode
  <2> QED BY <1>0, <2>1, QuietClaims DEF Idle
<1>6. CASE Answer
  BY <1>0, <1>6, QuietClaims DEF Answer, Idle
<1>7. CASE Kill
  BY <1>0, <1>7, QuietClaims DEF Kill, Down
<1>8. CASE Open
  BY <1>0, <1>8, QuietClaims DEF Open, Down, Idle
<1>9. ASSUME NEW outcome, Format(outcome) PROVE ClaimsInv'
  BY <1>0, <1>9, QuietClaims DEF Format, Idle
<1>10. CASE UNCHANGED mobileVars
  <2>1. turns' = turns /\ request' = request /\ queue' = queue
    BY <1>10 DEF mobileVars
  <2> QED BY <1>0, <2>1 DEF ClaimsInv, Consolidating, LeftToLearn
<1>11. \A outcome, space, claim, sure, type :
         (\E origin \in {Turn(n) : n \in 1..MaxTurns} :
            LearnEcho(space, type, claim, sure, {}, origin, outcome)) =>
         \E n \in Nat : LearnEcho(space, type, claim, sure, {}, Turn(n), outcome)
  OBVIOUS
<1>12. counter + 1 \in Nat
  BY <1>0
<1>13. CASE FormatStep
  BY <1>9, <1>13 DEF FormatStep
<1>14. CASE MobileStep(Values \cup {Silent}, BOOLEAN, Outcomes)
  <2>1. ASSUME NEW outcome \in Outcomes, NEW space \in Spaces, NEW claim, NEW sure,
               \/ \E type \in UserTypes : LearnStatement(space, type, claim, sure, outcome)
               \/ \E corrects : LearnCorrection(space, claim, sure, corrects, outcome)
        PROVE  ClaimsInv'
    BY <1>1, <1>2, <2>1
  <2>2. ASSUME NEW outcome \in Outcomes, NEW space \in Spaces, NEW claim, NEW sure, NEW type,
               \/ \E parents : LearnEcho(space, type, claim, sure, parents, Turn(counter + 1), outcome)
               \/ \E origin \in {Turn(n) : n \in 1..MaxTurns} :
                    LearnEcho(space, type, claim, sure, {}, origin, outcome)
        PROVE  ClaimsInv'
    BY <1>3, <1>11, <1>12, <2>2
  <2> QED BY <1>4, <1>5, <1>6, <1>7, <1>8, <1>14, <2>1, <2>2 DEF MobileStep
<1> QED BY <1>10, <1>13, <1>14 DEF MobileNext

-----------------------------------------------------------------------------

LEMMA DerivesGives ==
  ASSUME ClaimsInv, NEW outcome \in Outcomes, DeriveNext(outcome)
  PROVE  DerivesFromIndependent
<1> DEFINE Learns(next, row) ==
             /\ queue' = queue \ {next} /\ Derived(turns, row)
             /\ row.space = next.space /\ row.claim = next.claim /\ row.parents = next.parents
             /\ IF outcome = "durable" THEN Appended(turns, turns', row) ELSE turns' = turns
<1>1. PICK next \in queue : \E row : Learns(next, row)
  BY DerivesRow DEF ClaimsInv
<1>2. PICK row : Learns(next, row)
  BY <1>1
<1>3. Len(turns) \in Nat /\ DOMAIN turns = 1..Len(turns)
  BY RowsGive DEF ClaimsInv, FoundedInv, MemoryInv, MemoryTyped
<1>4. CASE outcome # "durable"
  BY <1>2, <1>3, <1>4 DEF DerivesFromIndependent
<1>5. CASE outcome = "durable"
  <2>1. Last(turns') = row
    BY <1>2, <1>5 DEF Appended, LongerBy, Last
  <2> DEFINE space == row.space
             root(p) == RootIn(Nodes(turns, space), p)
             roots == {root(p) : p \in row.parents} \ {NoRoot}
             all == Supporting(turns, space, row.claim)
             image == {root(Relation(turns[i].id)) : i \in 1..Len(turns)}
  <2>2. StillDue(turns, next)
    BY DEF ClaimsInv
  <2>3. /\ \A p \in row.parents : \E i \in all : p = Relation(turns[i].id)
        /\ \E a, b \in row.parents : root(a) # root(b)
        /\ \A i \in 1..Len(turns) :
             /\ turns[i].type = "derived_relation"
             /\ turns[i].space = space /\ turns[i].claim = row.claim
             => root(turns[i].id) = NoRoot
    BY <1>2, <2>2 DEF StillDue, RootOf
  <2>4. \A i \in all : i \in 1..Len(turns) /\ root(Relation(turns[i].id)) # NoRoot
    BY DEF Supporting, RootOf
  <2> HIDE DEF root, all
  <2>5. roots \subseteq image
    BY <2>3, <2>4
  <2>6. IsFiniteSet(image)
    <3>1. PICK n : n = Len(turns)
      OBVIOUS
    <3> DEFINE f == [i \in 1..n |-> root(Relation(turns[i].id))]
    <3>2. f \in Surjection(1..n, image)
      BY <3>1 DEF Surjection
    <3>3. IsFiniteSet(1..n)
      BY <1>3, <3>1, FS_Interval
    <3> HIDE DEF f, image
    <3> QED BY <3>2, <3>3, FS_Surjection
  <2>7. Cardinality(roots) >= 2
    <3>1. PICK a \in row.parents, b \in row.parents : root(a) # root(b)
      BY <2>3
    <3>2. root(a) \in roots /\ root(b) \in roots
      BY <2>3, <2>4
    <3> HIDE DEF roots, image
    <3>3. IsFiniteSet(roots)
      BY <2>5, <2>6, FS_Subset
    <3> QED BY <3>1, <3>2, <3>3, AtLeastTwo
  <2>8. /\ Cardinality({RootIn(Nodes(turns, row.space), p) : p \in row.parents} \ {NoRoot}) >= 2
        /\ \A i \in DOMAIN turns :
             /\ turns[i].type = "derived_relation"
             /\ turns[i].space = row.space /\ turns[i].claim = row.claim
             => RootIn(Nodes(turns, row.space), turns[i].id) = NoRoot
    BY <1>3, <2>3, <2>7 DEF root
  <2> HIDE DEF space
  <2> QED BY <2>1, <2>8 DEF DerivesFromIndependent
<1> QED BY <1>4, <1>5

LEMMA AnswerGives ==
  ASSUME ClaimsInv, queue = {}
  PROVE  AnswersDerived
<1> DEFINE same(i, j) == turns[i].space = turns[j].space /\ turns[i].claim = turns[j].claim
           stated == {i \in DOMAIN turns : turns[i].type \in Triggers /\ turns[i].claim # Silent}
           root(roots, i) == roots[turns[i].space][Relation(turns[i].id)]
           valid(roots, i) ==
             {j \in stated : same(i, j) /\ turns[j].sure /\ root(roots, j) # NoRoot}
           twice(roots) ==
             {i \in stated : /\ i \in valid(roots, i) /\ \A j \in valid(roots, i) : i <= j
                             /\ Cardinality({root(roots, j) : j \in valid(roots, i)}) >= 2}
           shallow(i) == Grounded(Nodes(turns, turns[i].space), MaxVisited - 1)
           derived(roots, i, d) == /\ turns[d].type = "derived_relation" /\ same(i, d)
                                   /\ Stands(turns, roots, d) \/ turns[d].gone
<1> SUFFICES ASSUME Consolidating, NEW roots, roots = AllRoots(turns),
                    Cardinality(stated) <= MaxRelations, NEW i \in twice(roots),
                    Cardinality({j \in twice(roots) : j < i}) < MaxCandidates,
                    \A j \in valid(roots, i) : Relation(turns[j].id) \in shallow(i)
             PROVE  \E d \in DOMAIN turns : derived(roots, i, d)
  BY Zenon DEF AnswersDerived, Consolidating
<1>1. /\ IsRows(turns) /\ Len(turns) \in Nat /\ DOMAIN turns = 1..Len(turns)
      /\ \A j \in 1..Len(turns) : /\ Relation(turns[j].id) \in Known(turns)
                                  /\ turns[j].id \in Known(turns) /\ turns[j].space \in Spaces
  BY RowsGive DEF ClaimsInv, FoundedInv, AllFounded, Founded, MemoryInv, MemoryTyped, Known
<1>2. \A j \in 1..Len(turns) :
        /\ root(roots, j) = RootOf(turns, turns[j].space, Relation(turns[j].id))
        /\ roots[turns[j].space][turns[j].id] = RootOf(turns, turns[j].space, turns[j].id)
  BY <1>1, RootsRead
<1>3. stated = Evidence(turns) /\ stated \subseteq 1..Len(turns)
  BY <1>1 DEF Evidence
<1>4. ASSUME NEW j \in 1..Len(turns) PROVE valid(roots, j) = SupportingOf(turns, j)
  <2> HIDE DEF root
  <2> QED BY <1>1, <1>2 DEF SupportingOf, Supporting
<1>5. ASSUME NEW j \in 1..Len(turns) PROVE j \in twice(roots) <=> j \in Firsts(turns)
  <2> DEFINE all == SupportingOf(turns, j)
             found == {root(roots, k) : k \in valid(roots, j)}
  <2>1. valid(roots, j) = all /\ all \subseteq 1..Len(turns)
    BY <1>4 DEF SupportingOf, Supporting
  <2>2. \A k \in all :
          root(roots, k) = RootOf(turns, turns[j].space, Relation(turns[k].id))
    BY <1>2 DEF SupportingOf, Supporting
  <2>3. j \in all => j \in stated
    BY <1>1 DEF SupportingOf, Supporting
  <2>4. j \in Firsts(turns) <=> /\ j \in all /\ \A k \in all : j <= k
                                /\ \E k \in all : root(roots, k) # root(roots, j)
    <3> HIDE DEF root
    <3> QED BY <2>2 DEF Firsts
  <2>5. IsFiniteSet(found)
    <3>1. IsFiniteSet(all)
      <4>1. PICK n : n = Len(turns)
        OBVIOUS
      <4>2. n \in Int /\ 1 \in Int
        <5> HIDE DEF all, found, valid, twice, stated
        <5>1. n \in Nat
          BY <1>1, <4>1
        <5> QED BY <5>1
      <4>3. IsFiniteSet(1..n)
        BY <4>2, FS_Interval
      <4>4. all \in SUBSET (1..n)
        BY <2>1, <4>1
      <4> QED BY <4>3, <4>4, FS_Subset
    <3> DEFINE f == [k \in all |-> root(roots, k)]
    <3>2. f \in Surjection(all, found)
      BY <2>1 DEF Surjection
    <3> HIDE DEF f, found, all
    <3> QED BY <3>1, <3>2, FS_Surjection
  <2>6. found = {root(roots, k) : k \in all}
    BY <2>1
  <2>7. j \in all => (Cardinality(found) >= 2 <=> \E k \in all : root(roots, k) # root(roots, j))
    <3> HIDE DEF found, all, root
    <3>1. ASSUME j \in all, NEW k \in all, root(roots, k) # root(roots, j)
          PROVE  Cardinality(found) >= 2
      <4>1. root(roots, k) \in found /\ root(roots, j) \in found
        BY <2>6, <3>1
      <4> QED BY <2>5, <3>1, <4>1, AtLeastTwo
    <3>2. ASSUME j \in all, Cardinality(found) >= 2
          PROVE  \E k \in all : root(roots, k) # root(roots, j)
      <4>1. PICK a \in found, b \in found : a # b
        BY <3>2, TwoElements
      <4> QED BY <2>6, <4>1
    <3> QED BY <3>1, <3>2
  <2>8. j \in twice(roots) <=> /\ j \in stated /\ j \in all /\ \A k \in all : j <= k
                               /\ Cardinality(found) >= 2
    <3> HIDE DEF root, all
    <3> QED BY <2>1
  <2> HIDE DEF twice, all, found, root, stated
  <2> QED BY <2>3, <2>4, <2>7, <2>8
<1>6. twice(roots) = Firsts(turns) /\ i \in 1..Len(turns)
  <2>1. twice(roots) \subseteq 1..Len(turns) /\ Firsts(turns) \subseteq 1..Len(turns)
    BY <1>3 DEF Firsts
  <2> HIDE DEF twice
  <2> QED BY <1>5, <2>1
<1>7. Warranted(turns, i)
  <2>1. Early(turns, i)
    <3> HIDE DEF twice, stated
    <3> QED BY <1>3, <1>6 DEF Early
  <2>2. Shallow(turns, turns[i].space, turns[i].claim)
    <3>1. valid(roots, i) = Supporting(turns, turns[i].space, turns[i].claim)
      BY <1>4, <1>6 DEF SupportingOf
    <3> HIDE DEF valid
    <3> QED BY <3>1 DEF Shallow
  <2> QED BY <2>1, <2>2 DEF Warranted
<1>8. Met(turns, turns[i].space, turns[i].claim)
  BY <1>6, <1>7 DEF ClaimsInv, LeftToLearn
<1>9. PICK d \in 1..Len(turns) :
        /\ turns[d].type = "derived_relation"
        /\ turns[d].space = turns[i].space /\ turns[d].claim = turns[i].claim
        /\ RootOf(turns, turns[i].space, turns[d].id) # NoRoot \/ turns[d].gone
  BY <1>8 DEF Met
<1>10. Stands(turns, roots, d) \/ turns[d].gone
  BY <1>2, <1>9 DEF Stands
<1> QED BY <1>1, <1>9, <1>10

LEMMA StepDerives ==
  ASSUME ClaimsInv, MobileNext
  PROVE  AnswersDerived /\ DerivesFromIndependent
<1>0. Len(turns) \in Nat
  BY RowsGive DEF ClaimsInv, FoundedInv, MemoryInv, MemoryTyped
<1>1. request.state = "busy" =>
        \/ \E outcome \in Outcomes : DeriveNext(outcome)
        \/ Answer
        \/ Kill
  <2> SUFFICES ASSUME request.state = "busy"
               PROVE  (\E outcome \in Outcomes : DeriveNext(outcome)) \/ Answer \/ Kill
    OBVIOUS
  <2>1. request # Idle /\ request # Down
    BY DEF Idle, Down
  <2>2. /\ \A space, type, claim, sure, parents, corrects, origin, outcome :
             ~Learn(space, type, claim, sure, parents, corrects, origin, outcome)
        /\ \A outcome : ~StoreEpisode(outcome) /\ ~Format(outcome)
        /\ ~Open
    BY <2>1 DEF Learn, StoreEpisode, Format, Open
  <2>3. /\ \A space, type, claim, sure, outcome :
             ~LearnStatement(space, type, claim, sure, outcome)
        /\ \A space, claim, sure, corrects, outcome :
             ~LearnCorrection(space, claim, sure, corrects, outcome)
        /\ \A space, type, claim, sure, parents, origin, outcome :
             ~LearnEcho(space, type, claim, sure, parents, origin, outcome)
    BY <2>2 DEF LearnStatement, LearnCorrection, LearnEcho
  <2> QED BY <2>2, <2>3 DEF MobileNext, MobileStep, FormatStep
<1>2. ASSUME NEW outcome \in Outcomes, DeriveNext(outcome)
      PROVE  AnswersDerived /\ DerivesFromIndependent
  <2>1. request'.state = "busy"
    BY <1>2 DEF DeriveNext, ClaimsInv
  <2> QED BY <1>2, <2>1, DerivesGives DEF AnswersDerived, Idle
<1>3. CASE Answer
  BY <1>0, <1>3, AnswerGives DEF Answer, DerivesFromIndependent
<1>4. CASE Kill
  BY <1>0, <1>4 DEF Kill, Down, Idle, AnswersDerived, DerivesFromIndependent
<1>5. CASE request.state # "busy"
  BY <1>5 DEF AnswersDerived, DerivesFromIndependent
<1> QED BY <1>1, <1>2, <1>3, <1>4, <1>5

\* Whatever the runtime learns, in whatever order, and whatever writes fail: what the
\* consolidation derives rests on different turns of the user and says nothing a
\* derived relation that stands says already; and a claim answered without a
\* failed write leaves none of the first MaxCandidates claims that two turns surely
\* support without its relation, while no more than MaxRelations are stored
\* (maybe_auto_semantic_consolidate).
THEOREM ClaimsAlwaysDerived == MobileSpec => ClaimsDerived
<1>1. MobileSpec => []ClaimsInv
  BY InitClaims, ClaimsIsInductive, PTL DEF MobileSpec
<1>2. ClaimsInv /\ [MobileNext]_mobileVars =>
        [AnswersDerived /\ DerivesFromIndependent]_mobileVars
  BY StepDerives
<1> QED BY <1>1, <1>2, PTL DEF MobileSpec, ClaimsDerived

-----------------------------------------------------------------------------
(* What is answered.  Ids of turns are not given twice, so a row that has  *)
(* the id of an earlier one is derived, and says the same.                 *)

Numbered(rows, last) ==
    /\ \A i \in 1..Len(rows) : \A n \in Nat : rows[i].id = Turn(n) => n <= last
    /\ \A i, j \in 1..Len(rows) : \A n \in Nat :
         rows[i].id = Turn(n) /\ rows[j].id = Turn(n) => i = j

NumberedInv ==
    /\ FoundedInv
    /\ Numbered(turns, counter) /\ (erased.turns = 0 => Numbered(stored.turns, stored.counter))
    /\ request # Down => stored.counter <= counter + 1

LEMMA NumberedLonger ==
  ASSUME NEW rows, IsRows(rows), NEW last \in Nat, NEW next \in Nat, Numbered(rows, last),
         NEW more, NEW row, LongerBy(rows, more, row),
         \/ next = last + 1 /\ row.id = Turn(next)
         \/ next = last /\ row.id[1] = "semantic"
  PROVE  Numbered(more, next)
<1>1. /\ Len(rows) \in Nat /\ Len(more) = Len(rows) + 1
      /\ \A i \in 1..Len(rows) : more[i].id = rows[i].id
      /\ \A i \in 1..Len(more) : i \in 1..Len(rows) \/ i = Len(rows) + 1
      /\ more[Len(rows) + 1] = row
  BY RowsGive DEF LongerBy, SameRow
<1>2. \A n \in Nat : row.id = Turn(n) => n = next /\ n = last + 1
  BY IdsApart
<1>3. \A n \in Nat : \A i \in 1..Len(rows) : more[i].id = Turn(n) => n <= last
  BY <1>1 DEF Numbered
<1>4. last <= next
  OBVIOUS
<1>5. \A i \in 1..Len(more) : \A n \in Nat : more[i].id = Turn(n) => n <= next
  BY <1>1, <1>2, <1>3, <1>4
<1>6. ASSUME NEW i \in 1..Len(more), NEW j \in 1..Len(more), NEW n \in Nat,
             more[i].id = Turn(n), more[j].id = Turn(n)
      PROVE  i = j
  <2>1. CASE i \in 1..Len(rows) /\ j \in 1..Len(rows)
    BY <1>1, <1>6, <2>1 DEF Numbered
  <2>2. CASE i = Len(rows) + 1 /\ j \in 1..Len(rows)
    BY <1>1, <1>2, <1>3, <1>6, <2>2
  <2>3. CASE i \in 1..Len(rows) /\ j = Len(rows) + 1
    BY <1>1, <1>2, <1>3, <1>6, <2>3
  <2>4. CASE i = Len(rows) + 1 /\ j = Len(rows) + 1
    BY <2>4
  <2> QED BY <1>1, <2>1, <2>2, <2>3, <2>4
<1> QED BY <1>5, <1>6 DEF Numbered

LEMMA NumberedOn ==
  ASSUME NEW rows, NEW last \in Nat, NEW next \in Nat, last <= next, Numbered(rows, last)
  PROVE  Numbered(rows, next)
BY DEF Numbered

\* A write that is not reported durable leaves the store one number ahead.
LEMMA StoreNumbers ==
  ASSUME NumberedInv, request # Down, NEW row, IsRow(row), NEW next \in Nat, NEW slots,
         NEW outcome \in Outcomes, Store(row, next, slots, outcome),
         \/ next = counter + 1 /\ row.id = Turn(next)
         \/ next = counter /\ row.id[1] = "semantic"
  PROVE  /\ Numbered(turns', counter')
         /\ erased.turns = 0 => Numbered(stored'.turns, stored'.counter)
         /\ stored'.counter <= counter' + 1
<1>1. /\ counter \in Nat /\ stored.counter \in Nat /\ IsRows(turns) /\ Numbered(turns, counter)
      /\ erased.turns = 0 => Numbered(stored.turns, stored.counter)
      /\ stored.counter <= counter + 1
  BY DEF NumberedInv, FoundedInv, MemoryInv, MemoryTyped
<1>2. /\ IF outcome = "durable" THEN LongerBy(turns, turns', row) ELSE turns' = turns
      /\ IF outcome = "refused" THEN stored' = stored
         ELSE erased.turns = 0 => LongerBy(turns, stored'.turns, row)
  BY StoreExtends DEF NumberedInv, FoundedInv
<1>3. counter' = IF outcome = "durable" THEN next ELSE counter
  BY DEF Store
<1>4. outcome # "refused" => stored'.counter = next
  <2>1. PICK n, new : n = Len(turns) /\ new = Batch(stored, n + 1, row, next, slots)
    OBVIOUS
  <2>2. new.counter = next
    <3>1. new = [turns |-> new.turns, episodes |-> stored.episodes, counter |-> next]
      BY <2>1, BatchRows DEF NumberedInv, FoundedInv
    <3> QED BY <3>1
  <2> QED BY <2>1, <2>2 DEF Store
<1>5. \A more : LongerBy(turns, more, row) => Numbered(more, next)
  BY <1>1, NumberedLonger
<1>6. CASE outcome = "durable"
  BY <1>2, <1>3, <1>4, <1>5, <1>6
<1>7. CASE outcome = "refused"
  BY <1>1, <1>2, <1>3, <1>7
<1>8. CASE outcome = "unsure"
  BY <1>1, <1>2, <1>3, <1>4, <1>5, <1>8
<1> QED BY <1>6, <1>7, <1>8 DEF Outcomes

LEMMA InitNumbered == MobileInit => NumberedInv
<1> SUFFICES ASSUME MobileInit PROVE NumberedInv
  OBVIOUS
<1>1. turns = <<>> /\ stored.turns = <<>> /\ counter = 0 /\ stored.counter = 0
  BY DEF MobileInit, Nothing
<1>2. Numbered(<<>>, 0)
  BY DEF Numbered
<1> QED BY <1>1, <1>2, InitFounded DEF NumberedInv

LEMMA LearnNumbers ==
  ASSUME NumberedInv, NEW space \in Spaces, NEW type, NEW claim, NEW parents, NEW corrects,
         NEW n \in Nat, NEW sure, NEW outcome \in Outcomes,
         Learn(space, type, claim, sure, parents, corrects, Turn(n), outcome)
  PROVE  NumberedInv'
<1> DEFINE slots == {SlotOf(turns, space, c) : c \in corrects}
           row(root) == [id |-> Turn(counter + 1), space |-> space, type |-> type, root |-> root,
                         parents |-> parents \cup corrects, claim |-> claim, sure |-> sure,
                         gone |-> FALSE]
<1>1. /\ \E root : Store(row(root), counter + 1, slots, outcome)
      /\ erased' = erased
  BY DEF Learn
<1>1a. PICK root : Store(row(root), counter + 1, slots, outcome)
  BY <1>1
<1>2. request # Down
  BY DEF Learn, Idle, Down
<1>3. IsRow(row(root)) /\ counter + 1 \in Nat /\ row(root).id = Turn(counter + 1)
  BY DEF IsRow, NumberedInv, FoundedInv, MemoryInv, MemoryTyped
<1> HIDE DEF row, slots
<1>4. /\ Numbered(turns', counter')
      /\ erased.turns = 0 => Numbered(stored'.turns, stored'.counter)
      /\ stored'.counter <= counter' + 1
  BY <1>1a, <1>2, <1>3, StoreNumbers
<1> QED BY <1>1, <1>4, LearnFounded DEF NumberedInv

LEMMA DeriveNumbers ==
  ASSUME NumberedInv, NEW outcome \in Outcomes, DeriveNext(outcome)
  PROVE  NumberedInv'
<1> DEFINE row(next, root) ==
             [id |-> next.id, space |-> next.space, type |-> "derived_relation", root |-> root,
              parents |-> next.parents, claim |-> next.claim, sure |-> TRUE, gone |-> FALSE]
<1>1. PICK next \in queue : \E root : Store(row(next, root), counter, {}, outcome)
  BY DEF DeriveNext
<1>2. PICK root : Store(row(next, root), counter, {}, outcome)
  BY <1>1
<1>3. request # Down /\ erased' = erased
  BY DEF DeriveNext, Down
<1>4. IsRow(row(next, root)) /\ counter \in Nat
  BY DEF IsRow, NumberedInv, FoundedInv, MemoryInv, MemoryTyped
<1>5. row(next, root).id[1] = "semantic"
  BY IdsApart DEF NumberedInv, FoundedInv, Derivable
<1> HIDE DEF row
<1>6. /\ Numbered(turns', counter')
      /\ erased.turns = 0 => Numbered(stored'.turns, stored'.counter)
      /\ stored'.counter <= counter' + 1
  BY <1>2, <1>3, <1>4, <1>5, StoreNumbers
<1> QED BY <1>3, <1>6, DeriveFounded DEF NumberedInv

LEMMA NumberedIsInductive == NumberedInv /\ [MobileNext]_mobileVars => NumberedInv'
<1> SUFFICES ASSUME NumberedInv, [MobileNext]_mobileVars PROVE NumberedInv'
  OBVIOUS
<1>0. FoundedInv' /\ counter \in Nat /\ stored.counter \in Nat
      /\ stored = [turns |-> stored.turns, episodes |-> stored.episodes,
                   counter |-> stored.counter]
  BY FoundedIsInductive DEF NumberedInv, FoundedInv, MemoryInv, MemoryTyped
<1>1. ASSUME NEW outcome \in Outcomes, NEW space \in Spaces, NEW claim, NEW type, NEW sure,
             LearnStatement(space, type, claim, sure, outcome)
      PROVE  NumberedInv'
  BY <1>0, <1>1, LearnNumbers DEF LearnStatement
<1>2. ASSUME NEW outcome \in Outcomes, NEW space \in Spaces, NEW claim, NEW corrects, NEW sure,
             LearnCorrection(space, claim, sure, corrects, outcome)
      PROVE  NumberedInv'
  BY <1>0, <1>2, LearnNumbers DEF LearnCorrection
<1>3. ASSUME NEW outcome \in Outcomes, NEW space \in Spaces, NEW claim, NEW type,
             NEW sure, NEW parents, NEW n \in Nat,
             LearnEcho(space, type, claim, sure, parents, Turn(n), outcome)
      PROVE  NumberedInv'
  BY <1>3, LearnNumbers DEF LearnEcho
<1>4. ASSUME NEW outcome \in Outcomes, DeriveNext(outcome) PROVE NumberedInv'
  BY <1>4, DeriveNumbers
<1>5. ASSUME NEW outcome \in Outcomes, StoreEpisode(outcome) PROVE NumberedInv'
  <2>1. turns' = turns /\ request # Down /\ request' = request /\ erased' = erased
    BY <1>5 DEF StoreEpisode, Idle, Down
  <2>2. stored'.turns = stored.turns
        /\ stored'.counter = IF outcome = "refused" THEN stored.counter ELSE counter + 1
    <3>1. \/ stored' = stored /\ outcome = "refused"
          \/ /\ outcome # "refused"
             /\ \E e : stored' = [stored EXCEPT !.episodes = e, !.counter = counter + 1]
      BY <1>5 DEF StoreEpisode
    <3> QED BY <1>0, <3>1
  <2>3. counter' = IF outcome = "durable" THEN counter + 1 ELSE counter
    BY <1>5 DEF StoreEpisode
  <2>4. /\ Numbered(turns, counter)
        /\ erased.turns = 0 => Numbered(stored.turns, stored.counter)
        /\ stored.counter <= counter + 1
    BY <2>1 DEF NumberedInv
  <2>5. /\ Numbered(turns, counter + 1)
        /\ erased.turns = 0 => Numbered(stored.turns, counter + 1)
        /\ counter + 1 \in Nat
    BY <1>0, <2>4, NumberedOn
  <2>6. Numbered(turns', counter') /\ (erased.turns = 0 => Numbered(stored'.turns, stored'.counter))
    BY <2>1, <2>2, <2>3, <2>4, <2>5
  <2>7. stored'.counter <= counter' + 1
    BY <1>0, <1>5, <2>2, <2>3, <2>4 DEF Outcomes
  <2> QED BY <1>0, <2>1, <2>6, <2>7 DEF NumberedInv
<1>6. CASE Answer
  BY <1>0, <1>6 DEF Answer, Idle, Down, NumberedInv
<1>7. CASE Kill
  <2>1. Numbered(<<>>, 0)
    BY DEF Numbered
  <2> QED BY <1>0, <1>7, <2>1 DEF Kill, NumberedInv
<1>8. CASE Open
  <2>1. /\ turns' = stored.turns /\ counter' = stored.counter /\ stored' = stored
        /\ erased'.turns = 0
    BY <1>8 DEF Open, NoneErased
  <2>2. Numbered(stored.turns, stored.counter)
    <3>1. erased.turns = 0 \/ DOMAIN stored.turns = {}
      BY <1>8, OpenedWhole DEF NumberedInv, FoundedInv
    <3>2. IsRows(stored.turns)
      BY <1>0, <2>1 DEF FoundedInv, MemoryInv, MemoryTyped
    <3>3. DOMAIN stored.turns = 1..Len(stored.turns)
      BY <3>2, RowsGive
    <3>4. CASE DOMAIN stored.turns = {}
      BY <3>3, <3>4 DEF Numbered
    <3> QED BY <3>1, <3>4 DEF NumberedInv
  <2> QED BY <1>0, <2>1, <2>2 DEF NumberedInv
<1>9. ASSUME NEW outcome, Format(outcome) PROVE NumberedInv'
  <2>1. Numbered(<<>>, 0) /\ request # Down
    BY <1>9 DEF Numbered, Format, Idle, Down
  <2>2. CASE outcome = "refused"
    BY <1>0, <1>9, <2>2 DEF Format, NumberedInv
  <2>3. CASE outcome # "refused"
    <3>1. stored'.turns = <<>> /\ stored'.counter = 0
      BY <1>9, <2>3 DEF Format, Nothing
    <3>2. (turns' = turns /\ counter' = counter) \/ (turns' = <<>> /\ counter' = 0)
      BY <1>9, <2>3 DEF Format
    <3>3. Numbered(turns', counter') /\ counter' \in Nat
      BY <1>0, <2>1, <3>2 DEF NumberedInv
    <3> QED BY <1>0, <2>1, <3>1, <3>3 DEF NumberedInv
  <2> QED BY <2>2, <2>3
<1>10. CASE UNCHANGED mobileVars
  BY <1>0, <1>10 DEF mobileVars, NumberedInv
<1>11. \A outcome, space, claim, sure, type :
         (\E origin \in {Turn(n) : n \in 1..MaxTurns} :
            LearnEcho(space, type, claim, sure, {}, origin, outcome)) =>
         \E n \in Nat : LearnEcho(space, type, claim, sure, {}, Turn(n), outcome)
  OBVIOUS
<1>12. counter + 1 \in Nat
  BY <1>0
<1>13. CASE FormatStep
  BY <1>9, <1>13 DEF FormatStep
<1>14. CASE MobileStep(Values \cup {Silent}, BOOLEAN, Outcomes)
  <2>1. ASSUME NEW outcome \in Outcomes, NEW space \in Spaces, NEW claim, NEW sure,
               \/ \E type \in UserTypes : LearnStatement(space, type, claim, sure, outcome)
               \/ \E corrects : LearnCorrection(space, claim, sure, corrects, outcome)
        PROVE  NumberedInv'
    BY <1>1, <1>2, <2>1
  <2>2. ASSUME NEW outcome \in Outcomes, NEW space \in Spaces, NEW claim, NEW sure, NEW type,
               \/ \E parents : LearnEcho(space, type, claim, sure, parents, Turn(counter + 1), outcome)
               \/ \E origin \in {Turn(n) : n \in 1..MaxTurns} :
                    LearnEcho(space, type, claim, sure, {}, origin, outcome)
        PROVE  NumberedInv'
    BY <1>3, <1>11, <1>12, <2>2
  <2> QED BY <1>4, <1>5, <1>6, <1>7, <1>8, <1>14, <2>1, <2>2 DEF MobileStep
<1> QED BY <1>10, <1>13, <1>14 DEF MobileNext

-----------------------------------------------------------------------------

\* The first row with an id: the row itself, or a derived one that says the same.
LEMMA SlotFinds ==
  ASSUME NumberedInv, NEW i \in 1..Len(turns), NEW space, space = turns[i].space
  PROVE  LET slot == SlotOf(turns, space, turns[i].id)
         IN  /\ slot \in 1..Len(turns) /\ slot <= i
             /\ turns[slot].space = space /\ turns[slot].id = turns[i].id
             /\ turns[slot].type = turns[i].type /\ turns[slot].claim = turns[i].claim
<1> DEFINE found == {j \in 1..Len(turns) : turns[j].space = space /\ turns[j].id = turns[i].id}
           slot == SlotOf(turns, space, turns[i].id)
<1>1. Len(turns) \in Nat /\ IsRows(turns) /\ AllFounded(turns) /\ Numbered(turns, counter)
  BY RowsGive DEF NumberedInv, FoundedInv, MemoryInv, MemoryTyped
<1>2. slot = IF found # {} THEN Min(found) ELSE 0
  BY DEF SlotOf, SelectInSeq
<1>3. found \in SUBSET Nat /\ i \in found
  BY <1>1
<1>4. slot \in found /\ slot <= i
  <2> HIDE DEF found, slot
  <2> QED BY <1>2, <1>3, MinExists
<1>5. slot \in 1..Len(turns) /\ turns[slot].space = space /\ turns[slot].id = turns[i].id
  BY <1>4
<1> HIDE DEF slot, found
<1>6. turns[slot].type = turns[i].type /\ turns[slot].claim = turns[i].claim
  <2>1. CASE \E n \in Nat : turns[i].id = Turn(n)
    <3>1. slot = i
      BY <1>1, <1>5, <2>1 DEF Numbered
    <3> QED BY <3>1
  <2>2. CASE ~ \E n \in Nat : turns[i].id = Turn(n)
    <3>1. Derived(turns, turns[i]) /\ Derived(turns, turns[slot])
      BY <1>1, <1>5, <2>2 DEF AllFounded, Founded
    <3>2. Semantic(turns[slot].claim, turns[slot].parents)
            = Semantic(turns[i].claim, turns[i].parents)
      BY <1>5, <3>1 DEF Derived
    <3>3. turns[slot].claim = turns[i].claim
      BY <3>2, IdsApart
    <3> QED BY <3>1, <3>3 DEF Derived
  <2> QED BY <2>1, <2>2
<1> QED BY <1>4, <1>5, <1>6 DEF slot

\* What a source is.
LEMMA SourcesAre ==
  ASSUME NumberedInv, NEW space \in Spaces, NEW roots, roots = AllRoots(turns),
         NEW sources, sources = Sources(roots, space)
  PROVE  /\ \A n \in DOMAIN sources :
              /\ n \in 1..Len(turns) /\ turns[n].space = space
              /\ sources[n].id = turns[n].id /\ sources[n].text = turns[n].claim
              /\ sources[n].type = turns[n].type
              /\ sources[n].root = RootOf(turns, space, turns[n].id)
              /\ sources[n].root # NoRoot
              /\ sources[n].authority = Authority(SlotOf(turns, space, sources[n].root))
         /\ \A n \in 1..Len(turns) :
              turns[n].space = space =>
                /\ Stands(turns, roots, n) <=> RootOf(turns, space, turns[n].id) # NoRoot
                /\ Stands(turns, roots, n) => n \in DOMAIN sources
<1> DEFINE standing == {i \in DOMAIN turns : turns[i].space = space /\ Stands(turns, roots, i)}
           root(i) == roots[space][turns[i].id]
<1>1. DOMAIN turns = 1..Len(turns) /\ \A n \in 1..Len(turns) : turns[n].id \in Known(turns)
  BY RowsGive, IdsAreKnown DEF NumberedInv, FoundedInv, MemoryInv, MemoryTyped
<1>2. \A n \in 1..Len(turns) : root(n) = RootOf(turns, space, turns[n].id)
  BY <1>1, RootsRead
<1>3. sources = [i \in standing |->
           [id |-> turns[i].id, text |-> turns[i].claim, order |-> i, type |-> turns[i].type,
            root |-> root(i), authority |-> Authority(SlotOf(turns, space, root(i)))]]
  BY DEF Sources
<1>4. \A n \in 1..Len(turns) : turns[n].space = space =>
        (Stands(turns, roots, n) <=> RootOf(turns, space, turns[n].id) # NoRoot)
  BY <1>2 DEF Stands
<1> HIDE DEF root
<1>5. \A n \in DOMAIN sources :
        /\ n \in standing
        /\ sources[n] = [id |-> turns[n].id, text |-> turns[n].claim, order |-> n,
                         type |-> turns[n].type, root |-> root(n),
                         authority |-> Authority(SlotOf(turns, space, root(n)))]
  BY <1>3
<1>6. \A n \in standing : n \in DOMAIN sources
  BY <1>3
<1> QED BY <1>1, <1>2, <1>4, <1>5, <1>6

\* The root of a source is a source itself, a turn of the user's.
LEMMA RootIsSource ==
  ASSUME NumberedInv, NEW space \in Spaces, NEW roots, roots = AllRoots(turns),
         NEW sources, sources = Sources(roots, space), NEW n \in DOMAIN sources
  PROVE  LET first == FirstWith(sources, sources[n].root)
         IN  first \in DOMAIN sources /\ sources[first].type \in FactualRoots
<1> DEFINE nodes == Nodes(turns, space)
           root == sources[n].root
           found == {m \in DOMAIN sources : sources[m].id = root}
<1>1. /\ IsRows(turns) /\ AllFounded(turns) /\ Len(turns) \in Nat
      /\ Followed(nodes) /\ DOMAIN nodes = Known(turns)
      /\ \A i \in 1..Len(turns) : turns[i].id \in Known(turns)
      /\ \A id \in Known(turns) : nodes[id] = NodeAt(turns, space, id)
  BY RowsGive, RowsAreFollowed, IdsAreKnown
     DEF NumberedInv, FoundedInv, MemoryInv, MemoryTyped, Nodes
<1> HIDE DEF nodes
<1>2. n \in 1..Len(turns) /\ root = RootIn(nodes, turns[n].id) /\ root # NoRoot
  BY SourcesAre DEF RootOf, nodes
<1>3. IsRoot(nodes, root)
  BY <1>1, <1>2, SearchFindsLineage
<1> HIDE DEF root
<1>4. PICK f : BornBy(turns, space, root, f) /\ nodes[root] = NodeOf(turns[f], root)
  BY <1>1, <1>3, NodeReads DEF IsRoot
<1>5. f \in 1..Len(turns) /\ turns[f].space = space
  BY <1>4 DEF BornBy, Bears
<1>6. turns[f].id = root /\ turns[f].type \in FactualRoots
  BY <1>3, <1>4 DEF IsRoot, NodeOf, FactualRoots
<1>7. RootOf(turns, space, root) # NoRoot
  <2>1. MaxVisited \in Nat /\ 1 \in 1..MaxVisited /\ MaxVisited \in 0..MaxVisited
        /\ 1 \in 0..MaxVisited /\ MaxVisited \in 1..MaxVisited
    BY VisitedAssumption
  <2>2. PICK grown : /\ Growth(nodes, MaxVisited, grown)
                    /\ Grounded(nodes, MaxVisited) = grown[MaxVisited]
    BY <2>1, GrowthGives
  <2>3. grown[MaxVisited] = Rests(nodes, grown[MaxVisited - 1])
    BY <2>1, <2>2 DEF Growth
  <2>4. root \in Grounded(nodes, MaxVisited)
    BY <1>3, <2>2, <2>3 DEF IsRoot, Rests
  <2> QED BY <1>1, <1>3, <2>4, SearchFindsLineage DEF RootOf, IsRoot, nodes
<1>8. f \in DOMAIN sources /\ sources[f].id = root
  BY <1>5, <1>6, <1>7, SourcesAre
<1>9. FirstWith(sources, root) = Min(found) /\ found # {} /\ found \in SUBSET Nat
  <2>1. \A m \in DOMAIN sources : m \in 1..Len(turns)
    BY SourcesAre
  <2> QED BY <1>1, <1>8, <2>1 DEF FirstWith, root
<1>10. Min(found) \in found
  <2> HIDE DEF found
  <2> QED BY <1>9, MinExists
<1>11. PICK first : first = Min(found) /\ first \in DOMAIN sources /\ sources[first].id = root
  BY <1>10
<1>12. first \in 1..Len(turns) /\ turns[first].id = root /\ sources[first].type = turns[first].type
       /\ turns[first].space = space
  BY <1>11, SourcesAre
<1>13. turns[first].type \in FactualRoots
  <2>1. turns[SlotOf(turns, space, root)].type = turns[first].type
    BY <1>12, SlotFinds
  <2>2. turns[SlotOf(turns, space, root)].type = turns[f].type
    BY <1>5, <1>6, SlotFinds
  <2> QED BY <1>6, <2>1, <2>2
<1> QED BY <1>9, <1>11, <1>12, <1>13 DEF root

\* An id answered from a source is that of a row that stands and says the same.
AnswersAs(space, roots, source, id) ==
    LET slot == SlotOf(turns, space, id)
    IN  /\ slot # 0 /\ Stands(turns, roots, slot)
        /\ turns[slot].type = source.type

LEMMA SourceStands ==
  ASSUME NumberedInv, NEW space \in Spaces, NEW roots, roots = AllRoots(turns),
         NEW sources, sources = Sources(roots, space), NEW n \in DOMAIN sources
  PROVE  /\ AnswersAs(space, roots, sources[n], sources[n].id)
         /\ LET slot == SlotOf(turns, space, sources[n].id)
            IN  /\ slot \in DOMAIN sources /\ slot <= n
                /\ sources[slot].text = sources[n].text /\ sources[slot].type = sources[n].type
                /\ sources[slot].root = sources[n].root
                /\ sources[slot].authority = sources[n].authority
<1> DEFINE slot == SlotOf(turns, space, sources[n].id)
<1>1. /\ n \in 1..Len(turns) /\ turns[n].space = space
      /\ sources[n].id = turns[n].id /\ sources[n].text = turns[n].claim
      /\ sources[n].type = turns[n].type
      /\ sources[n].root = RootOf(turns, space, turns[n].id) /\ sources[n].root # NoRoot
      /\ sources[n].authority = Authority(SlotOf(turns, space, sources[n].root))
  BY SourcesAre
<1>2. /\ slot \in 1..Len(turns) /\ slot <= n
      /\ turns[slot].space = space /\ turns[slot].id = turns[n].id
      /\ turns[slot].type = turns[n].type /\ turns[slot].claim = turns[n].claim
  BY <1>1, SlotFinds
<1> HIDE DEF slot
<1>3. Stands(turns, roots, slot) /\ slot \in DOMAIN sources
  BY <1>1, <1>2, SourcesAre
<1>4. /\ sources[slot].text = turns[slot].claim /\ sources[slot].type = turns[slot].type
      /\ sources[slot].root = RootOf(turns, space, turns[slot].id)
      /\ sources[slot].authority = Authority(SlotOf(turns, space, sources[slot].root))
  BY <1>3, SourcesAre
<1>5. slot # 0
  BY <1>2
<1> QED BY <1>1, <1>2, <1>3, <1>4, <1>5 DEF slot, AnswersAs

-----------------------------------------------------------------------------

\* The state of the search for the best source.
Weighings(sources) == [best : {0} \cup DOMAIN sources, rank : Int, unsure : BOOLEAN]

LEMMA AuthorityIs == ASSUME NEW i PROVE Authority(i) \in {100, 95, 35}
BY DEF Authority

LEMMA WeighTyped ==
  ASSUME NEW query, IsFiniteSet(query.words), NEW sources, NEW n \in DOMAIN sources,
         sources[n].authority \in {100, 95, 35}, NEW state \in Weighings(sources)
  PROVE  Weigh(query, sources, state, n) \in Weighings(sources)
<1> DEFINE overlap == Overlap(query.words, Words[sources[n].text])
           rank == 45 * overlap + (660 * sources[n].authority) \div 100
           doubt == state.unsure \/ (sources[n].root # sources[state.best].root
                                       /\ sources[n].text # sources[state.best].text)
           best == IF ~doubt /\ sources[n].order > sources[state.best].order THEN n ELSE state.best
<1>1. rank \in Int
  <2>1. overlap \in Nat
    BY OverlapIsNat
  <2>2. (660 * 100) \div 100 \in Int /\ (660 * 35) \div 100 \in Int
    OBVIOUS
  <2>3. (660 * sources[n].authority) \div 100 \in Int
    BY <2>2
  <2> HIDE DEF overlap
  <2> QED BY <2>1, <2>3
<1> HIDE DEF overlap
<1>2. [best |-> n, rank |-> rank, unsure |-> FALSE] \in Weighings(sources)
  <2> HIDE DEF rank
  <2> QED BY <1>1 DEF Weighings
<1>3. [state EXCEPT !.unsure = doubt, !.best = best] \in Weighings(sources)
  <2>1. doubt \in BOOLEAN
    OBVIOUS
  <2>2. best \in {0} \cup DOMAIN sources
    BY DEF Weighings
  <2> HIDE DEF doubt, best
  <2> QED BY <2>1, <2>2 DEF Weighings
<1>4. \/ Weigh(query, sources, state, n) = state
      \/ Weigh(query, sources, state, n) = [best |-> n, rank |-> rank, unsure |-> FALSE]
      \/ Weigh(query, sources, state, n) = [state EXCEPT !.unsure = doubt, !.best = best]
  <2>1. state.best = state.best
    OBVIOUS
  <2>2. \/ Weigh(query, sources, state, n) = state
        \/ Weigh(query, sources, state, n) = [best |-> n, rank |-> rank, unsure |-> FALSE]
        \/ Weigh(query, sources, state, n)
             = [state EXCEPT !.unsure = doubt,
                             !.best = IF ~doubt /\ sources[n].order > sources[state.best].order
                                      THEN n ELSE @]
    BY DEF Weigh, overlap
  <2> QED BY <2>2
<1> QED BY <1>2, <1>3, <1>4

\* The semantic answer names a source that the assistant did not generate.
LEMMA SemanticNames ==
  ASSUME NumberedInv, NEW space \in Spaces, NEW roots, roots = AllRoots(turns),
         NEW sources, sources = Sources(roots, space),
         NEW query, IsFiniteSet(query.words), SemanticAnswer(query, sources) # None
  PROVE  \E n \in DOMAIN sources :
           /\ SemanticAnswer(query, sources) = <<sources[n].id>>
           /\ sources[n].type # "assistant_generated"
<1> DEFINE N == Len(turns)
           S == Weighings(sources)
           step == [p \in S \X (1..N) |-> IF p[2] \notin DOMAIN sources THEN p[1]
                                          ELSE Weigh(query, sources, p[1], p[2])]
           Is(f) == f = [n \in 0..N |-> IF n = 0 THEN Unmatched
                                        ELSE IF n \notin DOMAIN sources THEN f[n - 1]
                                        ELSE Weigh(query, sources, f[n - 1], n)]
           after == CHOOSE f : Is(f)
<1>1. N \in Nat /\ Unmatched \in S
  <2>1. N \in Nat
    BY RowsGive DEF NumberedInv, FoundedInv, MemoryInv, MemoryTyped
  <2> QED BY <2>1 DEF Unmatched, Weighings
<1>2. \A n \in DOMAIN sources : sources[n].authority \in {100, 95, 35}
  BY SourcesAre, AuthorityIs
<1>3. \A n \in DOMAIN sources, x \in S : Weigh(query, sources, x, n) \in S
  BY <1>2, WeighTyped
<1> HIDE DEF S, N
<1>4. step \in Steps(S, N)
  BY <1>3 DEF Steps
<1>5. \A x \in S, n \in 1..N : step[<<x, n>>] = IF n \notin DOMAIN sources THEN x
                                             ELSE Weigh(query, sources, x, n)
  OBVIOUS
<1> HIDE DEF step
<1>6. PICK f \in [0..N -> S] : f[0] = Unmatched /\ \A n \in 1..N : f[n] = step[<<f[n - 1], n>>]
  <2>1. ValuesOf(S, N, Unmatched, step) # {}
    BY <1>1, <1>4, StepwiseExists
  <2> QED BY <2>1 DEF ValuesOf
<1>7. Is(f)
  <2>1. \A n \in 0..N : n # 0 => n \in 1..N /\ n - 1 \in 0..N
    BY <1>1
  <2>2. \A n \in 0..N : f[n] = IF n = 0 THEN Unmatched
                               ELSE IF n \notin DOMAIN sources THEN f[n - 1]
                               ELSE Weigh(query, sources, f[n - 1], n)
    BY <1>5, <1>6, <2>1
  <2> QED BY <2>2
<1>8. Is(after)
  BY <1>7
<1>9. SemanticAnswer(query, sources) =
        IF after[N].best = 0 \/ after[N].unsure THEN None
        ELSE <<sources[Canonical(sources, after[N].best)].id>>
  BY DEF SemanticAnswer, N
<1> HIDE DEF after
<1> DEFINE P == {n \in 0..N : after[n] \in S}
<1>10. 0..N \subseteq P
  <2>1. 0 \in P
    <3>1. 0 \in 0..N
      BY <1>1
    <3>2. after[0] = Unmatched
      BY <1>8, <3>1
    <3> QED BY <1>1, <3>1, <3>2
  <2>2. ASSUME NEW n \in 0..N, n < N, n \in P PROVE n + 1 \in P
    <3>1. n + 1 \in 0..N /\ (n + 1) - 1 = n /\ n + 1 # 0
      BY <1>1, <2>2
    <3>2. after[n + 1] = IF n + 1 \notin DOMAIN sources THEN after[n]
                         ELSE Weigh(query, sources, after[n], n + 1)
      BY <1>8, <3>1
    <3>3. after[n] \in S
      BY <2>2
    <3>4. after[n + 1] \in S
      BY <1>3, <3>2, <3>3
    <3> QED BY <3>1, <3>4
  <2> HIDE DEF P
  <2> QED BY <1>1, <2>1, <2>2, Upwards
<1>11. after[N] \in S
  <2>1. N \in 0..N
    BY <1>1
  <2> QED BY <1>10, <2>1
<1>12. PICK best : best = after[N].best /\ best \in DOMAIN sources
  BY <1>9, <1>11 DEF S, Weighings
<1>13. SemanticAnswer(query, sources) = <<sources[Canonical(sources, best)].id>>
  BY <1>9, <1>12
<1>14. CASE sources[best].type = "derived_relation"
  <2>1. Canonical(sources, best) = best
    BY <1>14 DEF Canonical
  <2> QED BY <1>12, <1>13, <1>14, <2>1
<1>15. CASE sources[best].type # "derived_relation"
  <2>1. PICK first : first = FirstWith(sources, sources[best].root)
    OBVIOUS
  <2>2. first \in DOMAIN sources /\ sources[first].type \in FactualRoots
    BY <1>12, <2>1, RootIsSource
  <2>3. Canonical(sources, best) = first
    BY <1>15, <2>1 DEF Canonical
  <2> QED BY <1>13, <2>2, <2>3 DEF FactualRoots
<1> QED BY <1>14, <1>15

LEMMA SingleNames ==
  ASSUME NEW query, NEW window, NEW sources, Single(query, window, sources) # None
  PROVE  \E n \in DOMAIN sources : Single(query, window, sources) = <<sources[n].id>>
<1> DEFINE score(n) == Score(query, window, sources[n])
           considered ==
             {n \in DOMAIN sources :
                /\ Retrievable(sources[n])
                /\ \/ Overlap(query.words, Words[sources[n].text]) > 4
                   \/ FromWindow(query, window, sources[n]) > 0}
           clear == {n \in considered :
                       /\ score(n) >= Enough
                       /\ \A m \in considered \ {n} : score(n) - score(m) >= Margin}
           it == CHOOSE n \in clear : TRUE
<1>1. Single(query, window, sources) = IF clear = {} THEN None ELSE <<sources[it].id>>
  BY DEF Single
<1>2. clear \subseteq DOMAIN sources
  OBVIOUS
<1>3. clear # {} => it \in clear
  OBVIOUS
<1> HIDE DEF clear, it
<1> QED BY <1>1, <1>2, <1>3

LEMMA PairNames ==
  ASSUME NEW query, NEW window, NEW sources, NEW last \in Nat, NEW candidates \in SUBSET (1..last),
         Pair(query, window, candidates, sources) # None
  PROVE  \E n, m \in candidates :
           n < m /\ Pair(query, window, candidates, sources) = <<sources[n].id, sources[m].id>>
<1> DEFINE score(n) == Score(query, window, sources[n])
           better(n) == {m \in candidates \ {n} :
                           score(m) > score(n) \/ (score(m) = score(n) /\ m < n)}
           two == {n \in candidates : Cardinality(better(n)) < 2}
           apart == \A m \in candidates \ two : \A n \in two : score(n) - score(m) >= Margin
<1>1. Pair(query, window, candidates, sources) =
        IF Cardinality(two) < 2 \/ ~apart THEN None
        ELSE <<sources[Min(two)].id, sources[Max(two)].id>>
  BY DEF Pair
<1>2. two \in SUBSET candidates
  OBVIOUS
<1> HIDE DEF two, apart
<1>3. IsFiniteSet(two) /\ two \in SUBSET Nat
  <2>1. IsFiniteSet(1..last)
    BY FS_Interval
  <2>2. two \in SUBSET (1..last)
    BY <1>2
  <2>3. IsFiniteSet(two)
    BY <2>1, <2>2, FS_Subset
  <2>4. 1..last \subseteq Nat
    OBVIOUS
  <2> QED BY <2>2, <2>3, <2>4
<1>4. Cardinality(two) >= 2
  <2>1. Cardinality(two) \in Nat
    BY <1>3, FS_CardinalityType
  <2> QED BY <1>1, <2>1
<1>5. PICK a \in two, b \in two : a # b
  BY <1>4, TwoElements
<1>6. Min(two) \in two /\ \A j \in two : Min(two) <= j
  BY <1>3, <1>5, MinExists
<1>7. Max(two) \in two /\ \A j \in two : j <= Max(two)
  <2>1. \E m \in two : \A j \in two : j <= m
    BY <1>3, <1>5, MaxExists
  <2>2. Max(two) = CHOOSE m \in two : \A j \in two : m >= j
    BY DEF Max
  <2>3. \E m \in two : \A j \in two : m >= j
    BY <1>3, <2>1
  <2>4. Max(two) \in two /\ \A j \in two : Max(two) >= j
    BY <2>2, <2>3
  <2> QED BY <1>3, <2>4
<1>8. Min(two) < Max(two)
  <2>1. PICK low, high : low = Min(two) /\ high = Max(two)
    OBVIOUS
  <2>2. low \in Nat /\ high \in Nat /\ a \in Nat /\ b \in Nat
    BY <1>3, <1>5, <1>6, <1>7, <2>1
  <2>3. low <= a /\ low <= b /\ a <= high /\ b <= high
    BY <1>5, <1>6, <1>7, <2>1
  <2> QED BY <1>5, <2>1, <2>2, <2>3
<1> QED BY <1>1, <1>2, <1>4, <1>6, <1>7, <1>8

-----------------------------------------------------------------------------
\* A window is a list of texts of finitely many words, a query one text and the
\* texts it can be written again as.
IsWindow(window) ==
    /\ Len(window) \in Nat /\ DOMAIN window = 1..Len(window)
    /\ \A j \in DOMAIN window : IsFiniteSet(window[j].words)
IsQuery(query) ==
    IsFiniteSet(query.words) /\ \A q \in query.again : IsFiniteSet(q.words)

LEMMA FromWindowIsInt ==
  ASSUME NEW query, NEW window, IsWindow(window), NEW source
  PROVE  FromWindow(query, window, source) \in Int
<1> DEFINE ours == {j \in DOMAIN window : window[j].ours}
           brought(j) == Overlap(window[j].words, Words[source.text])
                           * Weight(j, Len(window), query.direction)
           all == {brought(j) : j \in ours}
           high == {x \in {0} \cup all : x \in Nat}
<1>1. \A j \in ours : brought(j) \in Int
  <2> SUFFICES ASSUME NEW j \in ours PROVE brought(j) \in Int
    OBVIOUS
  <2>1. PICK count \in Nat : count = Len(window) /\ j \in 1..count
    BY DEF IsWindow
  <2>2. count > 0 /\ j \in Nat
    BY <2>1
  <2>3. (18 * j) \div count \in Int
    BY <2>2
  <2>4. Weight(j, count, query.direction) \in Int
    BY <2>3 DEF Weight
  <2>5. Overlap(window[j].words, Words[source.text]) \in Nat
    BY OverlapIsNat DEF IsWindow
  <2>6. PICK x \in Nat, y \in Int : x = Overlap(window[j].words, Words[source.text])
                                    /\ y = Weight(j, Len(window), query.direction)
    BY <2>1, <2>4, <2>5
  <2>7. brought(j) = x * y
    BY <2>6
  <2> HIDE DEF brought
  <2> QED BY <2>7
<1>2. IsFiniteSet({0} \cup all)
  <2>1. IsFiniteSet(ours)
    <3>1. IsFiniteSet(1..Len(window)) /\ ours \subseteq 1..Len(window)
      BY FS_Interval DEF IsWindow
    <3> QED BY <3>1, FS_Subset
  <2>2. IsFiniteSet(all)
    <3> HIDE DEF ours
    <3> DEFINE f == [j \in ours |-> brought(j)]
    <3>1. f \in Surjection(ours, all)
      BY DEF Surjection
    <3> HIDE DEF f, all
    <3> QED BY <2>1, <3>1, FS_Surjection
  <2> HIDE DEF all
  <2> QED BY <2>2, FS_AddElement
<1>3. all \subseteq Int
  BY <1>1
<1>4. FromWindow(query, window, source) = Max({0} \cup all)
  BY DEF FromWindow
<1> HIDE DEF all
<1>5. PICK m \in high : \A j \in high : j <= m
  <2>1. high \subseteq {0} \cup all /\ high \in SUBSET Nat /\ 0 \in high
    OBVIOUS
  <2> HIDE DEF high
  <2>2. IsFiniteSet(high)
    BY <1>2, <2>1, FS_Subset
  <2> QED BY <2>1, <2>2, MaxExists
<1>6. m \in {0} \cup all /\ \A j \in {0} \cup all : m >= j
  BY <1>3, <1>5
<1>7. Max({0} \cup all) \in {0} \cup all
  <2>1. PICK some : some = {0} \cup all
    OBVIOUS
  <2>2. Max(some) = CHOOSE x \in some : \A j \in some : x >= j
    BY DEF Max
  <2>3. \E x \in some : \A j \in some : x >= j
    BY <1>6, <2>1
  <2>4. Max(some) \in some
    BY <2>2, <2>3
  <2> QED BY <2>1, <2>4
<1>8. PICK x : x = Max({0} \cup all)
  OBVIOUS
<1>9. x \in {0} \cup all
  BY Zenon, <1>7, <1>8
<1>10. x \in Int
  BY <1>3, <1>9
<1> QED BY Zenon, <1>4, <1>8, <1>10

LEMMA ScoreIsInt ==
  ASSUME NEW query, IsFiniteSet(query.words), NEW window, IsWindow(window),
         NEW source, source.authority \in {100, 95, 35}
  PROVE  Score(query, window, source) \in Int
<1>1. PICK x \in Int, y \in Int : /\ x = Overlap(query.words, Words[source.text])
                                /\ y = FromWindow(query, window, source)
  BY OverlapIsNat, FromWindowIsInt
<1>2. source.authority \in Int
  OBVIOUS
<1>3. Score(query, window, source) = 2320 * x + 27 * y + 72 * source.authority
  BY <1>1 DEF Score
<1> QED BY <1>2, <1>3

\* The antecedents of a pair rest on different turns, and an id names each.
LEMMA AntecedentsApart ==
  ASSUME NumberedInv, NEW space \in Spaces, NEW roots, roots = AllRoots(turns),
         NEW sources, sources = Sources(roots, space),
         NEW query, IsFiniteSet(query.words), NEW window, IsWindow(window),
         NEW found, found = Antecedents(query, window, sources), NEW n \in found
  PROVE  /\ n \in DOMAIN sources
         /\ SlotOf(turns, space, sources[n].id) = n
         /\ \A m \in found : sources[m].root = sources[n].root => m = n
<1> DEFINE score(i) == Score(query, window, sources[i])
           enough == {i \in DOMAIN sources :
                        /\ Retrievable(sources[i])
                        /\ FromWindow(query, window, sources[i]) > 0
                        /\ score(i) >= Enough}
<1>1. \A i \in DOMAIN sources : score(i) \in Int /\ i \in Nat
  <2>1. \A i \in DOMAIN sources : sources[i].authority \in {100, 95, 35} /\ i \in 1..Len(turns)
    BY SourcesAre, AuthorityIs
  <2>2. \A i \in DOMAIN sources : score(i) \in Int
    BY <2>1, ScoreIsInt
  <2>3. Len(turns) \in Nat
    BY RowsGive DEF NumberedInv, FoundedInv, MemoryInv, MemoryTyped
  <2> QED BY <2>1, <2>2, <2>3
<1>2. \A i \in found :
        /\ i \in enough
        /\ \A m \in enough : sources[m].root = sources[i].root =>
             score(i) > score(m) \/ (score(i) = score(m) /\ i <= m)
  BY DEF Antecedents
<1>3. n \in enough /\ n \in DOMAIN sources
  BY <1>2
<1>4. SlotOf(turns, space, sources[n].id) = n
  <2>1. PICK slot : slot = SlotOf(turns, space, sources[n].id)
    OBVIOUS
  <2>2. /\ slot \in DOMAIN sources /\ slot <= n
        /\ sources[slot].text = sources[n].text /\ sources[slot].type = sources[n].type
        /\ sources[slot].root = sources[n].root
        /\ sources[slot].authority = sources[n].authority
    BY <1>3, <2>1, SourceStands
  <2>3. /\ FromWindow(query, window, sources[slot]) = FromWindow(query, window, sources[n])
        /\ Retrievable(sources[slot]) = Retrievable(sources[n])
    BY <2>2 DEF FromWindow, Retrievable
  <2>4. score(slot) = score(n)
    BY <2>2, <2>3 DEF Score
  <2>5. slot \in enough
    BY <1>3, <2>2, <2>3, <2>4
  <2>6. score(n) > score(slot) \/ (score(n) = score(slot) /\ n <= slot)
    BY <1>2, <2>2, <2>5
  <2>7. score(n) \in Int /\ n \in Nat /\ slot \in Nat
    BY <1>1, <1>3, <2>2
  <2> HIDE DEF score
  <2>8. n <= slot
    BY <2>4, <2>6, <2>7
  <2> QED BY <2>1, <2>2, <2>7, <2>8
<1>5. ASSUME NEW m \in found, sources[m].root = sources[n].root PROVE m = n
  <2>1. /\ score(n) > score(m) \/ (score(n) = score(m) /\ n <= m)
        /\ score(m) > score(n) \/ (score(m) = score(n) /\ m <= n)
    BY <1>2, <1>5
  <2>2. /\ score(n) \in Int /\ n \in Nat /\ score(m) \in Int /\ m \in Nat
    BY <1>1, <1>2
  <2> HIDE DEF score
  <2> QED BY <2>1, <2>2
<1> QED BY <1>3, <1>4, <1>5

-----------------------------------------------------------------------------
\* What an answer to a query of one namespace promises.
IsGood(space, roots, answer) ==
    answer.kind \in {"semantic", "trajectory"} =>
      LET slots == [n \in DOMAIN answer.ids |-> SlotOf(turns, space, answer.ids[n])]
      IN  /\ \A n \in DOMAIN slots : slots[n] # 0 /\ Stands(turns, roots, slots[n])
          /\ answer.kind = "semantic" => turns[slots[1]].type # "assistant_generated"
          /\ Len(answer.ids) = 2 =>
               /\ slots[1] < slots[2]
               /\ roots[space][answer.ids[1]] # roots[space][answer.ids[2]]

LEMMA OneIsGood ==
  ASSUME NumberedInv, NEW space \in Spaces, NEW roots, roots = AllRoots(turns),
         NEW sources, sources = Sources(roots, space), NEW n \in DOMAIN sources, NEW kind,
         kind = "semantic" => sources[n].type # "assistant_generated"
  PROVE  IsGood(space, roots, [kind |-> kind, ids |-> <<sources[n].id>>])
<1>1. PICK id : id = sources[n].id
  OBVIOUS
<1>2. AnswersAs(space, roots, sources[n], id)
  BY <1>1, SourceStands
<1> DEFINE slots == [i \in 1..1 |-> SlotOf(turns, space, <<id>>[i])]
<1>3. DOMAIN slots = {1} /\ slots[1] = SlotOf(turns, space, id)
  OBVIOUS
<1>4. DOMAIN <<id>> = 1..1 /\ Len(<<id>>) = 1
  OBVIOUS
<1> HIDE DEF slots
<1>5. /\ \A i \in DOMAIN slots : slots[i] # 0 /\ Stands(turns, roots, slots[i])
      /\ kind = "semantic" => turns[slots[1]].type # "assistant_generated"
  BY <1>2, <1>3 DEF AnswersAs
<1> QED BY <1>1, <1>4, <1>5 DEF IsGood, slots

LEMMA TwoAreGood ==
  ASSUME NumberedInv, NEW space \in Spaces, NEW roots, roots = AllRoots(turns),
         NEW sources, sources = Sources(roots, space),
         NEW query, IsFiniteSet(query.words), NEW window, IsWindow(window),
         NEW found, found = Antecedents(query, window, sources),
         NEW n \in found, NEW m \in found, n < m
  PROVE  IsGood(space, roots, [kind |-> "trajectory", ids |-> <<sources[n].id, sources[m].id>>])
<1>1. PICK a, b : a = sources[n].id /\ b = sources[m].id
  OBVIOUS
<1>2. /\ n \in DOMAIN sources /\ m \in DOMAIN sources
      /\ SlotOf(turns, space, a) = n /\ SlotOf(turns, space, b) = m
      /\ sources[n].root # sources[m].root
  <2>1. m # n
    <3>1. n \in 1..Len(turns) /\ m \in 1..Len(turns)
      BY AntecedentsApart, SourcesAre
    <3> QED BY <3>1
  <2> QED BY <1>1, <2>1, AntecedentsApart
<1>3. AnswersAs(space, roots, sources[n], a) /\ AnswersAs(space, roots, sources[m], b)
  BY <1>1, <1>2, SourceStands
<1>4. roots[space][a] # roots[space][b]
  <2>1. /\ n \in 1..Len(turns) /\ turns[n].id = a /\ sources[n].root = RootOf(turns, space, a)
        /\ m \in 1..Len(turns) /\ turns[m].id = b /\ sources[m].root = RootOf(turns, space, b)
    BY <1>1, <1>2, SourcesAre
  <2>2. a \in Known(turns) /\ b \in Known(turns)
    BY <2>1, IdsAreKnown DEF NumberedInv, FoundedInv, MemoryInv, MemoryTyped
  <2> QED BY <1>2, <2>1, <2>2, RootsRead
<1> DEFINE slots == [i \in 1..2 |-> SlotOf(turns, space, <<a, b>>[i])]
<1>5. slots[1] = n /\ slots[2] = m /\ \A i \in DOMAIN slots : i = 1 \/ i = 2
  BY <1>2
<1>6. DOMAIN <<a, b>> = 1..2 /\ <<a, b>>[1] = a /\ <<a, b>>[2] = b
  OBVIOUS
<1> HIDE DEF slots
<1>7. \A i \in DOMAIN slots : slots[i] # 0 /\ Stands(turns, roots, slots[i])
  BY <1>2, <1>3, <1>5 DEF AnswersAs
<1> QED BY <1>1, <1>4, <1>5, <1>6, <1>7 DEF IsGood, slots

LEMMA AttemptIsGood ==
  ASSUME NumberedInv, NEW space \in Spaces, NEW roots, roots = AllRoots(turns),
         NEW sources, sources = Sources(roots, space), NEW known,
         NEW query, IsFiniteSet(query.words), NEW window, IsWindow(window)
  PROVE  IsGood(space, roots, Attempt(query, window, space, sources, known))
<1> DEFINE before == Temporal(query, known, 0)
           ids == IF window = NoWindow THEN SemanticAnswer(query, sources)
                  ELSE Trajectory(query, window, sources)
           after == Temporal(query, known, SlotOf(turns, space, ids[1]))
           kind == IF window = NoWindow THEN "semantic" ELSE "trajectory"
           direct == [kind |-> kind, ids |-> ids]
<1>1. \/ Attempt(query, window, space, sources, known) \in {before, Nowhere, after}
      \/ Attempt(query, window, space, sources, known) = direct /\ ids # None
  BY DEF Attempt
<1>2. \A i : Temporal(query, known, i).kind \in {"none", "unresolved", "temporal"}
  BY DEF Temporal, Nowhere, Unresolved
<1>3. \A answer : answer.kind \in {"none", "unresolved", "temporal"} =>
        IsGood(space, roots, answer)
  BY DEF IsGood
<1>4. Nowhere.kind = "none"
  BY DEF Nowhere
<1>5. CASE Attempt(query, window, space, sources, known) \in {before, Nowhere, after}
  <2> HIDE DEF ids
  <2> QED BY <1>2, <1>3, <1>4, <1>5
<1>6. CASE ids # None /\ window = NoWindow
  <2>1. PICK n \in DOMAIN sources : ids = <<sources[n].id>> /\ sources[n].type # "assistant_generated"
    BY <1>6, SemanticNames
  <2>2. kind = "semantic"
    BY <1>6
  <2> HIDE DEF ids, kind
  <2>3. IsGood(space, roots, direct)
    BY <2>1, OneIsGood
  <2> HIDE DEF direct
  <2> QED BY <1>1, <1>5, <2>3
<1>7. CASE ids # None /\ window # NoWindow /\ ~query.pair
  <2>1. ids = Single(query, window, sources)
    BY <1>7 DEF Trajectory
  <2>2. PICK n \in DOMAIN sources : ids = <<sources[n].id>>
    BY <1>7, <2>1, SingleNames
  <2>3. kind = "trajectory"
    BY <1>7
  <2> HIDE DEF ids, kind
  <2>4. IsGood(space, roots, direct)
    BY <2>2, <2>3, OneIsGood
  <2> HIDE DEF direct
  <2> QED BY <1>1, <1>5, <2>4
<1>8. CASE ids # None /\ window # NoWindow /\ query.pair
  <2>1. PICK found : found = Antecedents(query, window, sources)
    OBVIOUS
  <2>2. ids = Pair(query, window, found, sources)
    BY <1>8, <2>1 DEF Trajectory
  <2>3. found \in SUBSET (1..Len(turns)) /\ Len(turns) \in Nat
    <3>1. Len(turns) \in Nat
      BY RowsGive DEF NumberedInv, FoundedInv, MemoryInv, MemoryTyped
    <3>2. \A n \in found : n \in DOMAIN sources
      BY <2>1, AntecedentsApart
    <3> QED BY <3>1, <3>2, SourcesAre
  <2>4. PICK n \in found, m \in found : n < m /\ ids = <<sources[n].id, sources[m].id>>
    <3>1. PICK last \in Nat : last = Len(turns)
      BY <2>3
    <3>2. Pair(query, window, found, sources) # None /\ found \in SUBSET (1..last)
      BY <1>8, <2>2, <2>3, <3>1
    <3>3. \E n, m \in found :
            n < m /\ Pair(query, window, found, sources) = <<sources[n].id, sources[m].id>>
      BY <3>2, PairNames
    <3> QED BY <2>2, <3>3
  <2>5. kind = "trajectory"
    BY <1>8
  <2> HIDE DEF ids, kind
  <2>6. IsGood(space, roots, direct)
    BY <2>1, <2>4, <2>5, TwoAreGood
  <2> HIDE DEF direct
  <2> QED BY <1>1, <1>5, <2>6
<1> QED BY <1>1, <1>5, <1>6, <1>7, <1>8

LEMMA ResolveIsGood ==
  ASSUME NumberedInv, NEW space \in Spaces, NEW roots, roots = AllRoots(turns),
         NEW sources, sources = Sources(roots, space), NEW known,
         NEW query, IsQuery(query), NEW window, IsWindow(window)
  PROVE  IsGood(space, roots, Resolve(query, window, space, sources, known))
<1> DEFINE asked == {query} \cup query.again
           attempt == [q \in asked |-> Attempt(q, window, space, sources, known)]
           again == CHOOSE q \in query.again : TRUE
<1>1. \A q \in asked : IsGood(space, roots, attempt[q])
  BY AttemptIsGood DEF IsQuery
<1>2. Resolve(query, window, space, sources, known)
        = IF attempt[query] = Nowhere /\ query.again # {} THEN attempt[again] ELSE attempt[query]
  BY DEF Resolve
<1>3. query \in asked /\ (query.again # {} => again \in asked)
  OBVIOUS
<1> HIDE DEF attempt, asked, again
<1> QED BY <1>1, <1>2, <1>3

-----------------------------------------------------------------------------
\* Whatever was learned, formatted, refused or lost before: an answer to any
\* query under any window of texts of finitely many words names turns that
\* stand; a pair names two that rest on different turns
\* (memoria_mobile_resolve_context_json).
THEOREM EveryAnswerStands ==
  ASSUME NumberedInv,
         NEW asked, \A query \in asked : IsQuery(query),
         NEW heard, \A window \in heard : IsWindow(window)
  PROVE  AnswersStandFor(asked, heard)
<1> SUFFICES ASSUME NEW space \in Spaces, NEW query \in asked, NEW window \in heard
             PROVE  IsGood(space, AllRoots(turns),
                           Resolve(query, window, space, Sources(AllRoots(turns), space),
                                   History(space)))
  BY DEF AnswersStandFor, IsGood
<1> QED BY ResolveIsGood

LEMMA NumberedAlways == MobileSpec => []NumberedInv
BY InitNumbered, NumberedIsInductive, PTL DEF MobileSpec

LEMMA QueriesAreFinite ==
    (\A query \in Queries : IsQuery(query)) /\ \A window \in Windows : IsWindow(window)
<1>1. /\ IsFiniteSet({}) /\ \A a : IsFiniteSet({a})
      /\ \A a, b : IsFiniteSet({a, b}) /\ IsFiniteSet({a} \cup {b})
      /\ \A a, b, c : IsFiniteSet({a, b} \cup {c})
  <2>1. IsFiniteSet({}) /\ \A a : IsFiniteSet({a})
    BY FS_EmptySet, FS_Singleton
  <2>2. \A a, b : IsFiniteSet({a} \cup {b})
    BY <2>1, FS_AddElement
  <2>3. ASSUME NEW a, NEW b PROVE IsFiniteSet({a, b})
    <3>1. {a, b} = {a} \cup {b}
      OBVIOUS
    <3>2. IsFiniteSet({a} \cup {b})
      BY <2>2
    <3> QED BY <3>1, <3>2
  <2>4. \A a, b : IsFiniteSet({a, b})
    BY <2>3
  <2>5. \A a, b, c : IsFiniteSet({a, b} \cup {c})
    BY <2>4, FS_AddElement
  <2> QED BY <2>1, <2>2, <2>4, <2>5
<1>2. \A words, as : IsFiniteSet(words) /\ IsFiniteSet(as) =>
        /\ IsQuery(Plain(words)) /\ IsQuery(Now(words)) /\ IsQuery(Previously(words))
        /\ IsQuery(Both(words)) /\ IsQuery(First(words)) /\ IsQuery(Rewritten(words, as))
  <2> SUFFICES ASSUME NEW words, NEW as, IsFiniteSet(words), IsFiniteSet(as)
               PROVE  /\ IsQuery(Plain(words)) /\ IsQuery(Now(words))
                      /\ IsQuery(Previously(words)) /\ IsQuery(Both(words))
                      /\ IsQuery(First(words)) /\ IsQuery(Rewritten(words, as))
    OBVIOUS
  <2>1. IsFiniteSet(words \cup {"now"}) /\ IsFiniteSet(words \cup {"both"})
    BY FS_AddElement
  <2>2. \A w : Plain(w).words = w /\ Plain(w).again = {}
    BY DEF Plain
  <2>3. /\ Now(words).words = words \cup {"now"} /\ Now(words).again = {}
        /\ Both(words).words = words \cup {"both"} /\ Both(words).again = {}
    BY DEF Plain, Now, Both
  <2>4. /\ Previously(words).words = words /\ Previously(words).again = {}
        /\ First(words).words = words /\ First(words).again = {}
    BY DEF Plain, Previously, First
  <2>5. Rewritten(words, as).words = words /\ Rewritten(words, as).again = {Plain(as)}
    BY DEF Plain, Rewritten
  <2>6. IsQuery(Plain(words)) /\ IsQuery(Now(words)) /\ IsQuery(Both(words))
    BY <2>1, <2>2, <2>3 DEF IsQuery
  <2>7. IsQuery(Previously(words)) /\ IsQuery(First(words))
    BY <2>4 DEF IsQuery
  <2>8. \A q \in {Plain(as)} : IsFiniteSet(q.words)
    BY <2>2
  <2>9. IsQuery(Rewritten(words, as))
    BY <2>5, <2>8 DEF IsQuery
  <2> QED BY <2>6, <2>7, <2>9
<1>3. \A query \in Queries : IsQuery(query)
  <2>1. /\ IsFiniteSet({"car"}) /\ IsFiniteSet({"blue"}) /\ IsFiniteSet({"red", "blue"})
        /\ IsFiniteSet({"blue", "fast"}) /\ IsFiniteSet({"red"}) /\ IsFiniteSet({"fast"})
        /\ IsFiniteSet({"crimson"})
    BY <1>1
  <2>2. /\ IsQuery(Plain({"car"})) /\ IsQuery(Plain({"blue"})) /\ IsQuery(Plain({"red", "blue"}))
        /\ IsQuery(Now({"blue"})) /\ IsQuery(Previously({"blue", "fast"}))
        /\ IsQuery(Both({"red"})) /\ IsQuery(First({"fast"}))
        /\ IsQuery(Rewritten({"crimson"}, {"red"}))
    BY <1>2, <2>1
  <2> QED BY <2>2 DEF Queries
<1>4. ASSUME NEW window \in Windows PROVE IsWindow(window)
  <2>1. /\ IsFiniteSet({"car"}) /\ IsFiniteSet({"blue"}) /\ IsFiniteSet({"red"})
        /\ IsFiniteSet({"fast"})
    BY <1>1
  <2>2. \A words, ours : Said(words, ours).words = words
    BY DEF Said
  <2>3. IsWindow(<<>>)
    BY DEF IsWindow
  <2>4. \A a : IsFiniteSet(a.words) => IsWindow(<<a>>)
    BY DEF IsWindow
  <2>5. \A a, b : IsFiniteSet(a.words) /\ IsFiniteSet(b.words) => IsWindow(<<a, b>>)
    BY DEF IsWindow
  <2>6. /\ IsWindow(<<Said({"car"}, TRUE)>>)
        /\ IsWindow(<<Said({"blue"}, TRUE), Said({"red"}, TRUE)>>)
        /\ IsWindow(<<Said({"fast"}, TRUE), Said({"red"}, FALSE)>>)
    BY <2>1, <2>2, <2>4, <2>5
  <2> QED BY <2>3, <2>6 DEF Windows, NoWindow
<1> QED BY <1>3, <1>4

\* The answers the run asks for, in every state of the memory.
THEOREM AnswersAlwaysStand == MobileSpec => []AnswersStand
<1>1. NumberedInv => AnswersStand
  BY EveryAnswerStands, QueriesAreFinite DEF AnswersStand
<1> QED BY <1>1, NumberedAlways, PTL

-----------------------------------------------------------------------------
(* Windows.  What a client has read is the beginning of the window its     *)
(* token stands for, which need not be the window there is by now.         *)

IsSequence(s) == \E S : s \in Seq(S)

\* What a page says of row i of a window.
Shows(window, i) ==
    [row |-> window[i],
     prev |-> IF i = 1 THEN NoSource ELSE window[i - 1].id,
     next |-> IF i = Len(window) THEN NoSource ELSE window[i + 1].id]

BeginsWindow(window, got) ==
    /\ IsSequence(got) /\ Len(got) <= Len(window)
    /\ \A i \in 1..Len(got) : got[i] = Shows(window, i)

ReadSoFar ==
    /\ IsSequence(reader.began) /\ reader.token = Token(reader.began)
    /\ BeginsWindow(reader.began, reader.got)
    /\ reader.state = "done" => Len(reader.got) = Len(reader.began)

WindowInv == StoreInv /\ (reader # NoReader => ReadSoFar)

LEMMA SequencesAre ==
  /\ \A s : IsSequence(s) => Len(s) \in Nat /\ DOMAIN s = 1..Len(s)
  /\ \A s, n : n \in Nat /\ DOMAIN s = 1..n /\ s = [i \in 1..n |-> s[i]] =>
       IsSequence(s) /\ Len(s) = n
<1>1. ASSUME NEW s, NEW n \in Nat, DOMAIN s = 1..n, s = [i \in 1..n |-> s[i]]
      PROVE  IsSequence(s) /\ Len(s) = n
  <2> DEFINE S == {s[i] : i \in 1..n}
  <2>1. s \in Seq(S)
    BY <1>1
  <2>2. PICK m \in Nat : m = Len(s) /\ 1..m = 1..n
    BY <1>1, <2>1
  <2>3. (n = 0 \/ n \in 1..n) /\ (m = 0 \/ m \in 1..m)
    OBVIOUS
  <2>4. n <= m /\ m <= n
    BY <2>2, <2>3
  <2> QED BY <2>1, <2>2, <2>4 DEF IsSequence
<1>2. ASSUME NEW s, IsSequence(s) PROVE Len(s) \in Nat /\ DOMAIN s = 1..Len(s)
  BY <1>2 DEF IsSequence
<1> QED BY <1>1, <1>2

LEMMA WindowsAre == ASSUME StoreInv, NEW hierarchy PROVE IsSequence(Window(hierarchy))
<1> DEFINE mine == {n \in DOMAIN observations : observations[n].hierarchy = hierarchy}
           window == Window(hierarchy)
<1>1. IsFiniteSet(mine)
  <2>1. DOMAIN observations = 1..Len(observations) /\ Len(observations) \in Nat
    BY DEF StoreInv, RowsTyped
  <2>2. IsFiniteSet(1..Len(observations)) /\ mine \subseteq 1..Len(observations)
    BY <2>1, FS_Interval
  <2> QED BY <2>2, FS_Subset
<1>2. PICK n \in Nat : n = Cardinality(mine)
  <2> HIDE DEF mine
  <2> QED BY <1>1, FS_CardinalityType
<1>3. DOMAIN window = 1..n /\ window = [i \in 1..n |-> window[i]]
  BY <1>2 DEF Window
<1> HIDE DEF window
<1>4. IsSequence(window)
  BY <1>3, SequencesAre
<1> QED BY <1>4 DEF window

\* A page goes on where the last one ended.
LEMMA PageGoesOn ==
  ASSUME NEW window, IsSequence(window), NEW got, BeginsWindow(window, got),
         NEW limit \in PageLimits
  PROVE  BeginsWindow(window, got \o Page(window, Len(got), limit))
<1> DEFINE offset == Len(got)
           last == Len(window)
           size == Min({limit, last - offset})
           page == Page(window, offset, limit)
           whole == got \o page
<1>1. offset \in Nat /\ last \in Nat /\ offset <= last /\ limit \in Nat
  <2>1. limit \in Nat
    BY PagesAssumption
  <2>2. IsSequence(got) /\ Len(got) <= Len(window)
    BY DEF BeginsWindow
  <2> QED BY <2>1, <2>2, SequencesAre
<1>2. size \in Nat /\ size <= last - offset
  <2>1. PICK a, b : a = limit /\ b = last - offset
    OBVIOUS
  <2>2. {a, b} \in SUBSET Nat /\ {a, b} # {}
    BY <1>1, <2>1
  <2>3. Min({a, b}) \in {a, b} /\ \A j \in {a, b} : Min({a, b}) <= j
    BY <2>2, MinExists
  <2> QED BY <2>1, <2>2, <2>3
<1> HIDE DEF size
<1>3. page = [k \in 1..size |-> Shows(window, offset + k)]
  BY DEF Page, Shows, size
<1> HIDE DEF page, offset
<1>4. IsSequence(page) /\ Len(page) = size /\ \A k \in 1..size : page[k] = Shows(window, offset + k)
  <2>1. DOMAIN page = 1..size /\ page = [k \in 1..size |-> page[k]]
    BY <1>3
  <2> QED BY <1>2, <1>3, <2>1, SequencesAre
<1>5. PICK S : got \in Seq(S) /\ page \in Seq(S)
  <2>1. PICK S1, S2 : got \in Seq(S1) /\ page \in Seq(S2)
    BY <1>4 DEF BeginsWindow, IsSequence
  <2>2. got \in Seq(S1 \cup S2) /\ page \in Seq(S1 \cup S2)
    BY <2>1
  <2> QED BY <2>2
<1>6. /\ whole \in Seq(S) /\ Len(whole) = offset + size
      /\ \A i \in 1..offset : whole[i] = got[i]
      /\ \A k \in 1..size : whole[offset + k] = page[k]
  <2>1. offset = Len(got) /\ size = Len(page)
    BY <1>4 DEF offset
  <2>2. whole \in Seq(S) /\ Len(whole) = offset + size
    BY <1>5, <2>1
  <2>3. \A i \in 1..offset + size :
          whole[i] = IF i <= offset THEN got[i] ELSE page[i - offset]
    BY <1>5, <2>1
  <2>4. \A i \in 1..offset : whole[i] = got[i]
    BY <1>1, <1>2, <2>3 DEF offset
  <2>5. ASSUME NEW k \in 1..size PROVE whole[offset + k] = page[k]
    <3>1. offset \in Nat /\ size \in Nat
      BY <1>1, <1>2
    <3>2. offset + k \in 1..offset + size /\ ~(offset + k <= offset) /\ (offset + k) - offset = k
      BY <3>1
    <3> HIDE DEF whole
    <3> QED BY <2>3, <3>2
  <2> QED BY <2>2, <2>4, <2>5
<1> HIDE DEF whole
<1>7. ASSUME NEW i \in 1..Len(whole) PROVE whole[i] = Shows(window, i)
  <2>1. CASE i \in 1..offset
    BY <1>6, <2>1 DEF BeginsWindow, offset
  <2>2. CASE i \notin 1..offset
    <3>1. i - offset \in 1..size /\ offset + (i - offset) = i
      BY <1>1, <1>2, <1>6, <2>2 DEF offset
    <3>2. page[i - offset] = Shows(window, offset + (i - offset))
      BY <1>4, <3>1
    <3>3. whole[offset + (i - offset)] = page[i - offset]
      BY <1>6, <3>1
    <3> QED BY <3>1, <3>2, <3>3
  <2> QED BY <2>1, <2>2
<1>8. Len(whole) <= last
  BY <1>1, <1>2, <1>6 DEF offset
<1>9. IsSequence(whole)
  BY <1>6 DEF IsSequence
<1> QED BY <1>7, <1>8, <1>9 DEF BeginsWindow, whole, page, offset

LEMMA ReadGoesOn ==
  ASSUME WindowInv, NEW hierarchy, NEW limit \in PageLimits, ReadWindow(hierarchy, limit)
  PROVE  (reader # NoReader => ReadSoFar)'
<1> DEFINE first == reader = NoReader
           got == IF first THEN <<>> ELSE reader.got
<1>1. PICK window : window = Window(hierarchy) /\ IsSequence(window)
  BY WindowsAre DEF WindowInv
<1>2. CASE ~(first \/ reader.token = Token(window))
  BY <1>1, <1>2 DEF ReadWindow
<1>3. CASE first \/ reader.token = Token(window)
  <2> DEFINE whole == got \o Page(window, Len(got), limit)
             began == IF first THEN window ELSE reader.began
             state == IF Len(whole) < Len(window) THEN "reading" ELSE "done"
  <2>1. reader' = [state |-> state, hierarchy |-> hierarchy, got |-> whole,
                   token |-> Token(window), began |-> began]
    BY <1>1, <1>3 DEF ReadWindow
  <2>2. began = window
    BY <1>3 DEF WindowInv, ReadSoFar, Token
  <2>3. BeginsWindow(window, got)
    <3>1. CASE first
      <4>1. got = <<>> /\ Len(window) \in Nat
        BY <1>1, <3>1, SequencesAre
      <4>2. IsSequence(<<>>) /\ Len(<<>>) = 0
        BY DEF IsSequence
      <4> QED BY <4>1, <4>2 DEF BeginsWindow
    <3>2. CASE ~first
      BY <2>2, <3>2 DEF WindowInv, ReadSoFar
    <3> QED BY <3>1, <3>2
  <2> HIDE DEF got
  <2>4. BeginsWindow(window, whole)
    BY <1>1, <2>3, PageGoesOn
  <2> HIDE DEF whole, began
  <2>5. state = "done" => Len(whole) = Len(window)
    BY <1>1, <2>4, SequencesAre DEF BeginsWindow
  <2>6. /\ reader'.began = window /\ reader'.token = Token(window)
        /\ reader'.got = whole /\ reader'.state = state
    BY <2>1, <2>2
  <2> HIDE DEF state
  <2>7. /\ IsSequence(reader'.began) /\ reader'.token = Token(reader'.began)
        /\ BeginsWindow(reader'.began, reader'.got)
        /\ reader'.state = "done" => Len(reader'.got) = Len(reader'.began)
    BY <1>1, <2>4, <2>5, <2>6
  <2> QED BY <2>7 DEF ReadSoFar, BeginsWindow, IsSequence, Shows, Token
<1> QED BY <1>2, <1>3

LEMMA WindowInvIsInductive == WindowInv /\ [StructuralNext]_structuralVars => WindowInv'
<1> SUFFICES ASSUME WindowInv, [StructuralNext]_structuralVars PROVE WindowInv'
  OBVIOUS
<1>1. StoreInv'
  BY StoreInvIsInductive DEF WindowInv
<1>2. CASE reader' = reader
  BY <1>1, <1>2 DEF WindowInv, ReadSoFar, BeginsWindow, IsSequence, Shows, Token
<1>3. ASSUME NEW hierarchy, NEW limit \in PageLimits, ReadWindow(hierarchy, limit)
      PROVE  WindowInv'
  BY <1>1, <1>3, ReadGoesOn DEF WindowInv
<1>4. CASE ForgetWindow
  BY <1>1, <1>4 DEF ForgetWindow, WindowInv
<1>5. \/ reader' = reader
      \/ ForgetWindow
      \/ \E hierarchy \in Hierarchies, limit \in PageLimits : ReadWindow(hierarchy, limit)
  BY DEF StructuralNext, structuralVars, Observe, ObserveAgain, KillStructural, OpenStructural,
         FormatStructural
<1> QED BY <1>2, <1>3, <1>4, <1>5

\* Whatever is observed, restarted or formatted between two pages: what a client
\* reads under one token is the window its first page was cut from, row by row,
\* with the neighbours each row has there
\* (memoria_mobile_read_structural_window_json).
THEOREM WindowsAlwaysWhole ==
  StructuralInit /\ [][StructuralNext]_structuralVars => []WindowsReadWhole
<1>1. StructuralInit => WindowInv
  BY InitStore DEF StructuralInit, WindowInv
<1>2. WindowInv => WindowsReadWhole
  <2> SUFFICES ASSUME WindowInv, reader # NoReader PROVE
         LET got == reader.got
         IN  /\ IsPrefix([i \in DOMAIN got |-> got[i].row], reader.began)
             /\ reader.state = "done" => Len(reader.got) = Len(reader.began)
             /\ \A i \in 1..Len(got) - 1 :
                  got[i].next = got[i + 1].row.id /\ got[i + 1].prev = got[i].row.id
    BY DEF WindowsReadWhole
  <2>1. PICK got, began : got = reader.got /\ began = reader.began
    OBVIOUS
  <2>2. IsSequence(began) /\ BeginsWindow(began, got)
    BY <2>1 DEF WindowInv, ReadSoFar
  <2>3. PICK n \in Nat, last \in Nat : /\ n = Len(got) /\ last = Len(began) /\ n <= last
                                     /\ DOMAIN got = 1..n
    BY <2>2, SequencesAre DEF BeginsWindow
  <2>4. \A i \in 1..n : got[i] = Shows(began, i)
    BY <2>2, <2>3 DEF BeginsWindow
  <2>5. IsPrefix([i \in 1..n |-> got[i].row], began)
    <3> DEFINE rows == [i \in 1..n |-> got[i].row]
    <3>1. \A i \in 1..n : rows[i] = began[i]
      <4>1. \A i \in 1..n : Shows(began, i).row = began[i]
        BY DEF Shows
      <4>2. \A i \in 1..n : got[i].row = began[i]
        BY <2>4, <4>1
      <4> QED BY <4>2
    <3>2. IsSequence(rows) /\ Len(rows) = n
      BY SequencesAre
    <3> HIDE DEF rows
    <3>3. PICK S : rows \in Seq(S) /\ began \in Seq(S)
      <4>1. PICK S1, S2 : rows \in Seq(S1) /\ began \in Seq(S2)
        BY <2>2, <3>2 DEF IsSequence
      <4>2. rows \in Seq(S1 \cup S2) /\ began \in Seq(S1 \cup S2)
        BY <4>1
      <4> QED BY <4>2
    <3>4. SubSeq(rows, 1, n) = SubSeq(began, 1, n)
      BY <2>3, <3>1, <3>2, <3>3
    <3>5. IsPrefix(rows, began)
      BY <2>3, <3>2, <3>4 DEF IsPrefix
    <3> QED BY <3>5 DEF rows
  <2>6. ASSUME NEW i \in 1..n - 1
        PROVE  got[i].next = got[i + 1].row.id /\ got[i + 1].prev = got[i].row.id
    <3>1. i \in 1..n /\ i + 1 \in 1..n /\ i # last /\ i + 1 # 1 /\ (i + 1) - 1 = i
      BY <2>3
    <3>2. got[i] = Shows(began, i) /\ got[i + 1] = Shows(began, i + 1)
      BY <2>4, <3>1
    <3>3. got[i].next = began[i + 1].id /\ got[i].row = began[i]
      BY <2>3, <3>1, <3>2 DEF Shows
    <3>4. got[i + 1].prev = began[i].id /\ got[i + 1].row = began[i + 1]
      BY <2>3, <3>1, <3>2 DEF Shows
    <3> QED BY <3>3, <3>4
  <2> QED BY <2>1, <2>3, <2>5, <2>6 DEF WindowInv, ReadSoFar
<1> QED BY <1>1, <1>2, WindowInvIsInductive, PTL
===============================================================================
