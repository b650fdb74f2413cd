------------------------------ MODULE MobileIndex ------------------------------
(***************************************************************************)
(* The index of the native memory (memoria_mobile.c, 443-593): an          *)
(* open-addressed table from the namespace and id of a memory to the first *)
(* row of the handle that has it.  It is filled turn by turn, grown before *)
(* it is seven tenths full, rebuilt when the handle opens, and given up for *)
(* a scan of the rows when an insertion fails.                             *)
(*                                                                         *)
(* A row is the sequence of its keys: its own, then those of its           *)
(* relations.  A key pairs a namespace with an id; relation ids, and turn   *)
(* ids too, may be chosen by the client, so keys repeat.                   *)
(***************************************************************************)
EXTENDS Integers, Sequences, FiniteSetsExt

CONSTANTS
    Keys,            \* <<namespace, id>> of a memory with an id
    Nameless,        \* the key of a turn whose id is the empty string
    Hash,            \* memory_key_hash() of every key
    InitialCapacity, \* slots of a new table, a power of two
    Turns,           \* the rows a client may learn
    MaxRows          \* bound: rows of the handle

ASSUME IndexAssumption ==
    /\ Hash \in [Keys -> Nat] /\ Nameless \notin Keys
    /\ InitialCapacity \in Nat \ {0}
    /\ \A t \in Turns :
         /\ t \in Seq(Keys \cup {Nameless}) /\ t # <<>>
         /\ \A place \in 2..Len(t) : t[place] \in Keys

VARIABLES
    memories,  \* h->turns
    table,     \* h->memory_index, from 0; empty when the index was given up
    used,      \* h->memory_index_count
    running    \* a handle is open

indexVars == <<memories, table, used, running>>

Free == [row |-> 0]
Capacity(t) == Cardinality(DOMAIN t)
NewTable(capacity) == [p \in 0..capacity - 1 |-> Free]
NoTable == [p \in {} |-> Free]

Entry(row, place) == [row |-> row, place |-> place]
KeyOf(held, entry) == held[entry.row][entry.place]

\* The k-th slot looked at for a hash.
At(t, hash, k) == (hash + k) % Capacity(t)

\* Mutant: the hash decides.
SameHash(held, entry, key) == Hash[KeyOf(held, entry)] = Hash[key]

\* memory_index_slot_matches()
Matches(held, entry, key) == KeyOf(held, entry) = key

\* The first slot that is free or holds the key, as a set.
StopsAt(held, t, key) ==
    LET stops == {k \in 0..Capacity(t) - 1 :
                    LET entry == t[At(t, Hash[key], k)]
                    IN  entry = Free \/ Matches(held, entry, key)}
    IN  IF stops = {} THEN {} ELSE {At(t, Hash[key], Min(stops))}

\* Mutant: an entry that finds its slot taken is lost.
Kept(held, t, entry) ==
    LET home == At(t, Hash[KeyOf(held, entry)], 0)
    IN  IF t[home] = Free THEN [t EXCEPT ![home] = entry] ELSE t

\* One entry moved to a larger table.
Moved(held, t, entry) ==
    LET hash == Hash[KeyOf(held, entry)]
        k == Min({n \in 0..Capacity(t) - 1 : t[At(t, hash, n)] = Free})
    IN  [t EXCEPT ![At(t, hash, k)] = entry]

\* memory_index_rehash()
Rehash(held, t, capacity) ==
    LET moved[n \in 0..Capacity(t)] ==
          IF n = 0 THEN NewTable(capacity)
          ELSE IF t[n - 1] = Free THEN moved[n - 1] ELSE Moved(held, moved[n - 1], t[n - 1])
    IN  moved[Capacity(t)]

\* Mutant: the new keys are not counted.
FullBefore(desired, capacity) == desired > capacity

TooFull(desired, capacity) == desired > (capacity * 7) \div 10

\* The capacity is doubled while it is too small: at most desired times.
Enlarged(desired, capacity) ==
    IF TooFull(desired, capacity) THEN 2 * capacity ELSE capacity
Fitting(desired, least) ==
    LET grown[n \in 0..desired] ==
          IF n = 0 THEN least ELSE Enlarged(desired, grown[n - 1])
    IN  grown[desired]

\* memory_index_reserve()
Reserve(held, t, desired) ==
    LET capacity == Fitting(desired, IF t = NoTable THEN InitialCapacity ELSE Capacity(t))
    IN  IF capacity = Capacity(t) THEN t ELSE Rehash(held, t, capacity)

\* memory_index_insert_prepared(), with the table and its count as one value.
\* A key that is there keeps the entry it has; the empty id is refused.
Insert(held, index, entry) ==
    IF ~index.ok \/ KeyOf(held, entry) = Nameless THEN [index EXCEPT !.ok = FALSE]
    ELSE LET stops == StopsAt(held, index.table, KeyOf(held, entry))
         IN  IF stops = {} THEN [index EXCEPT !.ok = FALSE]
             ELSE LET p == CHOOSE p \in stops : TRUE
                  IN  IF index.table[p] # Free THEN index
                      ELSE [index EXCEPT !.table[p] = entry, !.used = @ + 1]

\* The keys of a row, its own first.
InsertRow(held, index, row) ==
    LET after[n \in 0..Len(held[row])] ==
          IF n = 0 THEN index ELSE Insert(held, after[n - 1], Entry(row, n))
    IN  after[Len(held[row])]

\* memory_index_rebuild()
Rebuilt(held) ==
    LET desired[n \in 0..Len(held)] == IF n = 0 THEN 0 ELSE desired[n - 1] + Len(held[n])
        empty == Reserve(held, NoTable, desired[Len(held)])
        after[n \in 0..Len(held)] ==
          IF n = 0 THEN [ok |-> TRUE, used |-> 0, table |-> empty]
          ELSE InsertRow(held, after[n - 1], n)
    IN  after[Len(held)]

NotFound == Free

\* find_memory_ref_linear()
Scan(key) ==
    LET rows == {r \in DOMAIN memories : \E n \in DOMAIN memories[r] : memories[r][n] = key}
        row == memories[Min(rows)]
    IN  IF rows = {} THEN NotFound ELSE Entry(Min(rows), Min({n \in DOMAIN row : row[n] = key}))

\* find_memory_ref()
Find(key) ==
    IF table = NoTable THEN Scan(key)
    ELSE LET stops == StopsAt(memories, table, key)
         IN  IF stops = {} THEN NotFound ELSE table[CHOOSE p \in stops : TRUE]

-----------------------------------------------------------------------------

IndexInit ==
    /\ memories = <<>> /\ running = TRUE
    /\ table = NewTable(InitialCapacity) /\ used = 0

\* memoria_mobile_learn_turn_json(): room is made before the row is saved, the
\* keys are entered after.  An entry that fails gives the index up.
LearnRow(row, saved) ==
    /\ running /\ Len(memories) < MaxRows
    /\ LET roomy == Reserve(memories, table, used + Len(row))
           held == Append(memories, row)
           index == InsertRow(held, [ok |-> TRUE, used |-> used, table |-> roomy], Len(held))
       IN  IF ~saved
           THEN table' = roomy /\ UNCHANGED <<memories, used>>
           ELSE /\ memories' = held
                /\ table' = IF index.ok THEN index.table ELSE NoTable
                /\ used' = IF index.ok THEN index.used ELSE 0
    /\ UNCHANGED running

\* The process ends and memoria_mobile_open() reads every row back; a row the
\* index cannot take keeps the handle from opening.
Reopen ==
    LET index == Rebuilt(memories)
    IN  /\ running
        /\ running' = index.ok
        /\ table' = IF index.ok THEN index.table ELSE NoTable
        /\ used' = IF index.ok THEN index.used ELSE 0
        /\ UNCHANGED memories

\* memoria_mobile_format_json(): the next turn starts a new table.
Clear ==
    /\ running
    /\ memories' = <<>> /\ table' = NoTable /\ used' = 0
    /\ UNCHANGED running

IndexNext ==
    \/ \E row \in Turns, saved \in BOOLEAN : LearnRow(row, saved)
    \/ Reopen \/ Clear

IndexSpec == IndexInit /\ [][IndexNext]_indexVars

-----------------------------------------------------------------------------

AllNamed(held) == \A i \in DOMAIN held : held[i][1] # Nameless

\* The table answers as a scan of the rows would for every key, whatever
\* collides and however often it grew or was rebuilt, and it always has a free
\* slot, which every search for a missing key relies on; a turn with an empty id
\* gives the index up, and the table the next turn starts lacks the rows before
\* it (find_memory_ref, memory_index_insert_prepared).
LookupIsScan ==
    running =>
      /\ AllNamed(memories) \/ table = NoTable => \A key \in Keys : Find(key) = Scan(key)
      /\ used = Cardinality({p \in DOMAIN table : table[p] # Free})
      /\ table # NoTable => used < Capacity(table)
=============================================================================
