------------------------ MODULE StructuralTrajectories ------------------------
(***************************************************************************)
(* StructuralTrajectoryIndex: the occurrences of one hierarchy, in the     *)
(* order they were ingested, and the read-only queries over them.          *)
(*                                                                         *)
(* A trajectory's id is a digest of its content.  It only breaks ties, so  *)
(* any order of ids will do: here the sequence number stands for it.       *)
(***************************************************************************)
EXTENDS Integers, SequencesExt, FiniteSetsExt

CONSTANT Addresses

VARIABLE trajectories      \* _trajectories, the rows of _by_id in order

\* Trails as callers give them, and as the index stores them.
Raw(n) == UNION {[1..k -> Addresses] : k \in 1..n}

\* Mutant: an address met before is dropped wherever it comes again.
KeptOnce(trail, a) == IF Contains(trail, a) THEN trail ELSE Append(trail, a)
Kept(trail, a) == IF trail # <<>> /\ Last(trail) = a THEN trail ELSE Append(trail, a)
Onto(trail, raw) ==
    LET after[n \in 0..Len(raw)] == IF n = 0 THEN trail ELSE Kept(after[n - 1], raw[n])
    IN  after[Len(raw)]
Collapsed(raw) == Onto(<<>>, raw)

Trails(n) == {Collapsed(raw) : raw \in Raw(n)}

\* Python's sort of rows by key, descending: a row comes behind the rows before it
\* that it does not beat, so equal keys keep their order.
Beats(k, l) ==
    LET differ == {i \in DOMAIN k \cap DOMAIN l : k[i] # l[i]}
    IN  differ # {} /\ k[Min(differ)] > l[Min(differ)]
Inserted(rows, r) ==
    LET ahead == Cardinality({n \in DOMAIN rows : ~Beats(r.key, rows[n].key)})
    IN  SubSeq(rows, 1, ahead) \o <<r>> \o SubSeq(rows, ahead + 1, Len(rows))
SortedTo(keyed, rows, n) == IF n \in DOMAIN keyed THEN Inserted(rows, keyed[n]) ELSE rows
Sorted(keyed, last) ==
    LET after[n \in 0..last] == IF n = 0 THEN <<>> ELSE SortedTo(keyed, after[n - 1], n)
        rows == after[last]
    IN  [n \in DOMAIN rows |-> rows[n].row]
Top(rows, limit) == SubSeq(rows, 1, IF Len(rows) < limit THEN Len(rows) ELSE limit)

-----------------------------------------------------------------------------
TrajectoriesInit == trajectories = <<>>

\* Mutant: ingest_addresses does not look the id up.
Appended(index, t) == Append(index, t)
Ingested(index, t) == IF Contains(index, t) THEN index ELSE Append(index, t)

\* One observation, new or delivered again.
Ingest(source, sequence, raw) ==
    trajectories' = Ingested(trajectories, [source |-> source, sequence |-> sequence,
                                            addresses |-> Collapsed(raw)])

\* Bounds: the sources, the number of trajectories and the trails they are given as.
TrajectoriesNext(sources, many, raws) ==
    \/ /\ Len(trajectories) < many
       /\ \E s \in sources, raw \in raws : Ingest(s, Len(trajectories) + 1, raw)
    \/ \E i \in DOMAIN trajectories :
           Ingest(trajectories[i].source, trajectories[i].sequence, trajectories[i].addresses)

Restore(rows) ==
    LET after[n \in 0..Len(rows)] == IF n = 0 THEN <<>> ELSE Ingested(after[n - 1], rows[n])
    IN  after[Len(rows)]

-----------------------------------------------------------------------------
\* Positions of q in trail t, and the geometry a query is ranked by.
Starts(q, t) ==
    IF q = <<>> THEN {}
    ELSE {i \in 1..(Len(t) - Len(q) + 1) : SubSeq(t, i, i + Len(q) - 1) = q}
Overlap(q, t) == Cardinality(ToSet(q) \cap ToSet(t))
OrderedOverlap(q, t) ==
    LET followed[n \in 0..Len(t)] ==
          IF n = 0 THEN 0
          ELSE followed[n - 1]
                 + (IF followed[n - 1] < Len(q) /\ t[n] = q[followed[n - 1] + 1] THEN 1 ELSE 0)
    IN  followed[Len(t)]
Pairs(q) == {<<q[i], q[i + 1]>> : i \in 1..(Len(q) - 1)}
AdjacencyOverlap(q, t) ==
    Cardinality({i \in 1..(Len(t) - 1) : <<t[i], t[i + 1]>> \in Pairs(q)})

\* Mutant: the ranking forgets the trajectory's id.
KeyWithoutId(q, t) ==
    <<Overlap(q, t.addresses), -Cardinality(ToSet(q)), OrderedOverlap(q, t.addresses),
      AdjacencyOverlap(q, t.addresses), Overlap(q, t.addresses)>>
StructuralKey(q, t) == Append(KeyWithoutId(q, t), t.sequence)

Resolve(index, raw, limit) ==
    LET q == Collapsed(raw)
        matching == {i \in DOMAIN index : Overlap(q, index[i].addresses) > 0}
    IN  Top(Sorted([i \in matching |-> [row |-> index[i], key |-> StructuralKey(q, index[i])]],
                   Len(index)),
            limit)

\* The neighbours of q's exact occurrences: <<address, trajectory, start>>.
ForwardNeighbours(index, q) ==
    UNION {{<<index[i].addresses[s + Len(q)], i, s>> :
               s \in Starts(q, index[i].addresses) \ {Len(index[i].addresses) - Len(q) + 1}}
           : i \in DOMAIN index}
\* Mutant: a start at the head of a trajectory looks at its last address, as
\* addresses[-1] does.
WrappingNeighbours(index, q) ==
    UNION {{<<IF s = 1 THEN Last(index[i].addresses) ELSE index[i].addresses[s - 1], i, s>> :
               s \in Starts(q, index[i].addresses)} : i \in DOMAIN index}
ReverseNeighbours(index, q) ==
    UNION {{<<index[i].addresses[s - 1], i, s>> : s \in Starts(q, index[i].addresses) \ {1}}
           : i \in DOMAIN index}

Frontier(neighbours) ==
    LET found == {n[1] : n \in neighbours}
    IN  [candidates |-> {[address |-> a,
                          support |-> {n[2] : n \in {m \in neighbours : m[1] = a}},
                          count |-> Cardinality({n \in neighbours : n[1] = a})] : a \in found},
         reason |-> CASE found = {} -> "no-structural-neighbor"
                      [] Cardinality(found) = 1 -> "single-structural-neighbor"
                      [] OTHER -> "competing-structural-neighbors"]

-----------------------------------------------------------------------------
\* Ingestion keeps one row per occurrence, and rebuilding the index from its
\* snapshot gives the same index: restore() does not refuse what ingest wrote.
IndexIsCanonical ==
    /\ Cardinality(ToSet(trajectories)) = Len(trajectories)
    /\ Restore(trajectories) = trajectories
    /\ \A i \in DOMAIN trajectories :
           LET t == trajectories[i].addresses
           IN t # <<>> /\ \A j \in 2..Len(t) : t[j] # t[j - 1]

\* A query reads the same ranking whatever the order of ingestion, and the
\* longest prefix it follows in order never exceeds what it has in common.
RankingIgnoresOrder(queries) ==
    \A q \in queries : \A p \in Bijection(DOMAIN trajectories, DOMAIN trajectories) :
        Resolve([i \in DOMAIN trajectories |-> trajectories[p[i]]], q, 2)
            = Resolve(trajectories, q, 2)

\* The frontier is local to one occurrence and reads the same in both
\* directions: b follows q exactly as often as Head(q) precedes the rest of q
\* with b, in the same trajectories.
FrontiersAgree(queries) ==
    \A q \in queries, b \in Addresses :
        b # Last(q) =>
            LET whole == Append(q, b)
                ahead == {c \in Frontier(ForwardNeighbours(trajectories, q)).candidates :
                              c.address = b}
                behind == {c \in Frontier(ReverseNeighbours(trajectories, Tail(whole))).candidates :
                               c.address = Head(q)}
            IN  {<<c.support, c.count>> : c \in ahead} = {<<c.support, c.count>> : c \in behind}

\* The index stays canonical and its queries depend on its content only.
QueriesReadContent(queries) ==
    IndexIsCanonical /\ RankingIgnoresOrder(queries) /\ FrontiersAgree(queries)
=============================================================================
