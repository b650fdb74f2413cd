-------------------------- MODULE StructuralHierarchy --------------------------
(***************************************************************************)
(* HierarchicalCompositionEngineV2 and MultiscaleStructuralResolverV2:     *)
(* windows that recur in several trajectories become addresses of the next *)
(* level, and a query is ranked by what it shares with a trajectory at     *)
(* every level.                                                            *)
(*                                                                         *)
(* An address of depth d is <<d, children>>, in place of the digest of     *)
(* both; an atomic one is <<0, <<a>>>>.                                    *)
(***************************************************************************)
EXTENDS StructuralTrajectories

CONSTANTS MaxDepth, MinOccurrences, MinTrajectories, MinSize, MaxSize

ASSUME HierarchyParameters ==
    /\ MaxDepth \in Nat /\ MaxDepth >= 1 /\ MinOccurrences >= 2 /\ MinTrajectories >= 2
    /\ MinSize >= 2 /\ MaxSize >= MinSize

AtomicView(t) == [i \in DOMAIN t |-> <<0, <<t[i]>>>>]
AtomicStreams(index) == [i \in DOMAIN index |-> AtomicView(index[i].addresses)]

\* What one level's discovery counts of a window of children.
Windows(streams) ==
    UNION {{SubSeq(s, i, i + n - 1) : i \in 1..(Len(s) - n + 1)} :
              s \in ToSet(streams), n \in MinSize..MaxSize}
Occurrences(w, streams) ==
    FoldLeft(LAMBDA n, s : n + Cardinality(Starts(w, s)), 0, streams)
Supporting(w, streams) == {i \in DOMAIN streams : Starts(w, streams[i]) # {}}

\* Windows are met stream by stream, short ones first.
FirstSeen(w, streams) ==
    LET i == Min(Supporting(w, streams)) IN <<-i, -Len(w), -Min(Starts(w, streams[i]))>>

\* Mutant: a window that recurs within one trajectory is promoted.
RecursAnywhere(w, streams) == Occurrences(w, streams) >= MinOccurrences
Recurs(w, streams) ==
    /\ Occurrences(w, streams) >= MinOccurrences
    /\ Cardinality(Supporting(w, streams)) >= MinTrajectories

\* The best by what they count are kept; no two are first met at one place.
DiscoverLevel(streams, cap) ==
    LET recurring == {w \in Windows(streams) : Recurs(w, streams)}
        keys == {[window |-> w,
                  key |-> <<Cardinality(Supporting(w, streams)), Occurrences(w, streams), Len(w)>>
                            \o FirstSeen(w, streams)] : w \in recurring}
    IN  {k.window : k \in {b \in keys : Cardinality({a \in keys : Beats(a.key, b.key)}) < cap}}

\* From the left, the longest composition that fits; two of one length never
\* fit at the same place, so the rest of the sort key has no effect.
Climbed(at, s, catalogue, depth) ==
    LET rest == SubSeq(s, at.cursor, Len(s))
        fit == {w \in catalogue : IsPrefix(w, rest)}
        w == CHOOSE w \in fit : \A v \in fit : Len(v) <= Len(w)
    IN  IF at.cursor > Len(s) THEN at
        ELSE IF fit = {}
        THEN [cursor |-> at.cursor + 1, output |-> Append(at.output, s[at.cursor])]
        ELSE [cursor |-> at.cursor + Len(w), output |-> Append(at.output, <<depth, w>>)]
CollapseWithCatalogue(s, catalogue, depth) ==
    LET at[n \in 0..Len(s)] == IF n = 0 THEN [cursor |-> 1, output |-> <<>>]
                               ELSE Climbed(at[n - 1], s, catalogue, depth)
    IN  at[Len(s)].output

\* Levels until one is empty or changes nothing.
NextLevel(at, depth, cap) ==
    LET catalogue == DiscoverLevel(at.streams, cap)
        above == [i \in DOMAIN at.streams |->
                     CollapseWithCatalogue(at.streams[i], catalogue, depth)]
    IN  IF at.done THEN at
        ELSE IF catalogue = {} THEN [at EXCEPT !.done = TRUE]
        ELSE [levels |-> Append(at.levels, [catalogue |-> catalogue, streams |-> above]),
              streams |-> above, done |-> above = at.streams]
Build(index, cap) ==
    LET at[d \in 0..MaxDepth] ==
          IF d = 0 THEN [levels |-> <<>>, streams |-> AtomicStreams(index), done |-> FALSE]
          ELSE NextLevel(at[d - 1], d, cap)
    IN  at[MaxDepth].levels

\* A query at depth 0 and at every level, one level on top of the other.
QueryViews(q, levels) ==
    LET views[d \in 0..Len(levels)] ==
          IF d = 0 THEN <<AtomicView(q)>>
          ELSE LET below == views[d - 1]
               IN  Append(below, CollapseWithCatalogue(Last(below), levels[d].catalogue, d))
    IN  views[Len(levels)]
TransformAddresses(q, levels) == Last(QueryViews(q, levels))

-----------------------------------------------------------------------------
\* One row of the table of longest common subsequences, and its last entry.
LcsCell(row, above, a, t, j) ==
    Append(row, IF a = t[j] THEN above[j] + 1
                ELSE IF row[j] >= above[j + 1] THEN row[j] ELSE above[j + 1])
LcsRow(above, a, t) ==
    LET row[j \in 0..Len(t)] == IF j = 0 THEN <<0>> ELSE LcsCell(row[j - 1], above, a, t, j)
    IN  row[Len(t)]
NoLcs(t) == [j \in 1..(Len(t) + 1) |-> 0]
\* Mutant: a match extends the longest row so far, which may use t[j] already.
LcsReused(q, t) ==
    Last(FoldLeft(LAMBDA above, a : [j \in DOMAIN above |->
                      IF j > 1 /\ a = t[j - 1] THEN above[j] + 1 ELSE above[j]],
                  NoLcs(t), q))
LcsLength(q, t) ==
    LET rows[i \in 0..Len(q)] == IF i = 0 THEN NoLcs(t) ELSE LcsRow(rows[i - 1], q[i], t)
    IN  Last(rows[Len(q)])

ScaleKey(q, t) ==
    <<Overlap(q, t), -Cardinality(ToSet(q)), LcsLength(q, t), AdjacencyOverlap(q, t),
      Overlap(q, t)>>

\* A trajectory's evidence per depth: the depths it shares an address at.
Shared(views, levels, index, i) ==
    LET at(d) == IF d = 0 THEN AtomicView(index[i].addresses) ELSE levels[d].streams[i]
    IN [d \in {e \in 0..Len(levels) : Overlap(views[e + 1], at(e)) > 0} |->
            ScaleKey(views[d + 1], at(d))]
DerivedKeys(shared) ==
    Sorted([d \in DOMAIN shared \ {0} |-> [row |-> shared[d], key |-> shared[d]]], MaxDepth)
\* Mutant: the derived evidence comes before the atomic one.
DerivedFirst(shared, t) ==
    FlattenSeq(DerivedKeys(shared)) \o shared[0] \o <<t.sequence>>
MultiscaleKey(shared, t) ==
    shared[0] \o <<Cardinality(DOMAIN shared)>> \o FlattenSeq(DerivedKeys(shared))
      \o <<t.sequence>>

ResolveOver(index, levels, q, limit) ==
    LET views == QueryViews(q, levels)
        matching == {i \in DOMAIN index : Overlap(q, index[i].addresses) > 0}
        match(i) == LET shared == Shared(views, levels, index, i)
                    IN  [row |-> [row |-> index[i], shared |-> shared],
                         key |-> MultiscaleKey(shared, index[i])]
    IN  Top(Sorted([i \in matching |-> match(i)], Len(index)), limit)
MultiscaleResolve(index, q, limit, cap) == ResolveOver(index, Build(index, cap), q, limit)

-----------------------------------------------------------------------------
\* StructuralDensityEngineV2: an address's place in the observed topology.
Profile(index, a) ==
    LET places == UNION {{<<i, j>> : j \in {k \in DOMAIN index[i].addresses :
                                                index[i].addresses[k] = a}} :
                             i \in DOMAIN index}
        before == {index[p[1]].addresses[p[2] - 1] : p \in {r \in places : r[2] > 1}}
        after == {index[p[1]].addresses[p[2] + 1] :
                     p \in {r \in places : r[2] < Len(index[r[1]].addresses)}}
    IN [occurrences |-> Cardinality(places),
        trajectories |-> Cardinality({p[1] : p \in places}),
        predecessors |-> before, successors |-> after]

-----------------------------------------------------------------------------
\* What an address stands for: the atoms below it, in order.
Unfolded(s) == FlattenSeq([i \in DOMAIN s |-> IF s[i][1] = 0 THEN <<s[i]>> ELSE s[i][2]])
Expansion(s) ==
    LET down[d \in 0..MaxDepth] == IF d = 0 THEN s ELSE Unfolded(down[d - 1])
    IN  down[MaxDepth]

NoCap == 1000

\* Nothing is lost or invented on the way up: every level's streams expand to
\* the trajectories they were built from, and every composition, of any depth,
\* occurs as it is in enough different trajectories.
LevelsExpand ==
    LET atoms == AtomicStreams(trajectories)
    IN \A cap \in {1, NoCap} : LET levels == Build(trajectories, cap) IN
           \A d \in DOMAIN levels :
               /\ \A i \in DOMAIN atoms : Expansion(levels[d].streams[i]) = atoms[i]
               /\ \A w \in levels[d].catalogue :
                      Cardinality({i \in DOMAIN atoms : Starts(Expansion(w), atoms[i]) # {}})
                          >= MinTrajectories

\* A trajectory asked for as a query climbs to the very stream it has.
QueriesClimbLikeTrails ==
    LET levels == Build(trajectories, NoCap)
    IN levels # <<>> =>
           \A i \in DOMAIN trajectories :
               TransformAddresses(trajectories[i].addresses, levels) = Last(levels).streams[i]

\* As long as no level reaches its cap, the ranking depends on what was ingested
\* and not on the order.
LevelsIgnoreOrder(queries) ==
    LET levels == Build(trajectories, NoCap)
    IN \A p \in Permutations(DOMAIN trajectories) :
           LET other == [i \in DOMAIN trajectories |-> trajectories[p[i]]]
               others == Build(other, NoCap)
           IN \A q \in queries : ResolveOver(other, others, q, 3)
                                     = ResolveOver(trajectories, levels, q, 3)

\* Levels only refine a ranking: no trajectory passes one with better atomic
\* evidence, and none matches without any.
AtomicEvidenceDominates(queries) ==
    LET levels == Build(trajectories, NoCap) IN
    \A q \in queries :
        LET rows == ResolveOver(trajectories, levels, q, 3)
            atomic(r) == ScaleKey(AtomicView(q), AtomicView(r.row.addresses))
        IN /\ {r.row : r \in ToSet(rows)}
                 = {t \in ToSet(trajectories) : Overlap(q, t.addresses) > 0}
           /\ \A i, j \in DOMAIN rows : i < j => ~Beats(atomic(rows[j]), atomic(rows[i]))

\* The table computes the longest common subsequence, which is at least what
\* the trajectory index follows from the head of the query.
LcsIsLongest(queries) ==
    \A q \in queries, i \in DOMAIN trajectories :
        LET t == trajectories[i].addresses
            Embeds(P) == \E f \in [P -> DOMAIN t] :
                             \A m, n \in P : t[f[n]] = q[n] /\ (m < n => f[m] < f[n])
        IN /\ LcsLength(q, t) = Max({Cardinality(P) : P \in {R \in SUBSET DOMAIN q : Embeds(R)}})
           /\ OrderedOverlap(q, t) <= LcsLength(q, t)

\* Every step from one address to another is counted at both its ends.
DensityBalances ==
    \A a, b \in Addresses :
        /\ b \in Profile(trajectories, a).successors
             <=> a \in Profile(trajectories, b).predecessors
        /\ Profile(trajectories, a).trajectories <= Profile(trajectories, a).occurrences

HierarchyIsFaithful(queries) ==
    /\ LevelsExpand /\ QueriesClimbLikeTrails
    /\ LevelsIgnoreOrder(queries) /\ AtomicEvidenceDominates(queries)
    /\ LcsIsLongest(queries) /\ DensityBalances
=============================================================================
