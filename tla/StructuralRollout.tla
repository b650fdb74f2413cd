--------------------------- MODULE StructuralRollout ---------------------------
(***************************************************************************)
(* StructuralRolloutResolverV2: the trajectories that match a query best   *)
(* are followed forward from where the match ends, each inside itself.     *)
(*                                                                         *)
(* Trajectories are named by their place in the index.                     *)
(***************************************************************************)
EXTENDS StructuralHierarchy

WithRow(rows, a, t) == Append(rows, LcsRow(Last(rows), a, t))
LcsTable(q, t) ==
    LET rows[i \in 0..Len(q)] == IF i = 0 THEN <<NoLcs(t)>> ELSE WithRow(rows[i - 1], q[i], t)
    IN  rows[Len(q)]

\* Where the longest common subsequence lies in t: a tie gives up t's position.
Backtrack(at, q, t, table) ==
    IF at.i = 0 \/ at.j = 0 THEN at
    ELSE IF q[at.i] = t[at.j] THEN [i |-> at.i - 1, j |-> at.j - 1, found |-> <<at.j>> \o at.found]
    ELSE IF table[at.i][at.j + 1] > table[at.i + 1][at.j] THEN [at EXCEPT !.i = @ - 1]
    ELSE [at EXCEPT !.j = @ - 1]
LcsPositions(q, t) ==
    LET table == LcsTable(q, t)
        at[n \in 0..(Len(q) + Len(t))] ==
          IF n = 0 THEN [i |-> Len(q), j |-> Len(t), found |-> <<>>]
          ELSE Backtrack(at[n - 1], q, t, table)
    IN  at[Len(q) + Len(t)].found

Continuation(t, anchor, steps) ==
    SubSeq(t, anchor + 1, IF anchor + steps > Len(t) THEN Len(t) ELSE anchor + steps)

CommonPrefix(sequences) ==
    LET shared == {n \in 0..Min({Len(s) : s \in sequences}) :
                      \A r, s \in sequences : SubSeq(r, 1, n) = SubSeq(s, 1, n)}
    IN  IF sequences = {} THEN <<>> ELSE SubSeq(CHOOSE s \in sequences : TRUE, 1, Max(shared))

\* What a resolution says.  Terminals count as one outcome among the branches.
Outcomes(branches, terminals) ==
    Cardinality(branches) + (IF terminals = {} THEN 0 ELSE 1)
Resolution(q, branches, terminals, bounded, reason) ==
    LET prefix == CommonPrefix({b.continuation : b \in branches})
    IN [query |-> q, branches |-> branches, terminals |-> terminals, bounded |-> bounded,
        exhausted |-> branches = {}, prefix |-> prefix,
        divergence |-> IF Cardinality(branches) > 1 THEN {Len(prefix)} ELSE {},
        ambiguous |-> bounded \/ Outcomes(branches, terminals) > 1, reason |-> reason]
Nothing(q, reason) == Resolution(q, {}, {}, FALSE, reason)

\* Mutant: whatever matches at all is rolled out.
StrongestOfAll(index, matches) == {i \in DOMAIN index : \E r \in ToSet(matches) : r.row = index[i]}
\* The places whose atomic key is the best one, out of all that match.
Strongest(index, matches) ==
    {i \in DOMAIN index : \E r \in ToSet(matches) :
        r.row = index[i] /\ r.shared[0] = matches[1].shared[0]}

Branch(index, q, members, depths, steps, continuation) ==
    [continuation |-> continuation,
     witnesses |-> {<<i, Last(LcsPositions(q, index[i].addresses))>> : i \in members},
     depths |-> UNION {depths[i] : i \in members},
     matched |-> UNION {{index[i].addresses[p] :
                            p \in ToSet(LcsPositions(q, index[i].addresses))} : i \in members}]

RolledOut(index, q, matches, steps, candidateLimit, branchLimit) ==
    LET strongest == Strongest(index, matches)
        after == [i \in strongest |->
                     LET t == index[i].addresses
                     IN Continuation(t, Last(LcsPositions(q, t)), steps)]
        depths == [i \in strongest |->
                      DOMAIN (CHOOSE r \in ToSet(matches) : r.row = index[i]).shared]
        terminals == {i \in strongest : after[i] = <<>>}
        branches == {Branch(index, q, {i \in strongest : after[i] = c}, depths, steps, c) :
                        c \in {after[i] : i \in strongest} \ {<<>>}}
    IN CASE index = <<>> -> Nothing(q, "no-trajectories")
         [] index # <<>> /\ matches = <<>> -> Nothing(q, "no-structural-match")
         [] matches # <<>> /\ Cardinality(strongest) > candidateLimit ->
                Resolution(q, {}, {}, TRUE, "candidate-limit-exceeded")
         [] OTHER ->
                IF Outcomes(branches, terminals) > branchLimit
                THEN Resolution(q, {}, terminals, TRUE, "branch-limit-exceeded")
                ELSE Resolution(q, branches, terminals, FALSE,
                                CASE Outcomes(branches, terminals) > 1 -> "competing-forward-outcomes"
                                  [] branches = {} -> "matched-terminal-occurrence"
                                  [] OTHER -> "single-forward-path")
ResolveRollout(index, raw, steps, candidateLimit, branchLimit) ==
    RolledOut(index, Collapsed(raw), MultiscaleResolve(index, Collapsed(raw), Len(index), NoCap),
              steps, candidateLimit, branchLimit)

\* frontier_addresses: the heads of a rollout of one step.
FrontierOf(rollout) ==
    LET heads == {Head(b.continuation) : b \in rollout.branches}
        hypotheses == {[address |-> a,
                        witnesses |-> UNION {b.witnesses : b \in {c \in rollout.branches :
                                                                    Head(c.continuation) = a}}]
                          : a \in heads}
    IN [hypotheses |-> hypotheses, terminals |-> rollout.terminals, bounded |-> rollout.bounded,
        resolved |-> ~rollout.bounded /\ Cardinality(heads) = 1 /\ rollout.terminals = {},
        ambiguous |-> rollout.bounded \/ Outcomes(heads, rollout.terminals) > 1]
RolloutFrontier(index, raw, candidateLimit, branchLimit) ==
    FrontierOf(ResolveRollout(index, raw, 1, candidateLimit, branchLimit))

-----------------------------------------------------------------------------
\* The positions spell a longest common subsequence, from left to right.
PositionsEmbed(queries) ==
    \A q \in queries, i \in DOMAIN trajectories :
        LET t == trajectories[i].addresses
            p == LcsPositions(q, t)
            matched == [n \in DOMAIN p |-> t[p[n]]]
        IN /\ \A n \in 2..Len(p) : p[n - 1] < p[n]
           /\ Len(p) = LcsLength(q, t) /\ LcsLength(q, matched) = Len(p)

\* A rollout that is not bounded out accounts for every trajectory that matches
\* best, once: it ends there, or it witnesses one branch, whose continuation it
\* goes through step by step right after its anchor.
RolloutPartitions(queries, steps) ==
    \A q \in queries : \A r \in {ResolveRollout(trajectories, q, steps, 2, 2)} :
        LET best(i) == ScaleKey(AtomicView(q), AtomicView(trajectories[i].addresses))
            matching == {i \in DOMAIN trajectories : Overlap(q, trajectories[i].addresses) > 0}
            strongest == {i \in matching : \A j \in matching : ~Beats(best(j), best(i))}
        IN ~r.bounded =>
              /\ r.terminals \cup UNION {{w[1] : w \in b.witnesses} : b \in r.branches} = strongest
              /\ \A b \in r.branches : \A w \in b.witnesses :
                     LET t == trajectories[w[1]].addresses
                     IN /\ w[1] \notin r.terminals
                        /\ IsPrefix(b.continuation, SubSeq(t, w[2] + 1, Len(t)))
                        /\ Len(b.continuation) = steps \/ Len(t) = w[2] + Len(b.continuation)
                        /\ \A c \in r.branches \ {b} : w[1] \notin {v[1] : v \in c.witnesses}

\* The frontier is what a longer rollout begins with, with the same witnesses
\* and terminals.  Where the longer one is bounded out the frontier may not be,
\* never the other way round.
FrontierStartsRollout(queries, steps) ==
    \A q \in queries :
      \A r \in {ResolveRollout(trajectories, q, steps, 2, 2)},
         f \in {RolloutFrontier(trajectories, q, 2, 2)} :
           ~r.bounded =>
              /\ ~f.bounded /\ f.terminals = r.terminals
              /\ UNION {h.witnesses : h \in f.hypotheses} = UNION {b.witnesses : b \in r.branches}
              /\ \A h \in f.hypotheses : \A w \in h.witnesses :
                     trajectories[w[1]].addresses[w[2] + 1] = h.address
              /\ f.resolved => r.prefix # <<>> /\ r.terminals = {}

RolloutIsFaithful(queries) ==
    /\ PositionsEmbed(queries)
    /\ RolloutPartitions(queries, 2)
    /\ FrontierStartsRollout(queries, 2)
=============================================================================
