-------------------------- MODULE StructuralAttractor --------------------------
(***************************************************************************)
(* StructuralAttractorResolverV2: of the addresses a frontier proposes, the *)
(* one that no other dominates on independent evidence, if there is one.   *)
(*                                                                         *)
(* A reading of the association field is a function from a channel, a      *)
(* source and a target to a mass, in units of which mass_epsilon is one.   *)
(***************************************************************************)
EXTENDS StructuralRollout

Channels == {"within", "temporal"}
Epsilon == 1

\* What the n-th address of the query adds: each counts once.
Adds(q, n, target, channel, reading) ==
    IF \E k \in 1..n - 1 : q[k] = q[n] THEN 0 ELSE reading[channel][q[n]][target]
TotalMass(q, target, channel, reading) ==
    LET mass[n \in 0..Len(q)] ==
          IF n = 0 THEN 0 ELSE mass[n - 1] + Adds(q, n, target, channel, reading)
    IN  mass[Len(q)]
SupportedSources(q, target, channel, reading) ==
    Cardinality({source \in ToSet(q) : reading[channel][source][target] > Epsilon})

\* _candidate: discrete and continuous evidence.  Depth and density are shown,
\* not weighed.
Candidate(index, q, reading, branches) ==
    LET target == Head((CHOOSE b \in branches : TRUE).continuation)
        support == UNION {{w[1] : w \in b.witnesses} : b \in branches}
    IN [address |-> target, support |-> support,
        sources |-> {index[i].source : i \in support},
        discrete |-> <<Cardinality(support), Cardinality(UNION {b.matched : b \in branches}),
                       SupportedSources(q, target, "within", reading),
                       SupportedSources(q, target, "temporal", reading)>>,
        continuous |-> <<TotalMass(q, target, "within", reading),
                         TotalMass(q, target, "temporal", reading)>>]

\* Mutant: a clear lead on one dimension is enough.
LeadsSomewhere(left, right) ==
    \/ \E d \in DOMAIN left.discrete : left.discrete[d] > right.discrete[d]
    \/ \E d \in DOMAIN left.continuous : left.continuous[d] > right.continuous[d] + Epsilon
Dominates(left, right) ==
    /\ \A d \in DOMAIN left.discrete : left.discrete[d] >= right.discrete[d]
    /\ \A d \in DOMAIN left.continuous : left.continuous[d] + Epsilon >= right.continuous[d]
    /\ \/ \E d \in DOMAIN left.discrete : left.discrete[d] > right.discrete[d]
       \/ \E d \in DOMAIN left.continuous : left.continuous[d] > right.continuous[d] + Epsilon

Pareto(candidates) == {c \in candidates : \A other \in candidates : ~Dominates(other, c)}

Attractor(index, q, reading, r) ==
    LET candidates == {Candidate(index, q, reading, {b \in r.branches : Head(b.continuation) = a}) :
                          a \in {Head(b.continuation) : b \in r.branches}}
        winners == IF r.terminals = {} THEN Pareto(candidates) ELSE candidates
    IN [candidates |-> candidates, terminals |-> r.terminals, bounded |-> r.bounded,
        pareto |-> {c.address : c \in winners},
        terminal |-> ~r.bounded /\ candidates = {} /\ r.terminals # {},
        resolved |-> r.terminals = {} /\ Cardinality(winners) = 1,
        ambiguous |-> r.bounded \/ (candidates # {} /\ ~(r.terminals = {} /\ Cardinality(winners) = 1)),
        reason |->
            CASE r.bounded -> r.reason
              [] ~r.bounded /\ candidates = {} ->
                    IF r.terminals # {} THEN "terminal-attractor-region" ELSE "no-attractor-candidate"
              [] OTHER ->
                    IF r.terminals # {} THEN "terminal-competes-with-forward-attractor"
                    ELSE IF Cardinality(winners) = 1 THEN "unique-structural-attractor"
                    ELSE "crossed-or-equal-attractor-evidence"]
ResolveAttractor(index, raw, reading, candidateLimit, branchLimit) ==
    Attractor(index, Collapsed(raw), reading,
              ResolveRollout(index, raw, 1, candidateLimit, branchLimit))

-----------------------------------------------------------------------------
\* Readings that prefer any addresses, on each channel.
Preferring(within, temporal) ==
    [c \in Channels |-> [s \in Addresses |-> [t \in Addresses |->
        IF t \in (IF c = "within" THEN within ELSE temporal) THEN 2 ELSE 0]]]
Readings == {Preferring(within, temporal) : within, temporal \in {{}} \cup {{a} : a \in Addresses}}

\* Dominance tolerates a small loss, so it is not transitive; on two continuous
\* dimensions it still has no cycle, and some candidate is never dominated.
EvidenceGrid == {[discrete |-> <<0>>, continuous |-> <<x, y>>] : x, y \in 0..3}
DominanceHasNoCycle ==
    \A a, b, c \in EvidenceGrid : Pareto({a, b, c}) # {}

\* An answer is the next address in all the best occurrences that dominate, and
\* no occurrence among the best just ends.  One more occurrence of what was
\* resolved does not unseat it: it stays resolved, or the limits refuse to tell.
AttractorsHold(queries) ==
    \A q \in queries, reading \in Readings :
        \A r \in {ResolveAttractor(trajectories, q, reading, 2, 2)} :
           /\ r.candidates # {} => r.pareto # {}
           /\ r.resolved => \A c \in r.candidates : c.address \in r.pareto =>
                  \A i \in c.support :
                      LET again == Append(trajectories,
                                          [trajectories[i] EXCEPT !.sequence =
                                               Len(trajectories) + 1])
                      IN \A s \in {ResolveAttractor(again, q, reading, 2, 2)} :
                             s.bounded \/ (s.resolved /\ s.pareto = r.pareto)

AttractorIsStable(queries) ==
    IF trajectories = <<>> THEN DominanceHasNoCycle ELSE AttractorsHold(queries)
=============================================================================
