------------------------- MODULE StructuralEquivalence -------------------------
(***************************************************************************)
(* StructuralEquivalenceEngineV2: two beginnings of trajectories are taken *)
(* for equivalent once trajectories of different lineages go from them     *)
(* through one bridge to one terminal often enough.                        *)
(*                                                                         *)
(* A signature is the prefix it digests, an occurrence the place of its    *)
(* trajectory in the index, and a lineage the trajectory's source.         *)
(***************************************************************************)
EXTENDS StructuralTrajectories

CONSTANTS MinBridge, MinLineages

\* min_bridge_addresses >= 1, min_supporting_lineages >= 2.
ASSUME EquivalenceParameters == MinBridge \in Nat \ {0} /\ MinLineages \in Nat \ {0, 1}

View(t) ==
    [signature |-> SubSeq(t.addresses, 1, Len(t.addresses) - MinBridge - 1),
     bridge |-> SubSeq(t.addresses, Len(t.addresses) - MinBridge, Len(t.addresses) - 1),
     terminal |-> Last(t.addresses), lineage |-> t.source]
OccurrenceViews(index) ==
    [i \in {j \in DOMAIN index : Len(index[j].addresses) >= MinBridge + 2} |-> View(index[i])]

\* The signatures that meet at a bridge; a bridge with too many is skipped.
Bucket(views, bridge) == {views[i].signature : i \in {j \in DOMAIN views : views[j].bridge = bridge}}
\* Of one signature at one bridge, the first occurrences by lineage and id count.
Considered(index, views, signature, bridge, most) ==
    LET rows == {i \in DOMAIN views : views[i].signature = signature /\ views[i].bridge = bridge}
        before(i, j) == \/ views[i].lineage < views[j].lineage
                        \/ views[i].lineage = views[j].lineage /\ index[i].sequence < index[j].sequence
    IN {i \in rows : Cardinality({j \in rows : before(j, i)}) < most}

\* Mutant: two occurrences of one lineage make a witness.
WitnessesOfAnyLineage(index, maxBucket, most) ==
    LET views == OccurrenceViews(index)
        counted == {i \in DOMAIN views :
                      /\ Cardinality(Bucket(views, views[i].bridge)) <= maxBucket
                      /\ i \in Considered(index, views, views[i].signature, views[i].bridge, most)}
    IN {w \in counted \X counted :
            /\ views[w[1]].bridge = views[w[2]].bridge
            /\ views[w[1]].signature # views[w[2]].signature}
Witnesses(index, maxBucket, most) ==
    LET views == OccurrenceViews(index)
        counted == {i \in DOMAIN views :
                      /\ Cardinality(Bucket(views, views[i].bridge)) <= maxBucket
                      /\ i \in Considered(index, views, views[i].signature, views[i].bridge, most)}
    IN {w \in counted \X counted :
            /\ views[w[1]].bridge = views[w[2]].bridge
            /\ views[w[1]].signature # views[w[2]].signature
            /\ views[w[1]].lineage # views[w[2]].lineage}

\* _evaluate_pair: the relation between signatures x and y.
EvaluatePair(index, witnesses, x, y) ==
    LET views == OccurrenceViews(index)
        rows == {w \in witnesses : views[w[1]].signature = x /\ views[w[2]].signature = y}
        supporting == {w \in rows : views[w[1]].terminal = views[w[2]].terminal}
        pairs(ws) == {<<views[w[1]].lineage, views[w[2]].lineage>> : w \in ws}
        convergence == Cardinality(pairs(supporting))
        divergence == Cardinality(pairs(rows \ supporting))
    IN [convergence |-> convergence, divergence |-> divergence, supporting |-> supporting,
        state |-> IF convergence >= MinLineages /\ convergence > divergence THEN "supported"
                  ELSE IF divergence > 0 /\ divergence >= convergence THEN "contradicted"
                  ELSE IF convergence > 0 THEN "candidate" ELSE "insufficient"]
Evaluate(index, x, y, maxBucket, most) ==
    EvaluatePair(index, Witnesses(index, maxBucket, most), x, y)

\* reformulate_addresses: what is directly supported, besides the query itself.
Reformulations(index, q, maxBucket, most) ==
    LET views == OccurrenceViews(index)
        witnesses == Witnesses(index, maxBucket, most)
    IN {y \in {views[i].signature : i \in DOMAIN views} \ {q} :
            EvaluatePair(index, witnesses, q, y).state = "supported"}

-----------------------------------------------------------------------------
Unlimited == 1000
Signatures(index) == LET views == OccurrenceViews(index)
                     IN {views[i].signature : i \in DOMAIN views}
State(index, x, y) == Evaluate(index, x, y, Unlimited, Unlimited).state

\* The relation has no direction, rests on trajectories of different lineages,
\* and is not moved by what repeats: one more occurrence of a trajectory, from
\* the lineage it came from, changes the state of no pair.
EquivalenceIsIndependent ==
    LET signatures == Signatures(trajectories)
        witnesses == Witnesses(trajectories, Unlimited, Unlimited)
        relation(x, y) == EvaluatePair(trajectories, witnesses, x, y)
    IN \A x, y \in signatures :
           /\ relation(x, y).state = relation(y, x).state
           /\ x = y => relation(x, y).state = "insufficient"
           /\ \A i \in DOMAIN trajectories :
                  LET replayed == Append(trajectories, [trajectories[i] EXCEPT
                                                           !.sequence = Len(trajectories) + 1])
                  IN State(replayed, x, y) = relation(x, y).state

\* A supported pair can be revoked: what diverges as often as it converges is
\* not supported, and a lineage never speaks for both sides of a witness.
SupportIsRevocable ==
    LET witnesses == Witnesses(trajectories, Unlimited, Unlimited)
    IN \A x, y \in Signatures(trajectories) :
           LET r == EvaluatePair(trajectories, witnesses, x, y)
           IN r.state = "supported" =>
                  /\ \E w, v \in r.supporting :
                         <<trajectories[w[1]].source, trajectories[w[2]].source>>
                           # <<trajectories[v[1]].source, trajectories[v[2]].source>>
                  /\ \A w \in r.supporting :
                         /\ trajectories[w[1]].source # trajectories[w[2]].source
                         /\ Last(trajectories[w[1]].addresses) = Last(trajectories[w[2]].addresses)
                  /\ r.convergence > r.divergence

\* A limit on occurrences can only make the engine see less of what is there:
\* it never finds a witness the unlimited one does not.
LimitsOnlyHide ==
    \A maxBucket \in {2, Unlimited}, most \in {1, Unlimited} :
        Witnesses(trajectories, maxBucket, most) \subseteq
            Witnesses(trajectories, Unlimited, Unlimited)

EquivalenceIsSound == EquivalenceIsIndependent /\ SupportIsRevocable /\ LimitsOnlyHide
=============================================================================
