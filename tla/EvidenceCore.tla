----------------------------- MODULE EvidenceCore -----------------------------
(***************************************************************************)
(* EvidenceCore: the graph of source-backed relations, what is current and  *)
(* what is in conflict, which origins are trusted, and the paths inferred.  *)
(*                                                                         *)
(* Entities are numbered in the order of their keys, so that two spellings  *)
(* of one name are one entity; predicates are numbered in their order too.  *)
(* A row's identity is its place among the rows: as its evidence id, and as *)
(* the text it quotes.  A parameter left out is {}; a posterior is the pair *)
(* of its numerator and denominator.  The Wilson metric is not modelled.    *)
(***************************************************************************)
EXTENDS Integers, Sequences, FiniteSetsExt, Functions

CONSTANTS
    SinglePredicates,   \* _SINGLE_VALUE_PREDICATES
    Spaces,             \* namespaces
    Origins,            \* who states relations, and adjudicates
    Resolutions,        \* ids of adjudications
    Questions,          \* what infer_path() is asked
    MaxHistoryOfClaims  \* bound: rows and adjudications together

VARIABLES
    edges,              \* _edges
    nextEpoch,          \* _next_epoch
    adjudications,      \* _adjudications, with their ids
    stats,              \* what the reliability memory counts
    trust               \* _adjudication_graph, as pairs

evidenceVars == <<edges, nextEpoch, adjudications, stats, trust>>

Unjudged == [o \in Origins |-> [confirmed |-> 0, contradicted |-> 0]]

EvidenceInit ==
    /\ edges = <<>>
    /\ nextEpoch = [s \in Spaces |-> 0]
    /\ adjudications = <<>>
    /\ stats = Unjudged
    /\ trust = {}

-----------------------------------------------------------------------------
(* observe_relation() and adjudicate_origin()                              *)

Later(a, b) == IF a > b THEN a ELSE b

\* The value of a parameter that was given.
Given(parameter) == CHOOSE value \in parameter : TRUE

\* Mutant: an epoch that was given is the last one from now on.
EpochAfterLast(known, given) == IF given = {} THEN known + 1 ELSE Given(given) + 1
EpochAfter(known, given) ==
    IF given = {} THEN known + 1 ELSE Later(known, Given(given) + 1)

\* The row of a claim.
Edge(claim, epoch) ==
    [subject |-> claim.subject, predicate |-> claim.predicate, object |-> claim.object,
     space |-> claim.space, origin |-> claim.origin, confidence |-> claim.confidence,
     epoch |-> epoch]

\* given is the epoch of the request, or {}.
Observe(claim, given) ==
    LET epoch == IF given = {} THEN nextEpoch[claim.space] ELSE Given(given)
    IN  /\ edges' = Append(edges, Edge(claim, epoch))
        /\ nextEpoch' = [nextEpoch EXCEPT ![claim.space] = EpochAfter(@, given)]
        /\ UNCHANGED <<adjudications, stats, trust>>

\* _path_exists(), over any number of steps: what is in every set of origins that
\* holds the first one and whatever the graph leads to.
Reaches(graph, from, to) ==
    \A seen \in SUBSET Origins :
        from \in seen /\ (\A e \in graph : e[1] \in seen => e[2] \in seen) => to \in seen

\* Mutant: only who adjudicated directly is looked at.
IndependentOfDirect(graph, origin, judges) ==
    origin \notin judges /\ \A j \in judges : <<origin, j>> \notin graph
IndependentOf(graph, origin, judges) ==
    origin \notin judges /\ \A j \in judges : ~Reaches(graph, origin, j)

Judged(counts, r) ==
    IF r.confirmed THEN [counts EXCEPT ![r.origin].confirmed = @ + r.weight]
                   ELSE [counts EXCEPT ![r.origin].contradicted = @ + r.weight]

Acceptable(applied, graph, r) ==
    /\ r.id \notin applied
    /\ r.weight > 0
    /\ r.judges # {}
    /\ IndependentOf(graph, r.origin, r.judges)

\* Who adjudicates an origin is trusted in its place.
Trusting(r) == {<<j, r.origin>> : j \in r.judges}
Applied == {adjudications[i].id : i \in DOMAIN adjudications}

Adjudicate(r) ==
    /\ Acceptable(Applied, trust, r)
    /\ stats' = Judged(stats, r)
    /\ adjudications' = Append(adjudications, r)
    /\ trust' = trust \cup Trusting(r)
    /\ UNCHANGED <<edges, nextEpoch>>

-----------------------------------------------------------------------------
(* active_edges() and conflicts(), as of an epoch or without one           *)

Visible(space, epoch) ==
    {i \in DOMAIN edges : edges[i].space = space /\ \A e \in epoch : edges[i].epoch <= e}

SlotOf(i) == <<edges[i].subject, edges[i].predicate>>

\* The rows of a slot's latest epoch.
Latest(space, epoch, i) ==
    LET slot == {j \in Visible(space, epoch) : SlotOf(j) = SlotOf(i)}
    IN  {j \in slot : \A k \in slot : edges[k].epoch <= edges[j].epoch}

InConflict(rows) ==
    /\ \E i \in rows : edges[i].predicate \in SinglePredicates
    /\ Cardinality({edges[i].object : i \in rows}) > 1

Conflicts(space, epoch) ==
    {rows \in {Latest(space, epoch, i) : i \in Visible(space, epoch)} : InConflict(rows)}

\* Mutant: of several values the last one written counts.
ActiveAnyway(space, epoch) == UNION {Latest(space, epoch, i) : i \in Visible(space, epoch)}
ActiveEdges(space, epoch) ==
    UNION ({Latest(space, epoch, i) : i \in Visible(space, epoch)} \ Conflicts(space, epoch))

-----------------------------------------------------------------------------
(* infer_path()                                                            *)

\* The posterior mean under the prior (1, 1).
Reliability(o) ==
    <<1 + stats[o].confirmed, 2 + stats[o].confirmed + stats[o].contradicted>>
LessReliable(p, q) == p[1] * q[2] < q[1] * p[2]
Least(reliabilities) ==
    CHOOSE p \in reliabilities : \A q \in reliabilities : ~LessReliable(q, p)

Strongest(rows) == Max({edges[i].confidence : i \in rows})

\* The origins that state an edge as surely and as reliably as was asked.
AcceptedOrigins(rows, asked) ==
    {o \in {edges[i].origin : i \in rows} :
        /\ Strongest({i \in rows : edges[i].origin = o}) >= asked.confidence
        /\ \A least \in asked.reliability : ~LessReliable(Reliability(o), least)}

\* The logical edges: what any number of rows say, once.
SameClaim(i, active) ==
    {j \in active : SlotOf(j) = SlotOf(i) /\ edges[j].object = edges[i].object}
LogicalEdge(rows, asked) ==
    LET accepted == AcceptedOrigins(rows, asked)
        some == CHOOSE i \in rows : TRUE
        newest == {i \in rows : \A j \in rows : edges[j].epoch <= edges[i].epoch}
    IN [subject |-> edges[some].subject, predicate |-> edges[some].predicate,
        object |-> edges[some].object, evidence |-> Max(newest), origins |-> accepted,
        confidence |-> Strongest({i \in rows : edges[i].origin \in accepted}),
        reliability |-> Least({Reliability(o) : o \in accepted})]
LogicalEdges(asked) ==
    LET active == ActiveEdges(asked.space, asked.epoch)
        supported == {rows \in {SameClaim(i, active) : i \in active} :
                        Cardinality(AcceptedOrigins(rows, asked)) >= asked.origins}
    IN  {LogicalEdge(rows, asked) : rows \in supported}

\* What infer_path() does not refuse; epoch and reliability may be left out.
Inquiries ==
    [source : Nat, target : Nat, space : Spaces, epoch : SUBSET Nat,
     maxHops : Nat \ {0}, maxPaths : Nat \ {0}, confidence : Nat,
     origins : Nat \ {0}, reliability : SUBSET (Nat \X (Nat \ {0}))]
ASSUME QuestionsAssumption == Questions \subseteq Inquiries

\* A path is its edges in order; the nodes it visits begin with the source.
NodesOf(path, source) == <<source>> \o [i \in DOMAIN path |-> path[i].object]
EndOf(path, source) == IF path = <<>> THEN source ELSE path[Len(path)].object

\* The edges by the names of what they lead to, then of their predicates.
ByName(logical) ==
    CHOOSE ordered \in [1..Cardinality(logical) -> logical] :
        \A i, j \in DOMAIN ordered :
            i < j => \/ ordered[i].object < ordered[j].object
                     \/ /\ ordered[i].object = ordered[j].object
                        /\ ordered[i].predicate < ordered[j].predicate

\* Mutant: a path may come back to a node.
OnwardAround(graph, path, source) == {e \in graph : e.subject = EndOf(path, source)}
Onward(graph, path, source) ==
    {e \in graph : /\ e.subject = EndOf(path, source)
                   /\ e.object \notin Range(NodesOf(path, source))}

\* The path with each of the edges, in their order.
Along(path, onward) ==
    LET ordered == ByName(onward) IN [k \in DOMAIN ordered |-> Append(path, ordered[k])]

\* One path of the queue.  Whether enough are found is asked before it, not at
\* each of its edges.
Extend(graph, asked, found, path) ==
    IF Len(found.paths) >= asked.maxPaths THEN found
    ELSE LET onward == Onward(graph, path, asked.source)
             arriving == {e \in onward : e.object = asked.target}
         IN [paths |-> found.paths \o Along(path, arriving),
             waiting |-> found.waiting \o Along(path, onward \ arriving)]

\* A round takes the paths of one length, in the order they were found.
Explore(graph, asked, search) ==
    LET taken[n \in 0..Len(search.waiting)] ==
          IF n = 0 THEN [paths |-> search.paths, waiting |-> <<>>]
          ELSE Extend(graph, asked, taken[n - 1], search.waiting[n])
    IN  taken[Len(search.waiting)]

Search(graph, asked) ==
    LET round[hop \in 0..asked.maxHops] ==
          IF hop = 0 THEN [paths |-> <<>>, waiting |-> << <<>> >>]
          ELSE Explore(graph, asked, round[hop - 1])
    IN  round[asked.maxHops].paths

OriginFloor(path) == Min({Cardinality(path[i].origins) : i \in DOMAIN path})
ReliabilityFloor(path) == Least({path[i].reliability : i \in DOMAIN path})
Confidence(path) == Min({path[i].confidence : i \in DOMAIN path})

BeforeInName(p, q) ==
    \E i \in DOMAIN p \cap DOMAIN q :
        /\ p[i].object < q[i].object
        /\ \A j \in 1..(i - 1) : p[j].object = q[j].object

\* The order of the answers: more independent origins, more reliable, surer,
\* shorter, then by name.
Better(p, q) ==
    LET rp == ReliabilityFloor(p)
        rq == ReliabilityFloor(q)
        levels == << <<OriginFloor(q), OriginFloor(p)>>,
                     <<rq[1] * rp[2], rp[1] * rq[2]>>,
                     <<Confidence(q), Confidence(p)>>,
                     <<Len(p), Len(q)>>,
                     IF BeforeInName(p, q) THEN <<0, 1>>
                     ELSE IF BeforeInName(q, p) THEN <<1, 0>> ELSE <<0, 0>> >>
    IN  \E i \in DOMAIN levels :
            levels[i][1] < levels[i][2] /\ \A j \in 1..(i - 1) : levels[j][1] = levels[j][2]

\* The graph is that of the logical edges.  The sort is stable: equal paths stay
\* in the order they were found.
InferPath(graph, asked) ==
    LET found == Search(graph, asked)
        ahead(i) == {j \in DOMAIN found : \/ Better(found[j], found[i])
                                          \/ j < i /\ ~Better(found[i], found[j])}
    IN  {found[i] : i \in {k \in DOMAIN found : Cardinality(ahead(k)) < asked.maxPaths}}

-----------------------------------------------------------------------------
(* EvidenceCoreStateCodec: dump() writes the rows and the adjudications;    *)
(* load() observes and adjudicates them again.                             *)

\* Mutant: the epochs that rows were given are not counted again.
NoEpochs(rows) == [space \in Spaces |-> 0]
EpochsOf(rows) ==
    LET after[n \in 0..Len(rows)] ==
          IF n = 0 THEN [space \in Spaces |-> 0]
          ELSE [after[n - 1] EXCEPT ![rows[n].space] = EpochAfter(@, {rows[n].epoch})]
    IN  after[Len(rows)]

NotJudged == [applied |-> {}, refused |-> FALSE, stats |-> Unjudged, trust |-> {}]
JudgedAfter(core, r) ==
    [applied |-> core.applied \cup {r.id},
     refused |-> core.refused \/ ~Acceptable(core.applied, core.trust, r),
     stats |-> Judged(core.stats, r),
     trust |-> core.trust \cup Trusting(r)]
JudgedBy(records) ==
    LET after[n \in 0..Len(records)] ==
          IF n = 0 THEN NotJudged ELSE JudgedAfter(after[n - 1], records[n])
    IN  after[Len(records)]

\* The requests: claims with or without an epoch, and adjudications of any kind.
Statements ==
    [subject : Nat, predicate : Nat, object : Nat, space : Spaces, origin : Origins,
     confidence : Nat]
Adjudications(weights) ==
    [id : Resolutions, origin : Origins, judges : SUBSET Origins, confirmed : BOOLEAN,
     weight : weights]

ClaimsNext(claims, givens) ==
    /\ Len(edges) + Len(adjudications) < MaxHistoryOfClaims
    /\ \E claim \in claims, given \in givens : Observe(claim, given)
AdjudicationsNext(weights) ==
    /\ Len(edges) + Len(adjudications) < MaxHistoryOfClaims
    /\ \E r \in Adjudications(weights) : Adjudicate(r)

EvidenceNext ==
    \/ ClaimsNext(Statements, {{}} \cup {{epoch} : epoch \in Nat})
    \/ AdjudicationsNext(Nat)

EvidenceSpec == EvidenceInit /\ [][EvidenceNext]_evidenceVars

-----------------------------------------------------------------------------
\* A service that restarts from a snapshot goes on where it was: the next epochs
\* and the trust in each origin are those it had, and no adjudication it accepted
\* is refused.  A claim without an epoch is then newer than all there are.
EvidenceReplays ==
    /\ EpochsOf(edges) = nextEpoch
    /\ JudgedBy(adjudications) =
           [applied |-> Applied, refused |-> FALSE, stats |-> stats, trust |-> trust]
    /\ \A i \in DOMAIN edges : edges[i].epoch < nextEpoch[edges[i].space]

\* No origin's reliability rests, through any chain of adjudications, on itself:
\* in every group of origins there is one that none of the others vouches for.
TrustIsGrounded ==
    \A group \in (SUBSET Origins) \ {{}} :
        \E o \in group : \A i \in DOMAIN adjudications :
            adjudications[i].origin = o => adjudications[i].judges \cap group = {}

\* A single-valued slot has one value, or none while its latest rows disagree; a
\* slot is silent only then, and what it says is no older than any row of it.
ConflictsAbstain(space, epoch) ==
    \A i \in Visible(space, epoch) :
        LET current == {j \in ActiveEdges(space, epoch) : SlotOf(j) = SlotOf(i)}
        IN  /\ current = {} <=> \E rows \in Conflicts(space, epoch) :
                                    \E j \in rows : SlotOf(j) = SlotOf(i)
            /\ edges[i].predicate \in SinglePredicates =>
                   Cardinality({edges[j].object : j \in current}) <= 1
            /\ \A j \in current : edges[j].epoch >= edges[i].epoch

\* evidence_core.py and evidence_state.py: a restart from a snapshot changes
\* nothing, trust never comes back to who gives it, and what disagrees is not
\* used, today or as of any earlier row.
EvidenceIsSound ==
    /\ EvidenceReplays /\ TrustIsGrounded
    /\ \A space \in Spaces, epoch \in {{}} \cup {{edges[i].epoch} : i \in DOMAIN edges} :
           ConflictsAbstain(space, epoch)

\* Every path there is, by definition.
AllPaths(graph, asked) ==
    {p \in UNION {[1..n -> graph] : n \in 1..asked.maxHops} :
        LET nodes == NodesOf(p, asked.source)
        IN  /\ \A i \in DOMAIN p : p[i].subject = nodes[i]
            /\ IsInjective(nodes)
            /\ EndOf(p, asked.source) = asked.target}

\* Inference answers real paths, all of them when they are few enough; one that
\* is left out is no shorter than the answers, or comes after all of them.  Where
\* there is no row there is no path to ask for.
PathsInferred == edges # <<>> =>
    \A asked \in Questions : \A graph \in {LogicalEdges(asked)} :
        LET all == AllPaths(graph, asked)
            answered == InferPath(graph, asked)
        IN  /\ answered \subseteq all
            /\ Cardinality(answered) = Min({Cardinality(all), asked.maxPaths})
            /\ \A p \in all \ answered :
                   \/ \A a \in answered : Len(p) >= Len(a)
                   \/ \A a \in answered : ~Better(p, a)
=============================================================================
