--------------------------- MODULE ConceptRelations ---------------------------
(***************************************************************************)
(* The native runtime's relations between concepts: concept_relation_*.c   *)
(* and relational_activation_native.c.  The relations of the turns a        *)
(* namespace holds become the edges of a graph whose nodes are concepts, or *)
(* surfaces no concept names; four readers answer from it.                  *)
(*                                                                         *)
(* Which question a text asks, and which surfaces it names, is the anchor  *)
(* extractor's; a question is given here as its kind and surfaces.  A path *)
(* is the sequence of its edges.  Confidences are quarters, and activation *)
(* halves them per hop.  Of the order answers are listed in, only what a   *)
(* limit cuts by it is kept.                                               *)
(***************************************************************************)
EXTENDS NativeConcepts

CONSTANTS
    MaxHops, MaxPaths,      \* BRIDGE_MAX_HOPS, BRIDGE_MAX_PATHS
    MaxListed,              \* BRIDGE_MAX_COLLECTION, BRIDGE_MAX_NEIGHBORS
    MinConfidence,          \* of the bridge, in quarters
    MinActivation,          \* of an activation, in eighths
    MaxFrontier, MaxResults \* ACTIVATION_MAX_FRONTIER, ACTIVATION_MAX_RESULTS

-----------------------------------------------------------------------------
(* concept_relation_adapter.c                                              *)

Stating == {"user_assertion", "user_correction", "direct_observation", "external_import",
            "derived_relation"}

\* endpoint_key(): the concept a surface names, or the surface.
Key(known, space, surface, context) ==
    LET read == Reading(known, space, surface, context)
    IN  IF read.status = "hit" THEN <<"concept", CHOOSE id \in read.ids : TRUE>>
        ELSE <<"surface", surface>>
IsClear(known, space, surface, context) ==
    Reading(known, space, surface, context).status # "ambiguous"

\* Mutant: an ambiguous surface is a node like any other.
EdgeWithoutDoubt(known, space, row, r) ==
    [subject |-> Key(known, space, r.subject, row.text),
     object |-> Key(known, space, r.object, row.text),
     predicate |-> r.predicate, evidence |-> r.id, confidence |-> r.confidence, size |-> r.size,
     ambiguous |-> FALSE]
Edge(known, space, row, r) ==
    [subject |-> Key(known, space, r.subject, row.text),
     object |-> Key(known, space, r.object, row.text),
     predicate |-> r.predicate, evidence |-> r.id, confidence |-> r.confidence, size |-> r.size,
     ambiguous |-> \E s \in {r.subject, r.object} : ~IsClear(known, space, s, row.text)]

\* memoria_concept_relation_build_edges(): a superseded turn states nothing.
\* Whether the lineage of a derived turn still stands is not asked.
Edges(rows, memorySpace, known, space) ==
    LET stating == SelectSeq(rows, LAMBDA row : /\ ~row.gone /\ row.space = memorySpace
                                                /\ row.type \in Stating)
    IN  FlattenSeq([i \in DOMAIN stating |->
            [j \in DOMAIN stating[i].relations |->
                Edge(known, space, stating[i], stating[i].relations[j])]])

-----------------------------------------------------------------------------
(* concept_relation_traversal.c                                            *)

Usable(edges, least) == SelectSeq(edges, LAMBDA e : ~e.ambiguous /\ e.confidence >= least)

Nodes(path, source) == {source} \cup {path[i].object : i \in DOMAIN path}
End(path, source) == IF path = <<>> THEN source ELSE Last(path).object

\* Mutant: a path may come back to where it was.
ExtensionsAround(path, source, edges) ==
    SelectSeq(edges, LAMBDA e : e.subject = End(path, source))
\* The edges a path can go on with.
Extensions(path, source, edges) ==
    SelectSeq(edges, LAMBDA e : /\ e.subject = End(path, source)
                                /\ e.object \notin Nodes(path, source))

\* One state of the queue: unless enough paths are found, those that reach the
\* target are written, all of them, and the others wait.
Expand(reached, path, source, target, edges) ==
    LET next == [i \in DOMAIN Extensions(path, source, edges) |->
                    Append(path, Extensions(path, source, edges)[i])]
    IN  IF Len(reached.found) >= MaxPaths THEN reached
        ELSE [found |-> reached.found
                          \o SelectSeq(next, LAMBDA p : Last(p).object = target),
              waiting |-> reached.waiting
                          \o SelectSeq(next, LAMBDA p : Last(p).object # target)]

\* memoria_concept_relation_infer_paths(): breadth first.
InferPaths(source, target, edges) ==
    LET after[hops \in 0..MaxHops] ==
          IF hops = 0 THEN [found |-> <<>>, waiting |-> << <<>> >>]
          ELSE LET before == after[hops - 1]
               IN  FoldLeft(LAMBDA reached, path : Expand(reached, path, source, target, edges),
                            [found |-> before.found, waiting |-> <<>>], before.waiting)
    IN  IF source = target THEN <<>> ELSE after[MaxHops].found

\* memoria_concept_relation_runtime_infer(): an ambiguous anchor finds nothing.
RuntimeInfer(rows, memorySpace, known, space, source, target, query) ==
    IF \E s \in {source, target} : ~IsClear(known, space, s, query) THEN <<>>
    ELSE InferPaths(Key(known, space, source, query), Key(known, space, target, query),
                    Usable(Edges(rows, memorySpace, known, space), MinConfidence))

-----------------------------------------------------------------------------
(* concept_relation_collection.c, concept_relation_neighborhood.c          *)

\* Mutant: the first evidence of a member stays.
FirstMember(members, e) ==
    IF \E m \in ToSet(members) : m.key = e.subject THEN members
    ELSE Append(members, [key |-> e.subject, evidence |-> e.evidence, confidence |-> e.confidence])
\* A member keeps the most confident evidence seen.
WithMember(members, e) ==
    LET at == SelectInSeq(members, LAMBDA m : m.key = e.subject)
        member == [key |-> e.subject, evidence |-> e.evidence, confidence |-> e.confidence]
    IN  IF at = 0 THEN Append(members, member)
        ELSE IF e.confidence > members[at].confidence THEN [members EXCEPT ![at] = member]
        ELSE members

\* The entries before the first whose key would be one too many.
Within(entries, keys) ==
    LET listed(n) == {keys[i] : i \in 1..n}
    IN  SubSeq(entries, 1, Max({n \in 0..Len(entries) : Cardinality(listed(n)) <= MaxListed}))

\* memoria_concept_relation_collect_type()
CollectType(rows, memorySpace, known, space, type, query) ==
    LET kind == SelectSeq(Usable(Edges(rows, memorySpace, known, space), MinConfidence),
                          LAMBDA e : /\ e.predicate = "is"
                                     /\ e.object = Key(known, space, type, query))
    IN  IF ~IsClear(known, space, type, query) THEN {}
        ELSE ToSet(FoldLeft(WithMember, <<>>, Within(kind, [i \in DOMAIN kind |-> kind[i].subject])))

Across(e, node) == IF e.subject = node THEN e.object ELSE e.subject
Neighbor(e, node) == [key |-> Across(e, node), predicate |-> e.predicate, evidence |-> e.evidence]

\* memoria_concept_relation_neighborhood(): what is one edge away, either way.
Neighborhood(rows, memorySpace, known, space, source, query) ==
    LET key == Key(known, space, source, query)
        touching == SelectSeq(Usable(Edges(rows, memorySpace, known, space), MinConfidence),
                              LAMBDA e : key \in {e.subject, e.object})
        near == [i \in DOMAIN touching |-> Neighbor(touching[i], key)]
    IN  IF ~IsClear(known, space, source, query) THEN {} ELSE ToSet(Within(near, near))

-----------------------------------------------------------------------------
(* concept_relation_resolve_bridge.c                                       *)

\* memoria_mobile_resolve_context_json(), once the base resolver has found
\* nothing: one path, else a collection, else a neighborhood.  The paths are written
\* to an array of MaxPaths on its stack: what follows one more is undefined.
Bridge(rows, memorySpace, known, space, asked) ==
    LET paths == RuntimeInfer(rows, memorySpace, known, space, asked.source, asked.target, asked.query)
        members == CollectType(rows, memorySpace, known, space, asked.type, asked.query)
        near == Neighborhood(rows, memorySpace, known, space, asked.around, asked.query)
    IN  IF asked.source # <<>> /\ Len(paths) > MaxPaths THEN [kind |-> "undefined", answer |-> {}]
        ELSE IF asked.source # <<>> /\ Len(paths) = 1 THEN [kind |-> "path", answer |-> {paths[1]}]
        ELSE IF asked.type # <<>> /\ members # {} THEN [kind |-> "collection", answer |-> members]
        ELSE IF asked.around # <<>> /\ near # {} THEN [kind |-> "neighborhood", answer |-> near]
        ELSE [kind |-> "unresolved", answer |-> {}]

-----------------------------------------------------------------------------
(* relational_activation_native.c                                          *)

\* hop_factor(): in eighths.
Effective(e, hop) == IF hop = 1 THEN 2 * e.confidence ELSE e.confidence

\* The lines of the context are joined by one more character.
Extra(lines, e) == e.size + (IF lines = {} THEN 0 ELSE 1)

\* Mutant: a relation too long to show leads nowhere.
LookOnlyShown(seen, i, e, node, hop, depth, budget) ==
    LET fits == seen.used + Extra(seen.chosen, e) <= budget
        goes == fits /\ hop < depth /\ Across(e, node) \notin ToSet(seen.visited)
    IN  [visited |-> IF goes THEN Append(seen.visited, Across(e, node)) ELSE seen.visited,
         chosen |-> IF fits THEN seen.chosen \cup {<<i, hop>>} ELSE seen.chosen,
         used |-> IF fits THEN seen.used + Extra(seen.chosen, e) ELSE seen.used]
\* One edge at a node: the other end is visited later, whether or not the
\* relation fits what is left of the prompt.
Look(seen, i, e, node, hop, depth, budget) ==
    LET fits == seen.used + Extra(seen.chosen, e) <= budget
        goes == /\ hop < depth /\ Len(seen.visited) < MaxFrontier
                /\ Across(e, node) \notin ToSet(seen.visited)
    IN  [visited |-> IF goes THEN Append(seen.visited, Across(e, node)) ELSE seen.visited,
         chosen |-> IF fits THEN seen.chosen \cup {<<i, hop>>} ELSE seen.chosen,
         used |-> IF fits THEN seen.used + Extra(seen.chosen, e) ELSE seen.used]

\* Mutant: distance does not weaken a relation.
EligibleAnyhow(e, i, node, hop, chosen) ==
    /\ ~e.ambiguous /\ node \in {e.subject, e.object}
    /\ 2 * e.confidence >= MinActivation /\ \A c \in chosen : c[1] # i
EligibleAt(e, i, node, hop, chosen) ==
    /\ ~e.ambiguous /\ node \in {e.subject, e.object}
    /\ Effective(e, hop) >= MinActivation /\ \A c \in chosen : c[1] # i

LookAround(seen, edges, node, hop, depth, budget) ==
    FoldLeft(LAMBDA s, i :
                IF EligibleAt(edges[i], i, node, hop, s.chosen) /\ Cardinality(s.chosen) < MaxResults
                THEN Look(s, i, edges[i], node, hop, depth, budget) ELSE s,
             seen, [i \in DOMAIN edges |-> i])

\* memoria_mobile_activate_relations_json(): the edges shown, with their hop.
\* depth is at most 2: the nodes visited after the start are one hop away.
Activate(edges, start, depth, budget) ==
    LET begun == LookAround([visited |-> <<start>>, chosen |-> {}, used |-> 0],
                            edges, start, 1, depth, budget)
    IN  IF depth = 1 THEN begun
        ELSE FoldLeft(LAMBDA s, node : LookAround(s, edges, node, 2, depth, budget),
                      begun, Tail(begun.visited))

-----------------------------------------------------------------------------

\* Reference: the simple paths of usable edges, edge by edge.
SimplePaths(source, target, edges) ==
    {p \in BoundedSeq(ToSet(edges), MaxHops) :
        /\ p # <<>> /\ p[1].subject = source /\ Last(p).object = target
        /\ \A i \in 2..Len(p) : p[i].subject = p[i - 1].object
        /\ \A i, j \in DOMAIN p : i # j => p[i].object # p[j].object
        /\ \A i \in DOMAIN p : p[i].object # source}

\* A relation is inferred exactly when one path of clear and confident edges
\* leads from one anchor to the other: a second one, also over another statement
\* of the same relation, leaves the question open, and the cut at MaxPaths never
\* hides it.  No answer names a surface that has several readings; and only what
\* nothing usable touches is left without any answer.  Nothing is promised of a
\* question whose paths overrun the array they are written to, which takes more than
\* MaxPaths of them (infer_paths, resolve_bridge.c).
PathsAreUnique(rows, memorySpace, known, space, source, target) ==
    LET query == source \o target
        from == Key(known, space, source, query)
        to == Key(known, space, target, query)
        usable == Usable(Edges(rows, memorySpace, known, space), MinConfidence)
        clear(e) == \A node \in {e.subject, e.object} :
                        node[1] = "surface" => Candidates(known, space, node[2]) = {}
        asked == [source |-> source, target |-> target, type |-> <<>>, around |-> source,
                  query |-> query]
    IN  \A all \in {SimplePaths(from, to, usable)},
          bridge \in {Bridge(rows, memorySpace, known, space, asked)} :
            from # to /\ (\A s \in {source, target} : IsClear(known, space, s, query)) =>
              /\ bridge.kind = "undefined" => Cardinality(all) > MaxPaths
              /\ bridge.kind = "path" <=> Cardinality(all) = 1
              /\ bridge.kind = "path" => bridge.answer = all
                                            /\ \A path \in all : \A i \in DOMAIN path : clear(path[i])
              /\ bridge.kind = "unresolved" => \A e \in ToSet(usable) : from \notin {e.subject, e.object}

\* A collection has each member once, with its best evidence, as long as it is
\* not cut; cut, it is the members first stated (collect_type).
CollectionKeepsBest(rows, memorySpace, known, space, type) ==
    LET members == CollectType(rows, memorySpace, known, space, type, type)
        stated == {e \in ToSet(Usable(Edges(rows, memorySpace, known, space), MinConfidence)) :
                      /\ e.predicate = "is" /\ e.object = Key(known, space, type, type)}
        of(key) == {e.confidence : e \in {s \in stated : s.subject = key}}
    IN  IsClear(known, space, type, type) =>
          /\ Cardinality(members)
               = Min({MaxListed, Cardinality({e.subject : e \in stated})})
          /\ Cardinality({e.subject : e \in stated}) <= MaxListed =>
               \A e \in stated : \E m \in members : m.key = e.subject /\ m.confidence = Max(of(e.subject))

\* What activation shows is in reach at its hop, each relation once, and fits the
\* prompt and its limits; what is in reach and not shown would not fit any more, also
\* when the relation that led to it was itself too long to show, unless the results
\* are full, or the frontier was before a node that leads to it.
ActivationIsMaximal(edges, start, depth, budget) ==
    LET seen == Activate(edges, start, depth, budget)
        near == {i \in DOMAIN edges : EligibleAt(edges[i], i, start, 1, {})}
        around == {Across(edges[i], start) : i \in near} \ {start}
        far == {i \in DOMAIN edges \ near :
                   /\ depth = 2 /\ ~edges[i].ambiguous
                   /\ edges[i].confidence >= MinActivation
                   /\ {edges[i].subject, edges[i].object} \cap around # {}}
        shown == {c[1] : c \in seen.chosen}
        led == {i \in far : {edges[i].subject, edges[i].object}
                              \cap (ToSet(seen.visited) \ {start}) # {}}
    IN  /\ seen.used <= budget /\ Cardinality(shown) = Cardinality(seen.chosen)
        /\ Cardinality(shown) <= MaxResults /\ Len(seen.visited) <= MaxFrontier
        /\ \A c \in seen.chosen : IF c[2] = 1 THEN c[1] \in near ELSE c[1] \in led
        /\ Cardinality(shown) < MaxResults =>
             /\ \A i \in (near \cup led) \ shown : seen.used + Extra(seen.chosen, edges[i]) > budget
             /\ Len(seen.visited) < MaxFrontier => led = far
=============================================================================
