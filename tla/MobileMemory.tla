----------------------------- MODULE MobileMemory -----------------------------
(***************************************************************************)
(* The native memory of the mobile runtime (memoria_mobile.c): a handle    *)
(* keeps every turn it learned and writes each one to BDR in one atomic    *)
(* batch, with the marks of the turns it corrects.                         *)
(*                                                                         *)
(* Whether a turn counts is decided by its lineage when it is read: a      *)
(* user's turn stands until a correction supersedes it, a derived relation *)
(* while every parent stands, an echo while one parent stands.  After a    *)
(* user's turn the handle derives a relation from every claim two          *)
(* independent roots support; those rows are learned one by one, after the *)
(* turn itself is durable.  The caller holds a lock around the handle      *)
(* (NativeRuntime.call), so requests do not overlap.                       *)
(*                                                                         *)
(* Requests leave order and authority to their defaults, a text states at  *)
(* most one claim, the extractor finds in a derived text the claim it was  *)
(* made from, and the request a candidate is sent in fits its buffer.  BDR *)
(* is external: a batch is written whole and reported durable, refused, or *)
(* written without being reported durable, which the code treats as a      *)
(* failure.                                                                *)
(***************************************************************************)
EXTENDS Naturals, SequencesExt, FiniteSetsExt

CONSTANTS
    Spaces,      \* namespaces
    Values,      \* values of the one property turns speak of; a claim is a value
    UserTypes,   \* source types of a plain statement
    EchoTypes,   \* source types of a text made from other memories
    Silent,      \* a turn that states no claim
    MaxVisited,  \* MEMORIA_LINEAGE_MAX_VISITED, the longest lineage followed
    MaxRoots,       \* MEMORIA_SEMANTIC_CONSOLIDATION_MAX_SUPPORTS
    MaxRelations,   \* the relations a consolidation looks at, 1024
    MaxCandidates,  \* the candidates of a consolidation, 8
    MaxTurns,    \* bound: requests that store a turn or an episode
    MaxReopens,  \* bound: kills and restarts
    MaxFaults    \* bound: failed writes

ASSUME VisitedAssumption == MaxVisited \in Nat \ {0}
ASSUME ClaimLimits == {MaxRoots, MaxRelations, MaxCandidates} \subseteq Nat /\ MaxRoots >= 2

VARIABLES
    turns,     \* h->turns
    episodes,  \* h->episodes, by their ids
    counter,   \* h->sequence, which names turns
    stored,    \* BDR: the turns and episodes by their slots, and the sequence
    erased,    \* how many slots of the handle a format erased unreported (history)
    queue,     \* candidates the running consolidation has still to learn
    request,   \* what the request being answered stored
    learned,   \* the turns answered with OK, with the turns each corrects
    told,      \* the episodes answered with OK: their slots and ids
    reopens, faults

mobileVars ==
    <<turns, episodes, counter, stored, erased, queue, request, learned, told, reopens, faults>>

\* The id of a turn, of its relation, of a derived turn, of an episode.
Turn(n) == <<"turn", n>>
Episode(n) == <<"episode", n>>
Relation(id) == <<"relation", id>>
Semantic(claim, supports) == <<"semantic", claim, supports>>

\* No handle: the process is down.
Down == [state |-> "down"]
Idle == [state |-> "idle"]

Nothing == [turns |-> <<>>, episodes |-> <<>>, counter |-> 0]
NoneErased == [turns |-> 0, episodes |-> 0]

MobileInit ==
    /\ turns = <<>> /\ episodes = <<>> /\ counter = 0
    /\ stored = Nothing /\ erased = NoneErased
    /\ queue = {} /\ request = Idle
    /\ learned = {} /\ told = {}
    /\ reopens = 0 /\ faults = 0

-----------------------------------------------------------------------------
(* lineage_kernel.c                                                        *)

FactualRoots ==
    {"user_assertion", "user_correction", "external_public", "external_private",
     "sensor_observation"}

\* The first row of the namespace that has this id, as a turn or as a relation.
NodeAt(rows, space, id) ==
    LET first == SelectInSeq(rows, LAMBDA r : r.space = space /\ id \in {r.id, Relation(r.id)})
        row == rows[first]
    IN  IF first = 0 \/ (row.claim = Silent /\ id # row.id)
        THEN [found |-> FALSE]
        ELSE [found |-> TRUE, id |-> id, gone |-> row.gone, root |-> row.root,
              type |-> IF id = row.id THEN row.type ELSE "derived_relation",
              parents |-> IF id = row.id THEN row.parents ELSE {row.id}]

\* Root ids are ids of user turns; the least one represents the others.
NoRoot == <<>>
LeastRoot(roots) ==
    IF roots = {} THEN NoRoot
    ELSE Turn(Min({root[2] : root \in roots}))

\* Mutant: one parent that stands is enough for a derived relation.
AnyParent(roots) == LeastRoot(roots \ {NoRoot})

AllParents(roots) == IF NoRoot \in roots THEN NoRoot ELSE LeastRoot(roots)

\* Every id a lineage can pass through.
Known(rows) ==
    LET ids == {rows[i].id : i \in DOMAIN rows} \cup {rows[i].root : i \in DOMAIN rows}
    IN  ids \cup {Relation(id) : id \in ids}

\* The graph of a namespace.
Nodes(rows, space) == [id \in Known(rows) |-> NodeAt(rows, space, id)]

\* The root an id rests on, given those beyond it: resolve_node() gives a
\* user's turn, or none.
Rooted(nodes, beyond, id) ==
    LET node == nodes[id]
        above == {beyond[p] : p \in node.parents}
    IN  IF ~node.found THEN NoRoot
        ELSE IF node.gone THEN NoRoot
        ELSE IF node.type \in FactualRoots THEN id
        ELSE IF node.parents = {}
        THEN IF node.root = id THEN NoRoot ELSE beyond[node.root]
        ELSE IF node.type = "derived_relation" THEN AllParents(above)
        ELSE LeastRoot(above \ {NoRoot})

\* path is visited[], the ids being resolved; left is the room it has left.
RootIn(nodes, start) ==
    LET resolve[left \in 0..MaxVisited] ==
          [path \in SUBSET DOMAIN nodes |->
             [id \in DOMAIN nodes |->
                IF left = 0 \/ id \in path THEN NoRoot
                ELSE Rooted(nodes, resolve[left - 1][path \cup {id}], id)]]
    IN  resolve[MaxVisited][{}][start]
RootsIn(nodes) == [id \in DOMAIN nodes |-> RootIn(nodes, id)]
Roots(rows, space) == RootsIn(Nodes(rows, space))
\* The roots of every namespace.
AllRoots(rows) == [space \in Spaces |-> Roots(rows, space)]

\* A row stands when it rests on a user's turn.
Stands(rows, roots, i) == roots[rows[i].space][rows[i].id] # NoRoot

-----------------------------------------------------------------------------
(* semantic_consolidation_*.c                                              *)

Triggers == {"user_assertion", "user_correction", "direct_observation", "external_import"}

\* The relations a consolidation looks at, of every namespace.
Evidence(rows) == {i \in DOMAIN rows : rows[i].type \in Triggers /\ rows[i].claim # Silent}

\* valid_support(): extracted by a rule of confidence 0.90 or more, and rooted.
Valid(rows, roots, space, claim) ==
    {i \in Evidence(rows) :
        /\ rows[i].space = space /\ rows[i].claim = claim /\ rows[i].sure
        /\ roots[space][Relation(rows[i].id)] # NoRoot}

\* Mutant: repetitions of one root count.
SupportsCounted(rows, roots, space, claim) == Valid(rows, roots, space, claim)

\* The relations a candidate is made from: the first of every root, the first
\* MaxRoots of them.
Supports(rows, roots, space, claim) ==
    LET valid == Valid(rows, roots, space, claim)
        root(i) == roots[space][Relation(rows[i].id)]
        firsts == {i \in valid : \A j \in valid : j < i => root(j) # root(i)}
    IN  {i \in firsts : Cardinality({j \in firsts : j < i}) < MaxRoots}
SupportsOf(rows, roots, i) == Supports(rows, roots, rows[i].space, rows[i].claim)

\* Mutant: a derived relation that fell keeps its claim derived.
DerivedBefore(rows, roots, space, claim) ==
    \E i \in DOMAIN rows :
        /\ rows[i].type = "derived_relation"
        /\ rows[i].space = space /\ rows[i].claim = claim

\* active_derived_claim_exists()
AlreadyDerived(rows, roots, space, claim) ==
    \E i \in DOMAIN rows :
        /\ rows[i].type = "derived_relation" /\ Stands(rows, roots, i)
        /\ rows[i].space = space /\ rows[i].claim = claim

\* Where a claim two roots support is met first.
Claimed(rows, roots) ==
    {i \in Evidence(rows) :
        \E supports \in {SupportsOf(rows, roots, i)} :
          /\ i \in supports /\ \A j \in supports : i <= j
          /\ Cardinality(supports) >= 2}

\* memoria_semantic_consolidation_candidates(): the first MaxCandidates of those
\* claims, or none when there are too many relations to look at.
Considered(rows, roots) ==
    IF Cardinality(Evidence(rows)) > MaxRelations THEN {}
    ELSE LET claimed == Claimed(rows, roots)
         IN  {i \in claimed : Cardinality({j \in claimed : j < i}) < MaxCandidates}

\* memoria_semantic_consolidation_from_turns(): only then are the derived ones left
\* out; a request to learn each that is due, in the order they were met.
Due(rows, roots) ==
    {i \in Considered(rows, roots) : ~AlreadyDerived(rows, roots, rows[i].space, rows[i].claim)}
RequestFor(rows, roots, i) ==
    LET supports == {Relation(rows[j].id) : j \in SupportsOf(rows, roots, i)}
    IN  [space |-> rows[i].space, claim |-> rows[i].claim, first |-> i,
         id |-> Semantic(rows[i].claim, supports), parents |-> supports]
Requests(rows, roots) == {RequestFor(rows, roots, i) : i \in Due(rows, roots)}
Candidates(rows) == Requests(rows, AllRoots(rows))

-----------------------------------------------------------------------------
(* mobile_persistence_bdr.c                                                *)

Outcomes == {"durable", "refused", "unsure"}

\* Rows with the turns at the corrected slots marked.
Marked(rows, slots) ==
    [i \in DOMAIN rows |-> IF i \in slots THEN [rows[i] EXCEPT !.gone = TRUE] ELSE rows[i]]

\* The rows on disk once a row is written at its slot, and every slot up to it.
Written(rows, slot, row) ==
    [i \in {j \in DOMAIN rows : j < slot} \cup {slot} |-> IF i = slot THEN row ELSE rows[i]]

\* Mutant: the marks are left out of the batch.
RowOnly(disk, slot, row, next, slots) ==
    [disk EXCEPT !.turns = Written(@, slot, row), !.counter = next]

\* memoria_persistence_save_turn_with_supersessions(): the row at its slot, the
\* counts and the marks in one batch.  A mark on a slot without a row makes none.
Batch(disk, slot, row, next, slots) ==
    [disk EXCEPT !.turns = Written(Marked(@, slots), slot, row), !.counter = next]

\* memoria_mobile_open() loads every slot up to the count, or fails.
Opens(disk) == \A rows \in {disk.turns, disk.episodes} :
                  \A i \in DOMAIN rows : 1..i \subseteq DOMAIN rows

-----------------------------------------------------------------------------
(* memoria_mobile_learn_turn_json()                                        *)

Traceable == {"derived_relation", "retrieved_replay", "assistant_generated"}

\* find_memory_ref() and find_turn_in_namespace() find the first row.
Ids(rows, space) ==
    LET turnsOf == {i \in DOMAIN rows : rows[i].space = space}
    IN  {rows[i].id : i \in turnsOf}
        \cup {Relation(rows[i].id) : i \in {j \in turnsOf : rows[j].claim # Silent}}
SlotOf(rows, space, id) ==
    SelectInSeq(rows, LAMBDA r : r.space = space /\ r.id = id)

\* better_root(): the highest authority, then the latest turn.
BestRoot(rows, space, roots) ==
    LET rank(root) ==
          LET slot == SlotOf(rows, space, root)
          IN  slot + IF rows[slot].type \in {"user_assertion", "user_correction"}
                     THEN Len(rows) ELSE 0
    IN  CHOOSE root \in roots : \A other \in roots : rank(root) >= rank(other)

\* The ultimate source written on a turn.
UltimateSources(space, type, id, parents, given) ==
    LET roots == {RootIn(Nodes(turns, space), p) : p \in parents} \ {NoRoot}
    IN  IF type \notin Traceable \/ parents = {} THEN {given}
        ELSE IF roots = {} THEN parents
        ELSE {BestRoot(turns, space, roots)}

\* A turn reaches the store and then the handle.  next is the sequence after it,
\* slots the turns it corrects.
Store(row, next, slots, outcome) ==
    LET slot == Len(turns) + 1
    IN  /\ outcome # "durable" => faults < MaxFaults
        /\ faults' = IF outcome = "durable" THEN faults ELSE faults + 1
        /\ stored' = IF outcome = "refused" THEN stored
                     ELSE Batch(stored, slot, row, next, slots)
        /\ IF outcome = "durable"
           THEN turns' = Append(Marked(turns, slots), row) /\ counter' = next
           ELSE UNCHANGED <<turns, counter>>

\* A client's turn: parents and corrected turns must be found in its namespace,
\* and a correction takes the turns it corrects as parents.  sure: the claim is
\* stated in a form extracted with confidence 0.95, an elliptic one with 0.85.
Learn(space, type, claim, sure, parents, corrects, given, outcome) ==
    LET id == Turn(counter + 1)
        slots == {SlotOf(turns, space, c) : c \in corrects}
        above == parents \cup corrects
    IN  /\ request = Idle /\ counter < MaxTurns /\ (claim = Silent => sure)
        /\ above \subseteq Ids(turns, space) /\ 0 \notin slots
        /\ \E root \in UltimateSources(space, type, id, above, given) :
             LET row == [id |-> id, space |-> space, type |-> type, root |-> root,
                         parents |-> above, claim |-> claim, sure |-> sure, gone |-> FALSE]
             IN  /\ Store(row, counter + 1, slots, outcome)
                 /\ IF outcome = "durable"
                    THEN /\ request' = [state |-> "busy", slot |-> Len(turns'),
                                        corrects |-> slots, kept |-> TRUE]
                         /\ queue' = IF type \in Triggers /\ claim # Silent
                                     THEN Candidates(turns') ELSE {}
                    ELSE UNCHANGED <<request, queue>>
        /\ UNCHANGED <<episodes, erased, learned, told, reopens>>

LearnStatement(space, type, claim, sure, outcome) ==
    Learn(space, type, claim, sure, {}, {}, Turn(counter + 1), outcome)

LearnCorrection(space, claim, sure, corrects, outcome) ==
    /\ corrects # {}
    /\ Learn(space, "user_correction", claim, sure, {}, corrects, Turn(counter + 1), outcome)

LearnEcho(space, type, claim, sure, parents, given, outcome) ==
    Learn(space, type, claim, sure, parents, {}, given, outcome)

\* The consolidation learns its next candidate and ignores how that ends.
DeriveNext(outcome) ==
    /\ request.state = "busy"
    /\ \E next \in {q \in queue : \A other \in queue : q.first <= other.first} :
         /\ \E root \in UltimateSources(next.space, "derived_relation", next.id,
                                        next.parents, next.id) :
              LET row == [id |-> next.id, space |-> next.space, type |-> "derived_relation",
                          root |-> root, parents |-> next.parents, claim |-> next.claim,
                          sure |-> TRUE, gone |-> FALSE]
              IN  Store(row, counter, {}, outcome)
         /\ queue' = queue \ {next}
    /\ request' = [request EXCEPT !.kept = @ /\ outcome = "durable"]
    /\ UNCHANGED <<episodes, erased, learned, told, reopens>>

Answer ==
    /\ request.state = "busy" /\ queue = {}
    /\ learned' = learned \cup
         {[slot |-> request.slot, id |-> turns[request.slot].id, corrects |-> request.corrects]}
    /\ request' = Idle
    /\ UNCHANGED <<turns, episodes, counter, stored, erased, queue, told, reopens, faults>>

\* memoria_mobile_store_episode_json(): episodes share the sequence of turns.
StoreEpisode(outcome) ==
    LET id == Episode(counter + 1)
        slot == Len(episodes) + 1
    IN  /\ request = Idle /\ counter < MaxTurns
        /\ outcome # "durable" => faults < MaxFaults
        /\ faults' = IF outcome = "durable" THEN faults ELSE faults + 1
        /\ stored' = IF outcome = "refused" THEN stored
                     ELSE [stored EXCEPT !.episodes = Written(@, slot, id),
                                         !.counter = counter + 1]
        /\ IF outcome = "durable"
           THEN /\ episodes' = Append(episodes, id) /\ counter' = counter + 1
                /\ told' = told \cup {[slot |-> slot, id |-> id]}
           ELSE UNCHANGED <<episodes, counter, told>>
        /\ UNCHANGED <<turns, erased, queue, request, learned, reopens>>

\* The process ends at any point, in the middle of a consolidation too.
Kill ==
    /\ request # Down /\ reopens < MaxReopens
    /\ turns' = <<>> /\ episodes' = <<>> /\ counter' = 0
    /\ queue' = {} /\ request' = Down
    /\ reopens' = reopens + 1
    /\ UNCHANGED <<stored, erased, learned, told, faults>>

\* memoria_mobile_open(): every row back from its slot.
Open ==
    /\ request = Down /\ Opens(stored)
    /\ turns' = stored.turns /\ episodes' = stored.episodes
    /\ counter' = stored.counter /\ request' = Idle
    /\ erased' = NoneErased
    /\ UNCHANGED <<stored, queue, learned, told, reopens, faults>>

\* memoria_mobile_format_json(): the store is cleared before the handle; ids
\* start again.  A clear that is not reported durable leaves the handle as it was,
\* and "late" is a failure to open the views again.  It counts as a reopening, or as
\* a fault.
Format(outcome) ==
    /\ request = Idle
    /\ IF outcome = "durable"
       THEN reopens < MaxReopens /\ reopens' = reopens + 1 /\ UNCHANGED faults
       ELSE faults < MaxFaults /\ faults' = faults + 1 /\ UNCHANGED reopens
    /\ IF outcome = "refused"
       THEN UNCHANGED <<stored, learned, told>>
       ELSE stored' = Nothing /\ learned' = {} /\ told' = {}
    /\ IF outcome \in {"refused", "unsure"}
       THEN UNCHANGED <<turns, episodes, counter>>
       ELSE turns' = <<>> /\ episodes' = <<>> /\ counter' = 0
    /\ erased' = CASE outcome = "refused" -> erased
                   [] outcome = "unsure" -> [turns |-> Len(turns), episodes |-> Len(episodes)]
                   [] OTHER -> NoneErased
    /\ UNCHANGED <<queue, request>>

\* What a request names: nothing, one memory, or two turns.
Named(ids) == {{}} \cup {{id} : id \in ids}
TwoTurns(space) == kSubset(2, {turns[i].id : i \in {j \in DOMAIN turns : turns[j].space = space}})

\* What may happen when texts make these claims in these forms and writes end in
\* these ways.
MobileStep(claims, forms, outcomes) ==
    \/ \E outcome \in outcomes :
         \/ \E space \in Spaces, claim \in claims, sure \in forms :
              \/ \E type \in UserTypes : LearnStatement(space, type, claim, sure, outcome)
              \/ \E corrects \in Named({turns[i].id : i \in DOMAIN turns}) \cup TwoTurns(space) :
                   LearnCorrection(space, claim, sure, corrects, outcome)
              \/ \E type \in EchoTypes :
                   \/ \E parents \in Named(Ids(turns, space)) \cup TwoTurns(space) :
                        LearnEcho(space, type, claim, sure, parents, Turn(counter + 1), outcome)
                   \/ \E origin \in {Turn(n) : n \in 1..MaxTurns} :
                        LearnEcho(space, type, claim, sure, {}, origin, outcome)
         \/ DeriveNext(outcome)
         \/ StoreEpisode(outcome)
    \/ Answer \/ Kill \/ Open

FormatStep == \E outcome \in Outcomes \cup {"late"} : Format(outcome)

MobileNext == MobileStep(Values \cup {Silent}, BOOLEAN, Outcomes) \/ FormatStep

MobileSpec == MobileInit /\ [][MobileNext]_mobileVars

-----------------------------------------------------------------------------

\* Every turn and episode answered with OK is on disk at its place, the turns it
\* corrects marked, whatever happened to the writes after it, until a format clears
\* the store; and while the process runs the handle holds the same rows, a mark it
\* lacks being one of a batch that was not reported durable.  A format whose clear is
\* not reported is answered as failed and leaves the handle as it was: the rows
\* below erased are then in the handle only.  A row stored above them is on disk, in
\* a store that does not open; every other store opens (save_turn_impl,
\* memoria_mobile_open, memoria_mobile_format_json).
AckedTurnsSurvive ==
    /\ \A turn \in learned :
         /\ turn.slot \in DOMAIN stored.turns
         /\ stored.turns[turn.slot].id = turn.id
         /\ \A c \in turn.corrects \cap DOMAIN stored.turns : stored.turns[c].gone
         /\ \A c \in turn.corrects \ DOMAIN stored.turns : c <= erased.turns
    /\ \A episode \in told :
         /\ episode.slot \in DOMAIN stored.episodes
         /\ stored.episodes[episode.slot] = episode.id
    /\ request # Down =>
         \A i \in DOMAIN episodes : i > erased.episodes =>
           i \in DOMAIN stored.episodes /\ stored.episodes[i] = episodes[i]
    /\ request # Down =>
         \A i \in DOMAIN turns : i > erased.turns =>
           /\ i \in DOMAIN stored.turns
           /\ stored.turns[i] = [turns[i] EXCEPT !.gone = stored.turns[i].gone]
           /\ turns[i].gone => stored.turns[i].gone
           /\ stored.turns[i].gone => turns[i].gone \/ faults > 0
    /\ erased = NoneErased => Opens(stored)

\* Reference: the ids that rest on a user's turn within depth steps, by the rules
\* alone.
Rests(nodes, S) ==
    {id \in DOMAIN nodes :
       LET n == nodes[id]
       IN  /\ n.found
           /\ ~n.gone
           /\ \/ n.type \in FactualRoots
              \/ n.parents = {} /\ n.root \in S
              \/ n.type = "derived_relation" /\ n.parents # {} /\ n.parents \subseteq S
              \/ n.type # "derived_relation" /\ n.parents \cap S # {}}
Grounded(nodes, depth) ==
    LET grow[k \in 0..depth] ==
          IF k = 0 THEN {} ELSE LET below == grow[k - 1] IN Rests(nodes, below)
    IN  grow[depth]

\* The search that cuts a path where it meets itself finds exactly the memories
\* that rest on a user's turn within its limit, also when an ultimate source named
\* by a client points forward or in a circle; and what it answers is such a
\* turn, still standing (memoria_lineage_resolve).
LineageIsGrounded ==
    \A space \in Spaces :
      \A nodes \in {Nodes(turns, space)}, roots \in {Roots(turns, space)},
         grounded \in {Grounded(Nodes(turns, space), MaxVisited)} :
        \A id \in DOMAIN nodes :
          /\ roots[id] # NoRoot <=> id \in grounded
          /\ roots[id] # NoRoot => /\ nodes[roots[id]].type \in FactualRoots
                                   /\ ~nodes[roots[id]].gone

\* A relation the runtime derived stands only while two memories of its
\* namespace, none of them an echo, state it and stand themselves
\* (maybe_auto_semantic_consolidate).
DerivationsGrounded ==
    \A roots \in {AllRoots(turns)} :
      \A i \in {d \in DOMAIN turns : turns[d].id[1] = "semantic" /\ Stands(turns, roots, d)} :
        \E a, b \in DOMAIN turns :
          /\ turns[a].id # turns[b].id
          /\ \A s \in {a, b} : /\ turns[s].space = turns[i].space
                               /\ turns[s].claim = turns[i].claim
                               /\ turns[s].type # "assistant_generated"
                               /\ Stands(turns, roots, s)

\* A relation is derived only from memories that rest on different turns of the
\* user, as repeating one of them is no support (root_seen); and only while no
\* derived relation that stands says the same (active_derived_claim_exists),
\* whatever the consolidation stored before it.
DerivesFromIndependent ==
    Len(turns') > Len(turns) /\ request.state = "busy" =>
      LET row == Last(turns')
          nodes == Nodes(turns, row.space)
      IN  /\ Cardinality({RootIn(nodes, p) : p \in row.parents} \ {NoRoot}) >= 2
          /\ \A i \in DOMAIN turns :
               /\ turns[i].type = "derived_relation"
               /\ turns[i].space = row.space /\ turns[i].claim = row.claim
               => RootIn(nodes, turns[i].id) = NoRoot

\* When a user's claim is answered and no write failed on the way, a claim that
\* memories resting on two turns state surely has a derived relation that stands,
\* those a crash or a failed write left out before as well.  Only the MaxCandidates
\* such claims stated first are promised one, derived already or not, and none when
\* more than MaxRelations relations are stored.  The other exceptions are a relation
\* that was itself corrected, whose id the next derivation would reuse, and memories
\* whose lineage fills the search, which leaves no room for the relation above them
\* (maybe_auto_semantic_consolidate, memoria_semantic_consolidation_candidates).
AnswersDerived ==
    /\ request.state = "busy" /\ request' = Idle /\ request.kept
    /\ turns[request.slot].type \in Triggers /\ turns[request.slot].claim # Silent
    => \A roots \in {AllRoots(turns)} :
         LET same(i, j) == turns[i].space = turns[j].space /\ turns[i].claim = turns[j].claim
             stated == {i \in DOMAIN turns : turns[i].type \in Triggers /\ turns[i].claim # Silent}
             root(i) == roots[turns[i].space][Relation(turns[i].id)]
             valid(i) == {j \in stated : same(i, j) /\ turns[j].sure /\ root(j) # NoRoot}
             twice == {i \in stated : /\ i \in valid(i) /\ \A j \in valid(i) : i <= j
                                      /\ Cardinality({root(j) : j \in valid(i)}) >= 2}
             shallow(i) == Grounded(Nodes(turns, turns[i].space), MaxVisited - 1)
         IN  Cardinality(stated) <= MaxRelations =>
               \A i \in twice :
                 /\ Cardinality({j \in twice : j < i}) < MaxCandidates
                 /\ \A j \in valid(i) : Relation(turns[j].id) \in shallow(i)
                 => \E d \in DOMAIN turns :
                      /\ turns[d].type = "derived_relation" /\ same(i, d)
                      /\ Stands(turns, roots, d) \/ turns[d].gone

\* What the runtime derives, and when.
ClaimsDerived == [][AnswersDerived /\ DerivesFromIndependent]_mobileVars
=============================================================================
