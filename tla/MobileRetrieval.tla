---------------------------- MODULE MobileRetrieval ----------------------------
(***************************************************************************)
(* What the native memory answers (memoria_mobile_resolve_context_json and *)
(* its kernels): the state of an entity over time, a turn the conversation *)
(* points at, or the turn that matches the query best, in this order; and  *)
(* the episode a session recalls.  Only turns that stand are matched; the  *)
(* temporal states are read from every turn.                               *)
(*                                                                         *)
(* A text is the set of its words and a claim has one wording.  Scores are *)
(* whole numbers, exact for queries of up to four words and windows of up  *)
(* to three turns: an overlap counts twelfths, an authority hundredths.    *)
(***************************************************************************)
EXTENDS MobileMemory

CONSTANTS
    Words,       \* words of the text that states a claim, or none
    Questions,   \* the texts that read as a question, by their claims
    Entity       \* the word that names the entity of the claims

-----------------------------------------------------------------------------
(* What is matched                                                         *)

Overlap(words, text) ==
    IF words = {} THEN 0 ELSE (12 * Cardinality(words \cap text)) \div Cardinality(words)

\* A relation the runtime derived is as certain as its supports, of confidence 0.95.
Authority(i) ==
    CASE turns[i].type \in {"user_assertion", "user_correction"} -> 100
      [] turns[i].id[1] = "semantic" -> 95
      [] OTHER -> 35

\* A question is not an answer, unless it corrected something.
IsAnswer(type, claim) ==
    type # "user_query" /\ ~(type = "user_assertion" /\ claim \in Questions)

\* The turns of a namespace that stand, by their slots, with the root each rests on.
Sources(roots, space) ==
    LET standing == {i \in DOMAIN turns : turns[i].space = space /\ Stands(turns, roots, i)}
        root(i) == roots[space][turns[i].id]
    IN  [i \in standing |->
           [id |-> turns[i].id, text |-> turns[i].claim, order |-> i, type |-> turns[i].type,
            root |-> root(i), authority |-> Authority(SlotOf(turns, space, root(i)))]]

-----------------------------------------------------------------------------
(* semantic_kernel.c                                                       *)

AnswerTypes == {"direct_observation", "user_correction", "user_assertion", "external_import"}

Retrievable(source) == IsAnswer(source.type, source.text)

FirstWith(sources, id) ==
    LET found == {n \in DOMAIN sources : sources[n].id = id}
    IN  IF found = {} THEN 0 ELSE Min(found)

\* source_is_factual_candidate()
IsCandidate(sources, n) ==
    LET root == FirstWith(sources, sources[n].root)
        founded(s) == Retrievable(s) /\ s.type \in AnswerTypes
    IN  /\ Retrievable(sources[n])
        /\ \/ sources[n].id = sources[n].root /\ founded(sources[n])
           \/ root # 0 /\ founded(sources[root])

\* Mutant: the row that matched best is answered whatever it is.
TheRowItself(sources, n) == n

\* canonical_source_for_root(): a derived relation answers for itself, any other
\* row through its root.  A root of a candidate is a candidate, so the
\* search for another row never ends without it.
Canonical(sources, n) ==
    IF sources[n].type = "derived_relation" THEN n ELSE FirstWith(sources, sources[n].root)

\* One source weighed against the best before it.
Unmatched == [best |-> 0, rank |-> 0, unsure |-> FALSE]
Weigh(query, sources, state, n) ==
    LET source == sources[n]
        overlap == Overlap(query.words, Words[source.text])
        rank == 45 * overlap + (660 * source.authority) \div 100
        best == sources[state.best]
    IN  IF ~IsCandidate(sources, n) \/ overlap = 0 THEN state
        ELSE IF \/ state.best = 0 \/ rank > state.rank
                \/ rank = state.rank /\ source.authority > best.authority
        THEN [best |-> n, rank |-> rank, unsure |-> FALSE]
        ELSE IF rank # state.rank \/ source.authority # best.authority THEN state
        ELSE LET unsure == state.unsure \/ (source.root # best.root /\ source.text # best.text)
             IN  [state EXCEPT !.unsure = unsure,
                               !.best = IF ~unsure /\ source.order > best.order THEN n ELSE @]

\* memoria_semantic_resolve_sources(): the id answered, or none.
None == <<>>
SemanticAnswer(query, sources) ==
    LET after[n \in 0..Len(turns)] ==
          IF n = 0 THEN Unmatched
          ELSE IF n \notin DOMAIN sources THEN after[n - 1]
          ELSE Weigh(query, sources, after[n - 1], n)
        end == after[Len(turns)]
    IN  IF end.best = 0 \/ end.unsure THEN None
        ELSE <<sources[Canonical(sources, end.best)].id>>

-----------------------------------------------------------------------------
(* trajectory_kernel.c                                                     *)

\* trajectory_weight(), in fortieths; direction is -1 for "first".
Weight(j, count, direction) ==
    IF direction < 0 THEN 40 - (18 * j) \div count ELSE 22 + (18 * j) \div count

\* What the turns of this session bring to a source.
FromWindow(query, window, source) ==
    LET ours == {j \in DOMAIN window : window[j].ours}
    IN  Max({0} \cup {Overlap(window[j].words, Words[source.text])
                       * Weight(j, Len(window), query.direction) : j \in ours})

Score(query, window, source) ==
    2320 * Overlap(query.words, Words[source.text])
      + 27 * FromWindow(query, window, source) + 72 * source.authority

Enough == 9600
Margin == 1680

\* memoria_trajectory_resolve(): the source that scores best, if it is clear of
\* every other.
Single(query, window, sources) ==
    LET score(n) == Score(query, window, sources[n])
        considered ==
          {n \in DOMAIN sources :
             /\ Retrievable(sources[n])
             /\ \/ Overlap(query.words, Words[sources[n].text]) > 4
                \/ FromWindow(query, window, sources[n]) > 0}
        clear ==
          {n \in considered :
             /\ score(n) >= Enough
             /\ \A m \in considered \ {n} : score(n) - score(m) >= Margin}
    IN  IF clear = {} THEN None ELSE <<sources[CHOOSE n \in clear : TRUE].id>>

\* Mutant: rows are told apart, not what they rest on.
AnyTwo(query, window, sources) ==
    {n \in DOMAIN sources :
        /\ Retrievable(sources[n])
        /\ FromWindow(query, window, sources[n]) > 0
        /\ Score(query, window, sources[n]) >= Enough}

\* The sources a pair is chosen from: the best of every root.
Antecedents(query, window, sources) ==
    LET score(n) == Score(query, window, sources[n])
        enough == {n \in DOMAIN sources :
                     /\ Retrievable(sources[n])
                     /\ FromWindow(query, window, sources[n]) > 0
                     /\ score(n) >= Enough}
    IN  {n \in enough : \A m \in enough :
           sources[m].root = sources[n].root =>
             score(n) > score(m) \/ (score(n) = score(m) /\ n <= m)}

\* resolve_pair_reference(): the two best, if a third is not as good as the
\* second; the earlier first.
Pair(query, window, candidates, sources) ==
    LET score(n) == Score(query, window, sources[n])
        better(n) == {m \in candidates \ {n} :
                        score(m) > score(n) \/ (score(m) = score(n) /\ m < n)}
        two == {n \in candidates : Cardinality(better(n)) < 2}
        apart == \A m \in candidates \ two : \A n \in two : score(n) - score(m) >= Margin
    IN  IF Cardinality(two) < 2 \/ ~apart THEN None
        ELSE <<sources[Min(two)].id, sources[Max(two)].id>>

Trajectory(query, window, sources) ==
    IF query.pair
    THEN Pair(query, window, Antecedents(query, window, sources), sources)
    ELSE Single(query, window, sources)

-----------------------------------------------------------------------------
(* temporal_state_kernel.c                                                 *)

\* Mutant: an order met again counts as an earlier state.
AnyEarlier(facts, state, n) ==
    IF state.latest = 0 THEN [latest |-> n, previous |-> 0]
    ELSE IF facts[n].order >= facts[state.latest].order
    THEN [latest |-> n, previous |-> state.latest]
    ELSE IF state.previous = 0 \/ facts[n].order > facts[state.previous].order
    THEN [state EXCEPT !.previous = n]
    ELSE state

\* One fact against the latest and the one before it.
Later(facts, state, n) ==
    IF state.latest = 0 THEN [latest |-> n, previous |-> 0]
    ELSE IF facts[n].order > facts[state.latest].order
    THEN [latest |-> n, previous |-> state.latest]
    ELSE IF /\ facts[n].order < facts[state.latest].order
            /\ state.previous = 0 \/ facts[n].order > facts[state.previous].order
    THEN [state EXCEPT !.previous = n]
    ELSE state

\* memoria_temporal_state_resolve(), for the facts of one target.
TemporalState(facts) ==
    LET after[n \in 0..Len(facts)] ==
          IF n = 0 THEN [latest |-> 0, previous |-> 0] ELSE Later(facts, after[n - 1], n)
    IN  after[Len(facts)]

\* temporal_turn_eligible(): whether the turn still stands is not asked.
HasState(i, space) ==
    /\ turns[i].space = space /\ turns[i].claim # Silent
    /\ Authority(i) >= 50 /\ IsAnswer(turns[i].type, turns[i].claim)

Nowhere == [kind |-> "none", ids |-> None]
Unresolved == [kind |-> "unresolved", ids |-> None]

\* The states of a namespace, in the order they were learned.
History(space) ==
    LET eligible == SetToSortSeq({i \in DOMAIN turns : HasState(i, space)}, <)
    IN  [n \in DOMAIN eligible |-> [id |-> turns[eligible[n]].id, order |-> eligible[n]]]

\* try_temporal_response(): the query names the entity, or the turn that
\* answers it states the one relation.
Temporal(query, facts, answering) ==
    LET named == facts # <<>> /\ Entity \in query.words
        state == TemporalState(facts)
        ids == IF state.previous = 0 THEN <<facts[state.latest].id>>
               ELSE <<facts[state.previous].id, facts[state.latest].id>>
    IN  IF ~(query.previous \/ query.current) \/ (~named /\ answering = 0) THEN Nowhere
        ELSE IF ~named /\ turns[answering].claim = Silent THEN Unresolved
        ELSE IF facts = <<>> \/ (query.previous /\ state.previous = 0) THEN Unresolved
        ELSE [kind |-> "temporal", ids |-> ids]

-----------------------------------------------------------------------------
(* memoria_mobile_resolve_context_json()                                   *)

NoWindow == <<>>

\* One attempt to answer a query.
Attempt(query, window, space, sources, facts) ==
    LET before == Temporal(query, facts, 0)
        ids == IF window = NoWindow THEN SemanticAnswer(query, sources)
               ELSE Trajectory(query, window, sources)
        after == Temporal(query, facts, SlotOf(turns, space, ids[1]))
        kind == IF window = NoWindow THEN "semantic" ELSE "trajectory"
    IN  IF before # Nowhere THEN before
        ELSE IF ids = None THEN Nowhere
        ELSE IF Len(ids) = 1 /\ after # Nowhere THEN after
        ELSE [kind |-> kind, ids |-> ids]

\* A query that finds nothing is tried once more as concept_query_rewrite.c
\* writes it, if that is another query.
Resolve(query, window, space, sources, facts) ==
    LET attempt[q \in {query} \cup query.again] == Attempt(q, window, space, sources, facts)
    IN  IF attempt[query] = Nowhere /\ query.again # {}
        THEN attempt[CHOOSE q \in query.again : TRUE]
        ELSE attempt[query]

-----------------------------------------------------------------------------
(* episodic_kernel.c                                                       *)

\* What a request asks of an episode.
Asked(wanted, episode) ==
    /\ episode.session = wanted.session
    /\ wanted.event \in {None, episode.event}
    /\ wanted.topics \subseteq episode.topics \cup episode.words

Explicit(wanted) ==
    (IF wanted.event = None THEN 0 ELSE 24) + 12 * Cardinality(wanted.topics)
EpisodeScore(wanted, episode) ==
    Explicit(wanted)
      + Overlap(wanted.words, episode.words \cup episode.topics \cup ToSet(episode.event))

\* Mutant: once unsure, unsure to the end.
StaysUnsure(wanted, sequence, state, n) ==
    LET episode == sequence[n]
        score == EpisodeScore(wanted, episode)
        best == sequence[state.best]
    IN  IF ~Asked(wanted, episode) \/ score = 0 THEN state
        ELSE IF state.best = 0 \/ score > state.score
        THEN [best |-> n, score |-> score, unsure |-> FALSE]
        ELSE IF score < state.score THEN state
        ELSE IF episode.order > best.order THEN [state EXCEPT !.best = n]
        ELSE IF episode.order = best.order /\ episode.id # best.id
        THEN [state EXCEPT !.unsure = TRUE]
        ELSE state

\* One episode against the best before it.
Recalled(wanted, sequence, state, n) ==
    LET episode == sequence[n]
        score == EpisodeScore(wanted, episode)
        best == sequence[state.best]
    IN  IF ~Asked(wanted, episode) \/ score = 0 THEN state
        ELSE IF state.best = 0 \/ score > state.score
        THEN [best |-> n, score |-> score, unsure |-> FALSE]
        ELSE IF score < state.score THEN state
        ELSE IF episode.order > best.order
        THEN [state EXCEPT !.best = n, !.unsure = FALSE]
        ELSE IF episode.order = best.order /\ episode.id # best.id
        THEN [state EXCEPT !.unsure = TRUE]
        ELSE state

\* memoria_episode_recall_latest(): the number of the episode, or 0.
RecallLatest(wanted, sequence) ==
    LET after[n \in 0..Len(sequence)] ==
          IF n = 0 THEN [best |-> 0, score |-> 0, unsure |-> FALSE]
          ELSE Recalled(wanted, sequence, after[n - 1], n)
        end == after[Len(sequence)]
    IN  IF end.unsure THEN 0 ELSE end.best

-----------------------------------------------------------------------------

\* Every answer but a temporal one names turns of the namespace that stand; a
\* pair names two memories that rest on different turns, never an echo next to
\* its source; and without a conversation the answer is a user's turn or a
\* derived relation, never a text the assistant generated
\* (canonical_source_for_root, resolve_pair_reference).
AnswersStandFor(queries, windows) ==
    \A roots \in {AllRoots(turns)}, space \in Spaces :
      \A sources \in {Sources(roots, space)}, facts \in {History(space)} :
        \A query \in queries, window \in windows :
          \A answer \in {Resolve(query, window, space, sources, facts)} :
            answer.kind \in {"semantic", "trajectory"} =>
              LET slots == [n \in DOMAIN answer.ids |-> SlotOf(turns, space, answer.ids[n])]
              IN  /\ \A n \in DOMAIN slots : slots[n] # 0 /\ Stands(turns, roots, slots[n])
                  /\ answer.kind = "semantic" => turns[slots[1]].type # "assistant_generated"
                  /\ Len(answer.ids) = 2 =>
                       /\ slots[1] < slots[2]
                       /\ roots[space][answer.ids[1]] # roots[space][answer.ids[2]]

\* The state called CURRENT has not been superseded
\* (docs/FACTUAL_GENERATIVE_MEMORY_SPACE.md:9).
CurrentStandsFor(queries) ==
    \A roots \in {AllRoots(turns)}, space \in Spaces :
      \A facts \in {History(space)}, query \in queries :
      LET answer == Temporal(query, facts, 0)
          current == SlotOf(turns, space, Last(answer.ids))
      IN  answer.kind = "temporal" => Stands(turns, roots, current)

\* The temporal state is the latest of the facts and, before it, the latest of
\* the earlier ones, whatever order they were learned in
\* (memoria_temporal_state_resolve).
HistoryIsExact(facts) ==
    LET state == TemporalState(facts)
        latest == {n \in DOMAIN facts : \A m \in DOMAIN facts : facts[m].order <= facts[n].order}
        earlier == {n \in (DOMAIN facts) \ latest :
                      \A m \in (DOMAIN facts) \ latest : facts[m].order <= facts[n].order}
    IN  /\ state.latest \in latest
        /\ IF earlier = {} THEN state.previous = 0 ELSE state.previous \in earlier

\* The episode recalled is the latest of those that match best; two of them
\* with one order leave the request unresolved, in whatever order they were
\* stored (memoria_episode_recall_latest).
RecallIsExact(wanted, sequence) ==
    LET matching == {n \in DOMAIN sequence :
                       Asked(wanted, sequence[n]) /\ EpisodeScore(wanted, sequence[n]) > 0}
        best == {n \in matching : \A m \in matching :
                   EpisodeScore(wanted, sequence[m]) <= EpisodeScore(wanted, sequence[n])}
        latest == {n \in best : \A m \in best : sequence[m].order <= sequence[n].order}
        ids == {sequence[n].id : n \in latest}
        answer == RecallLatest(wanted, sequence)
    IN  IF Cardinality(ids) = 1 THEN answer \in latest ELSE answer = 0
=============================================================================
