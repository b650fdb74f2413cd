---------------------------- MODULE StructuralText ----------------------------
(***************************************************************************)
(* The structural text memory of the native runtime                        *)
(* (structural_text_runtime.c, structural_text_kernel.c and the requests   *)
(* of memoria_mobile.c that use it).                                       *)
(*                                                                         *)
(* Every observation of a hierarchy is a row in BDR and an update of the   *)
(* hierarchy's field, a graph of symbols whose weights fade with every     *)
(* later observation.  Only the rows are stored: opening replays them.  A  *)
(* query is answered from the rows, scored through the field; a window is  *)
(* read page by page under a token of its content.                         *)
(*                                                                         *)
(* A text is a number, in the order strcmp gives, and Symbols its symbols. *)
(* Weights are integers in units of 1/Scale, a fading halves a weight, and *)
(* Scale is chosen so that no instance divides with a rest.  BDR is        *)
(* external: a batch is durable, refused, or written without being         *)
(* reported, and so is a clear; an allocation may fail in the middle of a  *)
(* field's update.                                                         *)
(***************************************************************************)
EXTENDS Integers, SequencesExt, FiniteSetsExt, Functions

CONSTANTS
    Records,       \* observations clients send: [hierarchy, id, kind, sequence, text]
    Symbols,       \* the symbols of every text
    Alike,         \* pairs of different symbols whose surfaces are close
    Scale,         \* the unit of weights and scores
    WithinReach,   \* STRUCTURAL_MAX_WITHIN_DISTANCE
    EventLag,      \* STRUCTURAL_MAX_EVENT_LAG
    PageLimits,    \* sizes of the pages a reader asks for
    MaxObservations, \* bound: rows
    MaxTextFaults, \* bound: writes, updates and formats that fail
    MaxTextRestarts \* bound: kills and formats

ASSUME PagesAssumption == PageLimits \subseteq 1..64

VARIABLES
    observations,  \* runtime->observations
    fields,        \* runtime->hierarchies, by hierarchy
    records,       \* BDR: the rows the stored count covers, by slot
    lost,          \* how many rows in memory a clear that was not reported erased
    serving,       \* whether the runtime is open
    acked,         \* records answered with OK since the last clear, above the lost
    astray,        \* hierarchies whose field a failing update left half done
    reader,        \* a client that reads a window
    textFaults, textRestarts

structuralVars ==
    <<observations, fields, records, lost, serving, acked, astray, reader, textFaults,
      textRestarts>>

Of(sequence, hierarchy) == SelectSeq(sequence, LAMBDA o : o.hierarchy = hierarchy)
Hierarchies == {r.hierarchy : r \in Records}

-----------------------------------------------------------------------------
(* structural_text_kernel.c: the field                                     *)

FreshField == [tick |-> 0, edges |-> <<>>, recent |-> <<>>]

\* decayed()
Faded(field, edge) == edge.weight \div 2 ^ (field.tick - edge.last)

\* The weight an edge has before an update adds to it.
Standing(field, key) ==
    IF key \in DOMAIN field.edges THEN Faded(field, field.edges[key]) ELSE 0

\* Mutant: the weight is not faded before it grows.
ReinforcedUnfaded(field, given) ==
    [field EXCEPT !.edges =
        [key \in DOMAIN @ \cup {g.key : g \in given} |->
            LET mine == {g \in given : g.key = key}
            IN  IF mine = {} THEN @[key]
                ELSE [weight |-> (IF key \in DOMAIN @ THEN @[key].weight ELSE 0)
                                   + MapThenSumSet(LAMBDA g : g.amount, mine),
                      last |-> field.tick]]]
\* reinforce(), for all an update gives.
Reinforced(field, given) ==
    [field EXCEPT !.edges =
        [key \in DOMAIN @ \cup {g.key : g \in given} |->
            LET mine == {g \in given : g.key = key}
            IN  IF mine = {} THEN @[key]
                ELSE [weight |-> Standing(field, key) + MapThenSumSet(LAMBDA g : g.amount, mine),
                      last |-> field.tick]]]

\* trim_recent(), after the tick.
Ticked(field) ==
    LET now == field.tick + 1
    IN  [field EXCEPT !.tick = now,
                      !.recent = SelectSeq(@, LAMBDA e : now - e.tick <= EventLag)]

\* What a trail gives by its own order, and what it owes to the recent ones.
WithinGiven(trail) ==
    {[key |-> <<trail[p[1]], trail[p[2]], "within">>, amount |-> Scale \div (p[2] - p[1]),
      at |-> <<0, p[1], p[2]>>] :
        p \in {q \in (DOMAIN trail) \X (DOMAIN trail) :
                q[1] < q[2] /\ q[2] - q[1] <= WithinReach}}
TemporalGiven(field, trail) ==
    UNION {LET event == field.recent[r]
           IN  {[key |-> <<event.trail[a], trail[b], "temporal">>,
                 amount |-> Scale \div ((field.tick - event.tick) * Len(event.trail) * Len(trail)),
                 at |-> <<r, a, b>>] : a \in DOMAIN event.trail, b \in DOMAIN trail} :
           r \in DOMAIN field.recent}

\* memoria_structural_text_field_observe(), until it ends or an allocation fails:
\* before the recent trails are reached, or before the trail joins them.
FieldObserved(old, trail, until) ==
    LET field == Ticked(old)
        inner == Reinforced(field, WithinGiven(trail))
        whole == Reinforced(inner, TemporalGiven(field, trail))
    IN  CASE until = "within" -> inner
          [] until = "recent" -> whole
          [] until = "end" ->
               [whole EXCEPT !.recent = Append(@, [tick |-> field.tick, trail |-> trail])]

\* memoria_structural_text_field_association(), over both channels.
Association(field, source, target) ==
    MapThenSumSet(LAMBDA channel : Standing(field, <<source, target, channel>>),
                  {"within", "temporal"})

-----------------------------------------------------------------------------
(* structural_text_runtime.c: rows                                         *)

Trail(record) == Symbols[record.text]
FieldOf(known, hierarchy) ==
    IF hierarchy \in DOMAIN known THEN known[hierarchy] ELSE FreshField
\* replay_observation()
Observed(known, record, until) ==
    [h \in DOMAIN known \cup {record.hierarchy} |->
        IF h = record.hierarchy THEN FieldObserved(FieldOf(known, h), Trail(record), until)
        ELSE known[h]]
\* load_persisted()
Replayed(stored) == FoldLeft(LAMBDA known, r : Observed(known, r, "end"), <<>>, stored)

\* same_identity()
SameIdentity(a, b) ==
    <<a.hierarchy, a.id, a.sequence>> = <<b.hierarchy, b.id, b.sequence>>

\* Mutant: the row goes after the rows of the store.
PersistedAfter(stored, known, record) ==
    [i \in DOMAIN stored \cup {Max({0} \cup DOMAIN stored) + 1} |->
        IF i \in DOMAIN stored THEN stored[i] ELSE record]
\* persist_observation(): the row goes to the slot after the rows in memory, in
\* place of one a failed request of any hierarchy left there, and the count ends
\* with it.
Persisted(stored, known, record) ==
    LET slot == Len(known) + 1
    IN  [i \in {j \in DOMAIN stored : j < slot} \cup {slot} |->
            IF i = slot THEN record ELSE stored[i]]
\* load_persisted() needs every row up to the count.
Loads(stored) == \A i \in DOMAIN stored : 1..i \subseteq DOMAIN stored

NoReader == [state |-> "none"]

StructuralInit ==
    /\ observations = <<>> /\ fields = <<>> /\ records = <<>> /\ lost = 0 /\ serving = TRUE
    /\ acked = {} /\ astray = {}
    /\ reader = NoReader
    /\ textFaults = 0 /\ textRestarts = 0

WriteOutcomes == {"durable", "refused", "unsure", "within", "recent"}

\* memoria_structural_text_runtime_observe(), of an identity not seen before.
\* The hierarchy is there before its row is stored; the field follows the row.
Observe(record, outcome) ==
    /\ serving /\ Len(observations) < MaxObservations
    /\ \A i \in DOMAIN observations : ~SameIdentity(observations[i], record)
    /\ outcome # "durable" => textFaults < MaxTextFaults
    /\ textFaults' = IF outcome = "durable" THEN textFaults ELSE textFaults + 1
    /\ records' = IF outcome = "refused" THEN records ELSE Persisted(records, observations, record)
    /\ fields' =
         CASE outcome \in {"refused", "unsure"} ->
                [h \in DOMAIN fields \cup {record.hierarchy} |-> FieldOf(fields, h)]
           [] outcome = "durable" -> Observed(fields, record, "end")
           [] OTHER -> Observed(fields, record, outcome)
    /\ IF outcome = "durable"
       THEN observations' = Append(observations, record) /\ acked' = acked \cup {record}
       ELSE UNCHANGED <<observations, acked>>
    /\ IF outcome \in {"within", "recent"}
       THEN astray' = astray \cup {record.hierarchy}
       ELSE UNCHANGED astray
    /\ UNCHANGED <<lost, serving, reader, textRestarts>>

\* A record that is already in memory is answered with OK, a lost one too; another
\* text under its identity is refused.
ObserveAgain(record) ==
    /\ serving
    /\ \E i \in DOMAIN observations :
         /\ observations[i] = record
         /\ acked' = IF i <= lost THEN acked ELSE acked \cup {record}
    /\ UNCHANGED <<observations, fields, records, lost, serving, astray, reader, textFaults,
                   textRestarts>>

KillStructural ==
    /\ serving /\ textRestarts < MaxTextRestarts
    /\ serving' = FALSE /\ observations' = <<>> /\ fields' = <<>>
    /\ astray' = {} /\ textRestarts' = textRestarts + 1
    /\ UNCHANGED <<records, lost, acked, reader, textFaults>>

\* memoria_structural_text_runtime_open_shared(); the other parts of the handle,
\* without which it does not open either, are modelled on their own.
OpenStructural ==
    /\ ~serving /\ Loads(records)
    /\ serving' = TRUE /\ observations' = records /\ fields' = Replayed(records)
    /\ lost' = 0
    /\ UNCHANGED <<records, acked, astray, reader, textFaults, textRestarts>>

\* memoria_mobile_format_json() clears the store and opens the runtime on it.  A
\* clear that is not reported durable leaves the runtime as it was; after "late", a
\* failure to open it again, only a restart serves.
FormatStructural(outcome) ==
    /\ serving
    /\ IF outcome = "durable"
       THEN /\ textRestarts < MaxTextRestarts /\ textRestarts' = textRestarts + 1
            /\ UNCHANGED textFaults
       ELSE /\ textFaults < MaxTextFaults /\ textFaults' = textFaults + 1
            /\ UNCHANGED textRestarts
    /\ IF outcome = "refused" THEN UNCHANGED <<records, acked>> ELSE records' = <<>> /\ acked' = {}
    /\ IF outcome \in {"refused", "unsure"}
       THEN UNCHANGED <<observations, fields, astray>>
       ELSE observations' = <<>> /\ fields' = <<>> /\ astray' = {}
    /\ lost' = CASE outcome = "refused" -> lost
                 [] outcome = "unsure" -> Len(observations)
                 [] OTHER -> 0
    /\ serving' = (outcome # "late")
    /\ UNCHANGED reader

-----------------------------------------------------------------------------
(* memoria_mobile_read_structural_window_json()                            *)

\* The rows of a hierarchy by sequence, then source: no two have both the same.
Window(hierarchy) ==
    LET mine == {n \in DOMAIN observations : observations[n].hierarchy = hierarchy}
        upTo(n) == {m \in mine :
                      LET a == observations[m]
                          b == observations[n]
                      IN  a.sequence < b.sequence \/ (a.sequence = b.sequence /\ a.id <= b.id)}
    IN  [i \in 1..Cardinality(mine) |->
            observations[CHOOSE n \in mine : Cardinality(upTo(n)) = i]]

\* Mutant: the token is the revision, the number of rows.
TokenOfCount(window) == <<Len(window)>>
\* The token is a hash of the hierarchy and of every row, collisions left out.
Token(window) == window

\* A page: the rows and the sources next to each of them in the window.
NoSource == 0
Page(window, offset, limit) ==
    [n \in 1..Min({limit, Len(window) - offset}) |->
        LET i == offset + n
        IN  [row |-> window[i],
             prev |-> IF i = 1 THEN NoSource ELSE window[i - 1].id,
             next |-> IF i = Len(window) THEN NoSource ELSE window[i + 1].id]]

\* A client reads a window: the first page without a token, the others with the
\* token of the first.  A page that does not end the window names the next offset.
ReadWindow(hierarchy, limit) ==
    LET window == Window(hierarchy)
        first == reader = NoReader
        fresh == first \/ reader.token = Token(window)
        got == IF first THEN <<>> ELSE reader.got
        whole == got \o Page(window, Len(got), limit)
    IN  /\ serving
        /\ ~first => reader.state = "reading" /\ reader.hierarchy = hierarchy
        /\ reader' =
             IF ~fresh THEN NoReader
             ELSE [state |-> IF Len(whole) < Len(window) THEN "reading" ELSE "done",
                   hierarchy |-> hierarchy, got |-> whole, token |-> Token(window),
                   began |-> IF first THEN window ELSE reader.began]
        /\ UNCHANGED <<observations, fields, records, lost, serving, acked, astray, textFaults,
                   textRestarts>>

ForgetWindow ==
    /\ reader # NoReader /\ reader.state = "done"
    /\ reader' = NoReader
    /\ UNCHANGED <<observations, fields, records, lost, serving, acked, astray, textFaults,
                   textRestarts>>

StructuralNext ==
    \/ \E record \in Records :
         (\E outcome \in WriteOutcomes : Observe(record, outcome)) \/ ObserveAgain(record)
    \/ KillStructural \/ OpenStructural
    \/ \E outcome \in {"durable", "refused", "unsure", "late"} : FormatStructural(outcome)
    \/ \E hierarchy \in Hierarchies, limit \in PageLimits : ReadWindow(hierarchy, limit)
    \/ ForgetWindow

-----------------------------------------------------------------------------
(* Queries.  A query is a sequence of symbols.                             *)

\* memoria_structural_text_surface_overlap()
SurfaceOverlap(query, trail) ==
    Cardinality({i \in DOMAIN query : \E s \in ToSet(trail) : <<query[i], s>> \in Alike})

\* memoria_structural_text_score_candidate() and what the runtime adds for the
\* surfaces.
TextScore(field, query, trail) ==
    LET q == ToSet(query)
        c == ToSet(trail)
        exact == Cardinality(q \cap c)
        pairs == {p \in q \X c : p[1] # p[2]}
        mass == MapThenSumSet(
                  LAMBDA p : Max({Association(field, p[1], p[2]), Association(field, p[2], p[1])}),
                  pairs) \div (Cardinality(q) * Cardinality(c))
        surface == SurfaceOverlap(query, trail)
    IN  [exact |-> exact, mass |-> mass, surface |-> surface,
         score |-> (exact * Scale) \div Cardinality(q) + mass
                     + (2 * surface * Scale) \div (5 * Len(query))]

\* Whether an observation joins a context: by its text, or, when windows are
\* grouped, by its kind and its symbols.
Joins(context, o, group) ==
    IF group THEN context.kind = o.kind /\ Symbols[context.text] = Trail(o)
    ELSE context.text = o.text

\* context_add_source_id(): a source is listed once.
Listed(ids, id) == IF Contains(ids, id) THEN ids ELSE Append(ids, id)

ContextOf(o, score) ==
    [text |-> o.text, id |-> o.id, kind |-> o.kind, sequence |-> o.sequence,
     ids |-> <<o.id>>, repetitions |-> 1] @@ score

\* The context after one more observation; the better scored one represents it.
Extended(context, o, score) ==
    LET more == [context EXCEPT !.ids = Listed(@, o.id), !.repetitions = @ + 1]
        better == \/ score.score > context.score
                  \/ score.score = context.score /\ score.exact > context.exact
                  \/ /\ score.score = context.score /\ score.exact = context.exact
                     /\ score.mass > context.mass
    IN  IF better
        THEN score @@ [more EXCEPT !.text = o.text, !.id = o.id, !.kind = o.kind,
                                   !.sequence = o.sequence]
        ELSE more

Gathered(field, known, query, group) ==
    FoldLeft(LAMBDA contexts, o :
                LET score == TextScore(field, query, Trail(o))
                    at == SelectInSeq(contexts, LAMBDA c : Joins(c, o, group))
                IN  IF score.score <= 0 THEN contexts
                    ELSE IF at = 0 THEN Append(contexts, ContextOf(o, score))
                    ELSE [contexts EXCEPT ![at] = Extended(@, o, score)],
             <<>>, known)

\* context_compare()
Before(a, b) ==
    \/ a.score > b.score
    \/ a.score = b.score /\ a.exact > b.exact
    \/ a.score = b.score /\ a.exact = b.exact /\ a.surface > b.surface
    \/ /\ a.score = b.score /\ a.exact = b.exact /\ a.surface = b.surface
       /\ a.mass > b.mass \/ (a.mass = b.mass /\ a.text < b.text)

\* Contexts with weaker support than two shared symbols leave when one has it;
\* without a shared symbol, those without a close surface leave when one has it.
Supported(contexts, c) ==
    LET exact == Max({0} \cup {contexts[i].exact : i \in DOMAIN contexts})
        surface == Max({0} \cup {contexts[i].surface : i \in DOMAIN contexts})
    IN  /\ exact >= 2 => c.exact >= 2
        /\ exact = 0 /\ surface > 0 => c.surface > 0

Prefix(s, k) == SubSeq(s, 1, Min({k, Len(s)}))
\* Mutant: the answer is cut before the weak contexts leave.
CutFirst(contexts, k) ==
    SelectSeq(Prefix(SortSeq(contexts, Before), k), LAMBDA c : Supported(contexts, c))
Shown(contexts, k) ==
    Prefix(SelectSeq(SortSeq(contexts, Before), LAMBDA c : Supported(contexts, c)), k)

\* resolve_text_impl()
ResolveText(hierarchy, query, k, group) ==
    Shown(Gathered(FieldOf(fields, hierarchy), Of(observations, hierarchy), query, group), k)

-----------------------------------------------------------------------------

\* Every observation answered with OK is stored at its place until a format clears
\* the store, the rows in memory are the stored ones but for at most one row a failed
\* request left behind, no two rows share an identity, and the store opens: a failed
\* request may hold back its own observation and never another.  The exception is a
\* format whose clear is not reported and that is answered as failed: the rows up to
\* lost are then in memory only, where they are still answered as duplicates, and a
\* row stored above them is in a store that does not open (persist_observation,
\* load_persisted, memoria_mobile_format_json).
ObservationsSurvive ==
    /\ acked \subseteq {records[i] : i \in DOMAIN records}
    /\ serving =>
         /\ \A i \in DOMAIN observations \ 1..lost :
              i \in DOMAIN records /\ records[i] = observations[i]
         /\ DOMAIN records \subseteq lost + 1..Len(observations) + 1
    /\ \A i, j \in DOMAIN records : i # j => ~SameIdentity(records[i], records[j])
    /\ lost = 0 => Loads(records)

\* Reference: what an observation n of a trail of its own and an earlier one gives
\* to an edge, faded by the observations since.
GivenBy(trails, source, target, now) ==
    LET faded(amount, n) == amount \div 2 ^ (now - n)
        at(n, symbol) == {i \in DOMAIN trails[n] : trails[n][i] = symbol}
        within == UNION {{<<n, p[1], p[2]>> :
                            p \in {q \in at(n, source) \X at(n, target) :
                                     q[1] < q[2] /\ q[2] - q[1] <= WithinReach}} : n \in 1..now}
        across == UNION {{<<p[1], p[2], a, b>> : a \in at(p[1], source), b \in at(p[2], target)} :
                            p \in {q \in (1..now) \X (1..now) : q[1] < q[2] /\ q[2] - q[1] <= EventLag}}
    IN  MapThenSumSet(LAMBDA w : faded(Scale \div (w[3] - w[2]), w[1]), within)
        + MapThenSumSet(LAMBDA x : faded(Scale \div ((x[2] - x[1]) * Len(trails[x[1]])
                                                          * Len(trails[x[2]])), x[2]), across)

\* A field that fades its weights when it touches them holds what the sum over
\* all observations of the hierarchy says, whether it grew live or was replayed;
\* the exception is a field an update left half done, until the process restarts
\* (reinforce, trim_recent, load_persisted).
FieldsAreSums ==
    serving => \A h \in Hierarchies \ astray :
            \A trails \in {[i \in DOMAIN Of(observations, h) |-> Trail(Of(observations, h)[i])]} :
              \A a, b \in UNION {ToSet(t) : t \in ToSet(Symbols)} :
                Association(FieldOf(fields, h), a, b) = GivenBy(trails, a, b, Len(trails))

\* A window read to its end under one token is the window as it was at the first
\* page, every row once, and the neighbours named on the pages link them into one
\* chain, whatever was observed, formatted or restarted between two pages
\* (memoria_mobile_read_structural_window_json).
WindowsReadWhole ==
    reader # NoReader =>
      LET got == reader.got
      IN  /\ IsPrefix([i \in DOMAIN got |-> got[i].row], reader.began)
          /\ reader.state = "done" => Len(got) = Len(reader.began)
          /\ \A i \in 1..Len(got) - 1 : got[i].next = got[i + 1].row.id /\ got[i + 1].prev = got[i].row.id

\* An answer holds, of the texts (or kinds and symbols) observed under a
\* hierarchy, the best supported ones: each of them once with every source that
\* observed it, and one left out had weaker support or gave way to as many better
\* ones as were asked for (resolve_text_impl).
AnswersAreBest(queries, sizes) ==
    \A h \in DOMAIN fields, q \in queries, group \in BOOLEAN :
      \A known \in {ToSet(Of(observations, h))}, all \in {ResolveText(h, q, MaxObservations, group)},
         score \in {[o \in ToSet(Of(observations, h)) |-> TextScore(fields[h], q, Trail(o))]} :
        LET holds(c, o) == Joins(c, o, group)
            some(o) == {c \in ToSet(all) : holds(c, o)}
            direct == {o \in known : score[o].exact >= 2}
            near == {o \in known : score[o].exact >= 1}
            close == {o \in known : score[o].surface >= 1}
            due == IF direct # {} THEN direct
                   ELSE IF near = {} /\ close # {} THEN close
                   ELSE {o \in known : score[o].score > 0}
        IN  /\ \A o \in known : Cardinality(some(o)) = (IF o \in due THEN 1 ELSE 0)
            /\ \A c \in ToSet(all) :
                 /\ ToSet(c.ids) = {o.id : o \in {r \in known : holds(c, r)}}
                 /\ c.repetitions = Cardinality({r \in known : holds(c, r)})
                 /\ \A o \in known : holds(c, o) => c.score = score[o].score
            /\ \A i \in 1..Len(all) - 1 : all[i].score >= all[i + 1].score
            /\ \A k \in sizes : ResolveText(h, q, k, group) = Prefix(all, k)
=============================================================================
