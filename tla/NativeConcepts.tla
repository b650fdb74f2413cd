---------------------------- MODULE NativeConcepts ----------------------------
(***************************************************************************)
(* The concept catalog of the native runtime: concept_identity_*.c,        *)
(* concept_runtime_state.c and concept_query_rewrite.c.                    *)
(*                                                                         *)
(* A catalog is a sequence of rows under a fingerprint.  Applying it builds *)
(* a candidate index, writes the rows the candidate exports in one batch    *)
(* and only then takes the candidate over.  A query is rewritten to the     *)
(* canonical names of the concepts it mentions.                            *)
(*                                                                         *)
(* A surface is the sequence of words normalization leaves of it.  BDR is  *)
(* external: a batch is durable, refused, or written without being         *)
(* reported, and so is the sync after it.                                  *)
(***************************************************************************)
EXTENDS Naturals, SequencesExt, FiniteSetsExt

CONSTANTS
    Catalogs,       \* [fingerprint, rows]: what the server sends
    MaxConcepts, MaxAliases, MaxCues, MaxRowAliases,    \* capacities
    RowCap,         \* ROW_CAP, the longest row stored, in words
    MaxAliasWords,  \* the longest surface a query is searched for
    MaxUnsure,      \* bound: saves and clears that do not end durable
    MaxRestarts     \* bound: kills and formats

VARIABLES
    index, fingerprint,    \* the runtime in memory
    catalogue,             \* BDR: count, fingerprint and a row at every slot
    up,                    \* whether the runtime is open
    tried,                 \* catalogs whose save was not reported since the last one that was,
                           \* the empty one of a clear among them
    unsure, restarts

conceptVars == <<index, fingerprint, catalogue, up, tried, unsure, restarts>>

-----------------------------------------------------------------------------
(* concept_identity_kernel.c                                               *)

NoConcepts == [ok |-> TRUE, concepts |-> <<>>, aliases |-> <<>>]
Refusal == [ok |-> FALSE, concepts |-> <<>>, aliases |-> <<>>]

AddAlias(aliases, row, surface) ==
    LET alias == [space |-> row.space, surface |-> surface, id |-> row.id]
    IN  IF surface = <<>> \/ Contains(aliases, alias) THEN aliases ELSE Append(aliases, alias)

AddCue(cues, cue) == IF cue = <<>> \/ Contains(cues, cue) THEN cues ELSE Append(cues, cue)

FindConcept(known, space, id) ==
    SelectInSeq(known.concepts, LAMBDA c : c.space = space /\ c.id = id)

\* memoria_concept_register(): a concept met again must keep its name and sense;
\* its aliases and cues add up.
Registered(known, row) ==
    LET at == FindConcept(known, row.space, row.id)
        fresh == [space |-> row.space, id |-> row.id, canonical |-> row.canonical,
                  sense |-> row.sense, cues |-> <<>>]
        concept == IF at = 0 THEN fresh ELSE known.concepts[at]
        whole == [concept EXCEPT !.cues = FoldLeft(AddCue, @, row.cues)]
        aliases == FoldLeft(LAMBDA before, s : AddAlias(before, row, s),
                            known.aliases, <<row.canonical>> \o row.aliases)
    IN  IF \/ <<concept.canonical, concept.sense>> # <<row.canonical, row.sense>>
           \/ at = 0 /\ Len(known.concepts) >= MaxConcepts
           \/ Len(whole.cues) > MaxCues \/ Len(aliases) > MaxAliases
        THEN Refusal
        ELSE [ok |-> TRUE,
              concepts |-> IF at = 0 THEN Append(known.concepts, whole)
                           ELSE [known.concepts EXCEPT ![at] = whole],
              aliases |-> aliases]

\* Mutant: the first concept that has an alias is taken.
FirstReading(known, space, surface) ==
    LET first == SelectInSeq(known.aliases, LAMBDA a : a.space = space /\ a.surface = surface)
    IN  IF first = 0 THEN {} ELSE {known.aliases[first].id}
\* memoria_concept_resolve(): the concepts a surface names.
Candidates(known, space, surface) ==
    {a.id : a \in {b \in ToSet(known.aliases) : b.space = space /\ b.surface = surface}}

\* contains_phrase()
HasPhrase(context, cue) ==
    \E i \in 1..Len(context) : cue # <<>> /\ SubSeq(context, i, i + Len(cue) - 1) = cue
                                 /\ i + Len(cue) - 1 <= Len(context)

\* Mutant: the first concept one of whose cues is heard is taken.
FirstCued(known, space, candidates, context) ==
    LET heard(c) == c.space = space /\ c.id \in candidates
                        /\ \E cue \in ToSet(c.cues) : HasPhrase(context, cue)
        first == SelectInSeq(known.concepts, heard)
    IN  IF first = 0 THEN {} ELSE {known.concepts[first].id}
\* The candidates one of whose cues the context holds.
Cued(known, space, candidates, context) ==
    {id \in candidates :
        \E cue \in ToSet(known.concepts[FindConcept(known, space, id)].cues) :
            HasPhrase(context, cue)}

\* memoria_concept_resolve_with_context(): a hit, unknown, or ambiguous.
Reading(known, space, surface, context) ==
    LET candidates == Candidates(known, space, surface)
        cued == Cued(known, space, candidates, context)
    IN  IF surface = <<>> \/ candidates = {} THEN [status |-> "unknown", ids |-> {}]
        ELSE IF Cardinality(candidates) = 1 THEN [status |-> "hit", ids |-> candidates]
        ELSE IF Cardinality(cued) = 1 THEN [status |-> "hit", ids |-> cued]
        ELSE [status |-> "ambiguous", ids |-> candidates]

-----------------------------------------------------------------------------
(* concept_identity_state.c                                                *)

\* memoria_concept_state_import(): a row's aliases and cues are counted as they came.
Importable(row) ==
    row.canonical # <<>> /\ Len(row.aliases) <= MaxRowAliases /\ Len(row.cues) <= MaxCues
Imported(rows) ==
    FoldLeft(LAMBDA known, row :
                IF known.ok /\ Importable(row) THEN Registered(known, row) ELSE Refusal,
             NoConcepts, rows)

AliasesOf(known, c) ==
    LET own == SelectSeq(known.aliases, LAMBDA a : a.space = c.space /\ a.id = c.id)
    IN  [i \in DOMAIN own |-> own[i].surface]
\* memoria_concept_state_export(): refused when a concept has too many aliases,
\* its canonical name among them.
Exportable(known) ==
    \A i \in DOMAIN known.concepts : Len(AliasesOf(known, known.concepts[i])) <= MaxRowAliases
Exported(known) ==
    [i \in DOMAIN known.concepts |->
        LET c == known.concepts[i]
        IN  [space |-> c.space, id |-> c.id, canonical |-> c.canonical, sense |-> c.sense,
             aliases |-> AliasesOf(known, c), cues |-> c.cues]]

-----------------------------------------------------------------------------
(* concept_identity_bdr.c                                                  *)

NoFingerprint == "none"
EmptyCatalogue == [count |-> 0, fingerprint |-> NoFingerprint, rows |-> <<>>]

\* serialize_row(): a row too long for its buffer stops the save before its batch.
RowSize(row) ==
    FoldLeft(LAMBDA size, words : size + Len(words), Len(row.canonical), row.aliases \o row.cues)
Serializable(rows) == \A i \in DOMAIN rows : RowSize(rows[i]) <= RowCap

\* memoria_concept_bdr_save_catalog(): one batch; slots past the count keep what
\* an earlier catalog wrote there.
Saved(disk, rows, mark) ==
    [count |-> Len(rows), fingerprint |-> mark,
     rows |-> rows \o SubSeq(disk.rows, Len(rows) + 1, Len(disk.rows))]

\* Mutant: every slot is read.
LoadedAll(disk) == disk.rows
\* memoria_concept_bdr_load()
Loaded(disk) == SubSeq(disk.rows, 1, disk.count)

-----------------------------------------------------------------------------
(* concept_runtime_state.c                                                 *)

ConceptsInit ==
    /\ index = NoConcepts /\ fingerprint = NoFingerprint
    /\ catalogue = EmptyCatalogue
    /\ up = TRUE /\ tried = {}
    /\ unsure = 0 /\ restarts = 0

SaveOutcomes == {"durable", "refused", "unsure"}

\* Mutant: the candidate is taken over before it is saved.
TakenFirst(candidate, mark, outcome) ==
    index' = candidate /\ fingerprint' = mark
\* The candidate is taken over when its save and sync are reported.
TakeOver(candidate, mark, outcome) ==
    IF outcome = "durable" THEN index' = candidate /\ fingerprint' = mark
    ELSE UNCHANGED <<index, fingerprint>>

\* memoria_concept_runtime_apply_catalog().  A catalog whose fingerprint is the
\* one in memory is answered as unchanged; one that cannot be read, exported or
\* serialized changes nothing.
ApplyCatalog(catalog, outcome) ==
    LET candidate == Imported(catalog.rows)
    IN  /\ up /\ catalog.fingerprint # fingerprint
        /\ candidate.ok /\ Exportable(candidate) /\ Serializable(Exported(candidate))
        /\ outcome # "durable" => unsure < MaxUnsure
        /\ unsure' = IF outcome = "durable" THEN unsure ELSE unsure + 1
        /\ catalogue' = IF outcome = "refused" THEN catalogue
                        ELSE Saved(catalogue, Exported(candidate), catalog.fingerprint)
        /\ TakeOver(candidate, catalog.fingerprint, outcome)
        /\ tried' = CASE outcome = "durable" -> {}
                      [] outcome = "unsure" -> tried \cup {catalog}
                      [] OTHER -> tried
        /\ UNCHANGED <<up, restarts>>

KillConcepts ==
    /\ up /\ restarts < MaxRestarts
    /\ index' = NoConcepts /\ fingerprint' = NoFingerprint /\ up' = FALSE
    /\ restarts' = restarts + 1
    /\ UNCHANGED <<catalogue, tried, unsure>>

\* memoria_concept_runtime_open(): refused when the rows do not import.
OpenConcepts ==
    /\ ~up /\ Imported(Loaded(catalogue)).ok
    /\ index' = Imported(Loaded(catalogue)) /\ fingerprint' = catalogue.fingerprint
    /\ up' = TRUE /\ tried' = {}
    /\ UNCHANGED <<catalogue, unsure, restarts>>

\* memoria_mobile_format_json(): the store is cleared and the runtime opened on it
\* again.  A clear not reported durable leaves the runtime as it was; "late" is a
\* failure to open it, after which there is none until the process restarts.
FormatConcepts(outcome) ==
    /\ up
    /\ IF outcome = "durable"
       THEN restarts < MaxRestarts /\ restarts' = restarts + 1 /\ UNCHANGED unsure
       ELSE unsure < MaxUnsure /\ unsure' = unsure + 1 /\ UNCHANGED restarts
    /\ catalogue' = IF outcome = "refused" THEN catalogue ELSE EmptyCatalogue
    /\ IF outcome \in {"refused", "unsure"} THEN UNCHANGED <<index, fingerprint>>
       ELSE index' = NoConcepts /\ fingerprint' = NoFingerprint
    /\ tried' = CASE outcome = "refused" -> tried
                  [] outcome = "unsure" -> {[fingerprint |-> NoFingerprint, rows |-> <<>>]}
                  [] OTHER -> {}
    /\ up' = (outcome # "late")

ConceptsNext ==
    \/ \E catalog \in Catalogs, outcome \in SaveOutcomes : ApplyCatalog(catalog, outcome)
    \/ KillConcepts \/ OpenConcepts
    \/ \E outcome \in SaveOutcomes \cup {"late"} : FormatConcepts(outcome)

-----------------------------------------------------------------------------
(* concept_query_rewrite.c                                                 *)

\* How many words the widest known surface at the front of the rest has.
Widest(known, space, rest) ==
    LET widths == {w \in 1..Min({MaxAliasWords, Len(rest)}) :
                      Candidates(known, space, SubSeq(rest, 1, w)) # {}}
    IN  IF widths = {} THEN 0 ELSE Max(widths)

Unchanged(query) == [status |-> "unchanged", text |-> query, ids |-> {}]
Unresolved(query, ids) == [status |-> "unresolved", text |-> query, ids |-> ids]

\* memoria_concept_rewrite_query(): left to right; one ambiguous surface leaves
\* the whole query as it was.  The whole query is the context of every surface.
Rewritten(known, space, query) ==
    LET from[i \in 1..Len(query) + 1] ==
          LET rest == SubSeq(query, i, Len(query))
              width == Widest(known, space, rest)
              surface == SubSeq(rest, 1, width)
              read == Reading(known, space, surface, query)
              tail == from[i + width]
              name == known.concepts[FindConcept(known, space, CHOOSE id \in read.ids : TRUE)].canonical
          IN  IF i > Len(query) THEN Unchanged(<<>>)
              ELSE IF width = 0
              THEN LET after == from[i + 1] IN
                   IF after.status = "unresolved" THEN after
                   ELSE [after EXCEPT !.text = <<query[i]>> \o @]
              ELSE IF read.status # "hit" THEN Unresolved(query, read.ids)
              ELSE IF tail.status = "unresolved" THEN [tail EXCEPT !.ids = @ \cup read.ids]
              ELSE [status |-> IF name # surface THEN "rewritten" ELSE tail.status,
                    text |-> name \o tail.text, ids |-> tail.ids \cup read.ids]
    IN  from[1]

-----------------------------------------------------------------------------

\* What a catalog says, whatever the order its rows were written in.
Says(known) == [concepts |-> {[c EXCEPT !.cues = ToSet(@)] : c \in ToSet(known.concepts)},
                aliases |-> ToSet(known.aliases)]

\* What is on disk is always one catalog whole, under its own fingerprint, that
\* imports: the one in memory, or one whose save was not reported since, or none after
\* a clear that was not (apply_catalog, save_catalog).  After an unreported save or
\* clear the disk may hold the other catalog and an "unchanged" answer does not write
\* it back.
CatalogsAreWhole ==
    LET disk == Imported(Loaded(catalogue))
        holds(rows, mark) == mark = catalogue.fingerprint /\ Says(Imported(rows)) = Says(disk)
    IN  /\ disk.ok
        /\ up => \/ catalogue.fingerprint = fingerprint /\ Says(index) = Says(disk)
                 \/ \E c \in tried : holds(c.rows, c.fingerprint)
        /\ catalogue.fingerprint # NoFingerprint => \E c \in Catalogs : holds(c.rows, c.fingerprint)

\* A query reads the same whatever the order of the catalog's rows, also after
\* the catalog went through the store: no row is preferred for coming first, and
\* no name, alias or cue is lost on the way.
RewritesAreOrderFree(queries, spaces) ==
    \A catalog \in Catalogs : \A known \in {Imported(catalog.rows)} :
      known.ok =>
        /\ Exportable(known) => Says(Imported(Exported(known))) = Says(known)
        /\ \A p \in Permutations(DOMAIN catalog.rows) :
             \A other \in {Imported([i \in DOMAIN catalog.rows |-> catalog.rows[p[i]]])} :
               /\ other.ok
               /\ \A q \in queries, s \in spaces : Rewritten(other, s, q) = Rewritten(known, s, q)
=============================================================================
