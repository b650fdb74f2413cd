------------------------------- MODULE MCNative -------------------------------
(***************************************************************************)
(* Model checking of the native runtime in one run: its memory, and the    *)
(* views next to it (MCNativeViews).  A behaviour has one focus and leaves *)
(* the rest as it was; those of the memory are:                            *)
(*   memory     turns that repeat, correct and echo, under failed writes   *)
(*              and kills                                                  *)
(*   episodes   episodes between turns, and formats, under the same faults *)
(*   recall     every turn a client may send, none of them failing, and    *)
(*              the questions asked after each                             *)
(*   claims     more statements, of two claims in two forms, none failing  *)
(*   index      the table under keys that collide and repeat               *)
(*   histories  one list of temporal facts                                 *)
(*   sessions   one list of episodes                                       *)
(***************************************************************************)
EXTENDS MobileRetrieval, MobileIndex, StructuralText, TLC

CONSTANTS
    s1, blue, red, question,
    Catalogs, MaxConcepts, MaxAliases, MaxCues, MaxRowAliases, RowCap, MaxAliasWords,
    MaxUnsure, MaxRestarts,
    MaxHops, MaxPaths, MaxListed, MinConfidence, MinActivation, MaxFrontier, MaxResults,
    MaxFacts,
    MaxMixed     \* bound: requests of a focus that mixes kinds of turns

VARIABLES
    focus,
    given,    \* the list a reader is given
    \* the views
    index, fingerprint, catalogue, up, tried, unsure, restarts,
    facts

\* "the car is blue", "the car is red and fast", "is it blue or fast?"
TextWords ==
    blue :> {"car", "blue"} @@ red :> {"car", "red", "fast"} @@ question :> {"blue", "fast"}

Plain(words) ==
    [words |-> words, previous |-> FALSE, current |-> FALSE, pair |-> FALSE,
     direction |-> 0, again |-> {}]
Now(words) == [Plain(words \cup {"now"}) EXCEPT !.current = TRUE]
Previously(words) == [Plain(words) EXCEPT !.previous = TRUE]
Both(words) == [Plain(words \cup {"both"}) EXCEPT !.pair = TRUE]
First(words) == [Plain(words) EXCEPT !.direction = -1]
Rewritten(words, as) == [Plain(words) EXCEPT !.again = {Plain(as)}]

Queries ==
    {Plain({"car"}), Plain({"blue"}), Plain({"red", "blue"}), Now({"blue"}),
     Previously({"blue", "fast"}), Both({"red"}), First({"fast"}),
     Rewritten({"crimson"}, {"red"})}

Said(words, ours) == [words |-> words, ours |-> ours]
Windows ==
    {NoWindow, <<Said({"car"}, TRUE)>>, <<Said({"blue"}, TRUE), Said({"red"}, TRUE)>>,
     <<Said({"fast"}, TRUE), Said({"red"}, FALSE)>>}

\* Two namespaces, ids that hash to one slot and to its neighbour.
IndexKeys == {<<"p", 1>>, <<"p", 2>>, <<"p", 3>>, <<"q", 1>>, <<"q", 2>>}
EmptyId == <<"p", 0>>
Hashes == [key \in IndexKeys |-> CASE key[2] = 1 -> 3 [] key[2] = 2 -> 7 [] OTHER -> 4]
IndexRows ==
    {<<key>> : key \in IndexKeys \cup {EmptyId}}
    \cup {<<<<"p", 1>>, <<"p", 2>>>>, <<<<"p", 3>>, <<"p", 1>>>>, <<<<"q", 1>>, <<"q", 2>>>>,
          <<<<"p", 1>>, <<"p", 2>>, <<"p", 3>>>>}

\* Lists of up to four facts of three orders, of up to three episodes.
Histories == UNION {[1..n -> [order: 1..3]] : n \in 1..4}
Told(id, session, event, topics, order) ==
    [id |-> id, session |-> session, event |-> event, topics |-> topics,
     words |-> {"garden"}, order |-> order]
Sessions ==
    UNION {[1..n -> {Told(id, "s", <<"met">>, topics, order) :
                       id \in {1, 2}, topics \in {{"rain"}, {}}, order \in {1, 2}}
                    \cup {Told(3, "s", None, {"garden"}, 1), Told(3, "r", <<"met">>, {"rain"}, 3)}]
           : n \in 1..3}
Wanted ==
    [session: {"s"}, event: {None, <<"met">>}, topics: {{}, {"garden"}},
     words: {{"garden", "rain"}, {"snow"}}]

MemoryInit ==
    /\ MobileInit /\ IndexInit
    /\ \/ focus \in {"memory", "episodes", "recall", "claims", "index"} /\ given = <<>>
       \/ focus = "histories" /\ given \in Histories
       \/ focus = "sessions" /\ given \in Sessions

\* A focus that mixes kinds of turns ends after MaxMixed requests.
Mixed(claims) == IF counter < MaxMixed THEN claims ELSE {}

\* Every text made from memories is of this type and, under faults, names its
\* parents: a client's own choice of an ultimate source is left to "recall".
OnlyEchoes(type, parented) ==
    /\ counter <= MaxMixed /\ stored.counter <= MaxMixed
    /\ \A i \in DOMAIN turns : turns[i].type \in EchoTypes =>
         /\ turns[i].type = type /\ (parented => turns[i].parents # {})
         /\ turns[i].root \notin {Turn(n) : n \in MaxMixed + 1..MaxTurns}

\* Statements, answered one after the other.
Statements ==
    /\ \A i \in DOMAIN turns : turns[i].type \in UserTypes \cup {"derived_relation"}
    /\ faults = 0 /\ reopens = 0

MemoryNext ==
    /\ \/ /\ focus = "memory" /\ MobileStep(Mixed({blue, question}), {TRUE}, Outcomes)
          /\ OnlyEchoes("external_import", TRUE)' /\ UNCHANGED <<episodes, indexVars>>
       \/ /\ focus = "episodes" /\ (MobileStep(Mixed({question}), {TRUE}, Outcomes) \/ FormatStep)
          /\ OnlyEchoes("assistant_generated", TRUE)' /\ UNCHANGED indexVars
       \/ /\ focus = "recall" /\ MobileStep(Mixed(Values \cup {Silent}), {TRUE}, {"durable"})
          /\ OnlyEchoes("assistant_generated", FALSE)'
          /\ UNCHANGED <<episodes, reopens, faults, indexVars>>
       \/ /\ focus = "claims" /\ MobileStep(Values, BOOLEAN, {"durable"})
          /\ Statements' /\ UNCHANGED <<episodes, indexVars>>
       \/ focus = "index" /\ IndexNext /\ UNCHANGED mobileVars
    /\ UNCHANGED <<focus, given>>

memoryVars == <<mobileVars, indexVars, given>>

-----------------------------------------------------------------------------
(* Concepts: "b" names two of them, which their cues tell apart.           *)

Concept(id, canonical, aliases, cues) ==
    [space |-> "s", id |-> id, canonical |-> canonical, sense |-> "", aliases |-> aliases,
     cues |-> cues]
X == Concept("x", <<"x">>, << <<"x", "y">> >>, <<>>)
Y == Concept("y", <<"y">>, << <<"b">> >>, << <<"m">> >>)
Z == Concept("z", <<"z">>, << <<"b">> >>, << <<"m">>, <<"x">> >>)
\* Y with one alias more, which is X's name; Z under Y's name; X with more
\* aliases than a row may export, with longer ones than it holds, and with cues
\* that are too many only until they are compared; a concept too many.
YWithX == [Y EXCEPT !.aliases = << <<"x">>, <<"b">> >>]
ZAsY == [Z EXCEPT !.canonical = <<"y">>]
TooWide == [X EXCEPT !.aliases = << <<"x", "y">>, <<"y">>, <<"b">> >>]
TooLong == [X EXCEPT !.aliases = << <<"x", "y">>, <<"y", "x">> >>]
CuedTwice == [X EXCEPT !.cues = << <<"m">>, <<"m">>, <<"m">> >>]
W == Concept("w", <<"w">>, <<>>, <<>>)

SomeCatalogs ==
    {[fingerprint |-> "f1", rows |-> <<X, Y, Z>>], [fingerprint |-> "f2", rows |-> <<YWithX, Z>>],
     [fingerprint |-> "f3", rows |-> <<X, X>>], [fingerprint |-> "f4", rows |-> <<ZAsY, Z>>],
     [fingerprint |-> "f5", rows |-> <<TooWide>>], [fingerprint |-> "f6", rows |-> <<>>],
     [fingerprint |-> "f7", rows |-> <<Y, Z, Z, YWithX>>], [fingerprint |-> "f8", rows |-> <<X, Y, Z, W>>],
     [fingerprint |-> "f9", rows |-> <<W, TooLong>>], [fingerprint |-> "f10", rows |-> <<W, CuedTwice>>]}

-----------------------------------------------------------------------------
(* Structural text: two hierarchies, an identity met with another text.    *)

Record(hierarchy, id, kind, sequence, text) ==
    [hierarchy |-> hierarchy, id |-> id, kind |-> kind, sequence |-> sequence, text |-> text]
TextSymbols ==
    << <<"a", "b">>, <<"a", "c", "b">>, <<"c">>, <<"a", "b">>, <<"c", "b", "c", "b", "c", "b">>,
       <<"a", "c">> >>
Close == {<<"d", "c">>, <<"c", "d">>}
WindowRecords ==
    {Record("h", 1, "k", 1, 1), Record("h", 2, "l", 2, 1), Record("h", 1, "k", 2, 3),
     Record("h", 1, "k", 1, 3)}
TextRecords ==
    WindowRecords
    \cup {Record("h", 1, "k", 3, 4), Record("h", 3, "k", 3, 5), Record("g", 2, "k", 1, 6),
          Record("h", 2, "k", 1, 6)}

-----------------------------------------------------------------------------
(* The views.                                                              *)

Views == INSTANCE MCNativeViews WITH Lexicon <- <<X, Y, Z>>

\* The state of the parts in Views.
viewVars ==
    <<facts, index, fingerprint, catalogue, up, tried, unsure, restarts, structuralVars>>

Init ==
    /\ \/ MemoryInit
       \/ focus \in Views!ViewFoci /\ MobileInit /\ IndexInit /\ given = <<>>
    /\ Views!ViewsInit

Next ==
    \/ MemoryNext /\ UNCHANGED viewVars
    \/ Views!ViewsNext /\ UNCHANGED memoryVars

Spec == Init /\ [][Next]_<<focus, memoryVars, viewVars>>

-----------------------------------------------------------------------------
\* What stands is what rests on a user's turn, and a derived relation stands
\* while two independent turns state it (lineage_kernel.c,
\* maybe_auto_semantic_consolidate).
LineageHolds == LineageIsGrounded /\ DerivationsGrounded

\* Every answer names turns that stand, of the kind the resolver promises
\* (memoria_mobile_resolve_context_json).
AnswersStand ==
    focus = "recall" /\ request = Idle => AnswersStandFor(Queries, Windows)

\* What is answered as CURRENT may not be superseded: "Records in the factual
\* space may participate in current factual state when provenance, supersession,
\* conflict and authority rules allow it"
\* (docs/FACTUAL_GENERATIVE_MEMORY_SPACE.md:9).  The temporal answer reads
\* every turn, superseded or not (try_temporal_response).
CurrentStands ==
    focus = "recall" /\ request = Idle => CurrentStandsFor({Now({"car"})})

\* The temporal state and the recalled episode are the ones their orders name,
\* in whatever sequence the records were stored (temporal_state_kernel.c,
\* episodic_kernel.c).
ReadersExact ==
    /\ focus = "histories" => HistoryIsExact(given)
    /\ focus = "sessions" => \A wanted \in Wanted : RecallIsExact(wanted, given)

\* The store holds one catalog whole, and a query reads the same whatever the
\* order of its rows (concept_runtime_state.c, concept_query_rewrite.c); a path, a
\* collection and an activation say what the graph says, no less and no more
\* (concept_relation_runtime.c, relational_activation_native.c).
ConceptsAnswer == Views!CatalogsHold /\ Views!RelationsHold

\* A field is the sum of its observations, an answer holds the best of them
\* (structural_text_kernel.c, resolve_text_impl), and a window read under one
\* token is one window (memoria_mobile_read_structural_window_json).
FieldsAnswer == Views!FieldsAnswer /\ (focus = "windows" => WindowsReadWhole)
=============================================================================
