----------------------------- MODULE MCNativeViews -----------------------------
(***************************************************************************)
(* Model checking of the views the native runtime keeps next to its turns: *)
(* the concept catalog, the relations between concepts, and the structural *)
(* text memory.  A behaviour has one focus and leaves the rest as it was:  *)
(*   concepts   catalogs applied, under failed saves, kills and formats    *)
(*   relations  one turn after the other, and the questions asked of them  *)
(*   fields     structural observations, under failures and restarts       *)
(*   windows    a client that reads windows while others observe           *)
(***************************************************************************)
EXTENDS ConceptRelations, StructuralText, TLC

CONSTANTS
    Lexicon,        \* rows of the catalog the relations are read with
    WindowRecords,  \* what is observed while windows are read
    MaxFacts        \* bound: turns of the relations

VARIABLES
    focus,
    facts           \* the turns the relations are read from

-----------------------------------------------------------------------------
(* Concepts and relations.                                                 *)

\* The queries asked of the catalogs.
Queries == BoundedSeq({"x", "y", "b", "m"}, 3)

\* The concepts that name the terms of the relations, which are clear,
\* ambiguous, weak, superseded and derived ones.
Names == Imported(Lexicon)

Saying(n, text, subject, predicate, object, confidence, size) ==
    [space |-> "m", type |-> "user_assertion", gone |-> FALSE, text |-> text,
     relations |-> <<[id |-> n, subject |-> subject, predicate |-> predicate, object |-> object,
                      confidence |-> confidence, size |-> size]>>]
Facts ==
    {Saying(1, <<>>, <<"x">>, "is", <<"p">>, 4, 1), Saying(2, <<>>, <<"x", "y">>, "is", <<"p">>, 3, 1),
     Saying(3, <<>>, <<"p">>, "is", <<"q">>, 4, 2), Saying(4, <<>>, <<"x">>, "has", <<"q">>, 4, 1),
     Saying(5, <<>>, <<"b">>, "is", <<"p">>, 4, 1), Saying(6, <<"b", "x">>, <<"b">>, "is", <<"p">>, 4, 1),
     Saying(7, <<>>, <<"q">>, "is", <<"x">>, 4, 2), Saying(8, <<>>, <<"p">>, "has", <<"q">>, 2, 1),
     [Saying(9, <<>>, <<"x">>, "is", <<"q">>, 4, 1) EXCEPT !.gone = TRUE],
     [Saying(10, <<>>, <<"x">>, "is", <<"p">>, 4, 1) EXCEPT !.type = "derived_relation"],
     Saying(11, <<>>, <<"x">>, "has", <<"b">>, 4, 1)}
GraphOf(turns) == Edges(turns, "m", Names, "s")
Node(surface) == Key(Names, "s", surface, <<>>)

LearnFact ==
    /\ Len(facts) < MaxFacts
    /\ \E fact \in Facts \ ToSet(facts) : facts' = Append(facts, fact)

-----------------------------------------------------------------------------

ViewFoci == {"concepts", "relations", "fields", "windows"}

ViewsInit == ConceptsInit /\ facts = <<>> /\ StructuralInit

ViewsNext ==
    /\ \/ focus = "concepts" /\ ConceptsNext /\ UNCHANGED <<facts, structuralVars>>
       \/ focus = "relations" /\ LearnFact /\ UNCHANGED <<conceptVars, structuralVars>>
       \/ /\ focus = "fields" /\ StructuralNext
          /\ UNCHANGED <<reader, conceptVars, facts>>
       \/ /\ focus = "windows" /\ StructuralNext
          /\ {records'[i] : i \in DOMAIN records'} \subseteq WindowRecords /\ astray' = {}
          /\ UNCHANGED <<conceptVars, facts>>
    /\ UNCHANGED focus

viewVars == <<facts, conceptVars, structuralVars>>

-----------------------------------------------------------------------------

\* The store holds one catalog whole, and a query reads the same whatever the
\* order of its rows (concept_runtime_state.c, concept_query_rewrite.c).
CatalogsHold ==
    /\ focus = "concepts" => CatalogsAreWhole
    /\ focus = "concepts" /\ index = NoConcepts /\ unsure = 0
         => RewritesAreOrderFree(Queries, {"s"})

\* A path, a collection and an activation say what the graph says, no less and
\* no more (concept_relation_runtime.c, relational_activation_native.c).
RelationsHold ==
    focus = "relations" =>
      \A edges \in {GraphOf(facts)} :
        /\ \A a \in {<<"x">>, <<"b">>, <<"p">>}, b \in {<<"p">>, <<"q">>} :
             PathsAreUnique(facts, "m", Names, "s", a, b)
        /\ \A a \in {<<"p">>, <<"q">>} : CollectionKeepsBest(facts, "m", Names, "s", a)
        /\ \A a \in {<<"x">>, <<"p">>}, depth \in {1, 2}, budget \in {1, 4} :
             ActivationIsMaximal(edges, Node(a), depth, budget)

\* A field is the sum of its observations, and an answer holds the best of them:
\* queries with one known symbol, two, a misspelt one and three
\* (structural_text_kernel.c, resolve_text_impl).
FieldsAnswer ==
    focus = "fields" =>
      /\ FieldsAreSums
      /\ serving /\ textFaults = 0 /\ textRestarts = 0 =>
           AnswersAreBest({<<"a">>, <<"a", "b">>, <<"d", "a">>, <<"a", "b", "c">>}, {1, 2})
=============================================================================
