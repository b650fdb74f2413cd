-------------------------- MODULE ResolutiveInference --------------------------
(***************************************************************************)
(* ResolutiveInferenceEngineV2: one answer from the attractor of a query,  *)
(* with the attractors of its equivalent beginnings beside it.             *)
(***************************************************************************)
EXTENDS StructuralAttractor, StructuralEquivalence

\* The engine's equivalence limits are never reached within the bounds.
Alternates(index, q) == Reformulations(index, q, 32, 16)

SupportOf(r, address) ==
    r.terminals \cup UNION {c.support : c \in {d \in r.candidates : d.address = address}}

Answer(status, tier, address, competing, support, bounded) ==
    [status |-> status, tier |-> tier, address |-> address, competing |-> competing,
     support |-> support, bounded |-> bounded]

\* Mutant: an equivalent path decides what the query itself leaves open.
OverridingAnswer(direct, attempts) ==
    LET alternate == UNION {r.pareto : r \in {s \in attempts : s.resolved}}
        alternateSupport == UNION {s.terminals : s \in {r \in attempts : r.terminal}}
                              \cup UNION {SupportOf(s, CHOOSE a \in s.pareto : TRUE) :
                                             s \in {r \in attempts : r.resolved}}
    IN IF ~direct.resolved /\ Cardinality(alternate) = 1
       THEN Answer("resolved", "equivalent-attractor", alternate, {}, alternateSupport, FALSE)
       ELSE Answer(IF direct.resolved THEN "resolved" ELSE "ambiguous", "direct-attractor",
                   IF direct.resolved THEN direct.pareto ELSE {}, direct.pareto,
                   UNION {c.support : c \in direct.candidates} \cup direct.terminals,
                   direct.bounded)

\* Direct evidence first; equivalent paths count only where there is none.
DirectAnswer(direct, attempts) ==
    LET all == direct.terminals \cup UNION {c.support : c \in direct.candidates}
        alternate == UNION {r.pareto : r \in {s \in attempts : s.resolved}}
        ends == \E r \in attempts : r.terminal
        open == \E r \in attempts : r.ambiguous
        support == UNION {r.terminals : r \in {s \in attempts : s.terminal}}
                     \cup UNION {SupportOf(r, CHOOSE a \in r.pareto : TRUE) :
                                    r \in {s \in attempts : s.resolved}}
    IN CASE direct.ambiguous ->
                Answer("ambiguous", "direct-attractor", {}, direct.pareto, all, direct.bounded)
         [] direct.resolved ->
                Answer("resolved", "direct-attractor", direct.pareto, {},
                       SupportOf(direct, CHOOSE a \in direct.pareto : TRUE), FALSE)
         [] direct.terminal -> Answer("terminal", "direct-attractor", {}, {}, direct.terminals, FALSE)
         [] OTHER ->
                IF open \/ (ends /\ alternate # {}) \/ Cardinality(alternate) > 1
                THEN Answer("ambiguous", "equivalent-attractor", {}, alternate, support,
                            \E r \in attempts : r.bounded)
                ELSE IF alternate # {}
                THEN Answer("resolved", "equivalent-attractor", alternate, {}, support, FALSE)
                ELSE IF ends THEN Answer("terminal", "equivalent-attractor", {}, {}, support, FALSE)
                ELSE Answer("unresolved", "none", {}, {}, {}, FALSE)

Conflicts(direct, attempts) ==
    LET alternate == UNION {r.pareto : r \in {s \in attempts : s.resolved}}
    IN {c \in {"equivalent-path-bounded-out"} : \E r \in attempts : r.bounded}
         \cup {c \in {"equivalent-path-ambiguous"} : \E r \in attempts : r.ambiguous}
         \cup {c \in {"direct-bounded-out"} : direct.bounded}
         \cup {c \in {"direct-structural-ambiguity"} : direct.ambiguous /\ ~direct.bounded}
         \cup {c \in {"equivalent-path-disagrees-with-direct"} :
                   direct.resolved /\ alternate # {} /\ alternate # direct.pareto}
         \cup {c \in {"equivalent-terminal-competes-with-direct"} :
                   direct.resolved /\ \E r \in attempts : r.terminal}
         \cup {c \in {"equivalent-path-does-not-converge"} :
                   direct.resolved /\ \E r \in attempts : r.ambiguous}
         \cup {c \in {"equivalent-forward-path-competes-with-direct-terminal"} :
                   direct.terminal /\ alternate # {}}

Inferred(index, direct, attempts) ==
    [answer |-> DirectAnswer(direct, attempts), conflicts |-> Conflicts(direct, attempts),
     direct |-> direct, attempts |-> attempts,
     provenance |-> {index[i].sequence : i \in DirectAnswer(direct, attempts).support}]
InferStructural(index, raw, reading, candidateLimit, branchLimit) ==
    Inferred(index, ResolveAttractor(index, raw, reading, candidateLimit, branchLimit),
             {ResolveAttractor(index, y, reading, candidateLimit, branchLimit) :
                 y \in Alternates(index, Collapsed(raw))})

-----------------------------------------------------------------------------
NoReading == [c \in Channels |-> [s \in Addresses |-> [t \in Addresses |-> 0]]]

\* Every answer is grounded: it names trajectories that share an address with
\* the query and go on to what it says, with the observations they came from;
\* and no answer means that no trajectory shares anything with the query.
\* The equivalent tier never answers: a query it knows a reformulation of begins
\* a stored trajectory, so that direct evidence exists.  A disagreement with an
\* equivalent path is reported all the same.
InferenceIsGrounded(queries) ==
    \A q \in queries : \A r \in {InferStructural(trajectories, q, NoReading, 2, 2)} :
        LET known == \E t \in ToSet(trajectories) : Overlap(q, t.addresses) > 0
        IN /\ (r.answer.status = "unresolved") <=> ~known
           /\ r.answer.tier \in {"direct-attractor", "none"}
           /\ r.attempts # {} => known
           /\ r.answer.status \in {"resolved", "terminal"} =>
                  /\ r.answer.support # {}
                  /\ \A i \in r.answer.support :
                         /\ Overlap(q, trajectories[i].addresses) > 0
                         /\ \A a \in r.answer.address : a \in ToSet(trajectories[i].addresses)
                         /\ trajectories[i].sequence \in r.provenance
           /\ r.answer.status = "resolved" /\ r.conflicts = {} =>
                  \A s \in r.attempts : s.resolved => s.pareto = r.answer.address
=============================================================================
