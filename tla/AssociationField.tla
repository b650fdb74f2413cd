---------------------------- MODULE AssociationField ----------------------------
(***************************************************************************)
(* StructuralAssociationField: directed evidence between addresses, from   *)
(* the order they come in within an event and across near events.  Weights *)
(* decay lazily, when an edge is reinforced or read.                       *)
(*                                                                         *)
(* The decay of one tick is a half here; a Unit is divisible by everything *)
(* a weight is divided by within the bounds, so that all weights are whole.*)
(***************************************************************************)
EXTENDS Integers, SequencesExt, FiniteSetsExt

CONSTANTS
    Hierarchies, FieldAddresses,
    MaxWithinDistance, MaxEventLag,
    MaxLength, MaxTicks                   \* bounds: length of a trail, ticks

VARIABLES
    ticks,          \* _ticks of each hierarchy
    edges,          \* _edges: key -> [weight, observations, last]
    recent,         \* _recent of each hierarchy
    seen,           \* _seen_observations
    delivered       \* history: observations in order, with hierarchy and tick

fieldVars == <<ticks, edges, recent, seen, delivered>>

Unit == 72 * 2^MaxTicks
FieldTrails == UNION {[1..n -> FieldAddresses] : n \in 0..MaxLength}
Keys == Hierarchies \X FieldAddresses \X FieldAddresses \X {"within", "temporal"}

FieldInit ==
    /\ ticks = [h \in Hierarchies |-> 0]
    /\ edges = << >>
    /\ recent = [h \in Hierarchies |-> <<>>]
    /\ seen = {}
    /\ delivered = <<>>

Count(a, trail) == Cardinality({i \in DOMAIN trail : trail[i] = a})

\* What one event adds between s and t, and an earlier one with it.
WithinAmounts(trail, s, t) ==
    {p \in (DOMAIN trail) \X (DOMAIN trail) :
        /\ p[1] < p[2] /\ p[2] <= p[1] + MaxWithinDistance
        /\ trail[p[1]] = s /\ trail[p[2]] = t}
WithinMass(trail, s, t) ==
    MapThenSumSet(LAMBDA p : Unit \div (p[2] - p[1]), WithinAmounts(trail, s, t))
TemporalMass(earlier, trail, lag, s, t) ==
    IF earlier = <<>> \/ trail = <<>> THEN 0
    ELSE (Unit \div (lag * Len(earlier) * Len(trail))) * Count(s, earlier) * Count(t, trail)

Decayed(edge, now) == edge.weight \div 2^(now - edge.last)
\* Mutant: reading an edge forgets the ticks since it was last reinforced.
Undecayed(h, s, t, channel) ==
    IF <<h, s, t, channel>> \in DOMAIN edges THEN edges[<<h, s, t, channel>>].weight ELSE 0
Association(h, s, t, channel) ==
    IF <<h, s, t, channel>> \in DOMAIN edges
    THEN Decayed(edges[<<h, s, t, channel>>], ticks[h]) ELSE 0

\* _trim_recent, as of tick now.
\* Mutant: an event at the last lag that counts is dropped.
TrimmedEarly(rows, now) == SelectSeq(rows, LAMBDA r : now - r.tick < MaxEventLag)
Trimmed(rows, now) == SelectSeq(rows, LAMBDA r : now - r.tick <= MaxEventLag)

\* Every _reinforce of one observation: the amounts per key and their number.
Amount(h, now, rows, trail, k) ==
    IF k[4] = "within" THEN WithinMass(trail, k[2], k[3])
    ELSE MapThenSumSet(LAMBDA i : TemporalMass(rows[i].trail, trail, now - rows[i].tick, k[2], k[3]),
                       DOMAIN rows)
Times(rows, trail, k) ==
    IF k[4] = "within" THEN Cardinality(WithinAmounts(trail, k[2], k[3]))
    ELSE MapThenSumSet(LAMBDA i : Count(k[2], rows[i].trail) * Count(k[3], trail), DOMAIN rows)
\* Mutant: an edge keeps the tick it was made at.
ReinforcedInPlace(h, now, rows, trail) ==
    LET touched == {k \in Keys : k[1] = h /\ Times(rows, trail, k) > 0}
        before(k) == IF k \in DOMAIN edges THEN edges[k]
                     ELSE [weight |-> 0, observations |-> 0, last |-> now]
    IN [k \in DOMAIN edges \cup touched |->
           IF k \notin touched THEN edges[k]
           ELSE [before(k) EXCEPT !.weight = @ + Amount(h, now, rows, trail, k),
                                  !.observations = @ + Times(rows, trail, k)]]
Reinforced(h, now, rows, trail) ==
    LET touched == {k \in Keys : k[1] = h /\ Times(rows, trail, k) > 0}
        before(k) == IF k \in DOMAIN edges THEN edges[k]
                     ELSE [weight |-> 0, observations |-> 0, last |-> now]
    IN [k \in DOMAIN edges \cup touched |->
           IF k \notin touched THEN edges[k]
           ELSE [weight |-> Decayed(before(k), now) + Amount(h, now, rows, trail, k),
                 observations |-> before(k).observations + Times(rows, trail, k),
                 last |-> now]]

\* observe(): an observation counts once.  An empty trail only moves the clock.
ObserveEvent(id, h, trail) ==
    LET now == ticks[h] + 1
        rows == Trimmed(recent[h], now)
    IN IF id \in seen THEN UNCHANGED fieldVars
       ELSE /\ ticks' = [ticks EXCEPT ![h] = now]
            /\ edges' = Reinforced(h, now, rows, trail)
            /\ recent' = [recent EXCEPT ![h] =
                  IF trail = <<>> THEN rows ELSE Append(rows, [tick |-> now, trail |-> trail])]
            /\ seen' = seen \cup {id}
            /\ delivered' = Append(delivered, [id |-> id, hierarchy |-> h, tick |-> now,
                                               trail |-> trail])

\* advance(): causal time passes in some or in all hierarchies.
Advance(hs) ==
    /\ ticks' = [h \in Hierarchies |-> IF h \in hs THEN ticks[h] + 1 ELSE ticks[h]]
    /\ recent' = [h \in Hierarchies |-> IF h \in hs THEN Trimmed(recent[h], ticks[h] + 1)
                                        ELSE recent[h]]
    /\ UNCHANGED <<edges, seen, delivered>>

\* from_state refuses an edge ahead of its clock and events out of order.
StateAccepted ==
    /\ \A k \in DOMAIN edges :
           /\ edges[k].weight >= 0 /\ edges[k].observations >= 1
           /\ edges[k].last <= ticks[k[1]]
    /\ \A h \in Hierarchies : \A i \in DOMAIN recent[h] :
           /\ recent[h][i].tick <= ticks[h]
           /\ i > 1 => recent[h][i].tick >= recent[h][i - 1].tick

\* export_state, then from_state: everything but the observations seen.
Reopen ==
    /\ StateAccepted
    /\ recent' = [h \in Hierarchies |-> Trimmed(recent[h], ticks[h])]
    /\ seen' = {}
    /\ UNCHANGED <<ticks, edges, delivered>>

\* What was observed before a restart is not delivered again: the reader of the
\* log goes on from its cursor.
FieldNext ==
    \/ \E h \in Hierarchies, trail \in FieldTrails :
           ticks[h] < MaxTicks /\ ObserveEvent(Len(delivered) + 1, h, trail)
    \/ \E i \in DOMAIN delivered :
           i \in seen /\ ObserveEvent(i, delivered[i].hierarchy, delivered[i].trail)
    \/ \E hs \in {Hierarchies} \cup {{h} : h \in Hierarchies} :
           (\A h \in hs : ticks[h] < MaxTicks) /\ Advance(hs)
    \/ Reopen

-----------------------------------------------------------------------------
\* The weight between two addresses is what each observation and each pair of
\* near observations contributed, halved for every tick since, whatever was
\* decayed, trimmed or restored on the way.
Discounted(mass, h, tick) == mass \div 2^(ticks[h] - tick)
DiscountedHistory(h, s, t, channel) ==
    LET of == {i \in DOMAIN delivered : delivered[i].hierarchy = h}
        lag(i, j) == delivered[j].tick - delivered[i].tick
    IN IF channel = "within"
       THEN MapThenSumSet(LAMBDA i : Discounted(WithinMass(delivered[i].trail, s, t), h,
                                                delivered[i].tick), of)
       ELSE MapThenSumSet(LAMBDA p : Discounted(TemporalMass(delivered[p[1]].trail,
                                                             delivered[p[2]].trail,
                                                             lag(p[1], p[2]), s, t),
                                                h, delivered[p[2]].tick),
                          {p \in of \X of : p[1] < p[2] /\ lag(p[1], p[2]) <= MaxEventLag})

AssociationIsDiscountedHistory ==
    /\ StateAccepted
    /\ \A k \in Keys : Association(k[1], k[2], k[3], k[4])
                           = DiscountedHistory(k[1], k[2], k[3], k[4])
=============================================================================
