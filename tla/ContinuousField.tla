---------------------------- MODULE ContinuousField ----------------------------
(***************************************************************************)
(* ContinuousStructuralAssociationField with physical time: which earlier  *)
(* events an observation is still joined with.  An event is kept as long   *)
(* as a kernel could see it, and the kernel falls below trace_floor at     *)
(* PhysicalHorizon in time, at CausalHorizon in events.                    *)
(***************************************************************************)
EXTENDS Integers, Sequences, FiniteSets

CONSTANTS
    Clocks, Intervals,        \* time coordinates observations may carry
    CausalHorizon, PhysicalHorizon, MaxHistory,
    MaxEvents                 \* bound: observations

\* _temporal_coordinate refuses an interval that ends before it begins.
ASSUME ContinuousParameters ==
    /\ Intervals \subseteq {i \in Int \X Int : i[1] <= i[2]}
    /\ CausalHorizon \in Nat /\ PhysicalHorizon \in Nat

VARIABLES
    now,            \* _ticks of the hierarchy
    kept,           \* _recent, as a set of ticks and coordinates
    latest,         \* _latest_temporal
    joined,         \* pairs of ticks that reinforced temporal edges
    events          \* history: the coordinate of every admitted observation

continuousVars == <<now, kept, latest, joined, events>>

NoTime == [clock |-> "none", start |-> 0, end |-> 0]
Coordinates == {NoTime} \cup {[clock |-> c, start |-> i[1], end |-> i[2]] :
                                 c \in Clocks, i \in Intervals}

ContinuousInit ==
    /\ now = 0 /\ kept = {} /\ joined = {} /\ events = <<>>
    /\ latest = [c \in Clocks |-> NoTime]

\* _physical_interval_distance, and the kernel seen or not.
Distance(a, b) ==
    IF a.end >= b.start /\ b.end >= a.start THEN 0
    ELSE IF a.end < b.start THEN b.start - a.end ELSE a.start - b.end
Joins(current, currentTick, previous, previousTick) ==
    \/ current = NoTime /\ previous = NoTime /\ currentTick - previousTick <= CausalHorizon
    \/ /\ current # NoTime /\ previous # NoTime /\ current.clock = previous.clock
       /\ Distance(current, previous) <= PhysicalHorizon

\* _trim_history at tick t, when the clocks were last at l.
\* Mutant: only the count of events keeps one alive.
TrimmedByCount(rows, t, l) == {r \in rows : t - r.tick <= CausalHorizon}
TrimmedHistory(rows, t, l) ==
    {r \in rows :
        \/ t - r.tick <= CausalHorizon
        \/ r.time # NoTime /\ Distance(l[r.time.clock], r.time) <= PhysicalHorizon}

\* _validate_physical_temporal_input.
InOrder(time) ==
    IF time = NoTime THEN TRUE
    ELSE IF latest[time.clock] = NoTime THEN TRUE
    ELSE time.start + time.end >= latest[time.clock].start + latest[time.clock].end
Saturated(time) ==
    time # NoTime /\ Cardinality({r \in kept :
        /\ r.time # NoTime /\ r.time.clock = time.clock
        /\ Distance(time, r.time) <= PhysicalHorizon}) >= MaxHistory

ObserveAt(time) ==
    LET t == now + 1
        l == IF time = NoTime THEN latest ELSE [latest EXCEPT ![time.clock] = time]
        rows == TrimmedHistory(kept, t, l)
    IN /\ InOrder(time) /\ ~Saturated(time)
       /\ now' = t
       /\ latest' = l
       /\ joined' = joined \cup {<<r.tick, t>> :
                                   r \in {p \in rows : Joins(time, t, p.time, p.tick)}}
       /\ kept' = TrimmedHistory(rows \cup {[tick |-> t, time |-> time]}, t, l)
       /\ events' = Append(events, time)

ContinuousNext == now < MaxEvents /\ \E time \in Coordinates : ObserveAt(time)

ContinuousSpec == ContinuousInit /\ [][ContinuousNext]_continuousVars

-----------------------------------------------------------------------------
\* The class comment: trace_floor only omits a contribution that is already
\* negligible.  Two observations reinforce each other exactly if the kernel
\* between them is not.
OnlyNegligibleOmitted ==
    joined = {p \in (DOMAIN events) \X (DOMAIN events) :
                 p[1] < p[2] /\ Joins(events[p[2]], p[2], events[p[1]], p[1])}
=============================================================================
