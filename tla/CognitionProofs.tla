---------------------------- MODULE CognitionProofs ----------------------------
(***************************************************************************)
(* Proofs about the parts of the structural engine: the layers of a route  *)
(* for every number of levels, every rate per level, all thresholds and    *)
(* all amounts; the window of the continuous field for every set of        *)
(* intervals none of which reaches back before one centered earlier;       *)
(* branch states for every index, whatever is asked of it meanwhile; and   *)
(* equivalence, inference, rankings, frontiers and attractors over every   *)
(* index and query.                                                        *)
(***************************************************************************)
EXTENDS MCCognition, SequenceTheorems, FiniteSetTheorems, TLAPS

-----------------------------------------------------------------------------
(* What support and contradiction do to one strength.                      *)

\* A raised strength stays in range and is not lower than before.
LEMMA RaisedRange ==
  ASSUME TypeOK, NEW a \in Amounts, NEW i \in Levels
  PROVE  Raised(a, i) \in 0..MaxStrength /\ Raised(a, i) >= strength[i]
<1> DEFINE step == a * Rate[i]
<1>1. step \in Nat
  <2>1. a \in Nat /\ Rate[i] \in Nat
    BY LifecycleParameters
  <2> QED BY <2>1
<1>2. strength[i] \in 0..MaxStrength /\ MaxStrength \in Nat
  BY LifecycleParameters DEF TypeOK
<1>3. Raised(a, i) = IF MaxStrength <= strength[i] + step
                     THEN MaxStrength ELSE strength[i] + step
  BY DEF Raised, Lesser
<1> HIDE DEF step
<1> QED BY <1>1, <1>2, <1>3

\* A lowered strength stays in range and is not higher than before.
LEMMA LoweredRange ==
  ASSUME TypeOK, NEW a \in Amounts, NEW i \in Levels
  PROVE  Lowered(a, i) \in 0..MaxStrength /\ Lowered(a, i) <= strength[i]
<1> DEFINE step == a * Rate[i]
<1>1. step \in Nat
  <2>1. a \in Nat /\ Rate[i] \in Nat
    BY LifecycleParameters
  <2> QED BY <2>1
<1>2. strength[i] \in 0..MaxStrength /\ MaxStrength \in Nat
  BY LifecycleParameters DEF TypeOK
<1>3. Lowered(a, i) = IF 0 >= strength[i] - step THEN 0 ELSE strength[i] - step
  BY DEF Lowered, Greater
<1> HIDE DEF step
<1> QED BY <1>1, <1>2, <1>3

\* Waking and sleeping are decided, and never both ways at once.
LEMMA FlagsBoolean ==
  ASSUME NEW a, NEW i \in Levels
  PROVE  /\ Wakes(a, i) \in BOOLEAN
         /\ Sleeps(a, i) \in BOOLEAN
BY DEF Wakes, Sleeps, Reaches

\* The loop that gets to layer i has come past every layer before it.
LEMMA ReachesDown ==
  ASSUME NEW a \in Amounts, NEW i \in Levels, NEW j \in 0..(i - 1), Reaches(a, i)
  PROVE  j \in Levels /\ Reaches(a, j)
<1>1. LastLevel \in Nat
  BY LifecycleParameters
<1>2. j \in Levels /\ 0..(j - 1) \subseteq 0..(i - 1)
  BY <1>1 DEF Levels
<1> QED BY <1>2 DEF Reaches

-----------------------------------------------------------------------------
(* Type correctness.                                                       *)

LEMMA InitTypeOK == LifecycleInit => TypeOK
BY LifecycleParameters DEF LifecycleInit, TypeOK

LEMMA SupportTypeOK ==
  ASSUME TypeOK, NEW a \in Amounts, Support(a)
  PROVE  TypeOK'
<1> USE DEF Support
<1>1. strength' \in [Levels -> 0..MaxStrength]
  <2>1. \A i \in Levels : Raised(a, i) \in 0..MaxStrength
    BY RaisedRange
  <2>2. \A i \in Levels : strength[i] \in 0..MaxStrength
    BY DEF TypeOK
  <2> QED BY <2>1, <2>2
<1>2. active' \in [Levels -> BOOLEAN] /\ ever' \in [Levels -> BOOLEAN]
  OBVIOUS
<1>3. activations' \in [Levels -> Nat]
  <2>1. \A i \in Levels : activations[i] \in Nat
    BY DEF TypeOK
  <2>2. \A i \in Levels : (activations[i] + IF Wakes(a, i) THEN 1 ELSE 0) \in Nat
    BY <2>1
  <2> QED BY <2>2
<1>4. deactivations' \in [Levels -> Nat] /\ time' \in Nat
  BY DEF TypeOK, Tick
<1> QED BY <1>1, <1>2, <1>3, <1>4 DEF TypeOK

LEMMA ContradictTypeOK ==
  ASSUME TypeOK, NEW a \in Amounts, Contradict(a)
  PROVE  TypeOK'
<1> USE DEF Contradict
<1>1. strength' \in [Levels -> 0..MaxStrength]
  <2>1. \A i \in Levels : Lowered(a, i) \in 0..MaxStrength
    BY LoweredRange
  <2> QED BY <2>1
<1>2. active' \in [Levels -> BOOLEAN] /\ ever' \in [Levels -> BOOLEAN]
  BY DEF TypeOK
<1>3. deactivations' \in [Levels -> Nat]
  <2>1. \A i \in Levels : deactivations[i] \in Nat
    BY DEF TypeOK
  <2>2. \A i \in Levels : (deactivations[i] + IF Sleeps(a, i) THEN 1 ELSE 0) \in Nat
    BY <2>1
  <2> QED BY <2>2
<1>4. activations' \in [Levels -> Nat] /\ time' \in Nat
  BY DEF TypeOK, Tick
<1> QED BY <1>1, <1>2, <1>3, <1>4 DEF TypeOK

LEMMA NextTypeOK == TypeOK /\ [LifecycleNext]_lifecycleVars => TypeOK'
<1> SUFFICES ASSUME TypeOK, [LifecycleNext]_lifecycleVars PROVE TypeOK'
  OBVIOUS
<1>1. CASE LifecycleNext
  BY <1>1, SupportTypeOK, ContradictTypeOK DEF LifecycleNext
<1>2. CASE UNCHANGED lifecycleVars
  BY <1>2 DEF lifecycleVars, TypeOK
<1> QED BY <1>1, <1>2

(* Every strength stays between zero and saturation: calls of support()    *)
(* and contradict() in any order and with any amounts keep the types.      *)
THEOREM TypeCorrect == LifecycleSpec => []TypeOK
BY InitTypeOK, NextTypeOK, PTL DEF LifecycleSpec

-----------------------------------------------------------------------------
(* Hysteresis.                                                             *)

LEMMA SupportHysteresis ==
  ASSUME TypeOK, Hysteresis, NEW a \in Amounts, Support(a)
  PROVE  Hysteresis'
<1> SUFFICES ASSUME NEW i \in Levels
             PROVE  IF active'[i] THEN strength'[i] > Deactivate
                                  ELSE strength'[i] < Activate
  BY DEF Hysteresis
<1>1. Deactivate \in Nat /\ Activate \in Nat /\ MaxStrength \in Nat /\ Deactivate < Activate
  BY LifecycleParameters
<1>2. strength[i] \in Nat /\ Raised(a, i) \in Nat /\ Raised(a, i) >= strength[i]
  BY RaisedRange, <1>1 DEF TypeOK
<1>3. active'[i] <=> (active[i] \/ Wakes(a, i))
  BY DEF Support
<1>4. strength'[i] = IF Reaches(a, i) THEN Raised(a, i) ELSE strength[i]
  BY DEF Support
<1>5. IF active[i] THEN strength[i] > Deactivate ELSE strength[i] < Activate
  BY DEF Hysteresis
<1>6. CASE active[i]
  BY <1>1, <1>2, <1>3, <1>4, <1>5, <1>6
<1>7. CASE ~active[i] /\ Wakes(a, i)
  BY <1>1, <1>2, <1>3, <1>4, <1>7 DEF Wakes
<1>8. CASE ~active[i] /\ ~Wakes(a, i)
  BY <1>1, <1>2, <1>3, <1>4, <1>5, <1>8 DEF Wakes
<1> QED BY <1>6, <1>7, <1>8

LEMMA ContradictHysteresis ==
  ASSUME TypeOK, Hysteresis, NEW a \in Amounts, Contradict(a)
  PROVE  Hysteresis'
<1> SUFFICES ASSUME NEW i \in Levels
             PROVE  IF active'[i] THEN strength'[i] > Deactivate
                                  ELSE strength'[i] < Activate
  BY DEF Hysteresis
<1>1. Deactivate \in Nat /\ Activate \in Nat /\ MaxStrength \in Nat /\ Deactivate < Activate
  BY LifecycleParameters
<1>2. strength[i] \in Nat /\ Lowered(a, i) \in Nat /\ Lowered(a, i) <= strength[i]
  BY LoweredRange, <1>1 DEF TypeOK
<1>3. /\ active'[i] <=> (active[i] /\ ~Sleeps(a, i))
      /\ strength'[i] = Lowered(a, i)
  BY DEF Contradict
<1>4. IF active[i] THEN strength[i] > Deactivate ELSE strength[i] < Activate
  BY DEF Hysteresis
<1>5. CASE active[i]
  BY <1>1, <1>2, <1>3, <1>5 DEF Sleeps
<1>6. CASE ~active[i]
  BY <1>1, <1>2, <1>3, <1>4, <1>6
<1> QED BY <1>5, <1>6

(* No sequence of calls leaves an active layer at or below the lower       *)
(* threshold, nor an inactive one at or above the upper.                   *)
THEOREM HysteresisHolds == LifecycleSpec => []Hysteresis
<1>1. LifecycleInit => Hysteresis
  BY LifecycleParameters DEF LifecycleInit, Hysteresis
<1>2. TypeOK /\ Hysteresis /\ [LifecycleNext]_lifecycleVars => Hysteresis'
  <2> SUFFICES ASSUME TypeOK, Hysteresis, [LifecycleNext]_lifecycleVars PROVE Hysteresis'
    OBVIOUS
  <2>1. CASE LifecycleNext
    BY <2>1, SupportHysteresis, ContradictHysteresis DEF LifecycleNext
  <2>2. CASE UNCHANGED lifecycleVars
    BY <2>2 DEF lifecycleVars, Hysteresis
  <2> QED BY <2>1, <2>2
<1> QED BY <1>1, <1>2, TypeCorrect, PTL DEF LifecycleSpec

-----------------------------------------------------------------------------
(* The ladder of layers.                                                   *)

LEMMA SupportLadder ==
  ASSUME TypeOK, Ladder, NEW a \in Amounts, Support(a)
  PROVE  Ladder'
<1> SUFFICES ASSUME NEW i \in Levels, ever'[i] \/ strength'[i] > 0,
                    NEW j \in 0..(i - 1)
             PROVE  ever'[j]
  BY DEF Ladder
<1>1. j \in Levels
  BY LifecycleParameters DEF Levels
<1>2. \A l \in Levels : ever'[l] <=> (ever[l] \/ Wakes(a, l))
  BY DEF Support
<1>3. CASE Reaches(a, i)
  <2>1. Reaches(a, j)
    BY <1>3, ReachesDown
  <2>2. ever[j] \/ (~active[j] /\ Raised(a, j) >= Activate)
    BY <1>3 DEF Reaches
  <2> QED BY <1>1, <1>2, <2>1, <2>2 DEF Wakes
<1>4. CASE ~Reaches(a, i)
  <2>1. strength'[i] = strength[i]
    BY <1>4 DEF Support
  <2>2. ~Wakes(a, i)
    BY <1>4 DEF Wakes
  <2>3. ever[i] \/ strength[i] > 0
    BY <1>2, <2>1, <2>2
  <2>4. ever[j]
    BY <2>3 DEF Ladder
  <2> QED BY <1>1, <1>2, <2>4
<1> QED BY <1>3, <1>4

LEMMA ContradictLadder ==
  ASSUME TypeOK, Ladder, NEW a \in Amounts, Contradict(a)
  PROVE  Ladder'
<1> SUFFICES ASSUME NEW i \in Levels, ever'[i] \/ strength'[i] > 0,
                    NEW j \in 0..(i - 1)
             PROVE  ever'[j]
  BY DEF Ladder
<1>1. ever' = ever /\ strength'[i] = Lowered(a, i)
  BY DEF Contradict
<1>2. strength[i] \in Int /\ Lowered(a, i) \in Int /\ Lowered(a, i) <= strength[i]
  BY LoweredRange, LifecycleParameters DEF TypeOK
<1>3. ever[i] \/ strength[i] > 0
  BY <1>1, <1>2
<1> QED BY <1>1, <1>3 DEF Ladder

(* A layer never gains strength, nor wakes, before every layer below it    *)
(* has once been active, though support() updates them in one loop.        *)
THEOREM LadderHolds == LifecycleSpec => []Ladder
<1>1. LifecycleInit => Ladder
  BY DEF LifecycleInit, Ladder
<1>2. TypeOK /\ Ladder /\ [LifecycleNext]_lifecycleVars => Ladder'
  <2> SUFFICES ASSUME TypeOK, Ladder, [LifecycleNext]_lifecycleVars PROVE Ladder'
    OBVIOUS
  <2>1. CASE LifecycleNext
    BY <2>1, SupportLadder, ContradictLadder DEF LifecycleNext
  <2>2. CASE UNCHANGED lifecycleVars
    BY <2>2 DEF lifecycleVars, Ladder
  <2> QED BY <2>1, <2>2
<1> QED BY <1>1, <1>2, TypeCorrect, PTL DEF LifecycleSpec

-----------------------------------------------------------------------------
(* The counters.                                                           *)

LEMMA SupportCounters ==
  ASSUME TypeOK, CountersAgree, NEW a \in Amounts, Support(a)
  PROVE  CountersAgree'
<1> SUFFICES ASSUME NEW i \in Levels
             PROVE  /\ activations'[i] = deactivations'[i] + IF active'[i] THEN 1 ELSE 0
                    /\ ever'[i] <=> activations'[i] > 0
  BY DEF CountersAgree
<1>1. activations[i] \in Nat /\ deactivations[i] \in Nat
  BY DEF TypeOK
<1>2. /\ activations[i] = deactivations[i] + IF active[i] THEN 1 ELSE 0
      /\ ever[i] <=> activations[i] > 0
  BY DEF CountersAgree
<1>3. /\ active'[i] <=> (active[i] \/ Wakes(a, i))
      /\ ever'[i] <=> (ever[i] \/ Wakes(a, i))
      /\ activations'[i] = activations[i] + IF Wakes(a, i) THEN 1 ELSE 0
      /\ deactivations'[i] = deactivations[i]
  BY DEF Support
<1>4. CASE Wakes(a, i)
  <2>1. ~active[i]
    BY <1>4 DEF Wakes
  <2> QED BY <1>1, <1>2, <1>3, <1>4, <2>1
<1>5. CASE ~Wakes(a, i)
  BY <1>1, <1>2, <1>3, <1>5
<1> QED BY <1>4, <1>5

LEMMA ContradictCounters ==
  ASSUME TypeOK, CountersAgree, NEW a \in Amounts, Contradict(a)
  PROVE  CountersAgree'
<1> SUFFICES ASSUME NEW i \in Levels
             PROVE  /\ activations'[i] = deactivations'[i] + IF active'[i] THEN 1 ELSE 0
                    /\ ever'[i] <=> activations'[i] > 0
  BY DEF CountersAgree
<1>1. activations[i] \in Nat /\ deactivations[i] \in Nat
  BY DEF TypeOK
<1>2. /\ activations[i] = deactivations[i] + IF active[i] THEN 1 ELSE 0
      /\ ever[i] <=> activations[i] > 0
  BY DEF CountersAgree
<1>3. /\ active'[i] <=> (active[i] /\ ~Sleeps(a, i))
      /\ deactivations'[i] = deactivations[i] + IF Sleeps(a, i) THEN 1 ELSE 0
      /\ ever'[i] <=> ever[i]
      /\ activations'[i] = activations[i]
  BY DEF Contradict
<1>4. CASE Sleeps(a, i)
  <2>1. active[i]
    BY <1>4 DEF Sleeps
  <2> QED BY <1>1, <1>2, <1>3, <1>4, <2>1
<1>5. CASE ~Sleeps(a, i)
  BY <1>1, <1>2, <1>3, <1>5
<1> QED BY <1>4, <1>5

(* The counters alternate and agree with the flags after any calls.        *)
THEOREM CountersHold == LifecycleSpec => []CountersAgree
<1>1. LifecycleInit => CountersAgree
  BY DEF LifecycleInit, CountersAgree
<1>2. TypeOK /\ CountersAgree /\ [LifecycleNext]_lifecycleVars => CountersAgree'
  <2> SUFFICES ASSUME TypeOK, CountersAgree, [LifecycleNext]_lifecycleVars PROVE CountersAgree'
    OBVIOUS
  <2>1. CASE LifecycleNext
    BY <2>1, SupportCounters, ContradictCounters DEF LifecycleNext
  <2>2. CASE UNCHANGED lifecycleVars
    BY <2>2 DEF lifecycleVars, CountersAgree
  <2> QED BY <2>1, <2>2
<1> QED BY <1>1, <1>2, TypeCorrect, PTL DEF LifecycleSpec

-----------------------------------------------------------------------------
(* All of it together: what the layers of a route promise their readers.   *)
THEOREM LifecycleHolds == LifecycleSpec => []LifecycleSafe
<1>1. TypeOK /\ Hysteresis /\ Ladder /\ CountersAgree => LifecycleSafe
  BY DEF LifecycleSafe
<1> QED BY <1>1, TypeCorrect, HysteresisHolds, LadderHolds, CountersHold, PTL

-----------------------------------------------------------------------------
(* The continuous field.  An event that left the window cannot join a      *)
(* later one as long as no interval reaches back before one that is        *)
(* centered earlier: the events of a clock come in the order of their      *)
(* centers, and the distance to an event then only grows.                  *)

NoneReachesBack ==
    \A i, j \in Intervals : i[1] + i[2] <= j[1] + j[2] => i[1] <= j[1]

Centered(a, b) == a.start + a.end <= b.start + b.end

\* The latest coordinate of a clock is the last one that was observed.
LatestIsLast ==
    \A c \in Clocks : \A i \in 1..now :
      events[i] # NoTime /\ events[i].clock = c =>
        /\ latest[c] # NoTime /\ latest[c] \in Coordinates /\ latest[c].clock = c
        /\ Centered(events[i], latest[c])

\* What is not kept is out of reach.
OutOfReach(i) ==
    /\ now - i > CausalHorizon
    /\ events[i] # NoTime => Distance(latest[events[i].clock], events[i]) > PhysicalHorizon

Row(i) == [tick |-> i, time |-> events[i]]

ContinuousInv ==
    /\ now \in Nat /\ events \in Seq(Coordinates) /\ Len(events) = now
    /\ latest \in [Clocks -> Coordinates]
    /\ LatestIsLast
    /\ \A r \in kept : r.tick \in 1..now /\ r = Row(r.tick)
    /\ \A i \in 1..now : Row(i) \in kept \/ OutOfReach(i)
    /\ OnlyNegligibleOmitted

LEMMA CoordinatesAre ==
  ASSUME NEW a \in Coordinates
  PROVE  /\ a = [clock |-> a.clock, start |-> a.start, end |-> a.end]
         /\ a.start \in Int /\ a.end \in Int /\ a.start <= a.end
         /\ a # NoTime => a.clock \in Clocks /\ <<a.start, a.end>> \in Intervals
BY ContinuousParameters DEF Coordinates, NoTime

LEMMA DistanceIsInt ==
  ASSUME NEW a \in Coordinates, NEW b \in Coordinates
  PROVE  Distance(a, b) \in Int
<1>1. /\ a.start \in Int /\ a.end \in Int /\ b.start \in Int /\ b.end \in Int
  BY CoordinatesAre
<1> QED BY <1>1 DEF Distance

LEMMA CenteredOn ==
  ASSUME NEW a \in Coordinates, NEW b \in Coordinates, NEW c \in Coordinates,
         Centered(a, b), Centered(b, c)
  PROVE  Centered(a, c)
<1>1. /\ a.start \in Int /\ a.end \in Int /\ b.start \in Int /\ b.end \in Int
      /\ c.start \in Int /\ c.end \in Int
  BY CoordinatesAre
<1> QED BY <1>1 DEF Centered

\* The distance to an event grows with the events that come after it.
LEMMA FartherOn ==
  ASSUME NoneReachesBack, NEW a \in Coordinates, NEW b \in Coordinates, NEW c \in Coordinates,
         b # NoTime, c # NoTime, Centered(a, b), Centered(b, c),
         Distance(b, a) > PhysicalHorizon
  PROVE  Distance(c, a) > PhysicalHorizon
<1>1. /\ a.start \in Int /\ a.end \in Int /\ a.start <= a.end
      /\ b.start \in Int /\ b.end \in Int /\ b.start <= b.end
      /\ c.start \in Int /\ c.end \in Int /\ c.start <= c.end
  BY CoordinatesAre
<1>2. b.start <= c.start
  <2>1. PICK i \in Intervals, j \in Intervals :
          i = <<b.start, b.end>> /\ j = <<c.start, c.end>>
    BY CoordinatesAre
  <2>2. i[1] = b.start /\ i[2] = b.end /\ j[1] = c.start /\ j[2] = c.end
    BY <2>1
  <2> QED BY <2>1, <2>2 DEF NoneReachesBack, Centered
<1>3. PhysicalHorizon \in Nat
  BY ContinuousParameters
<1>4. a.end < b.start /\ Distance(b, a) = b.start - a.end
  <2>1. ~(b.end >= a.start /\ a.end >= b.start)
    BY <1>1, <1>3 DEF Distance
  <2>2. ~(b.end < a.start)
    BY <1>1, <2>1 DEF Centered
  <2>3. a.end < b.start
    BY <1>1, <2>1, <2>2
  <2> QED BY <1>1, <2>1, <2>2, <2>3 DEF Distance
<1>5. Distance(c, a) = c.start - a.end
  BY <1>1, <1>2, <1>4 DEF Distance
<1> QED BY <1>1, <1>2, <1>3, <1>4, <1>5

\* A coordinate that is accepted is centered no earlier than those of its clock.
LEMMA AcceptedComesLast ==
  ASSUME ContinuousInv, NEW coming \in Coordinates, coming # NoTime, InOrder(coming),
         NEW i \in 1..now, events[i] # NoTime, events[i].clock = coming.clock
  PROVE  /\ latest[coming.clock] # NoTime /\ latest[coming.clock] \in Coordinates
         /\ Centered(events[i], latest[coming.clock]) /\ Centered(latest[coming.clock], coming)
         /\ Centered(events[i], coming)
<1>1. coming.clock \in Clocks
  BY CoordinatesAre
<1>2. /\ latest[coming.clock] # NoTime /\ latest[coming.clock] \in Coordinates
      /\ Centered(events[i], latest[coming.clock])
  BY <1>1 DEF ContinuousInv, LatestIsLast
<1>3. events[i] \in Coordinates
  BY DEF ContinuousInv
<1>4. Centered(latest[coming.clock], coming)
  <2>1. PICK l : l = latest[coming.clock]
    OBVIOUS
  <2>2. l.start + l.end <= coming.start + coming.end
    <3>1. coming.start + coming.end >= l.start + l.end
      BY <1>2, <2>1 DEF InOrder
    <3>2. l \in Coordinates
      BY <1>2, <2>1
    <3> QED BY <3>1, <3>2, CoordinatesAre
  <2> QED BY <2>1, <2>2 DEF Centered
<1>5. Centered(events[i], coming)
  <2>1. PICK l : l = latest[coming.clock]
    OBVIOUS
  <2>2. l \in Coordinates /\ Centered(events[i], l) /\ Centered(l, coming)
    BY <1>2, <1>4, <2>1
  <2> QED BY <1>3, <2>2, CenteredOn
<1> QED BY <1>2, <1>4, <1>5

LEMMA ContinuousKeeps ==
  ASSUME NoneReachesBack, ContinuousInv, NEW coming \in Coordinates, ObserveAt(coming)
  PROVE  ContinuousInv'
<1> DEFINE t == now + 1
           l == IF coming = NoTime THEN latest ELSE [latest EXCEPT ![coming.clock] = coming]
           rows == TrimmedHistory(kept, t, l)
           more == Append(events, coming)
           row(i) == [tick |-> i, time |-> more[i]]
           near(i) == t - i <= CausalHorizon
           reached(i) == more[i] # NoTime /\ Distance(l[more[i].clock], more[i]) <= PhysicalHorizon
<1>1. /\ now' = t /\ latest' = l /\ events' = more /\ InOrder(coming)
      /\ joined' = joined \cup {<<r.tick, t>> :
                                  r \in {p \in rows : Joins(coming, t, p.time, p.tick)}}
      /\ kept' = TrimmedHistory(rows \cup {[tick |-> t, time |-> coming]}, t, l)
  BY DEF ObserveAt
<1>2. now \in Nat /\ t \in Nat /\ CausalHorizon \in Nat /\ PhysicalHorizon \in Nat
  BY ContinuousParameters DEF ContinuousInv
<1>3. /\ more \in Seq(Coordinates) /\ Len(more) = t
      /\ \A i \in 1..now : more[i] = events[i] /\ row(i) = Row(i)
      /\ more[t] = coming
  BY <1>2 DEF ContinuousInv, Row
<1>4. l \in [Clocks -> Coordinates]
  <2>1. coming # NoTime => coming.clock \in Clocks
    BY CoordinatesAre
  <2> QED BY <2>1 DEF ContinuousInv
<1>5. \A i \in 1..t : i \in 1..now \/ i = t
  BY <1>2
<1> HIDE DEF more
<1>6. ASSUME NEW c \in Clocks, NEW i \in 1..t, more[i] # NoTime, more[i].clock = c
      PROVE  l[c] # NoTime /\ l[c] \in Coordinates /\ l[c].clock = c /\ Centered(more[i], l[c])
  <2>1. more[i] \in Coordinates
    BY <1>3
  <2>4. Centered(more[i], more[i])
    <3>1. more[i].start \in Int /\ more[i].end \in Int
      BY <2>1, CoordinatesAre
    <3> QED BY <3>1 DEF Centered
  <2>2. CASE coming # NoTime /\ coming.clock = c
    <3>1. l[c] = coming
      BY <2>2 DEF ContinuousInv
    <3>2. CASE i = t
      BY <1>3, <2>1, <2>2, <2>4, <3>1, <3>2
    <3>3. CASE i \in 1..now
      <4>1. Centered(events[i], coming)
        BY <1>1, <1>3, <1>6, <2>2, <3>3, AcceptedComesLast
      <4> QED BY <1>3, <2>2, <3>1, <3>3, <4>1
    <3> QED BY <1>5, <3>2, <3>3
  <2>3. CASE coming = NoTime \/ coming.clock # c
    <3>1. l[c] = latest[c]
      BY <2>3 DEF ContinuousInv
    <3>2. i \in 1..now
      BY <1>3, <1>5, <1>6, <2>3
    <3> QED BY <1>3, <1>6, <3>1, <3>2 DEF ContinuousInv, LatestIsLast
  <2> QED BY <2>2, <2>3
\* What is kept, and what was not kept before and is out of reach still.
<1>7. ASSUME NEW i \in 1..now, Row(i) \notin kept PROVE ~near(i) /\ ~reached(i)
  <2>1. OutOfReach(i) /\ events[i] \in Coordinates
    BY <1>7 DEF ContinuousInv
  <2>2. ~near(i)
    BY <1>2, <2>1 DEF OutOfReach
  <2>3. ASSUME events[i] # NoTime PROVE Distance(l[events[i].clock], events[i]) > PhysicalHorizon
    <3>1. Distance(latest[events[i].clock], events[i]) > PhysicalHorizon
      BY <2>1, <2>3 DEF OutOfReach
    <3>2. CASE coming # NoTime /\ coming.clock = events[i].clock
      <4>1. PICK b : b = latest[coming.clock]
        OBVIOUS
      <4>2. /\ b # NoTime /\ b \in Coordinates /\ Centered(events[i], b) /\ Centered(b, coming)
        BY <1>1, <2>3, <3>2, <4>1, AcceptedComesLast
      <4>3. Distance(coming, events[i]) > PhysicalHorizon
        BY <2>1, <3>1, <3>2, <4>1, <4>2, FartherOn
      <4>4. l[events[i].clock] = coming
        <5>1. coming.clock \in Clocks
          BY <3>2, CoordinatesAre
        <5> QED BY <3>2, <5>1 DEF ContinuousInv
      <4> QED BY <4>3, <4>4
    <3>3. CASE coming = NoTime \/ coming.clock # events[i].clock
      <4>1. l[events[i].clock] = latest[events[i].clock]
        <5>1. events[i].clock \in Clocks
          BY <2>1, <2>3, CoordinatesAre
        <5> QED BY <3>3, <5>1 DEF ContinuousInv
      <4> QED BY <3>1, <4>1
    <3> QED BY <3>2, <3>3
  <2>4. Distance(l[events[i].clock], events[i]) \in Int \/ events[i] = NoTime
    <3>1. \A a, b \in Coordinates : Distance(a, b) \in Int
      BY DistanceIsInt
    <3>2. events[i] # NoTime => events[i].clock \in Clocks
      BY <2>1, CoordinatesAre
    <3> QED BY <1>4, <2>1, <3>1, <3>2
  <2>5. more[i] = events[i]
    BY <1>3
  <2>6. ~reached(i)
    <3>1. CASE events[i] = NoTime
      BY <2>5, <3>1
    <3>2. CASE events[i] # NoTime
      <4>1. \A x \in Int : x > PhysicalHorizon => ~(x <= PhysicalHorizon)
        BY <1>2
      <4> QED BY <2>3, <2>4, <2>5, <3>2, <4>1
    <3> QED BY <3>1, <3>2
  <2> QED BY <2>2, <2>6
<1> HIDE DEF l
<1>8. \A r : r \in rows <=> \E i \in 1..now : r = row(i) /\ (near(i) \/ reached(i))
  <2>1. \A r \in kept : r.tick \in 1..now /\ r = row(r.tick)
    BY <1>3 DEF ContinuousInv
  <2>2. \A i \in 1..now : row(i).tick = i /\ row(i).time = more[i]
    OBVIOUS
  <2>3. \A i \in 1..now : near(i) \/ reached(i) => row(i) \in kept
    BY <1>3, <1>7
  <2> HIDE DEF row
  <2>4. ASSUME NEW r \in rows PROVE \E i \in 1..now : r = row(i) /\ (near(i) \/ reached(i))
    <3>1. r \in kept /\ (t - r.tick <= CausalHorizon
                           \/ (r.time # NoTime /\ Distance(l[r.time.clock], r.time) <= PhysicalHorizon))
      BY DEF TrimmedHistory
    <3>2. PICK i \in 1..now : i = r.tick /\ r = row(i)
      BY <2>1, <3>1
    <3>3. r.time = more[i]
      BY <2>2, <3>2
    <3> QED BY <3>1, <3>2, <3>3
  <2>5. ASSUME NEW i \in 1..now, near(i) \/ reached(i) PROVE row(i) \in rows
    <3>1. row(i) \in kept
      BY <2>3, <2>5
    <3> QED BY <2>2, <2>5, <3>1 DEF TrimmedHistory
  <2> QED BY <2>4, <2>5
<1>9. row(t).tick = t /\ row(t).time = more[t] /\ near(t)
  BY <1>2
<1>10. \A r : r \in kept' <=> \E i \in 1..t : r = row(i) /\ (near(i) \/ reached(i))
  <2>1. \A i \in 1..t : row(i).tick = i /\ row(i).time = more[i]
    OBVIOUS
  <2>2. \A i \in 1..now : i \in 1..t
    BY <1>2
  <2>3. t \in 1..t
    BY <1>2
  <2>4. row(t) = [tick |-> t, time |-> coming]
    BY <1>3
  <2> HIDE DEF row, rows
  <2>5. \A r : r \in rows \cup {row(t)} => \E i \in 1..t : r = row(i) /\ (near(i) \/ reached(i))
    BY <1>8, <1>9, <2>2, <2>3
  <2>6. \A i \in 1..t : near(i) \/ reached(i) => row(i) \in rows \cup {row(t)}
    BY <1>5, <1>8
  <2>7. \A r : r \in kept' <=> /\ r \in rows \cup {row(t)}
                              /\ \/ t - r.tick <= CausalHorizon
                                 \/ r.time # NoTime /\ Distance(l[r.time.clock], r.time) <= PhysicalHorizon
    BY <1>1, <2>4 DEF TrimmedHistory
  <2>8. ASSUME NEW i \in 1..t, near(i) \/ reached(i) PROVE row(i) \in kept'
    BY <2>1, <2>6, <2>7, <2>8
  <2> QED BY <2>5, <2>7, <2>8
<1>11. ASSUME NEW i \in 1..now, Joins(coming, t, more[i], i) PROVE near(i) \/ reached(i)
  <2>1. CASE coming = NoTime
    BY <1>11, <2>1 DEF Joins
  <2>2. CASE coming # NoTime
    <3>1. more[i] # NoTime /\ coming.clock = more[i].clock /\ Distance(coming, more[i]) <= PhysicalHorizon
      BY <1>11, <2>2 DEF Joins
    <3>2. l[coming.clock] = coming
      <4>1. coming.clock \in Clocks
        BY <2>2, CoordinatesAre
      <4> QED BY <2>2, <4>1 DEF l, ContinuousInv
    <3> QED BY <3>1, <3>2
  <2> QED BY <2>1, <2>2
<1> DEFINE new == {<<r.tick, t>> : r \in {p \in rows : Joins(coming, t, p.time, p.tick)}}
<1>12. \A p : p \in new <=> \E i \in 1..now : p = <<i, t>> /\ Joins(coming, t, more[i], i)
  <2>1. \A i \in 1..now : row(i).tick = i /\ row(i).time = more[i]
    OBVIOUS
  <2> HIDE DEF row, rows
  <2>2. ASSUME NEW p \in new PROVE \E i \in 1..now : p = <<i, t>> /\ Joins(coming, t, more[i], i)
    <3>1. PICK r \in rows : p = <<r.tick, t>> /\ Joins(coming, t, r.time, r.tick)
      OBVIOUS
    <3>2. PICK i \in 1..now : r = row(i)
      BY <1>8
    <3> QED BY <2>1, <3>1, <3>2
  <2>3. ASSUME NEW i \in 1..now, Joins(coming, t, more[i], i) PROVE <<i, t>> \in new
    <3>1. row(i) \in rows
      BY <1>8, <1>11, <2>3
    <3> QED BY <2>1, <2>3, <3>1
  <2> QED BY <2>2, <2>3
<1> HIDE DEF new
<1>13. OnlyNegligibleOmitted'
  <2> DEFINE old == {p \in (1..now) \X (1..now) :
                       p[1] < p[2] /\ Joins(more[p[2]], p[2], more[p[1]], p[1])}
             all == {p \in (1..t) \X (1..t) :
                       p[1] < p[2] /\ Joins(more[p[2]], p[2], more[p[1]], p[1])}
  <2>1. joined = old
    <3>1. DOMAIN events = 1..now
      BY DEF ContinuousInv
    <3>2. joined = {p \in (1..now) \X (1..now) :
                      p[1] < p[2] /\ Joins(events[p[2]], p[2], events[p[1]], p[1])}
      BY <3>1 DEF ContinuousInv, OnlyNegligibleOmitted
    <3> QED BY <1>3, <3>2
  <2>2. ASSUME NEW p \in all PROVE p \in old \cup new
    <3>1. PICK i \in 1..t, j \in 1..t : p = <<i, j>> /\ i < j /\ Joins(more[j], j, more[i], i)
      OBVIOUS
    <3>2. i \in 1..now
      BY <1>2, <3>1
    <3>3. CASE j = t
      BY <1>3, <1>12, <3>1, <3>2, <3>3
    <3>4. CASE j \in 1..now
      BY <3>1, <3>2, <3>4
    <3> QED BY <1>5, <3>3, <3>4
  <2>3. ASSUME NEW p \in new PROVE p \in all
    <3>1. PICK i \in 1..now : p = <<i, t>> /\ Joins(coming, t, more[i], i)
      BY <1>12
    <3>2. i \in 1..t /\ t \in 1..t /\ i < t
      BY <1>2
    <3> QED BY <1>3, <3>1, <3>2
  <2>4. ASSUME NEW p \in old PROVE p \in all
    BY <1>2
  <2>5. old \cup new = all
    BY <2>2, <2>3, <2>4
  <2>6. joined' = joined \cup new
    BY <1>1 DEF new
  <2>7. DOMAIN more = 1..t
    BY <1>3
  <2> QED BY <1>1, <2>1, <2>5, <2>6, <2>7 DEF OnlyNegligibleOmitted
<1>14. LatestIsLast'
  BY <1>1, <1>6 DEF LatestIsLast
<1>15. \A r \in kept' : r.tick \in 1..t /\ r = row(r.tick)
  BY <1>10
<1>16. ASSUME NEW i \in 1..t, row(i) \notin kept' PROVE OutOfReach(i)'
  <2>1. ~near(i) /\ ~reached(i)
    BY <1>10, <1>16
  <2>2. t - i > CausalHorizon
    BY <1>2, <2>1
  <2>3. ASSUME more[i] # NoTime PROVE Distance(l[more[i].clock], more[i]) > PhysicalHorizon
    <3>1. more[i] \in Coordinates /\ more[i].clock \in Clocks
      <4>1. more[i] \in Coordinates
        BY <1>3
      <4> QED BY <2>3, <4>1, CoordinatesAre
    <3>2. \A a, b \in Coordinates : Distance(a, b) \in Int
      BY DistanceIsInt
    <3>3. Distance(l[more[i].clock], more[i]) \in Int
      BY <1>4, <3>1, <3>2
    <3>4. ~(Distance(l[more[i].clock], more[i]) <= PhysicalHorizon)
      BY <2>1, <2>3
    <3>5. \A x \in Int : ~(x <= PhysicalHorizon) => x > PhysicalHorizon
      BY <1>2
    <3> QED BY <3>3, <3>4, <3>5
  <2> QED BY <1>1, <2>2, <2>3 DEF OutOfReach
<1>17. /\ \A r \in kept' : r.tick \in 1..now' /\ r = Row(r.tick)'
       /\ \A i \in 1..now' : (Row(i) \in kept)' \/ OutOfReach(i)'
  BY <1>1, <1>15, <1>16 DEF Row
<1> QED BY <1>1, <1>2, <1>3, <1>4, <1>13, <1>14, <1>17 DEF ContinuousInv

\* Two events of one clock never come too late to be joined, and what the window
\* drops would have joined nothing: every pair the kernel still sees is joined,
\* and no other, whatever the clocks, horizons and limits, as long as no interval
\* reaches back before one centered earlier (_trim_history, _temporal_kernel).
THEOREM WindowOmitsNothing ==
  ASSUME NoneReachesBack PROVE ContinuousSpec => []OnlyNegligibleOmitted
<1>1. ContinuousInit => ContinuousInv
  BY DEF ContinuousInit, ContinuousInv, LatestIsLast, OnlyNegligibleOmitted, Coordinates
<1>2. ContinuousInv /\ [ContinuousNext]_continuousVars => ContinuousInv'
  <2> SUFFICES ASSUME ContinuousInv, [ContinuousNext]_continuousVars PROVE ContinuousInv'
    OBVIOUS
  <2>1. CASE ContinuousNext
    BY <2>1, ContinuousKeeps DEF ContinuousNext
  <2>2. CASE UNCHANGED continuousVars
    BY <2>2 DEF continuousVars, ContinuousInv, LatestIsLast, OutOfReach, Row,
       OnlyNegligibleOmitted
  <2> QED BY <2>1, <2>2
<1>3. ContinuousInv => OnlyNegligibleOmitted
  BY DEF ContinuousInv
<1> QED BY <1>1, <1>2, <1>3, PTL DEF ContinuousSpec

-----------------------------------------------------------------------------
(* Branch states: recursions unrolled, numbers and finite sets.            *)

\* A nonempty finite set of numbers has a greatest.
LEMMA MaxExists ==
  ASSUME NEW S \in SUBSET Nat, IsFiniteSet(S), S # {}
  PROVE  \E m \in S : \A j \in S : j <= m
<1> DEFINE above(n) == {j \in S : j > n}
           family == {above(n) : n \in S}
<1>1. family # {} /\ family \subseteq FiniteSubsetsOf(S)
  <2>1. \A n \in S : above(n) \in SUBSET S /\ IsFiniteSet(above(n))
    BY FS_Subset
  <2> QED BY <2>1 DEF FiniteSubsetsOf
<1>2. IsWellFoundedOn(StrictSubsetOrdering(S), FiniteSubsetsOf(S))
  BY FS_StrictSubsetOrderingWellFounded
<1> HIDE DEF family
<1>3. PICK least \in family : \A A \in family : ~(<<A, least>> \in StrictSubsetOrdering(S))
  BY <1>1, <1>2, WFMin
<1>4. PICK m \in S : least = above(m)
  BY DEF family
<1>5. ASSUME NEW j \in S, j > m PROVE FALSE
  <2>1. above(j) \in family
    BY DEF family
  <2>2. /\ j \in least /\ j \notin above(j)
        /\ \A x \in above(j) : x \in least
    <3>1. \A x \in S : x > j => x > m
      BY <1>5
    <3> QED BY <1>4, <1>5, <3>1
  <2>3. <<above(j), least>> \in StrictSubsetOrdering(S)
    BY <1>4, <2>2 DEF StrictSubsetOrdering
  <2> QED BY <1>3, <2>1, <2>3
<1> QED BY <1>5

\* What holds of 0 and passes from each number to the next holds up to N.
LEMMA Upwards ==
  ASSUME NEW N \in Nat, NEW P, 0 \in P, \A n \in 0..N : n < N /\ n \in P => n + 1 \in P
  PROVE  0..N \subseteq P
<1> DEFINE good == {m \in 0..N : 0..m \subseteq P}
<1>1. good \in SUBSET Nat /\ IsFiniteSet(good) /\ 0 \in good
  <2>1. IsFiniteSet(0..N) /\ good \subseteq 0..N
    BY FS_Interval
  <2> QED BY <2>1, FS_Subset
<1> HIDE DEF good
<1>2. PICK m \in good : \A j \in good : j <= m
  BY <1>1, MaxExists
<1> USE DEF good
<1>3. ASSUME m < N PROVE FALSE
  <2>1. m + 1 \in P /\ m + 1 \in 0..N
    BY <1>3
  <2>2. \A n \in 0..m + 1 : n \in 0..m \/ n = m + 1
    OBVIOUS
  <2>3. m + 1 \in good
    BY <2>1, <2>2
  <2> QED BY <1>2, <2>3
<1> QED BY <1>3

\* Collapsing a trail onto another goes through one step per address.
LEMMA OntoIs ==
  ASSUME NEW trail, NEW raw, Len(raw) \in Nat
  PROVE  \E f : /\ f[0] = trail
                /\ \A n \in 1..Len(raw) : f[n] = Kept(f[n - 1], raw[n])
                /\ Onto(trail, raw) = f[Len(raw)]
<1> DEFINE Is(m, f) == f = [n \in 0..m |-> IF n = 0 THEN trail ELSE Kept(f[n - 1], raw[n])]
           P == {m \in 0..Len(raw) : \E f : Is(m, f)}
<1>1. 0 \in P
  <2> DEFINE g == [n \in 0..0 |-> trail]
  <2>1. g = [n \in 0..0 |-> IF n = 0 THEN trail ELSE Kept(g[n - 1], raw[n])]
    OBVIOUS
  <2> HIDE DEF g
  <2>2. Is(0, g) /\ 0 \in 0..Len(raw)
    BY <2>1
  <2> QED BY <2>2
<1>2. ASSUME NEW m \in 0..Len(raw), m < Len(raw), m \in P PROVE m + 1 \in P
  <2>1. PICK f : Is(m, f)
    BY <1>2
  <2> DEFINE g == [n \in 0..m + 1 |-> IF n <= m THEN f[n] ELSE Kept(f[m], raw[m + 1])]
  <2>2. ASSUME NEW n \in 0..m + 1
        PROVE  g[n] = IF n = 0 THEN trail ELSE Kept(g[n - 1], raw[n])
    <3>1. CASE n = 0
      BY <2>1, <3>1
    <3>2. CASE n # 0 /\ n <= m
      <4>1. n \in 0..m /\ n - 1 \in 0..m + 1 /\ n - 1 <= m
        BY <3>2
      <4>2. g[n] = f[n] /\ g[n - 1] = f[n - 1]
        BY <3>2, <4>1
      <4> HIDE DEF g
      <4> QED BY <2>1, <3>2, <4>1, <4>2
    <3>3. CASE n = m + 1
      <4>1. n # 0 /\ ~(n <= m) /\ n - 1 = m /\ m \in 0..m + 1
        BY <3>3
      <4>2. g[n - 1] = f[m] /\ g[n] = Kept(f[m], raw[m + 1])
        BY <4>1
      <4> HIDE DEF g
      <4> QED BY <3>3, <4>1, <4>2
    <3> QED BY <3>1, <3>2, <3>3
  <2>3. g = [n \in 0..m + 1 |-> g[n]]
    OBVIOUS
  <2> HIDE DEF g
  <2>4. Is(m + 1, g)
    BY <2>2, <2>3
  <2>5. m + 1 \in 0..Len(raw)
    BY <1>2
  <2> QED BY <2>4, <2>5
<1>3. Len(raw) \in P
  <2> HIDE DEF P
  <2>1. 0..Len(raw) \subseteq P
    BY <1>1, <1>2, Upwards
  <2> QED BY <2>1
<1> DEFINE after == CHOOSE f : Is(Len(raw), f)
<1>4. Is(Len(raw), after)
  BY <1>3
<1>5. Onto(trail, raw) = after[Len(raw)]
  BY DEF Onto
<1> HIDE DEF after
<1>6. after[0] = trail /\ \A n \in 1..Len(raw) : after[n] = Kept(after[n - 1], raw[n])
  <2>1. 0 \in 0..Len(raw) /\ \A n \in 1..Len(raw) : n \in 0..Len(raw) /\ n # 0
    OBVIOUS
  <2> QED BY <1>4, <2>1
<1> QED BY <1>5, <1>6

\* So does observing a trail,
LEMMA ObservedIs ==
  ASSUME NEW s, NEW raw, Len(Collapsed(raw)) \in Nat
  PROVE  \E f : /\ f[0] = s
                /\ \A n \in 1..Len(Collapsed(raw)) : f[n] = ObservedAddress(f[n - 1], Collapsed(raw)[n])
                /\ ObservedAddresses(s, raw) = f[Len(Collapsed(raw))]
<1> DEFINE Is(m, f) == f = [n \in 0..m |-> IF n = 0 THEN s ELSE ObservedAddress(f[n - 1], Collapsed(raw)[n])]
           P == {m \in 0..Len(Collapsed(raw)) : \E f : Is(m, f)}
<1>1. 0 \in P
  <2> DEFINE g == [n \in 0..0 |-> s]
  <2>1. g = [n \in 0..0 |-> IF n = 0 THEN s ELSE ObservedAddress(g[n - 1], Collapsed(raw)[n])]
    OBVIOUS
  <2> HIDE DEF g
  <2>2. Is(0, g) /\ 0 \in 0..Len(Collapsed(raw))
    BY <2>1
  <2> QED BY <2>2
<1>2. ASSUME NEW m \in 0..Len(Collapsed(raw)), m < Len(Collapsed(raw)), m \in P PROVE m + 1 \in P
  <2>1. PICK f : Is(m, f)
    BY <1>2
  <2> DEFINE g == [n \in 0..m + 1 |-> IF n <= m THEN f[n] ELSE ObservedAddress(f[m], Collapsed(raw)[m + 1])]
  <2>2. ASSUME NEW n \in 0..m + 1
        PROVE  g[n] = IF n = 0 THEN s ELSE ObservedAddress(g[n - 1], Collapsed(raw)[n])
    <3>1. CASE n = 0
      BY <2>1, <3>1
    <3>2. CASE n # 0 /\ n <= m
      <4>1. n \in 0..m /\ n - 1 \in 0..m + 1 /\ n - 1 <= m
        BY <3>2
      <4>2. g[n] = f[n] /\ g[n - 1] = f[n - 1]
        BY <3>2, <4>1
      <4> HIDE DEF g
      <4> QED BY <2>1, <3>2, <4>1, <4>2
    <3>3. CASE n = m + 1
      <4>1. n # 0 /\ ~(n <= m) /\ n - 1 = m /\ m \in 0..m + 1
        BY <3>3
      <4>2. g[n - 1] = f[m] /\ g[n] = ObservedAddress(f[m], Collapsed(raw)[m + 1])
        BY <4>1
      <4> HIDE DEF g
      <4> QED BY <3>3, <4>1, <4>2
    <3> QED BY <3>1, <3>2, <3>3
  <2>3. g = [n \in 0..m + 1 |-> g[n]]
    OBVIOUS
  <2> HIDE DEF g
  <2>4. Is(m + 1, g)
    BY <2>2, <2>3
  <2>5. m + 1 \in 0..Len(Collapsed(raw))
    BY <1>2
  <2> QED BY <2>4, <2>5
<1>3. Len(Collapsed(raw)) \in P
  <2> HIDE DEF P
  <2>1. 0..Len(Collapsed(raw)) \subseteq P
    BY <1>1, <1>2, Upwards
  <2> QED BY <2>1
<1> DEFINE after == CHOOSE f : Is(Len(Collapsed(raw)), f)
<1>4. Is(Len(Collapsed(raw)), after)
  BY <1>3
<1>5. ObservedAddresses(s, raw) = after[Len(Collapsed(raw))]
  BY DEF ObservedAddresses
<1> HIDE DEF after
<1>6. after[0] = s /\ \A n \in 1..Len(Collapsed(raw)) : after[n] = ObservedAddress(after[n - 1], Collapsed(raw)[n])
  <2>1. 0 \in 0..Len(Collapsed(raw)) /\ \A n \in 1..Len(Collapsed(raw)) : n \in 0..Len(Collapsed(raw)) /\ n # 0
    OBVIOUS
  <2> QED BY <1>4, <2>1
<1> QED BY <1>5, <1>6

RowsOf(rows) == [n \in DOMAIN rows |-> rows[n].row]

\* inserting rows one by one,
LEMMA SortingIs ==
  ASSUME NEW keyed, NEW last, last \in Nat
  PROVE  \E f : /\ f[0] = <<>>
                /\ \A n \in 1..last : f[n] = SortedTo(keyed, f[n - 1], n)
                /\ Sorted(keyed, last) = RowsOf(f[last])
<1> DEFINE Is(m, f) == f = [n \in 0..m |-> IF n = 0 THEN <<>> ELSE SortedTo(keyed, f[n - 1], n)]
           P == {m \in 0..last : \E f : Is(m, f)}
<1>1. 0 \in P
  <2> DEFINE g == [n \in 0..0 |-> <<>>]
  <2>1. g = [n \in 0..0 |-> IF n = 0 THEN <<>> ELSE SortedTo(keyed, g[n - 1], n)]
    OBVIOUS
  <2> HIDE DEF g
  <2>2. Is(0, g) /\ 0 \in 0..last
    BY <2>1
  <2> QED BY <2>2
<1>2. ASSUME NEW m \in 0..last, m < last, m \in P PROVE m + 1 \in P
  <2>1. PICK f : Is(m, f)
    BY <1>2
  <2> DEFINE g == [n \in 0..m + 1 |-> IF n <= m THEN f[n] ELSE SortedTo(keyed, f[m], m + 1)]
  <2>2. ASSUME NEW n \in 0..m + 1
        PROVE  g[n] = IF n = 0 THEN <<>> ELSE SortedTo(keyed, g[n - 1], n)
    <3>1. CASE n = 0
      BY <2>1, <3>1
    <3>2. CASE n # 0 /\ n <= m
      <4>1. n \in 0..m /\ n - 1 \in 0..m + 1 /\ n - 1 <= m
        BY <3>2
      <4>2. g[n] = f[n] /\ g[n - 1] = f[n - 1]
        BY <3>2, <4>1
      <4> HIDE DEF g
      <4> QED BY <2>1, <3>2, <4>1, <4>2
    <3>3. CASE n = m + 1
      <4>1. n # 0 /\ ~(n <= m) /\ n - 1 = m /\ m \in 0..m + 1
        BY <3>3
      <4>2. g[n - 1] = f[m] /\ g[n] = SortedTo(keyed, f[m], m + 1)
        BY <4>1
      <4> HIDE DEF g
      <4> QED BY <3>3, <4>1, <4>2
    <3> QED BY <3>1, <3>2, <3>3
  <2>3. g = [n \in 0..m + 1 |-> g[n]]
    OBVIOUS
  <2> HIDE DEF g
  <2>4. Is(m + 1, g)
    BY <2>2, <2>3
  <2>5. m + 1 \in 0..last
    BY <1>2
  <2> QED BY <2>4, <2>5
<1>3. last \in P
  <2> HIDE DEF P
  <2>1. 0..last \subseteq P
    BY <1>1, <1>2, Upwards
  <2> QED BY <2>1
<1> DEFINE after == CHOOSE f : Is(last, f)
<1>4. Is(last, after)
  BY <1>3
<1>5. Sorted(keyed, last) = RowsOf(after[last])
  BY DEF Sorted, RowsOf
<1> HIDE DEF after
<1>6. after[0] = <<>> /\ \A n \in 1..last : after[n] = SortedTo(keyed, after[n - 1], n)
  <2>1. 0 \in 0..last /\ \A n \in 1..last : n \in 0..last /\ n # 0
    OBVIOUS
  <2> QED BY <1>4, <2>1
<1> QED BY <1>5, <1>6

\* filling a row of the LCS table,
LEMMA RowIs ==
  ASSUME NEW above, NEW a, NEW t, Len(t) \in Nat
  PROVE  \E f : /\ f[0] = <<0>>
                /\ \A n \in 1..Len(t) : f[n] = LcsCell(f[n - 1], above, a, t, n)
                /\ LcsRow(above, a, t) = f[Len(t)]
<1> DEFINE Is(m, f) == f = [n \in 0..m |-> IF n = 0 THEN <<0>> ELSE LcsCell(f[n - 1], above, a, t, n)]
           P == {m \in 0..Len(t) : \E f : Is(m, f)}
<1>1. 0 \in P
  <2> DEFINE g == [n \in 0..0 |-> <<0>>]
  <2>1. g = [n \in 0..0 |-> IF n = 0 THEN <<0>> ELSE LcsCell(g[n - 1], above, a, t, n)]
    OBVIOUS
  <2> HIDE DEF g
  <2>2. Is(0, g) /\ 0 \in 0..Len(t)
    BY <2>1
  <2> QED BY <2>2
<1>2. ASSUME NEW m \in 0..Len(t), m < Len(t), m \in P PROVE m + 1 \in P
  <2>1. PICK f : Is(m, f)
    BY <1>2
  <2> DEFINE g == [n \in 0..m + 1 |-> IF n <= m THEN f[n] ELSE LcsCell(f[m], above, a, t, m + 1)]
  <2>2. ASSUME NEW n \in 0..m + 1
        PROVE  g[n] = IF n = 0 THEN <<0>> ELSE LcsCell(g[n - 1], above, a, t, n)
    <3>1. CASE n = 0
      BY <2>1, <3>1
    <3>2. CASE n # 0 /\ n <= m
      <4>1. n \in 0..m /\ n - 1 \in 0..m + 1 /\ n - 1 <= m
        BY <3>2
      <4>2. g[n] = f[n] /\ g[n - 1] = f[n - 1]
        BY <3>2, <4>1
      <4> HIDE DEF g
      <4> QED BY <2>1, <3>2, <4>1, <4>2
    <3>3. CASE n = m + 1
      <4>1. n # 0 /\ ~(n <= m) /\ n - 1 = m /\ m \in 0..m + 1
        BY <3>3
      <4>2. g[n - 1] = f[m] /\ g[n] = LcsCell(f[m], above, a, t, m + 1)
        BY <4>1
      <4> HIDE DEF g
      <4> QED BY <3>3, <4>1, <4>2
    <3> QED BY <3>1, <3>2, <3>3
  <2>3. g = [n \in 0..m + 1 |-> g[n]]
    OBVIOUS
  <2> HIDE DEF g
  <2>4. Is(m + 1, g)
    BY <2>2, <2>3
  <2>5. m + 1 \in 0..Len(t)
    BY <1>2
  <2> QED BY <2>4, <2>5
<1>3. Len(t) \in P
  <2> HIDE DEF P
  <2>1. 0..Len(t) \subseteq P
    BY <1>1, <1>2, Upwards
  <2> QED BY <2>1
<1> DEFINE after == CHOOSE f : Is(Len(t), f)
<1>4. Is(Len(t), after)
  BY <1>3
<1>5. LcsRow(above, a, t) = after[Len(t)]
  BY DEF LcsRow
<1> HIDE DEF after
<1>6. after[0] = <<0>> /\ \A n \in 1..Len(t) : after[n] = LcsCell(after[n - 1], above, a, t, n)
  <2>1. 0 \in 0..Len(t) /\ \A n \in 1..Len(t) : n \in 0..Len(t) /\ n # 0
    OBVIOUS
  <2> QED BY <1>4, <2>1
<1> QED BY <1>5, <1>6

\* filling the table,
LEMMA TableIs ==
  ASSUME NEW q, NEW t, Len(q) \in Nat
  PROVE  \E f : /\ f[0] = <<NoLcs(t)>>
                /\ \A n \in 1..Len(q) : f[n] = WithRow(f[n - 1], q[n], t)
                /\ LcsTable(q, t) = f[Len(q)]
<1> DEFINE Is(m, f) == f = [n \in 0..m |-> IF n = 0 THEN <<NoLcs(t)>> ELSE WithRow(f[n - 1], q[n], t)]
           P == {m \in 0..Len(q) : \E f : Is(m, f)}
<1>1. 0 \in P
  <2> DEFINE g == [n \in 0..0 |-> <<NoLcs(t)>>]
  <2>1. g = [n \in 0..0 |-> IF n = 0 THEN <<NoLcs(t)>> ELSE WithRow(g[n - 1], q[n], t)]
    OBVIOUS
  <2> HIDE DEF g
  <2>2. Is(0, g) /\ 0 \in 0..Len(q)
    BY <2>1
  <2> QED BY <2>2
<1>2. ASSUME NEW m \in 0..Len(q), m < Len(q), m \in P PROVE m + 1 \in P
  <2>1. PICK f : Is(m, f)
    BY <1>2
  <2> DEFINE g == [n \in 0..m + 1 |-> IF n <= m THEN f[n] ELSE WithRow(f[m], q[m + 1], t)]
  <2>2. ASSUME NEW n \in 0..m + 1
        PROVE  g[n] = IF n = 0 THEN <<NoLcs(t)>> ELSE WithRow(g[n - 1], q[n], t)
    <3>1. CASE n = 0
      BY <2>1, <3>1
    <3>2. CASE n # 0 /\ n <= m
      <4>1. n \in 0..m /\ n - 1 \in 0..m + 1 /\ n - 1 <= m
        BY <3>2
      <4>2. g[n] = f[n] /\ g[n - 1] = f[n - 1]
        BY <3>2, <4>1
      <4> HIDE DEF g
      <4> QED BY <2>1, <3>2, <4>1, <4>2
    <3>3. CASE n = m + 1
      <4>1. n # 0 /\ ~(n <= m) /\ n - 1 = m /\ m \in 0..m + 1
        BY <3>3
      <4>2. g[n - 1] = f[m] /\ g[n] = WithRow(f[m], q[m + 1], t)
        BY <4>1
      <4> HIDE DEF g
      <4> QED BY <3>3, <4>1, <4>2
    <3> QED BY <3>1, <3>2, <3>3
  <2>3. g = [n \in 0..m + 1 |-> g[n]]
    OBVIOUS
  <2> HIDE DEF g
  <2>4. Is(m + 1, g)
    BY <2>2, <2>3
  <2>5. m + 1 \in 0..Len(q)
    BY <1>2
  <2> QED BY <2>4, <2>5
<1>3. Len(q) \in P
  <2> HIDE DEF P
  <2>1. 0..Len(q) \subseteq P
    BY <1>1, <1>2, Upwards
  <2> QED BY <2>1
<1> DEFINE after == CHOOSE f : Is(Len(q), f)
<1>4. Is(Len(q), after)
  BY <1>3
<1>5. LcsTable(q, t) = after[Len(q)]
  BY DEF LcsTable
<1> HIDE DEF after
<1>6. after[0] = <<NoLcs(t)>> /\ \A n \in 1..Len(q) : after[n] = WithRow(after[n - 1], q[n], t)
  <2>1. 0 \in 0..Len(q) /\ \A n \in 1..Len(q) : n \in 0..Len(q) /\ n # 0
    OBVIOUS
  <2> QED BY <1>4, <2>1
<1> QED BY <1>5, <1>6

\* and walking back through it.
LEMMA PositionsIs ==
  ASSUME NEW q, NEW t, Len(q) + Len(t) \in Nat
  PROVE  \E f : /\ f[0] = [i |-> Len(q), j |-> Len(t), found |-> <<>>]
                /\ \A n \in 1..Len(q) + Len(t) : f[n] = Backtrack(f[n - 1], q, t, LcsTable(q, t))
                /\ LcsPositions(q, t) = f[Len(q) + Len(t)].found
<1> DEFINE Is(m, f) == f = [n \in 0..m |-> IF n = 0 THEN [i |-> Len(q), j |-> Len(t), found |-> <<>>] ELSE Backtrack(f[n - 1], q, t, LcsTable(q, t))]
           P == {m \in 0..Len(q) + Len(t) : \E f : Is(m, f)}
<1>1. 0 \in P
  <2> DEFINE g == [n \in 0..0 |-> [i |-> Len(q), j |-> Len(t), found |-> <<>>]]
  <2>1. g = [n \in 0..0 |-> IF n = 0 THEN [i |-> Len(q), j |-> Len(t), found |-> <<>>] ELSE Backtrack(g[n - 1], q, t, LcsTable(q, t))]
    OBVIOUS
  <2> HIDE DEF g
  <2>2. Is(0, g) /\ 0 \in 0..Len(q) + Len(t)
    BY <2>1
  <2> QED BY <2>2
<1>2. ASSUME NEW m \in 0..Len(q) + Len(t), m < Len(q) + Len(t), m \in P PROVE m + 1 \in P
  <2>1. PICK f : Is(m, f)
    BY <1>2
  <2> DEFINE g == [n \in 0..m + 1 |-> IF n <= m THEN f[n] ELSE Backtrack(f[m], q, t, LcsTable(q, t))]
  <2>2. ASSUME NEW n \in 0..m + 1
        PROVE  g[n] = IF n = 0 THEN [i |-> Len(q), j |-> Len(t), found |-> <<>>] ELSE Backtrack(g[n - 1], q, t, LcsTable(q, t))
    <3>1. CASE n = 0
      BY <2>1, <3>1
    <3>2. CASE n # 0 /\ n <= m
      <4>1. n \in 0..m /\ n - 1 \in 0..m + 1 /\ n - 1 <= m
        BY <3>2
      <4>2. g[n] = f[n] /\ g[n - 1] = f[n - 1]
        BY <3>2, <4>1
      <4> HIDE DEF g
      <4> QED BY <2>1, <3>2, <4>1, <4>2
    <3>3. CASE n = m + 1
      <4>1. n # 0 /\ ~(n <= m) /\ n - 1 = m /\ m \in 0..m + 1
        BY <3>3
      <4>2. g[n - 1] = f[m] /\ g[n] = Backtrack(f[m], q, t, LcsTable(q, t))
        BY <4>1
      <4> HIDE DEF g
      <4> QED BY <3>3, <4>1, <4>2
    <3> QED BY <3>1, <3>2, <3>3
  <2>3. g = [n \in 0..m + 1 |-> g[n]]
    OBVIOUS
  <2> HIDE DEF g
  <2>4. Is(m + 1, g)
    BY <2>2, <2>3
  <2>5. m + 1 \in 0..Len(q) + Len(t)
    BY <1>2
  <2> QED BY <2>4, <2>5
<1>3. Len(q) + Len(t) \in P
  <2> HIDE DEF P
  <2>1. 0..Len(q) + Len(t) \subseteq P
    BY <1>1, <1>2, Upwards
  <2> QED BY <2>1
<1> DEFINE after == CHOOSE f : Is(Len(q) + Len(t), f)
<1>4. Is(Len(q) + Len(t), after)
  BY <1>3
<1>5. LcsPositions(q, t) = after[Len(q) + Len(t)].found
  BY DEF LcsPositions
<1> HIDE DEF after
<1>6. after[0] = [i |-> Len(q), j |-> Len(t), found |-> <<>>] /\ \A n \in 1..Len(q) + Len(t) : after[n] = Backtrack(after[n - 1], q, t, LcsTable(q, t))
  <2>1. 0 \in 0..Len(q) + Len(t) /\ \A n \in 1..Len(q) + Len(t) : n \in 0..Len(q) + Len(t) /\ n # 0
    OBVIOUS
  <2> QED BY <1>4, <2>1
<1> QED BY <1>5, <1>6

-----------------------------------------------------------------------------
(* Trails and what they begin with.                                        *)

Paths == Seq(Addresses)

\* What a prefix is, position by position.
LEMMA PrefixIs ==
  ASSUME NEW S, NEW h \in Seq(S), NEW e \in Seq(S)
  PROVE  IsPrefix(h, e) <=> Len(h) <= Len(e) /\ \A i \in 1..Len(h) : h[i] = e[i]
<1>1. CASE Len(h) <= Len(e)
  <2> DEFINE g == SubSeq(h, 1, Len(h))
             f == SubSeq(e, 1, Len(h))
  <2>1. /\ g \in Seq(S) /\ Len(g) = Len(h) /\ \A i \in 1..Len(h) : g[i] = h[i]
        /\ f \in Seq(S) /\ Len(f) = Len(h) /\ \A i \in 1..Len(h) : f[i] = e[i]
    <3>1. 1 \in 1..Len(h) + 1 /\ Len(h) \in 0..Len(h) /\ Len(h) \in Nat /\ Len(e) \in Nat
          /\ 1 \in 1..Len(e) + 1 /\ Len(h) \in 0..Len(e)
      BY <1>1
    <3> QED BY <3>1, <1>1
  <2>2. IsPrefix(h, e) <=> g = f
    BY <1>1 DEF IsPrefix
  <2> HIDE DEF g, f
  <2>3. (\A i \in 1..Len(h) : g[i] = f[i]) => g = f
    BY <2>1, SeqEqual
  <2> QED BY <1>1, <2>1, <2>2, <2>3
<1>2. CASE ~(Len(h) <= Len(e))
  BY <1>2 DEF IsPrefix
<1> QED BY <1>1, <1>2

\* A trail and one more address (_collapse_immediate).
LEMMA KeptIs ==
  ASSUME NEW trail \in Paths, NEW a \in Addresses
  PROVE  /\ Kept(trail, a) \in Paths /\ Kept(trail, a) # <<>>
         /\ Kept(trail, a) = trail \/ Kept(trail, a) = Append(trail, a)
BY DEF Kept, Paths

\* Addresses added to a trail make a trail.
LEMMA OntoTyped ==
  ASSUME NEW trail \in Paths, NEW raw \in Paths
  PROVE  Onto(trail, raw) \in Paths /\ (raw # <<>> => Onto(trail, raw) # <<>>)
<1>1. Len(raw) \in Nat /\ (raw # <<>> => Len(raw) # 0) /\ \A n \in 1..Len(raw) : raw[n] \in Addresses
  BY DEF Paths
<1>2. PICK f : /\ f[0] = trail
               /\ \A n \in 1..Len(raw) : f[n] = Kept(f[n - 1], raw[n])
               /\ Onto(trail, raw) = f[Len(raw)]
  BY <1>1, OntoIs
<1> DEFINE P == {n \in 0..Len(raw) : f[n] \in Paths /\ (n # 0 => f[n] # <<>>)}
<1>3. 0 \in P
  BY <1>1, <1>2
<1>4. ASSUME NEW n \in 0..Len(raw), n < Len(raw), n \in P PROVE n + 1 \in P
  <2>1. n + 1 \in 1..Len(raw) /\ n + 1 - 1 = n
    BY <1>1, <1>4
  <2>2. f[n + 1] = Kept(f[n], raw[n + 1]) /\ raw[n + 1] \in Addresses /\ f[n] \in Paths
    BY <1>1, <1>2, <1>4, <2>1
  <2>3. f[n + 1] \in Paths /\ f[n + 1] # <<>>
    BY <2>2, KeptIs
  <2> QED BY <2>1, <2>3
<1> HIDE DEF P
<1>5. 0..Len(raw) \subseteq P
  BY <1>1, <1>3, <1>4, Upwards
<1> USE DEF P
<1> QED BY <1>1, <1>2, <1>5

\* A collapsed trail is a trail, and empty only if the given one was.
LEMMA CollapsedTyped ==
  ASSUME NEW raw \in Paths
  PROVE  Collapsed(raw) \in Paths /\ (raw # <<>> => Collapsed(raw) # <<>>)
<1>1. <<>> \in Paths
  BY DEF Paths
<1> QED BY <1>1, OntoTyped DEF Collapsed

\* The trails of bounded length are nonempty trails.
LEMMA TrailsTyped ==
  ASSUME NEW n \in Nat
  PROVE  /\ Raw(n) \subseteq Paths \ {<<>>}
         /\ Trails(n) \subseteq Paths \ {<<>>}
<1>1. ASSUME NEW raw \in Raw(n) PROVE raw \in Paths \ {<<>>}
  <2>1. PICK k \in 1..n : raw \in [1..k -> Addresses]
    BY DEF Raw
  <2>2. raw \in Paths /\ Len(raw) = k
    BY <2>1 DEF Paths
  <2> QED BY <2>1, <2>2
<1> QED BY <1>1, CollapsedTyped DEF Trails

-----------------------------------------------------------------------------
(* The index: rows are only added.                                         *)

Rows == [source : Nat, sequence : Nat, addresses : Paths]
IndexTyped == trajectories \in Seq(Rows)

Grows == /\ DOMAIN trajectories \subseteq DOMAIN trajectories'
         /\ \A i \in DOMAIN trajectories : trajectories'[i] = trajectories[i]

\* One ingestion leaves the rows there were where they were.
LEMMA IngestGrows ==
  ASSUME IndexTyped, NEW source \in Nat, NEW sequence \in Nat, NEW raw \in Paths,
         Ingest(source, sequence, raw)
  PROVE  IndexTyped' /\ Grows
<1> DEFINE t == [source |-> source, sequence |-> sequence, addresses |-> Collapsed(raw)]
<1>1. t \in Rows
  BY CollapsedTyped DEF Rows
<1> HIDE DEF t
<1>2. trajectories' = trajectories \/ trajectories' = Append(trajectories, t)
  BY DEF Ingest, Ingested, t
<1>3. CASE trajectories' = trajectories
  BY <1>3 DEF IndexTyped, Grows
<1>4. CASE trajectories' = Append(trajectories, t)
  BY <1>1, <1>4 DEF IndexTyped, Grows
<1> QED BY <1>2, <1>3, <1>4

\* So does every step of the index.
LEMMA IndexGrows ==
  ASSUME IndexTyped, NEW sources \in SUBSET Nat, NEW many, NEW raws \in SUBSET Paths,
         TrajectoriesNext(sources, many, raws)
  PROVE  IndexTyped' /\ Grows
<1>1. CASE \E s \in sources, raw \in raws : Ingest(s, Len(trajectories) + 1, raw)
  <2>1. Len(trajectories) + 1 \in Nat
    BY DEF IndexTyped
  <2> QED BY <1>1, <2>1, IngestGrows
<1>2. CASE \E i \in DOMAIN trajectories :
             Ingest(trajectories[i].source, trajectories[i].sequence, trajectories[i].addresses)
  <2>1. PICK i \in DOMAIN trajectories :
             Ingest(trajectories[i].source, trajectories[i].sequence, trajectories[i].addresses)
    BY <1>2
  <2>2. trajectories[i] \in Rows
    BY DEF IndexTyped
  <2>3. trajectories[i].source \in Nat /\ trajectories[i].sequence \in Nat
        /\ trajectories[i].addresses \in Paths
    BY <2>2 DEF Rows
  <2> QED BY <2>1, <2>3, IngestGrows
<1> QED BY <1>1, <1>2 DEF TrajectoriesNext

-----------------------------------------------------------------------------
(* Branch states: what one begins with, and what is left of it after what  *)
(* was heard.                                                              *)

IsBranch(b) ==
  /\ b = [witnesses |-> b.witnesses, remaining |-> b.remaining, consumed |-> b.consumed]
  /\ b.remaining \in Paths /\ b.witnesses # {}
IsState(s) ==
  s = [seed |-> s.seed, observed |-> s.observed, active |-> s.active,
       terminals |-> s.terminals, eliminated |-> s.eliminated, exhausted |-> s.exhausted,
       ambiguous |-> s.ambiguous, terminal |-> s.terminal, bounded |-> s.bounded,
       reason |-> s.reason]

WitnessesOf(branches) == UNION {b.witnesses : b \in branches}
After(index, w, steps) == Continuation(index[w[1]].addresses, w[2], steps)
Apart(branches) == \A b, c \in branches : b.remaining = c.remaining => b = c

\* A state as it begins: each trajectory witnesses one branch, or has ended.
BeginsRight(index, from, steps) ==
  /\ IsState(from) /\ from.observed = <<>> /\ from.eliminated = {}
  /\ from.exhausted <=> from.active = {}
  /\ \A b \in from.active : IsBranch(b) /\ b.remaining # <<>>
  /\ \A b \in from.active : \A w \in b.witnesses :
        /\ w[1] \in DOMAIN index /\ w[2] \in 1..Len(index[w[1]].addresses)
        /\ After(index, w, steps) = b.remaining
  /\ \A w, v \in WitnessesOf(from.active) : w[1] = v[1] => w = v
  /\ \A w \in WitnessesOf(from.active) : w[1] \notin from.terminals
  /\ Apart(from.active)
  /\ from.terminals \subseteq DOMAIN index

Narrowed(index, from, steps, s, heard) ==
  /\ IsState(s)
  /\ s.exhausted <=> s.active = {}
  /\ s.active # {} => s.observed = heard
  /\ \A b \in s.active : IsBranch(b)
  /\ Apart(s.active)
  /\ WitnessesOf(s.active)
       = {w \in WitnessesOf(from.active) : IsPrefix(heard, After(index, w, steps))}
  /\ \A b \in s.active : \A w \in b.witnesses : heard \o b.remaining = After(index, w, steps)
  /\ s.terminals = IF heard = <<>> THEN from.terminals ELSE {}
  /\ s.eliminated = (Supporters(from.active) \cup from.terminals)
                       \ (Supporters(s.active) \cup s.terminals)

\* The supporters of branches are the trajectories of their witnesses.
LEMMA SupportersAre ==
  ASSUME NEW branches, NEW i
  PROVE  i \in Supporters(branches) <=> \E w \in WitnessesOf(branches) : i = w[1]
BY DEF Supporters, WitnessesOf

\* Two trails joined, position by position.
LEMMA JoinedIs ==
  ASSUME NEW S, NEW p \in Seq(S), NEW q \in Seq(S)
  PROVE  /\ p \o q \in Seq(S) /\ Len(p \o q) = Len(p) + Len(q)
         /\ \A i \in 1..Len(p) : (p \o q)[i] = p[i]
         /\ \A i \in 1..Len(q) : (p \o q)[Len(p) + i] = q[i]
OBVIOUS

\* One more address heard: the expectations that still begin with what was heard
\* are those whose next address it is.
LEMMA HeardOn ==
  ASSUME NEW heard \in Paths, NEW a \in Addresses, NEW e \in Paths
  PROVE  /\ IsPrefix(Append(heard, a), e) => IsPrefix(heard, e)
         /\ IsPrefix(Kept(heard, a), e) => IsPrefix(heard, e)
         /\ \A r \in Paths : heard \o r = e =>
               /\ IsPrefix(heard, e)
               /\ IsPrefix(Append(heard, a), e) <=> r # <<>> /\ Head(r) = a
               /\ r # <<>> /\ Head(r) = a => Append(heard, a) \o Tail(r) = e
<1> DEFINE h == Append(heard, a)
<1>1. /\ h \in Paths /\ Len(h) = Len(heard) + 1 /\ h[Len(heard) + 1] = a
      /\ \A i \in 1..Len(heard) : h[i] = heard[i] /\ i \in 1..Len(h)
  BY DEF Paths
<1>2. Len(heard) \in Nat /\ Len(e) \in Nat
  BY DEF Paths
<1>3. /\ IsPrefix(heard, e) <=> Len(heard) <= Len(e) /\ \A i \in 1..Len(heard) : heard[i] = e[i]
      /\ IsPrefix(h, e) <=> Len(h) <= Len(e) /\ \A i \in 1..Len(h) : h[i] = e[i]
  BY <1>1, PrefixIs DEF Paths
<1>4. IsPrefix(h, e) => IsPrefix(heard, e)
  <2> HIDE DEF h
  <2> QED BY <1>1, <1>2, <1>3
<1>5. ASSUME NEW r \in Paths, heard \o r = e
      PROVE  /\ IsPrefix(heard, e)
             /\ IsPrefix(h, e) <=> r # <<>> /\ Head(r) = a
             /\ r # <<>> /\ Head(r) = a => Append(heard, a) \o Tail(r) = e
  <2>1. /\ Len(e) = Len(heard) + Len(r) /\ Len(r) \in Nat
        /\ (r # <<>> => Len(r) # 0) /\ (Len(r) # 0 => r # <<>>)
        /\ \A i \in 1..Len(heard) : heard[i] = e[i]
        /\ \A i \in 1..Len(r) : e[Len(heard) + i] = r[i]
    BY <1>5 DEF Paths
  <2>2. r # <<>> => Head(r) = r[1]
    BY DEF Paths
  <2>3. IsPrefix(heard, e)
    BY <1>2, <1>3, <2>1
  <2>4. IsPrefix(h, e) => r # <<>> /\ Head(r) = a
    <3> HIDE DEF h
    <3>1. SUFFICES ASSUME IsPrefix(h, e) PROVE r # <<>> /\ Head(r) = a
      OBVIOUS
    <3>2. Len(r) # 0 /\ 1 \in 1..Len(r) /\ Len(heard) + 1 \in 1..Len(h)
      BY <1>1, <1>2, <1>3, <2>1, <3>1
    <3>3. h[Len(heard) + 1] = e[Len(heard) + 1]
      BY <1>3, <3>1, <3>2
    <3> QED BY <1>1, <2>1, <2>2, <3>2, <3>3
  <2>5. ASSUME r # <<>>, Head(r) = a
        PROVE  IsPrefix(h, e) /\ h \o Tail(r) = e
    <3>1. Len(r) # 0 /\ 1 \in 1..Len(r) /\ r[1] = a
      BY <2>1, <2>2, <2>5
    <3>2. ASSUME NEW i \in 1..Len(h) PROVE h[i] = e[i]
      <4> HIDE DEF h
      <4>1. i \in 1..Len(heard) \/ i = Len(heard) + 1
        BY <1>1, <1>2
      <4> QED BY <1>1, <2>1, <3>1, <4>1
    <3>3. IsPrefix(h, e)
      <4> HIDE DEF h
      <4> QED BY <1>1, <1>2, <1>3, <2>1, <3>1, <3>2
    <3> DEFINE g == h \o Tail(r)
    <3>4. /\ Tail(r) \in Paths /\ Len(Tail(r)) = Len(r) - 1
          /\ \A i \in 1..Len(r) - 1 : Tail(r)[i] = r[i + 1]
      BY <3>1 DEF Paths
    <3>5. g \in Paths /\ Len(g) = Len(e) /\ \A i \in 1..Len(h) : g[i] = h[i]
      <4>1. /\ g \in Paths /\ Len(g) = Len(h) + Len(Tail(r))
            /\ \A i \in 1..Len(h) : g[i] = h[i]
        BY <1>1, <3>4, JoinedIs DEF Paths
      <4>2. Len(g) = Len(e)
        <5> DEFINE k == Len(Tail(r))
        <5>1. k = Len(r) - 1 /\ Len(g) = Len(h) + k
          BY <3>4, <4>1
        <5> HIDE DEF g, h, k
        <5> QED BY <1>1, <1>2, <2>1, <5>1
      <4> QED BY <4>1, <4>2
    <3>6. \A i \in 1..Len(r) - 1 : g[Len(h) + i] = r[i + 1]
      <4> HIDE DEF h
      <4> QED BY <1>1, <3>4 DEF Paths
    <3>7. ASSUME NEW i \in 1..Len(e) PROVE g[i] = e[i]
      <4> HIDE DEF h, g
      <4>1. CASE i \in 1..Len(h)
        BY <3>2, <3>5, <4>1
      <4>2. CASE i \notin 1..Len(h)
        <5> DEFINE k == i - Len(h)
        <5>1. k \in 1..Len(r) - 1 /\ i = Len(h) + k /\ k + 1 \in 1..Len(r)
              /\ i = Len(heard) + (k + 1)
          BY <1>1, <1>2, <2>1, <3>1, <4>2
        <5> HIDE DEF k
        <5> QED BY <2>1, <3>6, <5>1
      <4> QED BY <4>1, <4>2
    <3>8. g = e
      <4> HIDE DEF g, h
      <4> QED BY <3>5, <3>7, SeqEqual DEF Paths
    <3> QED BY <3>3, <3>8
  <2> QED BY <2>3, <2>4, <2>5
<1>6. Kept(heard, a) = heard \/ Kept(heard, a) = h
  BY KeptIs
<1> QED BY <1>4, <1>5, <1>6

\* Two trails with the same head and tail are one.
LEMMA SameHeadAndTail ==
  ASSUME NEW S, NEW p \in Seq(S), NEW q \in Seq(S), p # <<>>, q # <<>>,
         Tail(p) = Tail(q), Head(p) = Head(q)
  PROVE  p = q
<1>1. /\ Len(p) \in Nat \ {0} /\ Len(q) \in Nat \ {0}
      /\ Len(Tail(p)) = Len(p) - 1 /\ Len(Tail(q)) = Len(q) - 1
      /\ Head(p) = p[1] /\ Head(q) = q[1]
      /\ \A i \in 1..Len(p) - 1 : Tail(p)[i] = p[i + 1]
      /\ \A i \in 1..Len(q) - 1 : Tail(q)[i] = q[i + 1]
  OBVIOUS
<1>2. Len(p) = Len(q)
  <2> DEFINE m == Len(Tail(p))
             n == Len(Tail(q))
  <2>1. m = n /\ m = Len(p) - 1 /\ n = Len(q) - 1
    BY <1>1
  <2>2. Len(p) \in Nat /\ Len(q) \in Nat
    OBVIOUS
  <2> HIDE DEF m, n
  <2> QED BY <2>1, <2>2
<1>3. ASSUME NEW i \in 1..Len(p) PROVE p[i] = q[i]
  <2>1. CASE i = 1
    BY <1>1, <2>1
  <2>2. CASE i # 1
    <3> DEFINE k == i - 1
    <3>1. k \in 1..Len(p) - 1 /\ i = k + 1
      <4>1. Len(p) \in Nat
        OBVIOUS
      <4> QED BY <2>2, <4>1
    <3> HIDE DEF k
    <3> QED BY <1>1, <1>2, <3>1
  <2> QED BY <2>1, <2>2
<1> QED BY <1>2, <1>3, SeqEqual

\* observe_address keeps the state narrowed to what was heard.
LEMMA ObserveOne ==
  ASSUME NEW index, NEW from, NEW steps, BeginsRight(index, from, steps), from.active # {},
         NEW s, NEW heard \in Paths, NEW a \in Addresses, Narrowed(index, from, steps, s, heard)
  PROVE  Narrowed(index, from, steps, ObservedAddress(s, a), Kept(heard, a))
<1> DEFINE next == {b \in s.active : b.remaining # <<>> /\ Head(b.remaining) = a}
           moved(b) == [b EXCEPT !.remaining = Tail(@), !.consumed = @ + 1]
           going == {moved(b) : b \in next}
           after(w) == After(index, w, steps)
           t == ObservedAddress(s, a)
           h == Kept(heard, a)
<1>1. \A w \in WitnessesOf(from.active) : after(w) \in Paths
  BY DEF BeginsRight, WitnessesOf, IsBranch
<1>2. WitnessesOf(from.active) # {}
  BY DEF BeginsRight, WitnessesOf, IsBranch
<1>3. h \in Paths /\ h # <<>>
  BY KeptIs
<1>4. CASE s.exhausted
  <2>1. t = s /\ s.active = {} /\ WitnessesOf(s.active) = {}
    BY <1>4 DEF ObservedAddress, Narrowed, WitnessesOf
  <2>2. \A w \in WitnessesOf(from.active) : ~IsPrefix(heard, after(w))
    BY <2>1 DEF Narrowed
  <2>3. heard # <<>>
    <3>1. SUFFICES ASSUME heard = <<>> PROVE FALSE
      OBVIOUS
    <3>2. PICK w \in WitnessesOf(from.active) : TRUE
      BY <1>2
    <3>3. Len(heard) = 0 /\ Len(after(w)) \in Nat
      BY <1>1, <3>1, <3>2 DEF Paths
    <3>4. IsPrefix(heard, after(w))
      <4> DEFINE e == after(w)
      <4>1. e \in Paths /\ Len(e) \in Nat
        BY <1>1, <3>2, <3>3
      <4> HIDE DEF e
      <4>2. IsPrefix(heard, e) <=> Len(heard) <= Len(e) /\ \A i \in 1..Len(heard) : heard[i] = e[i]
        BY <4>1, PrefixIs DEF Paths
      <4>3. IsPrefix(heard, e)
        BY <3>3, <4>1, <4>2
      <4> QED BY <4>3 DEF e
    <3> QED BY <2>2, <3>2, <3>4
  <2>4. \A w \in WitnessesOf(from.active) : ~IsPrefix(h, after(w))
    BY <1>1, <2>2, HeardOn
  <2> HIDE DEF t, h, after
  <2>5. Narrowed(index, from, steps, s, h)
    BY <1>3, <2>1, <2>2, <2>3, <2>4 DEF Narrowed, after
  <2> QED BY <2>1, <2>5 DEF t, h
<1>5. CASE ~s.exhausted /\ s.observed # <<>> /\ Last(s.observed) = a
  <2>1. t = s /\ s.observed = heard
    BY <1>5 DEF ObservedAddress, Narrowed
  <2>2. h = heard
    BY <1>5, <2>1 DEF Kept
  <2> QED BY <2>1, <2>2
<1>6. CASE ~s.exhausted /\ ~(s.observed # <<>> /\ Last(s.observed) = a)
  <2>1. s.active # {} /\ s.observed = heard
    BY <1>6 DEF Narrowed
  <2>2. h = Append(heard, a)
    BY <1>6, <2>1 DEF Kept
  <2>3. /\ IsState(t) /\ t.observed = Append(heard, a) /\ t.active = going
        /\ t.terminals = {} /\ (t.exhausted <=> going = {})
        /\ t.eliminated = s.eliminated \cup s.terminals \cup Supporters(s.active \ next)
    <3>1. IsState(s)
      BY DEF Narrowed
    <3> QED BY <1>6, <2>1, <3>1 DEF ObservedAddress, IsState
  <2>4. ASSUME NEW b \in next
        PROVE  /\ b \in s.active /\ IsBranch(b) /\ IsBranch(moved(b))
               /\ b.remaining # <<>> /\ Head(b.remaining) = a
               /\ moved(b).remaining = Tail(b.remaining) /\ moved(b).witnesses = b.witnesses
    <3>1. b \in s.active /\ IsBranch(b) /\ b.remaining # <<>> /\ Head(b.remaining) = a
      BY DEF Narrowed
    <3>2. Tail(b.remaining) \in Paths
      BY <3>1 DEF IsBranch, Paths
    <3> DEFINE W == b.witnesses
               R == b.remaining
               C == b.consumed
    <3>3. b = [witnesses |-> W, remaining |-> R, consumed |-> C] /\ Tail(R) \in Paths /\ W # {}
      BY <3>1, <3>2 DEF IsBranch
    <3> HIDE DEF W, R, C
    <3>4. moved(b) = [witnesses |-> W, remaining |-> Tail(R), consumed |-> C + 1]
      <4> DEFINE T == Tail(R)
                 D == C + 1
      <4>1. b.remaining = R /\ b.consumed = C
        BY <3>3
      <4>2. moved(b) = [b EXCEPT !.remaining = T, !.consumed = D]
        BY <4>1
      <4> HIDE DEF T, D, moved
      <4>3. moved(b) = [witnesses |-> W, remaining |-> T, consumed |-> D]
        BY <3>3, <4>2
      <4> QED BY <4>3 DEF T, D
    <3> HIDE DEF moved
    <3>5. /\ IsBranch(moved(b)) /\ moved(b).remaining = Tail(R) /\ moved(b).witnesses = W
      <4> DEFINE T == Tail(R)
                 D == C + 1
                 m == moved(b)
      <4>1. m = [witnesses |-> W, remaining |-> T, consumed |-> D] /\ T \in Paths /\ W # {}
        BY <3>3, <3>4
      <4> HIDE DEF T, D, m
      <4>2. m.witnesses = W /\ m.remaining = T /\ m.consumed = D
        BY <4>1
      <4>3. IsBranch(m)
        BY <4>1, <4>2 DEF IsBranch
      <4> QED BY <4>2, <4>3 DEF m, T
    <3> QED BY <3>1, <3>5 DEF R, W
  <2>5. \A c \in going : \E b \in next : c = moved(b)
    OBVIOUS
  <2>6. \A b \in next : moved(b) \in going
    OBVIOUS
  <2> HIDE DEF next, moved, going, t, h, after
  <2>7. Apart(going)
    <3>1. SUFFICES ASSUME NEW b \in next, NEW c \in next,
                          moved(b).remaining = moved(c).remaining
                   PROVE  b = c
      BY <2>5 DEF Apart
    <3>2. Tail(b.remaining) = Tail(c.remaining) /\ Head(b.remaining) = Head(c.remaining)
      BY <2>4, <3>1
    <3>3. /\ b.remaining \in Paths /\ b.remaining # <<>>
          /\ c.remaining \in Paths /\ c.remaining # <<>>
      BY <2>4 DEF IsBranch
    <3>4. \A p, q \in Paths : p # <<>> /\ q # <<>> /\ Tail(p) = Tail(q) /\ Head(p) = Head(q) => p = q
      BY SameHeadAndTail DEF Paths
    <3>5. b.remaining = c.remaining
      BY <3>2, <3>3, <3>4
    <3> QED BY <2>4, <3>5 DEF Narrowed, Apart
  <2>8. ASSUME NEW b \in s.active, NEW w \in b.witnesses
        PROVE  /\ w \in WitnessesOf(from.active) /\ after(w) \in Paths
               /\ heard \o b.remaining = after(w) /\ b.remaining \in Paths
               /\ IsPrefix(h, after(w)) <=> b \in next
               /\ b \in next => h \o Tail(b.remaining) = after(w)
    <3>1. w \in WitnessesOf(from.active)
      BY DEF Narrowed, WitnessesOf
    <3>2. after(w) \in Paths /\ heard \o b.remaining = after(w) /\ b.remaining \in Paths
      BY <1>1, <3>1 DEF Narrowed, IsBranch, after
    <3>3. b \in next <=> b.remaining # <<>> /\ Head(b.remaining) = a
      BY DEF next
    <3> QED BY <2>2, <3>1, <3>2, <3>3, HeardOn
  <2>9. WitnessesOf(going) = {w \in WitnessesOf(from.active) : IsPrefix(h, after(w))}
    <3>1. ASSUME NEW c \in going, NEW w \in c.witnesses
          PROVE  w \in WitnessesOf(from.active) /\ IsPrefix(h, after(w))
      BY <2>4, <2>5, <2>8
    <3>2. ASSUME NEW w \in WitnessesOf(from.active), IsPrefix(h, after(w))
          PROVE  \E c \in going : w \in c.witnesses
      <4>1. IsPrefix(heard, after(w))
        BY <1>1, <3>2, HeardOn DEF h
      <4>2. PICK b \in s.active : w \in b.witnesses
        BY <4>1 DEF Narrowed, WitnessesOf, after
      <4>3. b \in next
        BY <2>8, <3>2, <4>2
      <4> QED BY <2>4, <2>6, <4>2, <4>3
    <3>3. \A w : w \in WitnessesOf(going) <=> \E c \in going : w \in c.witnesses
      BY DEF WitnessesOf
    <3> QED BY <3>1, <3>2, <3>3
  <2>10. ASSUME NEW c \in going, NEW w \in c.witnesses
         PROVE  h \o c.remaining = after(w)
    <3>1. PICK b \in next : c = moved(b)
      BY <2>5
    <3>2. b \in s.active /\ c.remaining = Tail(b.remaining) /\ w \in b.witnesses
      BY <2>4, <3>1
    <3>3. h \o Tail(b.remaining) = after(w)
      BY <2>8, <3>2
    <3> QED BY <3>2, <3>3
  <2>11. t.eliminated = (Supporters(from.active) \cup from.terminals)
                          \ (Supporters(going) \cup {})
    <3>1. \A i : i \in Supporters(going) <=> \E b \in next : \E w \in b.witnesses : i = w[1]
      <4>1. \A w : w \in WitnessesOf(going) <=> \E b \in next : w \in b.witnesses
        BY <2>4, <2>5, <2>6 DEF WitnessesOf
      <4> QED BY <4>1, SupportersAre
    <3>2. \A i : i \in Supporters(s.active \ next)
                  <=> \E b \in s.active \ next : \E w \in b.witnesses : i = w[1]
      BY SupportersAre DEF WitnessesOf
    <3>3. \A i : i \in Supporters(s.active) <=> \E b \in s.active : \E w \in b.witnesses : i = w[1]
      BY SupportersAre DEF WitnessesOf
    <3>4. next \subseteq s.active
      BY DEF next
    <3>5. \A b \in s.active : \A w \in b.witnesses :
             w \in WitnessesOf(from.active) /\ w[1] \in Supporters(from.active)
             /\ w[1] \notin from.terminals
      BY <2>8, SupportersAre DEF BeginsRight
    <3>6. ASSUME NEW b \in next, NEW c \in s.active \ next, NEW w \in b.witnesses,
                 NEW v \in c.witnesses
          PROVE  w[1] # v[1]
      <4>1. SUFFICES ASSUME w[1] = v[1] PROVE FALSE
        OBVIOUS
      <4>2. w = v
        BY <3>4, <3>5, <3>6, <4>1 DEF BeginsRight
      <4>3. IsPrefix(h, after(w)) /\ ~IsPrefix(h, after(v))
        BY <2>8, <3>4, <3>6
      <4> QED BY <4>2, <4>3
    <3>7. /\ s.terminals \subseteq from.terminals
          /\ s.eliminated = (Supporters(from.active) \cup from.terminals)
                               \ (Supporters(s.active) \cup s.terminals)
      BY DEF Narrowed
    <3>8. ASSUME NEW i
          PROVE  i \in t.eliminated <=> /\ i \in Supporters(from.active) \/ i \in from.terminals
                                        /\ i \notin Supporters(going)
      <4>1. i \in t.eliminated <=> i \in s.eliminated \/ i \in s.terminals
                                     \/ i \in Supporters(s.active \ next)
        BY <2>3
      <4>2. i \in Supporters(going) => i \in Supporters(s.active) /\ i \notin from.terminals
                                        /\ i \notin Supporters(s.active \ next)
        <5>1. SUFFICES ASSUME i \in Supporters(going)
                       PROVE  /\ i \in Supporters(s.active) /\ i \notin from.terminals
                              /\ i \notin Supporters(s.active \ next)
          OBVIOUS
        <5>0. PICK b \in next : \E w \in b.witnesses : i = w[1]
          BY <3>1, <5>1
        <5>2. PICK w \in b.witnesses : i = w[1]
          BY <5>0
        <5>3. i \in Supporters(s.active) /\ i \notin from.terminals
          BY <3>3, <3>4, <3>5, <5>2
        <5>4. i \notin Supporters(s.active \ next)
          <6>1. SUFFICES ASSUME i \in Supporters(s.active \ next) PROVE FALSE
            OBVIOUS
          <6>2. PICK c \in s.active \ next : \E v \in c.witnesses : i = v[1]
            BY <3>2, <6>1
          <6>3. PICK v \in c.witnesses : i = v[1]
            BY <6>2
          <6>4. w[1] # v[1]
            BY <3>6
          <6> QED BY <5>2, <6>3, <6>4
        <5> QED BY <5>3, <5>4
      <4>3. i \in Supporters(s.active) => i \in Supporters(going) \/ i \in Supporters(s.active \ next)
        BY <3>1, <3>2, <3>3
      <4>4. i \in Supporters(s.active \ next) => i \in Supporters(s.active) /\ i \in Supporters(from.active)
        BY <3>2, <3>3, <3>5
      <4> QED BY <3>7, <4>1, <4>2, <4>3, <4>4
    <3> QED BY <3>8
  <2>12. \A c \in going : IsBranch(c)
    BY <2>4, <2>5
  <2>13. Narrowed(index, from, steps, t, h)
    BY <1>3, <2>2, <2>3, <2>7, <2>9, <2>10, <2>11, <2>12 DEF Narrowed, after
  <2> QED BY <2>13 DEF t, h
<1> QED BY <1>4, <1>5, <1>6

Follows(index, from, steps, s, heard) ==
  IF from.active = {} THEN s = from ELSE Narrowed(index, from, steps, s, heard)

\* observe_addresses does.
LEMMA ObserveAll ==
  ASSUME NEW index, NEW from, NEW steps, BeginsRight(index, from, steps),
         NEW s, NEW heard \in Paths, NEW raw \in Paths, Follows(index, from, steps, s, heard)
  PROVE  /\ Onto(heard, Collapsed(raw)) \in Paths
         /\ Follows(index, from, steps, ObservedAddresses(s, raw), Onto(heard, Collapsed(raw)))
<1> DEFINE trail == Collapsed(raw)
<1>1. trail \in Paths /\ Len(trail) \in Nat /\ \A n \in 1..Len(trail) : trail[n] \in Addresses
  BY CollapsedTyped DEF Paths
<1>2. PICK f : /\ f[0] = s
               /\ \A n \in 1..Len(trail) : f[n] = ObservedAddress(f[n - 1], trail[n])
               /\ ObservedAddresses(s, raw) = f[Len(trail)]
  BY <1>1, ObservedIs
<1> HIDE DEF trail
<1>3. PICK g : /\ g[0] = heard
               /\ \A n \in 1..Len(trail) : g[n] = Kept(g[n - 1], trail[n])
               /\ Onto(heard, trail) = g[Len(trail)]
  BY <1>1, OntoIs
<1> DEFINE P == {n \in 0..Len(trail) : g[n] \in Paths /\ Follows(index, from, steps, f[n], g[n])}
<1>4. 0 \in P
  BY <1>1, <1>2, <1>3
<1>5. ASSUME NEW n \in 0..Len(trail), n < Len(trail), n \in P PROVE n + 1 \in P
  <2>1. n + 1 \in 1..Len(trail) /\ n + 1 - 1 = n
    BY <1>1, <1>5
  <2>2. /\ f[n + 1] = ObservedAddress(f[n], trail[n + 1]) /\ g[n + 1] = Kept(g[n], trail[n + 1])
        /\ trail[n + 1] \in Addresses /\ g[n] \in Paths /\ Follows(index, from, steps, f[n], g[n])
    BY <1>1, <1>2, <1>3, <1>5, <2>1
  <2>3. g[n + 1] \in Paths
    BY <2>2, KeptIs
  <2>4. Follows(index, from, steps, f[n + 1], g[n + 1])
    <3>1. CASE from.active = {}
      <4>1. f[n] = from /\ from.exhausted
        BY <2>2, <3>1 DEF Follows, BeginsRight
      <4>2. f[n + 1] = from
        BY <2>2, <4>1 DEF ObservedAddress
      <4> QED BY <3>1, <4>2 DEF Follows
    <3>2. CASE from.active # {}
      BY <2>2, <3>2, ObserveOne DEF Follows
    <3> QED BY <3>1, <3>2
  <2> QED BY <2>1, <2>3, <2>4
<1> HIDE DEF P
<1>6. 0..Len(trail) \subseteq P
  BY <1>1, <1>4, <1>5, Upwards
<1>7. Len(trail) \in P
  BY <1>1, <1>6
<1> USE DEF P
<1> QED BY <1>2, <1>3, <1>7 DEF trail

\* The branches of the places K, each followed from its anchor.
Split(K, anchor, after) ==
  {ActiveBranch({<<i, anchor[i]>> : i \in {j \in K : after[j] = c}}, c) :
      c \in {after[i] : i \in K} \ {<<>>}}

\* Places that each go on from one anchor make a state that begins right.
LEMMA SplitBegins ==
  ASSUME NEW index, NEW K \in SUBSET DOMAIN index, NEW anchor, NEW steps, NEW after,
         \A i \in K : /\ anchor[i] \in 1..Len(index[i].addresses)
                      /\ after[i] = Continuation(index[i].addresses, anchor[i], steps)
                      /\ after[i] \in Paths,
         NEW going, going = {} \/ going = Split(K, anchor, after),
         NEW terminals \in SUBSET {i \in K : after[i] = <<>>},
         NEW seed, NEW bounded, NEW reason
  PROVE  BeginsRight(index, BranchState(seed, going, terminals, bounded, reason), steps)
<1> DEFINE from == BranchState(seed, going, terminals, bounded, reason)
<1>1. /\ IsState(from) /\ from.observed = <<>> /\ from.eliminated = {} /\ from.active = going
      /\ from.terminals = terminals /\ (from.exhausted <=> going = {})
  BY DEF BranchState, IsState
<1> HIDE DEF from
<1> DEFINE W(c) == {<<i, anchor[i]>> : i \in {j \in K : after[j] = c}}
<1>2. ASSUME NEW b \in going
      PROVE  /\ IsBranch(b) /\ b.remaining # <<>> /\ b.witnesses = W(b.remaining)
             /\ b = ActiveBranch(W(b.remaining), b.remaining)
  <2>1. PICK c \in {after[i] : i \in K} \ {<<>>} : b = ActiveBranch(W(c), c)
    BY DEF Split
  <2>2. c \in Paths /\ W(c) # {}
    <3>1. PICK i \in K : c = after[i]
      OBVIOUS
    <3>2. <<i, anchor[i]>> \in W(c)
      BY <3>1
    <3> QED BY <3>1, <3>2
  <2> DEFINE V == W(c)
  <2> HIDE DEF W, V
  <2>3. b = [witnesses |-> W(c), remaining |-> c, consumed |-> 0]
    BY <2>1 DEF ActiveBranch
  <2>4. b.witnesses = W(c) /\ b.remaining = c /\ b.consumed = 0
    BY <2>3
  <2> QED BY <2>1, <2>2, <2>3, <2>4 DEF IsBranch
<1>3. ASSUME NEW b \in going, NEW w \in b.witnesses
      PROVE  /\ w[1] \in K /\ w = <<w[1], anchor[w[1]]>> /\ after[w[1]] = b.remaining
  <2>1. w \in W(b.remaining)
    BY <1>2
  <2> QED BY <2>1
<1> HIDE DEF W
<1>4. ASSUME NEW b \in going, NEW w \in b.witnesses
      PROVE  /\ w[1] \in DOMAIN index /\ w[2] \in 1..Len(index[w[1]].addresses)
             /\ After(index, w, steps) = b.remaining
  <2>1. w[2] = anchor[w[1]] /\ w[1] \in K /\ after[w[1]] = b.remaining
    BY <1>3
  <2> QED BY <2>1 DEF After
<1>5. ASSUME NEW w \in WitnessesOf(going), NEW v \in WitnessesOf(going), w[1] = v[1]
      PROVE  w = v
  BY <1>3, <1>5 DEF WitnessesOf
<1>6. ASSUME NEW w \in WitnessesOf(going) PROVE w[1] \notin terminals
  BY <1>2, <1>3 DEF WitnessesOf
<1>7. Apart(going)
  BY <1>2 DEF Apart
<1>8. BeginsRight(index, from, steps)
  BY <1>1, <1>2, <1>4, <1>5, <1>6, <1>7 DEF BeginsRight
<1> QED BY <1>8 DEF from

\* What a trajectory continues with after an anchor, position by position.
LEMMA ContinuationIs ==
  ASSUME NEW t \in Paths, NEW anchor \in 0..Len(t), NEW steps \in Nat
  PROVE  /\ Continuation(t, anchor, steps) \in Paths
         /\ Len(Continuation(t, anchor, steps))
              = IF anchor + steps > Len(t) THEN Len(t) - anchor ELSE steps
         /\ \A k \in 1..Len(Continuation(t, anchor, steps)) :
               /\ Continuation(t, anchor, steps)[k] = t[anchor + k]
               /\ anchor + k \in 1..Len(t)
<1> DEFINE last == IF anchor + steps > Len(t) THEN Len(t) ELSE anchor + steps
<1>1. Len(t) \in Nat /\ last \in 0..Len(t) /\ anchor \in Nat /\ anchor <= last /\ steps \in Nat
  BY DEF Paths
<1>2. Continuation(t, anchor, steps) = SubSeq(t, anchor + 1, last)
  BY DEF Continuation
<1>3. last - anchor = IF anchor + steps > Len(t) THEN Len(t) - anchor ELSE steps
  BY <1>1
<1> HIDE DEF last
<1>4. /\ SubSeq(t, anchor + 1, last) \in Paths
      /\ Len(SubSeq(t, anchor + 1, last)) = last - anchor
      /\ \A k \in 1..(last - anchor) : SubSeq(t, anchor + 1, last)[k] = t[anchor + k]
  <2>1. anchor + 1 \in 1..Len(t) + 1 /\ last \in anchor..Len(t)
    BY <1>1
  <2> QED BY <1>1, <2>1 DEF Paths
<1>5. \A k \in 1..(last - anchor) : anchor + k \in 1..Len(t)
  BY <1>1
<1> QED BY <1>2, <1>3, <1>4, <1>5

-----------------------------------------------------------------------------
(* Where a query and a trail that share an address meet: an entry of the   *)
(* table is positive where the parts before it share one, so that the walk *)
(* back through the table comes past a match.                              *)

Meet(q, t, i, j) == \E m \in 1..i : \E n \in 1..j : q[m] = t[n]
\* A row of the table that is positive where the first m of q meet t.
RowOf(row, q, t, m) ==
  /\ row \in Seq(Nat) /\ Len(row) = Len(t) + 1
  /\ \A j \in 0..Len(t) : row[j + 1] > 0 <=> Meet(q, t, m, j)

\* One row of the table is positive where the rows it is made from say.
LEMMA RowOfMatches ==
  ASSUME NEW q \in Paths, NEW t \in Paths, NEW m \in 0..Len(q), m < Len(q),
         NEW above, RowOf(above, q, t, m)
  PROVE  RowOf(LcsRow(above, q[m + 1], t), q, t, m + 1)
<1> DEFINE a == q[m + 1]
<1>1. Len(t) \in Nat /\ Len(q) \in Nat
  BY DEF Paths
<1> HIDE DEF a
<1>9. \E f : /\ f[0] = <<0>>
             /\ \A n \in 1..Len(t) : f[n] = LcsCell(f[n - 1], above, a, t, n)
             /\ LcsRow(above, a, t) = f[Len(t)]
  <2>1. Len(t) \in Nat
    BY <1>1
  <2> QED BY ONLY <2>1, RowIs
<1>2. PICK f : /\ f[0] = <<0>>
               /\ \A n \in 1..Len(t) : f[n] = LcsCell(f[n - 1], above, a, t, n)
               /\ LcsRow(above, a, t) = f[Len(t)]
  BY <1>9
<1> DEFINE P == {n \in 0..Len(t) :
                   /\ f[n] \in Seq(Nat) /\ Len(f[n]) = n + 1
                   /\ \A j \in 0..n : f[n][j + 1] > 0 <=> Meet(q, t, m + 1, j)}
<1>3. 0 \in P
  <2>1. ~Meet(q, t, m + 1, 0)
    BY DEF Meet
  <2>2. f[0] \in Seq(Nat) /\ Len(f[0]) = 1 /\ f[0][1] = 0
    BY <1>2
  <2>3. \A j \in 0..0 : f[0][j + 1] > 0 <=> Meet(q, t, m + 1, j)
    BY <2>1, <2>2
  <2> QED BY <1>1, <2>2, <2>3
<1>4. ASSUME NEW n \in 0..Len(t), n < Len(t), n \in P PROVE n + 1 \in P
  <2> DEFINE row == f[n]
             new == f[n + 1]
             k == n + 1
             cell == IF a = t[k] THEN above[k] + 1
                     ELSE IF row[k] >= above[k + 1] THEN row[k] ELSE above[k + 1]
  <2>0. n \in 0..Len(t) /\ n < Len(t)
    BY <1>4
  <2>1. k \in 1..Len(t) /\ k - 1 = n /\ n + 1 \in 1..Len(t) /\ n + 1 - 1 = n
    <3> HIDE DEF P, row, new, cell
    <3> QED BY <1>1, <2>0
  <2>2. new = Append(row, cell)
    BY <1>2, <2>1 DEF LcsCell
  <2>3. /\ row \in Seq(Nat) /\ Len(row) = k
        /\ \A j \in 0..n : row[j + 1] > 0 <=> Meet(q, t, m + 1, j)
    BY <1>4
  <2>4. /\ row[k] \in Nat /\ above[k] \in Nat /\ above[k + 1] \in Nat
        /\ row[k] > 0 <=> Meet(q, t, m + 1, n)
        /\ above[k + 1] > 0 <=> Meet(q, t, m, k)
    <3>5. Len(row) = k /\ Len(above) = Len(t) + 1 /\ k = n + 1 /\ n \in Nat /\ Len(t) \in Nat
      BY <1>1, <2>0, <2>3 DEF RowOf
    <3>6. k \in Nat /\ k # 0 /\ k <= Len(t)
      BY <1>1, <2>1, <3>5
    <3>7. n \in 0..n
      BY <3>5
    <3>1. k \in 1..Len(row) /\ k \in 1..Len(above) /\ k + 1 \in 1..Len(above)
          /\ k \in 0..Len(t) /\ n \in 0..n
      <4> HIDE DEF k, row
      <4> QED BY <3>5, <3>6, <3>7
    <3>2. above \in Seq(Nat) /\ (above[k + 1] > 0 <=> Meet(q, t, m, k))
      <4> HIDE DEF k
      <4> QED BY <3>1 DEF RowOf
    <3>3. row[n + 1] > 0 <=> Meet(q, t, m + 1, n)
      BY <2>3, <3>1
    <3>4. row[k] \in Nat /\ above[k] \in Nat /\ above[k + 1] \in Nat
      <4>1. row \in Seq(Nat) /\ above \in Seq(Nat)
        BY <2>3, <3>2
      <4> HIDE DEF k, row
      <4>2. row[k] \in Nat
        BY <3>1, <4>1
      <4>3. above[k] \in Nat
        BY <3>1, <4>1
      <4>4. above[k + 1] \in Nat
        <5> DEFINE l == k + 1
        <5>1. l \in 1..Len(above)
          BY <3>1
        <5> HIDE DEF l
        <5>2. above[l] \in Nat
          BY <4>1, <5>1
        <5> QED BY <5>2 DEF l
      <4> QED BY <4>2, <4>3, <4>4
    <3> QED BY <3>2, <3>3, <3>4
  <2>5. Meet(q, t, m + 1, k) <=> Meet(q, t, m, k) \/ Meet(q, t, m + 1, n) \/ a = t[k]
    <3>1. \A i : i \in 1..m + 1 <=> i \in 1..m \/ i = m + 1
      BY <1>1
    <3>2. \A i : i \in 1..k <=> i \in 1..n \/ i = k
      BY <1>1
    <3> HIDE DEF k
    <3> QED BY <3>1, <3>2 DEF Meet, a
  <2>6. cell \in Nat /\ (cell > 0 <=> Meet(q, t, m + 1, k))
    <3>1. CASE a = t[k]
      BY <2>4, <2>5, <3>1
    <3>2. CASE a # t[k]
      <4> DEFINE x == row[k]
                 y == above[k + 1]
      <4>1. cell = IF x >= y THEN x ELSE y
        BY <3>2
      <4>2. x \in Nat /\ y \in Nat /\ (x > 0 \/ y > 0 <=> Meet(q, t, m + 1, k))
        BY <2>4, <2>5, <3>2
      <4> HIDE DEF x, y, cell
      <4> QED BY <4>1, <4>2
    <3> QED BY <3>1, <3>2
  <2> HIDE DEF cell
  <2>7. new \in Seq(Nat) /\ Len(new) = k + 1
    BY <2>2, <2>3, <2>6
  <2>8. \A j \in 0..k : new[j + 1] > 0 <=> Meet(q, t, m + 1, j)
    <3>1. \A j \in 0..k : j \in 0..n \/ j = k
      BY <1>1
    <3>2. \A j \in 0..n : j + 1 \in 1..Len(row)
      BY <1>1, <2>3
    <3>3. \A j \in 0..n : new[j + 1] = row[j + 1]
      BY <2>2, <2>3, <2>6, <3>2
    <3>4. new[k + 1] = cell
      BY <2>2, <2>3, <2>6
    <3> HIDE DEF new, row, k
    <3> QED BY <2>3, <2>6, <3>1, <3>3, <3>4
  <2> QED BY <2>1, <2>7, <2>8
<1> HIDE DEF P
<1>5. 0..Len(t) \subseteq P
  BY <1>1, <1>3, <1>4, Upwards
<1>6. Len(t) \in P
  BY <1>1, <1>5
<1> USE DEF P
<1> QED BY <1>2, <1>6 DEF RowOf, a

\* So is every row.
LEMMA TableMatches ==
  ASSUME NEW q \in Paths, NEW t \in Paths
  PROVE  \A m \in 0..Len(q) : RowOf(LcsTable(q, t)[m + 1], q, t, m)
<1>1. Len(t) \in Nat /\ Len(q) \in Nat
  BY DEF Paths
<1>2. PICK f : /\ f[0] = <<NoLcs(t)>>
               /\ \A n \in 1..Len(q) : f[n] = WithRow(f[n - 1], q[n], t)
               /\ LcsTable(q, t) = f[Len(q)]
  BY <1>1, TableIs
<1> DEFINE S == Seq(Nat)
           P == {n \in 0..Len(q) :
                   /\ f[n] \in Seq(S) /\ Len(f[n]) = n + 1
                   /\ \A m \in 0..n : RowOf(f[n][m + 1], q, t, m)}
<1>3. 0 \in P
  <2>1. RowOf(NoLcs(t), q, t, 0)
    <3>1. \A j : ~Meet(q, t, 0, j)
      BY DEF Meet
    <3>2. NoLcs(t) \in Seq(Nat) /\ Len(NoLcs(t)) = Len(t) + 1 /\ \A j \in 0..Len(t) : NoLcs(t)[j + 1] = 0
      <4>1. NoLcs(t) \in [1..Len(t) + 1 -> Nat]
        BY DEF NoLcs
      <4>2. \A j \in 0..Len(t) : j + 1 \in 1..Len(t) + 1
        BY <1>1
      <4> QED BY <1>1, <4>1, <4>2 DEF NoLcs
    <3> QED BY <3>1, <3>2 DEF RowOf
  <2> DEFINE r == NoLcs(t)
  <2>2. r \in S /\ f[0] = <<r>>
    BY <1>2, <2>1 DEF RowOf
  <2> HIDE DEF r, S
  <2>3. f[0] \in Seq(S) /\ Len(f[0]) = 1 /\ f[0][1] = r
    BY <2>2
  <2>4. \A m \in 0..0 : RowOf(f[0][m + 1], q, t, m)
    BY <2>1, <2>3 DEF r
  <2> QED BY <1>1, <2>3, <2>4
<1>4. ASSUME NEW n \in 0..Len(q), n < Len(q), n \in P PROVE n + 1 \in P
  <2> DEFINE rows == f[n]
             new == f[n + 1]
             r == LcsRow(Last(rows), q[n + 1], t)
  <2>1. n + 1 \in 1..Len(q) /\ n + 1 - 1 = n
    BY <1>1, <1>4
  <2>2. new = Append(rows, r)
    BY <1>2, <2>1 DEF WithRow
  <2>3. rows \in Seq(S) /\ Len(rows) = n + 1 /\ \A m \in 0..n : RowOf(rows[m + 1], q, t, m)
    BY <1>4
  <2>4. RowOf(Last(rows), q, t, n)
    BY <2>3 DEF Last
  <2>5. RowOf(r, q, t, n + 1)
    BY <1>4, <2>4, RowOfMatches
  <2>6. r \in S
    BY <2>5 DEF RowOf
  <2> HIDE DEF r, S, rows, new
  <2>7. new \in Seq(S) /\ Len(new) = n + 1 + 1 /\ new[n + 1 + 1] = r
    BY <2>2, <2>3, <2>6
  <2>8. \A m \in 0..n : new[m + 1] = rows[m + 1]
    <3>1. \A m \in 0..n : m + 1 \in 1..Len(rows)
      BY <1>1, <2>3
    <3> QED BY <2>2, <2>3, <2>6, <3>1
  <2>9. \A m \in 0..n + 1 : m \in 0..n \/ m = n + 1
    BY <1>1
  <2>10. \A m \in 0..n + 1 : RowOf(new[m + 1], q, t, m)
    BY <2>3, <2>5, <2>7, <2>8, <2>9
  <2> QED BY <2>1, <2>7, <2>10 DEF new
<1> HIDE DEF P
<1>5. 0..Len(q) \subseteq P
  BY <1>1, <1>3, <1>4, Upwards
<1>6. Len(q) \in P
  BY <1>1, <1>5
<1> USE DEF P
<1> QED BY <1>2, <1>6

\* The walk back ends on positions of the trail, and on one if the two share any.
LEMMA PositionsLie ==
  ASSUME NEW q \in Paths, NEW t \in Paths, Meet(q, t, Len(q), Len(t))
  PROVE  /\ LcsPositions(q, t) \in Seq(1..Len(t)) /\ LcsPositions(q, t) # <<>>
         /\ Last(LcsPositions(q, t)) \in 1..Len(t)
<1> DEFINE N == Len(q) + Len(t)
           table == LcsTable(q, t)
           Places == 1..Len(t)
<1>1. Len(t) \in Nat /\ Len(q) \in Nat /\ N \in Nat
  BY DEF Paths
<1>2. PICK f : /\ f[0] = [i |-> Len(q), j |-> Len(t), found |-> <<>>]
               /\ \A n \in 1..N : f[n] = Backtrack(f[n - 1], q, t, table)
               /\ LcsPositions(q, t) = f[N].found
  BY <1>1, PositionsIs
<1>3. \A m \in 0..Len(q) : RowOf(table[m + 1], q, t, m)
  BY TableMatches
<1> HIDE DEF table
<1> DEFINE Good(at, n) ==
             /\ at = [i |-> at.i, j |-> at.j, found |-> at.found]
             /\ at.i \in 0..Len(q) /\ at.j \in 0..Len(t) /\ at.found \in Seq(Places)
             /\ at.found = <<>> => Meet(q, t, at.i, at.j) /\ at.i + at.j + n <= N
           P == {n \in 0..N : Good(f[n], n)}
<1>4. 0 \in P
  <2>1. f[0].i = Len(q) /\ f[0].j = Len(t) /\ f[0].found = <<>>
    BY <1>2
  <2> DEFINE z == f[0]
  <2>2. z = [i |-> z.i, j |-> z.j, found |-> z.found] /\ z.found \in Seq(Places)
    BY <1>2
  <2>3. z.i = Len(q) /\ z.j = Len(t) /\ z.found = <<>>
    BY <2>1
  <2> HIDE DEF z
  <2>4. Good(z, 0)
    BY <1>1, <2>2, <2>3
  <2> QED BY <1>1, <2>4 DEF z
<1>5. ASSUME NEW n \in 0..N, n < N, n \in P PROVE n + 1 \in P
  <2> DEFINE at == f[n]
             new == f[n + 1]
             i == at.i
             j == at.j
             found == at.found
  <2>1. n + 1 \in 1..N /\ n + 1 - 1 = n
    BY <1>1, <1>5
  <2>2. new = Backtrack(at, q, t, table)
    BY <1>2, <2>1
  <2>3. /\ at = [i |-> i, j |-> j, found |-> found]
        /\ i \in 0..Len(q) /\ j \in 0..Len(t) /\ found \in Seq(Places)
        /\ found = <<>> => Meet(q, t, i, j) /\ i + j + n <= N
    BY <1>5
  <2> HIDE DEF at, new, i, j, found
  <2>4. CASE i = 0 \/ j = 0
    <3>1. new = at
      BY <2>2, <2>4 DEF Backtrack, i, j
    <3>2. found # <<>>
      <4>1. ~Meet(q, t, i, j)
        BY <2>4 DEF Meet
      <4> QED BY <2>3, <4>1
    <3>3. Good(new, n + 1)
      BY <2>3, <3>1, <3>2 DEF i, j, found
    <3> QED BY <2>1, <3>3 DEF new
  <2>5. CASE i # 0 /\ j # 0 /\ q[i] = t[j]
    <3>1. new = [i |-> i - 1, j |-> j - 1, found |-> <<j>> \o found]
      BY <2>2, <2>5 DEF Backtrack, i, j, found
    <3>2. j \in Places /\ i - 1 \in 0..Len(q) /\ j - 1 \in 0..Len(t)
      BY <1>1, <2>3, <2>5
    <3>3. <<j>> \o found \in Seq(Places) /\ <<j>> \o found # <<>>
      <4> HIDE DEF Places
      <4>1. <<j>> \in Seq(Places) /\ Len(<<j>>) = 1
        BY <3>2
      <4>2. /\ <<j>> \o found \in Seq(Places)
            /\ Len(<<j>> \o found) = 1 + Len(found) /\ Len(found) \in Nat
        BY <2>3, <4>1, JoinedIs
      <4> DEFINE g == <<j>> \o found
      <4>3. g \in Seq(Places) /\ Len(g) # 0
        <5> DEFINE k == Len(found)
        <5>1. Len(g) = 1 + k /\ k \in Nat
          BY <4>2
        <5> HIDE DEF g, k
        <5>2. Len(g) # 0
          BY <5>1
        <5> QED BY <4>2, <5>2 DEF g
      <4> HIDE DEF g
      <4>4. g # <<>>
        BY <4>3
      <4> QED BY <4>3, <4>4 DEF g
    <3> DEFINE g == <<j>> \o found
    <3> HIDE DEF g
    <3>4. new = [i |-> i - 1, j |-> j - 1, found |-> g] /\ g \in Seq(Places) /\ g # <<>>
      BY <3>1, <3>3 DEF g
    <3>5. Good(new, n + 1)
      BY <3>2, <3>4
    <3> QED BY <2>1, <3>5 DEF new
  <2>6. CASE i # 0 /\ j # 0 /\ q[i] # t[j]
    <3> DEFINE up == table[i][j + 1]
               left == table[i + 1][j]
    <3>1. /\ up \in Nat /\ left \in Nat
          /\ up > 0 <=> Meet(q, t, i - 1, j)
          /\ left > 0 <=> Meet(q, t, i, j - 1)
      <4>1. /\ i - 1 \in 0..Len(q) /\ i - 1 + 1 = i /\ j - 1 \in 0..Len(t) /\ j - 1 + 1 = j
            /\ j \in 1..Len(t) + 1 /\ j + 1 \in 1..Len(t) + 1
        BY <1>1, <2>3, <2>6
      <4>2. RowOf(table[i], q, t, i - 1) /\ RowOf(table[i + 1], q, t, i)
        BY <1>3, <2>3, <4>1
      <4>3. /\ table[i] \in Seq(Nat) /\ Len(table[i]) = Len(t) + 1
            /\ table[i + 1] \in Seq(Nat) /\ Len(table[i + 1]) = Len(t) + 1
            /\ table[i][j + 1] > 0 <=> Meet(q, t, i - 1, j)
        BY <2>3, <4>2 DEF RowOf
      <4>4. table[i + 1][j - 1 + 1] > 0 <=> Meet(q, t, i, j - 1)
        BY <4>1, <4>2 DEF RowOf
      <4>5. left > 0 <=> Meet(q, t, i, j - 1)
        BY <4>1, <4>4
      <4>6. up \in Nat /\ left \in Nat
        <5> DEFINE above == table[i]
                   same == table[i + 1]
        <5>1. above \in Seq(Nat) /\ same \in Seq(Nat) /\ j + 1 \in 1..Len(above) /\ j \in 1..Len(same)
          BY <4>1, <4>3
        <5> HIDE DEF above, same
        <5>2. above[j + 1] \in Nat /\ same[j] \in Nat
          BY <5>1
        <5> QED BY <5>2 DEF above, same
      <4> QED BY <4>3, <4>5, <4>6
    <3>2. found = <<>> => Meet(q, t, i - 1, j) \/ Meet(q, t, i, j - 1)
      <4>1. \A m : m \in 1..i => m \in 1..(i - 1) \/ m = i
        BY <1>1, <2>3
      <4>2. \A m : m \in 1..j => m \in 1..(j - 1) \/ m = j
        BY <1>1, <2>3
      <4>3. i \in 1..i /\ j \in 1..j
        BY <1>1, <2>3, <2>6
      <4>4. Meet(q, t, i, j) => Meet(q, t, i - 1, j) \/ Meet(q, t, i, j - 1)
        <5>1. SUFFICES ASSUME NEW m \in 1..i, NEW k \in 1..j, q[m] = t[k]
                       PROVE  Meet(q, t, i - 1, j) \/ Meet(q, t, i, j - 1)
          BY DEF Meet
        <5>2. m \in 1..(i - 1) \/ k \in 1..(j - 1)
          BY <2>6, <4>1, <4>2, <5>1
        <5> QED BY <5>1, <5>2 DEF Meet
      <4> QED BY <2>3, <4>4
    <3>3. CASE up > left
      <4>1. new = [i |-> i - 1, j |-> j, found |-> found]
        <5>1. new = [at EXCEPT !.i = @ - 1]
          BY <2>2, <2>6, <3>3 DEF Backtrack, i, j
        <5> QED BY <2>3, <5>1
      <4>2. up > 0
        BY <3>1, <3>3
      <4>3. i - 1 \in 0..Len(q) /\ (i + j + n <= N => i - 1 + j + (n + 1) <= N)
        BY <1>1, <2>3, <2>6
      <4>4. Meet(q, t, i - 1, j)
        BY <3>1, <4>2
      <4> HIDE DEF N
      <4>5. Good(new, n + 1)
        BY <2>3, <4>1, <4>3, <4>4
      <4> QED BY <2>1, <4>5 DEF new
    <3>4. CASE ~(up > left)
      <4>1. new = [i |-> i, j |-> j - 1, found |-> found]
        <5>1. new = [at EXCEPT !.j = @ - 1]
          BY <2>2, <2>6, <3>4 DEF Backtrack, i, j
        <5> QED BY <2>3, <5>1
      <4>2. found = <<>> => Meet(q, t, i, j - 1)
        <5> HIDE DEF up, left
        <5> QED BY <3>1, <3>2, <3>4
      <4>3. j - 1 \in 0..Len(t) /\ (i + j + n <= N => i + (j - 1) + (n + 1) <= N)
        BY <1>1, <2>3, <2>6
      <4> HIDE DEF N
      <4>5. Good(new, n + 1)
        BY <2>3, <4>1, <4>2, <4>3
      <4> QED BY <2>1, <4>5 DEF new
    <3> QED BY <3>3, <3>4
  <2> QED BY <2>4, <2>5, <2>6
<1> HIDE DEF P
<1>6. 0..N \subseteq P
  <2> HIDE DEF N
  <2> QED BY <1>1, <1>4, <1>5, Upwards
<1>7. N \in P
  BY <1>1, <1>6
<1>8. Good(f[N], N)
  BY <1>7 DEF P
<1> DEFINE p == f[N].found
<1>9. p \in Seq(Places) /\ p # <<>>
  <2>1. SUFFICES ASSUME p = <<>> PROVE FALSE
    BY <1>8
  <2>2. Meet(q, t, f[N].i, f[N].j) /\ f[N].i + f[N].j + N <= N
    BY <1>8, <2>1
  <2>3. f[N].i = 0
    <3> DEFINE x == f[N].i
               y == f[N].j
    <3>1. x \in Nat /\ y \in Nat /\ x + y + N <= N
      BY <1>1, <1>8, <2>2
    <3> HIDE DEF x, y, N
    <3>2. x = 0
      BY <1>1, <3>1
    <3> QED BY <3>2 DEF x
  <2> QED BY <2>2, <2>3 DEF Meet
<1> HIDE DEF p
<1>10. Last(p) \in Places
  <2> HIDE DEF Places
  <2> QED BY <1>9 DEF Last
<1> QED BY <1>2, <1>9, <1>10 DEF p

-----------------------------------------------------------------------------
(* A sort keeps the rows it is given, and a rollout follows those places   *)
(* of the index whose trails meet the query.                               *)

\* A part of a sequence, position by position.
LEMMA PartIs ==
  ASSUME NEW S, NEW t \in Seq(S), NEW a \in Nat, NEW b \in Nat, a + 1 \in 1..Len(t) + 1, b \in a..Len(t)
  PROVE  /\ SubSeq(t, a + 1, b) \in Seq(S) /\ Len(SubSeq(t, a + 1, b)) = b - a
         /\ \A i \in 1..b - a : SubSeq(t, a + 1, b)[i] = t[a + i]
<1> DEFINE s == SubSeq(t, a + 1, b)
<1>1. s = [i \in 1..b - a |-> t[a + i]]
  OBVIOUS
<1>2. \A i \in 1..b - a : a + i \in 1..Len(t)
  OBVIOUS
<1>3. b - a \in Nat /\ \A i \in 1..b - a : t[a + i] \in S
  BY <1>2
<1> HIDE DEF s
<1>4. s \in Seq(S) /\ Len(s) = b - a /\ \A i \in 1..b - a : s[i] = t[a + i]
  BY <1>1, <1>3
<1> QED BY <1>4 DEF s

\* Inserting a row keeps the others.
LEMMA InsertedKeeps ==
  ASSUME NEW K, NEW rows \in Seq(K), NEW r \in K
  PROVE  /\ Inserted(rows, r) \in Seq(K)
         /\ \A x : x \in ToSet(Inserted(rows, r)) <=> x = r \/ x \in ToSet(rows)
<1> DEFINE A == {n \in DOMAIN rows : ~Beats(r.key, rows[n].key)}
           ahead == Cardinality(A)
           N == Len(rows)
<1>1. N \in Nat /\ DOMAIN rows = 1..N
  OBVIOUS
<1>2. ahead \in 0..N
  <2>1. IsFiniteSet(1..N) /\ Cardinality(1..N) = N
    BY <1>1, FS_Interval
  <2>2. A \subseteq 1..N
    BY <1>1
  <2> HIDE DEF A
  <2>3. IsFiniteSet(A) /\ Cardinality(A) <= Cardinality(1..N)
    BY <2>1, <2>2, FS_Subset
  <2>4. Cardinality(A) \in Nat
    BY <2>3, FS_CardinalityType
  <2> QED BY <1>1, <2>1, <2>3, <2>4
<1>3. Inserted(rows, r) = SubSeq(rows, 1, ahead) \o <<r>> \o SubSeq(rows, ahead + 1, N)
  BY DEF Inserted
<1> HIDE DEF ahead
<1> DEFINE p == SubSeq(rows, 1, ahead)
           s == SubSeq(rows, ahead + 1, N)
<1>4. /\ p \in Seq(K) /\ Len(p) = ahead /\ \A i \in 1..ahead : p[i] = rows[i]
      /\ s \in Seq(K) /\ Len(s) = N - ahead /\ \A i \in 1..N - ahead : s[i] = rows[ahead + i]
  <2>1. ahead \in Nat /\ ahead <= N
    BY <1>1, <1>2
  <2>2. /\ p \in Seq(K) /\ Len(p) = ahead /\ \A i \in 1..ahead : p[i] = rows[i]
    BY <1>1, <2>1
  <2>3. /\ s \in Seq(K) /\ Len(s) = N - ahead /\ \A i \in 1..N - ahead : s[i] = rows[ahead + i]
    <3>1. ahead + 1 \in 1..N + 1 /\ N \in ahead..N
      BY <1>1, <2>1
    <3> QED BY <1>1, <2>1, <3>1, PartIs
  <2> QED BY <2>2, <2>3
<1> HIDE DEF p, s
<1> DEFINE m == p \o <<r>>
           all == m \o s
<1>5. /\ m \in Seq(K) /\ Len(m) = ahead + 1 /\ m[ahead + 1] = r
      /\ \A i \in 1..ahead : m[i] = rows[i]
  BY <1>1, <1>2, <1>4
<1> HIDE DEF m
<1>6. /\ all \in Seq(K) /\ Len(all) = N + 1
      /\ \A i \in 1..ahead + 1 : all[i] = m[i]
      /\ \A i \in 1..N - ahead : all[ahead + 1 + i] = s[i]
  <2>1. /\ all \in Seq(K) /\ Len(all) = Len(m) + Len(s)
        /\ \A i \in 1..Len(m) : all[i] = m[i]
        /\ \A i \in 1..Len(s) : all[Len(m) + i] = s[i]
    BY <1>4, <1>5, JoinedIs
  <2> HIDE DEF all
  <2>2. Len(all) = N + 1
    BY <1>1, <1>2, <1>4, <1>5, <2>1
  <2> QED BY <1>4, <1>5, <2>1, <2>2
<1> HIDE DEF all
<1>7. \A x : x \in ToSet(all) <=> \E i \in 1..N + 1 : x = all[i]
  BY <1>6 DEF ToSet
<1>8. \A x : x \in ToSet(rows) <=> \E i \in 1..N : x = rows[i]
  BY <1>1 DEF ToSet
<1>9. ASSUME NEW i \in 1..N + 1 PROVE all[i] = r \/ \E n \in 1..N : all[i] = rows[n]
  <2>1. CASE i \in 1..ahead
    BY <1>1, <1>2, <1>5, <1>6, <2>1
  <2>2. CASE i = ahead + 1
    BY <1>2, <1>5, <1>6, <2>2
  <2>3. CASE i > ahead + 1
    <3> DEFINE k == i - ahead - 1
    <3>1. k \in 1..N - ahead /\ i = ahead + 1 + k /\ ahead + k \in 1..N
      BY <1>1, <1>2, <2>3
    <3> HIDE DEF k
    <3> QED BY <1>4, <1>6, <3>1
  <2> QED BY <1>1, <1>2, <2>1, <2>2, <2>3
<1>10. \E i \in 1..N + 1 : all[i] = r
  <2>1. ahead + 1 \in 1..N + 1 /\ ahead + 1 \in 1..ahead + 1
    BY <1>1, <1>2
  <2> QED BY <1>5, <1>6, <2>1
<1>11. ASSUME NEW n \in 1..N PROVE \E i \in 1..N + 1 : all[i] = rows[n]
  <2>1. CASE n \in 1..ahead
    <3>1. n \in 1..ahead + 1 /\ n \in 1..N + 1
      BY <1>1, <1>2, <2>1
    <3> QED BY <1>5, <1>6, <2>1, <3>1
  <2>2. CASE n > ahead
    <3> DEFINE k == n - ahead
    <3>1. k \in 1..N - ahead /\ n = ahead + k /\ ahead + 1 + k \in 1..N + 1
      BY <1>1, <1>2, <2>2
    <3> HIDE DEF k
    <3> QED BY <1>4, <1>6, <3>1
  <2> QED BY <1>1, <1>2, <2>1, <2>2
<1>12. Inserted(rows, r) = all
  BY <1>3 DEF all, m, p, s
<1> QED BY <1>6, <1>7, <1>8, <1>9, <1>10, <1>11, <1>12

\* Sorting keeps the rows, and makes none up.
LEMMA SortedKeeps ==
  ASSUME NEW keyed, NEW last \in Nat, DOMAIN keyed \subseteq 1..last,
         NEW S, \A n \in DOMAIN keyed : keyed[n].row \in S
  PROVE  /\ Sorted(keyed, last) \in Seq(S)
         /\ \A x : x \in ToSet(Sorted(keyed, last)) <=> \E n \in DOMAIN keyed : x = keyed[n].row
<1> DEFINE K == {keyed[n] : n \in DOMAIN keyed}
<1>1. PICK f : /\ f[0] = <<>>
               /\ \A n \in 1..last : f[n] = SortedTo(keyed, f[n - 1], n)
               /\ Sorted(keyed, last) = RowsOf(f[last])
  BY SortingIs
<1> DEFINE P == {n \in 0..last :
                   /\ f[n] \in Seq(K)
                   /\ \A x : x \in ToSet(f[n]) <=> \E i \in DOMAIN keyed : i <= n /\ x = keyed[i]}
<1>2. 0 \in P
  <2>1. f[0] \in Seq(K) /\ ToSet(f[0]) = {}
    BY <1>1 DEF ToSet
  <2>2. \A i \in DOMAIN keyed : ~(i <= 0)
    OBVIOUS
  <2> QED BY <2>1, <2>2
<1>3. ASSUME NEW n \in 0..last, n < last, n \in P PROVE n + 1 \in P
  <2>1. n + 1 \in 1..last /\ n + 1 - 1 = n
    BY <1>3
  <2>2. f[n + 1] = SortedTo(keyed, f[n], n + 1)
    BY <1>1, <2>1
  <2>3. f[n] \in Seq(K) /\ \A x : x \in ToSet(f[n]) <=> \E i \in DOMAIN keyed : i <= n /\ x = keyed[i]
    BY <1>3
  <2>4. \A i \in DOMAIN keyed : i <= n + 1 <=> i <= n \/ i = n + 1
    OBVIOUS
  <2>5. CASE n + 1 \in DOMAIN keyed
    <3>1. f[n + 1] = Inserted(f[n], keyed[n + 1]) /\ keyed[n + 1] \in K
      BY <2>2, <2>5 DEF SortedTo
    <3> HIDE DEF K
    <3>2. /\ f[n + 1] \in Seq(K)
          /\ \A x : x \in ToSet(f[n + 1]) <=> x = keyed[n + 1] \/ x \in ToSet(f[n])
      BY <2>3, <3>1, InsertedKeeps
    <3>3. \A x : x \in ToSet(f[n + 1]) <=> \E i \in DOMAIN keyed : i <= n + 1 /\ x = keyed[i]
      BY <2>3, <2>4, <2>5, <3>2
    <3> QED BY <2>1, <3>2, <3>3
  <2>6. CASE n + 1 \notin DOMAIN keyed
    <3>1. f[n + 1] = f[n]
      BY <2>2, <2>6 DEF SortedTo
    <3> HIDE DEF K
    <3>3. \A x : x \in ToSet(f[n + 1]) <=> \E i \in DOMAIN keyed : i <= n + 1 /\ x = keyed[i]
      BY <2>3, <2>4, <2>6, <3>1
    <3> QED BY <2>1, <2>3, <3>1, <3>3
  <2> QED BY <2>5, <2>6
<1> HIDE DEF P
<1>4. 0..last \subseteq P
  BY <1>2, <1>3, Upwards
<1> DEFINE rows == f[last]
           sorted == Sorted(keyed, last)
<1>5. rows \in Seq(K) /\ \A x : x \in ToSet(rows) <=> \E i \in DOMAIN keyed : x = keyed[i]
  <2>1. last \in P
    BY <1>4
  <2>2. \A i \in DOMAIN keyed : i <= last
    OBVIOUS
  <2> QED BY <2>1, <2>2 DEF P
<1>6. sorted = [n \in 1..Len(rows) |-> rows[n].row] /\ Len(rows) \in Nat
  BY <1>1, <1>5 DEF RowsOf
<1>7. \A n \in 1..Len(rows) : rows[n] \in K /\ rows[n].row \in S
  BY <1>5
<1> HIDE DEF K, rows, sorted
<1>8. sorted \in Seq(S) /\ Len(sorted) = Len(rows) /\ \A n \in 1..Len(rows) : sorted[n] = rows[n].row
  BY <1>6, <1>7
<1>9. \A x : x \in ToSet(sorted) <=> \E n \in 1..Len(rows) : x = rows[n].row
  BY <1>8 DEF ToSet
<1>10. \A x : x \in ToSet(rows) <=> \E n \in 1..Len(rows) : x = rows[n]
  BY <1>5 DEF ToSet
<1>11. \A x : x \in ToSet(sorted) <=> \E n \in DOMAIN keyed : x = keyed[n].row
  <2>1. ASSUME NEW n \in 1..Len(rows) PROVE \E i \in DOMAIN keyed : rows[n].row = keyed[i].row
    <3>1. rows[n] \in ToSet(rows)
      BY <1>10
    <3>2. PICK i \in DOMAIN keyed : rows[n] = keyed[i]
      BY <1>5, <3>1
    <3> QED BY <3>2
  <2>2. ASSUME NEW i \in DOMAIN keyed PROVE \E n \in 1..Len(rows) : rows[n].row = keyed[i].row
    <3>1. keyed[i] \in ToSet(rows)
      BY <1>5
    <3>2. PICK n \in 1..Len(rows) : rows[n] = keyed[i]
      BY <1>10, <3>1
    <3> QED BY <3>2
  <2>3. ASSUME NEW x, x \in ToSet(sorted) PROVE \E n \in DOMAIN keyed : x = keyed[n].row
    BY <1>9, <2>1, <2>3
  <2>4. ASSUME NEW n \in DOMAIN keyed PROVE keyed[n].row \in ToSet(sorted)
    BY <1>9, <2>2
  <2> QED BY <2>3, <2>4
<1> QED BY <1>8, <1>11 DEF sorted

\* A cut ranking holds rows of it.
LEMMA TopKeeps ==
  ASSUME NEW S, NEW rows \in Seq(S), NEW limit \in Nat
  PROVE  /\ Top(rows, limit) \in Seq(S)
         /\ ToSet(Top(rows, limit)) \subseteq ToSet(rows)
         /\ limit # 0 /\ rows # <<>> => Top(rows, limit) # <<>>
<1> DEFINE n == IF Len(rows) < limit THEN Len(rows) ELSE limit
           top == SubSeq(rows, 1, n)
<1>1. n \in 0..Len(rows) /\ Len(rows) \in Nat /\ (limit # 0 /\ Len(rows) # 0 => n # 0)
  OBVIOUS
<1>2. Top(rows, limit) = top
  BY DEF Top
<1> HIDE DEF n
<1>3. top \in Seq(S) /\ Len(top) = n /\ \A i \in 1..n : top[i] = rows[i] /\ i \in 1..Len(rows)
  BY <1>1
<1>4. rows # <<>> => Len(rows) # 0
  OBVIOUS
<1> HIDE DEF top
<1>5. ToSet(top) \subseteq ToSet(rows)
  BY <1>3 DEF ToSet
<1> QED BY <1>1, <1>2, <1>3, <1>4, <1>5

\* What a rollout follows: the places of the best matches, where each match
\* ends, and what comes after it.
MatchesOf(index, raw) == MultiscaleResolve(index, Collapsed(raw), Len(index), NoCap)
PlacesOf(index, raw) == Strongest(index, MatchesOf(index, raw))
AnchorOf(index, raw) ==
  [i \in DOMAIN index |-> Last(LcsPositions(Collapsed(raw), index[i].addresses))]
AfterOf(index, raw, steps) ==
  [i \in DOMAIN index |-> Continuation(index[i].addresses, AnchorOf(index, raw)[i], steps)]

\* Two trails with common addresses meet.
LEMMA OverlapMeets ==
  ASSUME NEW q \in Paths, NEW t \in Paths, Overlap(q, t) > 0
  PROVE  Meet(q, t, Len(q), Len(t))
<1>1. SUFFICES ASSUME ~Meet(q, t, Len(q), Len(t)) PROVE FALSE
  OBVIOUS
<1>2. DOMAIN q = 1..Len(q) /\ DOMAIN t = 1..Len(t)
  BY DEF Paths
<1>3. ToSet(q) \cap ToSet(t) = {}
  BY <1>1, <1>2 DEF Meet, ToSet
<1>4. Overlap(q, t) = 0
  BY <1>3, FS_EmptySet DEF Overlap
<1> QED BY <1>4

\* The matches of a query are the rows that share an address with it.
LEMMA MatchesMeet ==
  ASSUME NEW index \in Seq(Rows), NEW raw \in Paths
  PROVE  LET matches == MatchesOf(index, raw)
             known == {i \in DOMAIN index : Overlap(Collapsed(raw), index[i].addresses) > 0}
         IN /\ \A r \in ToSet(matches) : \E i \in known : r.row = index[i]
            /\ matches = <<>> <=> known = {}
            /\ matches # <<>> => matches[1] \in ToSet(matches)
<1> DEFINE q == Collapsed(raw)
           matches == MatchesOf(index, raw)
           known == {i \in DOMAIN index : Overlap(q, index[i].addresses) > 0}
           levels == Build(index, NoCap)
           shared(i) == Shared(QueryViews(q, levels), levels, index, i)
           match(i) == [row |-> [row |-> index[i], shared |-> shared(i)],
                        key |-> MultiscaleKey(shared(i), index[i])]
           keyed == [i \in known |-> match(i)]
           S == {keyed[i].row : i \in known}
           rows == Sorted(keyed, Len(index))
<1>1. matches = Top(rows, Len(index))
  BY DEF MatchesOf, MultiscaleResolve, ResolveOver
<1>2. /\ Len(index) \in Nat /\ DOMAIN index = 1..Len(index) /\ known \subseteq 1..Len(index)
      /\ DOMAIN keyed = known
  OBVIOUS
<1>3. \A i \in known : keyed[i].row.row = index[i]
  <2> HIDE DEF shared, known
  <2> QED OBVIOUS
<1>4. \A i \in DOMAIN keyed : keyed[i].row \in S
  OBVIOUS
<1>5. \A x \in S : \E i \in known : x = keyed[i].row
  OBVIOUS
<1> HIDE DEF keyed, S, q
<1>6. /\ rows \in Seq(S)
      /\ \A x : x \in ToSet(rows) <=> \E i \in DOMAIN keyed : x = keyed[i].row
  BY <1>2, <1>4, SortedKeeps
<1> HIDE DEF rows, known, matches
<1>7. /\ matches \in Seq(S) /\ ToSet(matches) \subseteq ToSet(rows)
      /\ Len(index) # 0 /\ rows # <<>> => matches # <<>>
  BY <1>1, <1>2, <1>6, TopKeeps
<1>8. ASSUME NEW r \in ToSet(matches) PROVE \E i \in known : r.row = index[i]
  <2>1. PICK i \in DOMAIN keyed : r = keyed[i].row
    BY <1>6, <1>7
  <2>2. i \in known
    BY <1>2, <2>1
  <2> QED BY <1>3, <2>1, <2>2
<1>9. matches # <<>> => matches[1] \in ToSet(matches)
  BY <1>7 DEF ToSet
<1>10. matches = <<>> <=> known = {}
  <2>1. ASSUME known = {} PROVE matches = <<>>
    BY <1>8, <1>9, <2>1
  <2>2. ASSUME known # {} PROVE matches # <<>>
    <3>1. PICK i \in known : TRUE
      BY <2>2
    <3>2. keyed[i].row \in ToSet(rows)
      BY <1>2, <1>6, <3>1
    <3>3. rows # <<>>
      BY <3>2 DEF ToSet
    <3>4. Len(index) # 0
      BY <1>2, <3>1
    <3> QED BY <1>7, <3>3, <3>4
  <2> QED BY <2>1, <2>2
<1> QED BY <1>8, <1>9, <1>10 DEF matches, known, q

\* The places of the best matches share an address with the query, and their
\* anchors lie on them.
LEMMA PlacesMeet ==
  ASSUME NEW index \in Seq(Rows), NEW raw \in Paths, NEW steps \in Nat
  PROVE  /\ PlacesOf(index, raw) \subseteq DOMAIN index
         /\ \A i \in PlacesOf(index, raw) :
               /\ Overlap(Collapsed(raw), index[i].addresses) > 0
               /\ AnchorOf(index, raw)[i] \in 1..Len(index[i].addresses)
               /\ AfterOf(index, raw, steps)[i] \in Paths
<1>1. PlacesOf(index, raw) \subseteq DOMAIN index
  BY DEF PlacesOf, Strongest
<1>2. SUFFICES ASSUME NEW i \in PlacesOf(index, raw)
               PROVE  /\ Overlap(Collapsed(raw), index[i].addresses) > 0
                      /\ AnchorOf(index, raw)[i] \in 1..Len(index[i].addresses)
                      /\ AfterOf(index, raw, steps)[i] \in Paths
  BY <1>1
<1>3. i \in DOMAIN index /\ index[i] \in Rows /\ index[i].addresses \in Paths
  <2>1. i \in DOMAIN index
    BY <1>1
  <2>2. index[i] \in Rows
    BY <2>1
  <2> QED BY <2>1, <2>2 DEF Rows
<1>4. PICK r \in ToSet(MatchesOf(index, raw)) : r.row = index[i]
  BY DEF PlacesOf, Strongest
<1>5. Overlap(Collapsed(raw), index[i].addresses) > 0
  <2>1. PICK j \in DOMAIN index : r.row = index[j] /\ Overlap(Collapsed(raw), index[j].addresses) > 0
    BY <1>4, MatchesMeet
  <2> QED BY <1>4, <2>1
<1> DEFINE t == index[i].addresses
           a == Last(LcsPositions(Collapsed(raw), t))
<1>6. a \in 1..Len(t)
  BY <1>3, <1>5, CollapsedTyped, OverlapMeets, PositionsLie
<1>7. AnchorOf(index, raw)[i] = a
  BY <1>3 DEF AnchorOf
<1>8. AfterOf(index, raw, steps)[i] = Continuation(t, a, steps)
  BY <1>3, <1>7 DEF AfterOf
<1>9. a \in 0..Len(t)
  BY <1>6
<1> HIDE DEF a, t
<1>10. Continuation(t, a, steps) \in Paths
  BY <1>3, <1>9, ContinuationIs DEF t
<1> QED BY <1>5, <1>6, <1>7, <1>8, <1>10 DEF t

RecoveryReasons ==
  {"recovered-single-branch", "recovered-competing-outcomes", "recovery-matched-terminal"}

\* A rollout is the split of its places, or nothing where a limit was exceeded.
LEMMA RollsOut ==
  ASSUME NEW index \in Seq(Rows), NEW raw \in Paths, NEW steps \in Nat, NEW most, NEW many
  PROVE  LET r == ResolveRollout(index, raw, steps, most, many)
             K == PlacesOf(index, raw)
             after == AfterOf(index, raw, steps)
             going == {ActiveBranch(b.witnesses, b.continuation) : b \in r.branches}
         IN /\ r.terminals = {} \/ r.terminals = {i \in K : after[i] = <<>>}
            /\ going = {} \/ going = Split(K, AnchorOf(index, raw), after)
            /\ r.reason \notin RecoveryReasons
<1> DEFINE r == ResolveRollout(index, raw, steps, most, many)
           q == Collapsed(raw)
           matches == MatchesOf(index, raw)
           K == PlacesOf(index, raw)
           anchor == AnchorOf(index, raw)
           after == AfterOf(index, raw, steps)
           going == {ActiveBranch(b.witnesses, b.continuation) : b \in r.branches}
           inside == [i \in K |-> LET t == index[i].addresses
                                  IN Continuation(t, Last(LcsPositions(q, t)), steps)]
           depths == [i \in K |-> DOMAIN (CHOOSE m \in ToSet(matches) : m.row = index[i]).shared]
           ended == {i \in K : inside[i] = <<>>}
           B(c) == Branch(index, q, {i \in K : inside[i] = c}, depths, steps, c)
           branches == {B(c) : c \in {inside[i] : i \in K} \ {<<>>}}
<1>1. r = RolledOut(index, q, matches, steps, most, many)
  BY DEF ResolveRollout, MatchesOf
<1>2. /\ r.branches = {} \/ r.branches = branches
      /\ r.terminals = {} \/ r.terminals = ended
      /\ r.reason \notin RecoveryReasons
  <2>1. r = CASE index = <<>> -> Nothing(q, "no-trajectories")
              [] index # <<>> /\ matches = <<>> -> Nothing(q, "no-structural-match")
              [] matches # <<>> /\ Cardinality(K) > most ->
                     Resolution(q, {}, {}, TRUE, "candidate-limit-exceeded")
              [] OTHER ->
                     IF Outcomes(branches, ended) > many
                     THEN Resolution(q, {}, ended, TRUE, "branch-limit-exceeded")
                     ELSE Resolution(q, branches, ended, FALSE,
                                     CASE Outcomes(branches, ended) > 1 -> "competing-forward-outcomes"
                                       [] branches = {} -> "matched-terminal-occurrence"
                                       [] OTHER -> "single-forward-path")
    BY <1>1, Zenon DEF RolledOut, PlacesOf
  <2> HIDE DEF r, branches, ended, matches, K
  <2>2. \A bs, ts, bounded, reason :
           /\ Resolution(q, bs, ts, bounded, reason).branches = bs
           /\ Resolution(q, bs, ts, bounded, reason).terminals = ts
           /\ Resolution(q, bs, ts, bounded, reason).reason = reason
    BY DEF Resolution
  <2> DEFINE Right(z) == /\ z.branches = {} \/ z.branches = branches
                         /\ z.terminals = {} \/ z.terminals = ended
                         /\ z.reason \notin RecoveryReasons
             last == CASE Outcomes(branches, ended) > 1 -> "competing-forward-outcomes"
                       [] branches = {} -> "matched-terminal-occurrence"
                       [] OTHER -> "single-forward-path"
  <2>0. ASSUME NEW bs, bs = {} \/ bs = branches, NEW ts, ts = {} \/ ts = ended,
               NEW bounded, NEW reason, reason \notin RecoveryReasons
        PROVE  Right(Resolution(q, bs, ts, bounded, reason))
    <3> DEFINE z == Resolution(q, bs, ts, bounded, reason)
    <3>1. z.branches = bs /\ z.terminals = ts /\ z.reason = reason
      BY <2>2
    <3> HIDE DEF z
    <3> QED BY <2>0, <3>1 DEF z
  <2>3. /\ Right(Nothing(q, "no-trajectories")) /\ Right(Nothing(q, "no-structural-match"))
        /\ Right(Resolution(q, {}, {}, TRUE, "candidate-limit-exceeded"))
        /\ Right(Resolution(q, {}, ended, TRUE, "branch-limit-exceeded"))
    <3> HIDE DEF Right
    <3>1. /\ "no-trajectories" \notin RecoveryReasons /\ "no-structural-match" \notin RecoveryReasons
          /\ "candidate-limit-exceeded" \notin RecoveryReasons
          /\ "branch-limit-exceeded" \notin RecoveryReasons
      BY DEF RecoveryReasons
    <3> QED BY <2>0, <3>1 DEF Nothing
  <2>4. Right(Resolution(q, branches, ended, FALSE, last))
    <3>1. last \in {"competing-forward-outcomes", "matched-terminal-occurrence", "single-forward-path"}
      OBVIOUS
    <3> HIDE DEF last, Right
    <3>2. last \notin RecoveryReasons
      BY <3>1 DEF RecoveryReasons
    <3> QED BY <2>0, <3>2
  <2> HIDE DEF Right
  <2>5. Right(r)
    BY <2>1, <2>3, <2>4
  <2> QED BY <2>5 DEF Right
<1>3. K \subseteq DOMAIN index
  BY PlacesMeet
<1>4. \A i \in K : after[i] = inside[i] /\ anchor[i] = Last(LcsPositions(q, index[i].addresses))
  BY <1>3 DEF AfterOf, AnchorOf
<1>5. ended = {i \in K : after[i] = <<>>}
  BY <1>4
<1>6. ASSUME NEW c
      PROVE  /\ B(c).continuation = c
             /\ B(c).witnesses = {<<i, anchor[i]>> : i \in {j \in K : after[j] = c}}
  <2>1. {i \in K : inside[i] = c} = {j \in K : after[j] = c}
    BY <1>4
  <2> DEFINE M == {j \in K : after[j] = c}
  <2>2. B(c).continuation = c
        /\ B(c).witnesses = {<<i, Last(LcsPositions(q, index[i].addresses))>> : i \in M}
    BY <2>1 DEF Branch
  <2>3. \A i \in M : <<i, Last(LcsPositions(q, index[i].addresses))>> = <<i, anchor[i]>>
    BY <1>4
  <2> QED BY <2>2, <2>3
<1>7. {inside[i] : i \in K} = {after[i] : i \in K}
  BY <1>4
<1> HIDE DEF K, anchor, after, B, inside, r
<1>8. r.branches = branches => going = Split(K, anchor, after)
  <2>1. SUFFICES ASSUME r.branches = branches PROVE going = Split(K, anchor, after)
    OBVIOUS
  <2> DEFINE C == {after[i] : i \in K} \ {<<>>}
  <2>2. branches = {B(c) : c \in C}
    BY <1>7
  <2> HIDE DEF C, branches
  <2>3. going = {ActiveBranch(B(c).witnesses, B(c).continuation) : c \in C}
    BY <2>1, <2>2
  <2> DEFINE X(c) == ActiveBranch(B(c).witnesses, B(c).continuation)
             Y(c) == ActiveBranch({<<i, anchor[i]>> : i \in {j \in K : after[j] = c}}, c)
  <2>4. \A c \in C : X(c) = Y(c)
    BY <1>6
  <2>5. Split(K, anchor, after) = {Y(c) : c \in C}
    BY DEF Split, C
  <2> HIDE DEF X, Y
  <2>6. {X(c) : c \in C} = {Y(c) : c \in C}
    BY <2>4
  <2> QED BY <2>3, <2>5, <2>6 DEF X
<1> QED BY <1>2, <1>5, <1>8 DEF r, K, anchor, after

\* A nonempty set of numbers has a least.
LEMMA MinExists ==
  ASSUME NEW S \in SUBSET Nat, S # {}
  PROVE  Min(S) \in S /\ \A j \in S : Min(S) <= j
<1>1. PICK n \in S : TRUE
  OBVIOUS
<1> DEFINE short == {m \in 0..n : n - m \in S}
<1>2. short \in SUBSET Nat /\ IsFiniteSet(short) /\ 0 \in short
  <2>1. IsFiniteSet(0..n) /\ short \subseteq 0..n
    BY <1>1, FS_Interval
  <2> QED BY <1>1, <2>1, FS_Subset
<1> HIDE DEF short
<1>3. PICK m \in short : \A j \in short : j <= m
  BY <1>2, MaxExists
<1>4. n - m \in S /\ m \in 0..n
  BY DEF short
<1>5. ASSUME NEW j \in S PROVE n - m <= j
  <2>1. CASE j > n
    BY <1>4, <2>1
  <2>2. CASE ~(j > n)
    <3>1. n - j \in 0..n /\ n - (n - j) = j
      BY <1>1, <2>2
    <3>2. n - j \in short
      BY <3>1 DEF short
    <3> QED BY <1>3, <1>4, <3>1, <3>2
  <2> QED BY <2>1, <2>2
<1> QED BY <1>4, <1>5 DEF Min

\* begin_addresses begins right.
LEMMA BegunRight ==
  ASSUME NEW index \in Seq(Rows), NEW raw \in Paths, NEW steps \in Nat
  PROVE  /\ BeginsRight(index, Begun(index, raw, steps), steps)
         /\ Begun(index, raw, steps).reason \notin RecoveryReasons
<1> DEFINE r == ResolveRollout(index, raw, steps, CandidateLimit, BranchLimit)
           K == PlacesOf(index, raw)
           anchor == AnchorOf(index, raw)
           after == AfterOf(index, raw, steps)
           going == {ActiveBranch(b.witnesses, b.continuation) : b \in r.branches}
<1>1. Begun(index, raw, steps) = BranchState(Collapsed(raw), going, r.terminals, r.bounded, r.reason)
  BY DEF Begun
<1>2. /\ r.terminals = {} \/ r.terminals = {i \in K : after[i] = <<>>}
      /\ going = {} \/ going = Split(K, anchor, after)
      /\ r.reason \notin RecoveryReasons
  BY RollsOut
<1>3. K \in SUBSET DOMAIN index
  BY PlacesMeet
<1>4. \A i \in K : /\ anchor[i] \in 1..Len(index[i].addresses)
                   /\ after[i] = Continuation(index[i].addresses, anchor[i], steps)
                   /\ after[i] \in Paths
  BY <1>3, PlacesMeet DEF AfterOf
<1>5. r.terminals \in SUBSET {i \in K : after[i] = <<>>}
  BY <1>2
<1> HIDE DEF r, K, anchor, after, going
<1>6. BeginsRight(index, BranchState(Collapsed(raw), going, r.terminals, r.bounded, r.reason), steps)
  BY <1>2, <1>3, <1>4, <1>5, SplitBegins
<1> QED BY <1>1, <1>2, <1>6 DEF BranchState

-----------------------------------------------------------------------------
(* Recovery: the last place a trail holds the seed.                        *)

\* The last place a trail holds the seed.
LEMMA LastStart ==
  ASSUME NEW q \in Paths, q # <<>>, NEW t \in Paths, Starts(q, t) # {}
  PROVE  LET a == Max(Starts(q, t)) + Len(q) - 1
         IN /\ a \in 1..Len(t) /\ a - Len(q) + 1 \in 1..Len(t)
            /\ SubSeq(t, a - Len(q) + 1, a) = q
            /\ \A s \in Starts(q, t) : s + Len(q) - 1 <= a
<1> DEFINE S == Starts(q, t)
           m == Max(S)
<1>1. /\ Len(t) \in Nat /\ Len(q) \in Nat /\ Len(q) # 0
      /\ \A i \in S : i \in 1..(Len(t) - Len(q) + 1) /\ SubSeq(t, i, i + Len(q) - 1) = q
  BY DEF Starts, Paths
<1>2. S \in SUBSET Nat /\ IsFiniteSet(S) /\ S # {}
  <2>1. Len(t) - Len(q) + 1 \in Int /\ 1 \in Int
    BY <1>1
  <2>2. IsFiniteSet(1..(Len(t) - Len(q) + 1)) /\ S \subseteq 1..(Len(t) - Len(q) + 1)
    BY <1>1, <2>1, FS_Interval
  <2> HIDE DEF S
  <2>3. IsFiniteSet(S)
    BY <2>2, FS_Subset
  <2> QED BY <2>2, <2>3 DEF S
<1> HIDE DEF S
<1>3. m \in S /\ \A j \in S : m >= j
  <2>1. PICK k \in S : \A j \in S : j <= k
    BY <1>2, MaxExists
  <2>2. \A j \in S : k >= j
    BY <1>2, <2>1
  <2> QED BY <2>2 DEF Max
<1> HIDE DEF m
<1> DEFINE a == m + Len(q) - 1
<1>4. m \in 1..(Len(t) - Len(q) + 1) /\ SubSeq(t, m, a) = q
  BY <1>1, <1>3
<1>5. a - Len(q) + 1 = m /\ a \in 1..Len(t) /\ m \in 1..Len(t)
  BY <1>1, <1>4
<1>6. \A s \in S : s + Len(q) - 1 <= a
  BY <1>1, <1>2, <1>3, <1>4
<1> QED BY <1>4, <1>5, <1>6 DEF m, S

\* A trail that holds the seed at its end has it for a suffix.
LEMMA EndsWith ==
  ASSUME NEW q \in Paths, NEW t \in Paths, NEW m \in 1..Len(t), q # <<>>,
         m + Len(q) - 1 = Len(t), SubSeq(t, m, Len(t)) = q
  PROVE  IsSuffix(q, t)
<1> DEFINE p == Reverse(q)
           e == Reverse(t)
<1>1. Len(t) \in Nat /\ Len(q) \in Nat /\ Len(q) # 0 /\ Len(q) <= Len(t)
  BY DEF Paths
<1>2. \A k \in 1..Len(q) : q[k] = t[m + k - 1] /\ m + k - 1 \in 1..Len(t)
  <2>1. \A k \in 1..Len(q) : m + k - 1 \in 1..Len(t)
    BY <1>1
  <2>2. SubSeq(t, m, Len(t)) = [k \in 1..(Len(t) - m + 1) |-> t[m + k - 1]]
    BY <1>1 DEF Paths
  <2>3. Len(t) - m + 1 = Len(q)
    BY <1>1
  <2> QED BY <2>1, <2>2, <2>3
<1>3. /\ p \in Paths /\ Len(p) = Len(q) /\ \A i \in 1..Len(q) : p[i] = q[Len(q) - i + 1]
  <2>1. \A i \in 1..Len(q) : Len(q) - i + 1 \in 1..Len(q)
    BY <1>1
  <2>2. p = [i \in 1..Len(q) |-> q[Len(q) - i + 1]]
    BY DEF Reverse
  <2> QED BY <1>1, <2>1, <2>2 DEF Paths
<1>4. /\ e \in Paths /\ Len(e) = Len(t) /\ \A i \in 1..Len(t) : e[i] = t[Len(t) - i + 1]
  <2>1. \A i \in 1..Len(t) : Len(t) - i + 1 \in 1..Len(t)
    BY <1>1
  <2>2. e = [i \in 1..Len(t) |-> t[Len(t) - i + 1]]
    BY DEF Reverse
  <2> QED BY <1>1, <2>1, <2>2 DEF Paths
<1> HIDE DEF p, e
<1>5. ASSUME NEW i \in 1..Len(p) PROVE p[i] = e[i]
  <2> DEFINE k == Len(q) - i + 1
  <2>3. i \in 1..Len(q)
    BY <1>3
  <2>4. m \in Int /\ m + Len(q) - 1 = Len(t)
    OBVIOUS
  <2>5. k \in 1..Len(q) /\ i \in 1..Len(t)
    BY <1>1, <2>3
  <2>6. m + k - 1 = Len(t) - i + 1
    BY <1>1, <2>3, <2>4
  <2>1. k \in 1..Len(q) /\ m + k - 1 = Len(t) - i + 1 /\ i \in 1..Len(q) /\ i \in 1..Len(t)
    BY <2>3, <2>5, <2>6
  <2>2. p[i] = q[k] /\ e[i] = t[Len(t) - i + 1]
    BY <1>3, <1>4, <2>1
  <2> HIDE DEF k
  <2> QED BY <1>2, <2>1, <2>2
<1>6. IsPrefix(p, e)
  BY <1>1, <1>3, <1>4, <1>5, PrefixIs DEF Paths
<1> QED BY <1>6 DEF IsSuffix, p, e

\* The longest known suffix is a trail.
LEMMA SuffixTyped ==
  ASSUME NEW index, NEW observation \in Paths
  PROVE  LongestKnownSuffix(index, observation) \in Paths
<1> DEFINE known == {n \in 1..Len(observation) :
                       ExactWitnesses(index, SubSeq(observation, n, Len(observation))) # {}}
<1>1. CASE known = {}
  BY <1>1 DEF LongestKnownSuffix, Paths
<1>2. CASE known # {}
  <2>1. Len(observation) \in Nat /\ known \subseteq 1..Len(observation)
    BY DEF Paths
  <2>2. LongestKnownSuffix(index, observation) = SubSeq(observation, Min(known), Len(observation))
    BY <1>2 DEF LongestKnownSuffix
  <2> HIDE DEF known
  <2>3. Min(known) \in known
    BY <1>2, <2>1, MinExists
  <2> DEFINE n == Min(known)
  <2> HIDE DEF n
  <2>4. n \in 1..Len(observation)
    BY <2>1, <2>3 DEF n
  <2>5. SubSeq(observation, n, Len(observation)) \in Paths
    BY <2>1, <2>4 DEF Paths
  <2> QED BY <2>2, <2>5 DEF n
<1> QED BY <1>1, <1>2

\* Recovery joins no two occurrences, whatever the state it began.
Unstitched(index, from) ==
  /\ \A w \in WitnessesOf(from.active) :
        from.reason \in {"recovered-single-branch", "recovered-competing-outcomes"} =>
          /\ SubSeq(index[w[1]].addresses, w[2] - Len(from.seed) + 1, w[2]) = from.seed
          /\ \A s \in Starts(from.seed, index[w[1]].addresses) : s + Len(from.seed) - 1 <= w[2]
  /\ from.reason = "recovery-matched-terminal" =>
        \A i \in from.terminals : IsSuffix(from.seed, index[i].addresses)

\* What a recovery follows: the places that hold the seed, and where each last does.
HoldersOf(index, seed) == {i \in DOMAIN index : Starts(seed, index[i].addresses) # {}}
LastEnd(index, seed) ==
  [i \in DOMAIN index |-> Max(Starts(seed, index[i].addresses)) + Len(seed) - 1]
OnFrom(index, seed, steps) ==
  [i \in DOMAIN index |-> Continuation(index[i].addresses, LastEnd(index, seed)[i], steps)]

\* Where a recovery takes up a trajectory, and that one that has nothing to go on
\* with ends there.
LEMMA HoldersEnd ==
  ASSUME NEW index \in Seq(Rows), NEW seed \in Paths, seed # <<>>, NEW steps \in Nat \ {0},
         NEW i \in HoldersOf(index, seed)
  PROVE  LET t == index[i].addresses
             a == LastEnd(index, seed)[i]
         IN /\ a \in 1..Len(t)
            /\ SubSeq(t, a - Len(seed) + 1, a) = seed
            /\ \A s \in Starts(seed, t) : s + Len(seed) - 1 <= a
            /\ OnFrom(index, seed, steps)[i] = Continuation(t, a, steps)
            /\ OnFrom(index, seed, steps)[i] \in Paths
            /\ OnFrom(index, seed, steps)[i] = <<>> => IsSuffix(seed, t)
<1> DEFINE t == index[i].addresses
           a == LastEnd(index, seed)[i]
           after == OnFrom(index, seed, steps)[i]
<1>1. i \in DOMAIN index /\ t \in Paths /\ Starts(seed, t) # {}
  <2>1. i \in DOMAIN index /\ index[i] \in Rows
    BY DEF HoldersOf
  <2> QED BY <2>1 DEF HoldersOf, Rows
<1>2. a = Max(Starts(seed, t)) + Len(seed) - 1
  BY <1>1 DEF LastEnd
<1>3. after = Continuation(t, a, steps)
  BY <1>1 DEF OnFrom
<1> HIDE DEF t, a, after
<1>4. /\ a \in 1..Len(t) /\ a - Len(seed) + 1 \in 1..Len(t)
      /\ SubSeq(t, a - Len(seed) + 1, a) = seed
      /\ \A s \in Starts(seed, t) : s + Len(seed) - 1 <= a
  BY <1>1, <1>2, LastStart
<1>5. a \in 0..Len(t) /\ steps \in Nat
  BY <1>4
<1>6. after \in Paths /\ Len(after) = IF a + steps > Len(t) THEN Len(t) - a ELSE steps
  BY <1>1, <1>3, <1>5, ContinuationIs
<1>7. ASSUME after = <<>> PROVE IsSuffix(seed, t)
  <2>1. Len(after) = 0 /\ Len(t) \in Nat /\ Len(seed) \in Nat
    BY <1>1, <1>7 DEF Paths
  <2>4. ~(a + steps > Len(t)) => Len(after) = steps
    BY <1>6
  <2>5. a + steps > Len(t) => Len(after) = Len(t) - a
    BY <1>6
  <2>6. a \in Nat /\ a <= Len(t)
    BY <1>4, <2>1
  <2>2. a = Len(t)
    BY <2>1, <2>4, <2>5, <2>6
  <2> DEFINE m == a - Len(seed) + 1
  <2>3. m \in 1..Len(t) /\ m + Len(seed) - 1 = Len(t) /\ SubSeq(t, m, Len(t)) = seed
    BY <1>4, <2>1, <2>2
  <2> HIDE DEF m
  <2> QED BY <1>1, <2>3, EndsWith
<1> QED BY <1>3, <1>4, <1>6, <1>7 DEF t, a, after

\* recover_addresses begins right, and joins nothing.
LEMMA RecoveredRight ==
  ASSUME NEW index \in Seq(Rows), NEW observation \in Paths, NEW steps \in Nat \ {0}
  PROVE  /\ BeginsRight(index, Recovered(index, observation, steps), steps)
         /\ Unstitched(index, Recovered(index, observation, steps))
<1> DEFINE seed == LongestKnownSuffix(index, observation)
           K == HoldersOf(index, seed)
           anchor == LastEnd(index, seed)
           after == OnFrom(index, seed, steps)
           witnesses == ExactWitnesses(index, seed)
           on(w) == Continuation(index[w[1]].addresses, w[2], steps)
           terminals == {w[1] : w \in {v \in witnesses : on(v) = <<>>}}
           going == {ActiveBranch({w \in witnesses : on(w) = c}, c) :
                        c \in {on(w) : w \in witnesses} \ {<<>>}}
           none == BranchState(observation, {}, {}, FALSE, "recovery-no-occurrence")
           over == BranchState(seed, {}, {}, TRUE, "recovery-limit-exceeded")
           why == CASE going = {} -> "recovery-matched-terminal"
                    [] Outcomes(going, terminals) > 1 -> "recovered-competing-outcomes"
                    [] OTHER -> "recovered-single-branch"
           found == BranchState(seed, going, terminals, FALSE, why)
           r == Recovered(index, observation, steps)
<1>1. \/ r = none \/ r = over
      \/ r = found /\ seed # <<>>
  BY DEF Recovered
<1>2. ASSUME NEW s, NEW b, NEW reason, reason \notin RecoveryReasons
      PROVE  /\ BeginsRight(index, BranchState(s, {}, {}, b, reason), steps)
             /\ Unstitched(index, BranchState(s, {}, {}, b, reason))
  <2> DEFINE from == BranchState(s, {}, {}, b, reason)
  <2>1. BeginsRight(index, from, steps)
    <3>1. \A i \in {} : FALSE
      OBVIOUS
    <3> QED BY DEF BranchState, BeginsRight, IsState, WitnessesOf, Apart
  <2>2. from.reason = reason
    BY DEF BranchState
  <2> HIDE DEF from
  <2>3. Unstitched(index, from)
    BY <1>2, <2>2 DEF Unstitched, RecoveryReasons
  <2> QED BY <2>1, <2>3 DEF from
<1>3. CASE r = none
  <2>1. "recovery-no-occurrence" \notin RecoveryReasons
    BY DEF RecoveryReasons
  <2> QED BY <1>2, <1>3, <2>1
<1>4. CASE r = over
  <2>1. "recovery-limit-exceeded" \notin RecoveryReasons
    BY DEF RecoveryReasons
  <2> QED BY <1>2, <1>4, <2>1
<1>5. CASE r = found /\ seed # <<>>
  <2>1. seed \in Paths
    BY SuffixTyped
  <2>2. K \in SUBSET DOMAIN index
    BY DEF HoldersOf
  <2>3. \A i \in K : /\ anchor[i] \in 1..Len(index[i].addresses)
                     /\ after[i] = Continuation(index[i].addresses, anchor[i], steps)
                     /\ after[i] \in Paths
    BY <1>5, <2>1, HoldersEnd
  <2>4. \A i \in K : /\ SubSeq(index[i].addresses, anchor[i] - Len(seed) + 1, anchor[i]) = seed
                     /\ \A s \in Starts(seed, index[i].addresses) : s + Len(seed) - 1 <= anchor[i]
                     /\ after[i] = <<>> => IsSuffix(seed, index[i].addresses)
    BY <1>5, <2>1, HoldersEnd
  <2>5. witnesses = {<<i, anchor[i]>> : i \in K}
    BY DEF ExactWitnesses, HoldersOf, LastEnd
  <2>6. \A i \in K : on(<<i, anchor[i]>>) = after[i]
    BY <2>3
  <2> HIDE DEF seed, K, anchor, after, witnesses
  <2>17. \A w \in witnesses : w[1] \in K /\ w = <<w[1], anchor[w[1]]>> /\ on(w) = after[w[1]]
    <3> SUFFICES ASSUME NEW w \in witnesses
                 PROVE  w[1] \in K /\ w = <<w[1], anchor[w[1]]>> /\ on(w) = after[w[1]]
      OBVIOUS
    <3>1. PICK i \in K : w = <<i, anchor[i]>>
      BY <2>5
    <3> HIDE DEF on
    <3> QED BY <2>6, <3>1
  <2>18. \A i \in K : <<i, anchor[i]>> \in witnesses /\ <<i, anchor[i]>>[1] = i
    BY <2>5
  <2> HIDE DEF on
  <2>7. terminals = {i \in K : after[i] = <<>>}
    <3>1. ASSUME NEW i \in terminals PROVE i \in K /\ after[i] = <<>>
      <4>1. PICK w \in witnesses : on(w) = <<>> /\ i = w[1]
        BY <3>1
      <4> QED BY <2>17, <4>1
    <3>2. ASSUME NEW i \in K, after[i] = <<>> PROVE i \in terminals
      <4> DEFINE w == <<i, anchor[i]>>
      <4>1. w \in witnesses /\ on(w) = <<>> /\ w[1] = i
        BY <2>6, <2>18, <3>2
      <4> HIDE DEF w
      <4> QED BY <4>1
    <3> HIDE DEF terminals
    <3> QED BY <3>1, <3>2
  <2>8. {on(w) : w \in witnesses} = {after[i] : i \in K}
    <3>1. ASSUME NEW c \in {on(w) : w \in witnesses} PROVE c \in {after[i] : i \in K}
      BY <2>17
    <3>2. ASSUME NEW i \in K PROVE after[i] \in {on(w) : w \in witnesses}
      BY <2>6, <2>18
    <3> QED BY <3>1, <3>2
  <2>9. ASSUME NEW c
        PROVE  {w \in witnesses : on(w) = c} = {<<i, anchor[i]>> : i \in {j \in K : after[j] = c}}
    BY <2>5, <2>6
  <2>10. going = Split(K, anchor, after)
    <3> DEFINE C == {after[i] : i \in K} \ {<<>>}
               X(c) == ActiveBranch({w \in witnesses : on(w) = c}, c)
               Y(c) == ActiveBranch({<<i, anchor[i]>> : i \in {j \in K : after[j] = c}}, c)
    <3>1. \A c : X(c) = Y(c)
      BY <2>9
    <3>2. going = {X(c) : c \in C} /\ Split(K, anchor, after) = {Y(c) : c \in C}
      BY <2>8 DEF Split
    <3> HIDE DEF X, Y, C
    <3> QED BY <3>1, <3>2
  <2> HIDE DEF terminals, going, why
  <2>11. BeginsRight(index, found, steps)
    BY <2>2, <2>3, <2>7, <2>10, SplitBegins
  <2>12. /\ found.active = going /\ found.terminals = terminals /\ found.seed = seed
    BY DEF BranchState
  <2>13. \A b \in going : \A w \in b.witnesses : w[1] \in K /\ w[2] = anchor[w[1]]
    <3> SUFFICES ASSUME NEW b \in going, NEW w \in b.witnesses
                 PROVE  w[1] \in K /\ w[2] = anchor[w[1]]
      OBVIOUS
    <3>1. PICK c : b = ActiveBranch({<<i, anchor[i]>> : i \in {j \in K : after[j] = c}}, c)
      BY <2>10 DEF Split
    <3>2. b.witnesses = {<<i, anchor[i]>> : i \in {j \in K : after[j] = c}}
      BY <3>1 DEF ActiveBranch
    <3>3. PICK i \in K : w = <<i, anchor[i]>>
      BY <3>2
    <3> QED BY <3>3
  <2> HIDE DEF found
  <2>14. Unstitched(index, found)
    BY <2>4, <2>7, <2>12, <2>13 DEF Unstitched, WitnessesOf
  <2> HIDE DEF r
  <2>15. r = found
    BY <1>5 DEF found, why, going, terminals, seed, witnesses
  <2> QED BY <2>11, <2>14, <2>15 DEF r
<1> HIDE DEF r, none, over, found
<1> QED BY <1>1, <1>3, <1>4, <1>5 DEF r

-----------------------------------------------------------------------------
(* The invariant of a branch state, and that the moves of the index and of *)
(* the caller keep it.                                                     *)

BranchInv ==
  /\ IndexTyped
  /\ started = [from |-> started.from, steps |-> started.steps, heard |-> started.heard]
  /\ started.heard \in Paths
  /\ started.steps \in Nat
  /\ started.steps = 0 => state = NoState
  /\ BeginsRight(trajectories, started.from, started.steps)
  /\ Unstitched(trajectories, started.from)
  /\ Follows(trajectories, started.from, started.steps, state, started.heard)

\* All that is said of a state stays true while the index grows.
LEMMA StillRight ==
  ASSUME NEW index, NEW later, DOMAIN index \subseteq DOMAIN later,
         \A i \in DOMAIN index : later[i] = index[i],
         NEW from, NEW steps, BeginsRight(index, from, steps)
  PROVE  /\ BeginsRight(later, from, steps)
         /\ Unstitched(index, from) => Unstitched(later, from)
         /\ \A s, heard : Follows(index, from, steps, s, heard) => Follows(later, from, steps, s, heard)
<1>1. \A w \in WitnessesOf(from.active) : w[1] \in DOMAIN index
  BY DEF BeginsRight, WitnessesOf
<1>2. \A w \in WitnessesOf(from.active) : After(later, w, steps) = After(index, w, steps)
  BY <1>1 DEF After
<1>3. \A b \in from.active : \A w \in b.witnesses : w \in WitnessesOf(from.active)
  BY DEF WitnessesOf
<1>4. from.terminals \subseteq DOMAIN index
  BY DEF BeginsRight
<1>5. \A b \in from.active : \A w \in b.witnesses :
         /\ w[1] \in DOMAIN later /\ w[2] \in 1..Len(later[w[1]].addresses)
         /\ After(later, w, steps) = b.remaining
  <2> SUFFICES ASSUME NEW b \in from.active, NEW w \in b.witnesses
               PROVE  /\ w[1] \in DOMAIN later /\ w[2] \in 1..Len(later[w[1]].addresses)
                      /\ After(later, w, steps) = b.remaining
    OBVIOUS
  <2>1. /\ w[1] \in DOMAIN index /\ w[2] \in 1..Len(index[w[1]].addresses)
        /\ After(index, w, steps) = b.remaining
    BY DEF BeginsRight
  <2>2. later[w[1]] = index[w[1]] /\ w[1] \in DOMAIN later
    BY <2>1
  <2> QED BY <1>2, <1>3, <2>1, <2>2
<1>6. BeginsRight(later, from, steps)
  BY <1>4, <1>5 DEF BeginsRight
<1>7. ASSUME Unstitched(index, from) PROVE Unstitched(later, from)
  BY <1>1, <1>4, <1>7 DEF Unstitched
<1>8. ASSUME NEW s, NEW heard, Narrowed(index, from, steps, s, heard)
      PROVE  Narrowed(later, from, steps, s, heard)
  <2>1. \A b \in s.active : \A w \in b.witnesses : w \in WitnessesOf(from.active)
    BY <1>8 DEF Narrowed, WitnessesOf
  <2>2. {w \in WitnessesOf(from.active) : IsPrefix(heard, After(later, w, steps))}
          = {w \in WitnessesOf(from.active) : IsPrefix(heard, After(index, w, steps))}
    BY <1>2
  <2>3. \A b \in s.active : \A w \in b.witnesses : heard \o b.remaining = After(later, w, steps)
    BY <1>2, <1>8, <2>1 DEF Narrowed
  <2> QED BY <1>8, <2>2, <2>3 DEF Narrowed
<1> QED BY <1>6, <1>7, <1>8 DEF Follows

\* A state follows memory as it begins.
LEMMA FollowsFromStart ==
  ASSUME NEW index, NEW from, NEW steps, BeginsRight(index, from, steps)
  PROVE  Follows(index, from, steps, from, <<>>)
<1>1. \A b \in from.active : \A w \in b.witnesses :
         After(index, w, steps) = b.remaining /\ b.remaining \in Paths
  BY DEF BeginsRight, IsBranch
<1>2. \A e \in Paths : IsPrefix(<<>>, e) /\ <<>> \o e = e
  <2> SUFFICES ASSUME NEW e \in Paths PROVE IsPrefix(<<>>, e) /\ <<>> \o e = e
    OBVIOUS
  <2>1. <<>> \in Paths /\ Len(<<>>) = 0 /\ Len(e) \in Nat
    BY DEF Paths
  <2> DEFINE none == <<>>
  <2>3. none \in Seq(Addresses) /\ e \in Seq(Addresses) /\ Len(none) <= Len(e) /\ 1..Len(none) = {}
    BY <2>1 DEF Paths
  <2> HIDE DEF none
  <2>4. IsPrefix(none, e)
    BY <2>3, PrefixIs
  <2>2. IsPrefix(<<>>, e)
    BY <2>4 DEF none
  <2> QED BY <2>2 DEF Paths
<1>3. WitnessesOf(from.active)
        = {w \in WitnessesOf(from.active) : IsPrefix(<<>>, After(index, w, steps))}
  BY <1>1, <1>2 DEF WitnessesOf
<1>4. \A b \in from.active : \A w \in b.witnesses : <<>> \o b.remaining = After(index, w, steps)
  BY <1>1, <1>2
<1>5. \A b \in from.active : IsBranch(b)
  BY DEF BeginsRight
<1>6. Narrowed(index, from, steps, from, <<>>)
  BY <1>3, <1>4, <1>5 DEF BeginsRight, Narrowed
<1> QED BY <1>6 DEF Follows

\* A new beginning keeps the invariant.
LEMMA StartKeeps ==
  ASSUME BranchInv, UNCHANGED trajectories, NEW s, NEW steps \in Nat \ {0},
         BeginsRight(trajectories, s, steps), Unstitched(trajectories, s), StartFrom(s, steps)
  PROVE  BranchInv'
<1>1. started' = [from |-> s, steps |-> steps, heard |-> <<>>] /\ state' = s
  BY DEF StartFrom
<1>2. started'.from = s /\ started'.steps = steps /\ started'.heard = <<>>
  BY <1>1
<1>3. Follows(trajectories, s, steps, s, <<>>)
  BY FollowsFromStart
<1>4. <<>> \in Paths
  BY DEF Paths
<1>5. trajectories' = trajectories
  OBVIOUS
<1> QED BY <1>1, <1>2, <1>3, <1>4, <1>5 DEF BranchInv, IndexTyped

\* The invariant holds before the first beginning.
LEMMA BranchInit ==
  ASSUME TrajectoriesInit, BranchesInit
  PROVE  BranchInv
<1>1. started = [from |-> NoState, steps |-> 0, heard |-> <<>>] /\ state = NoState
  BY DEF BranchesInit
<1>2. started.from = NoState /\ started.steps = 0 /\ started.heard = <<>>
  BY <1>1
<1>3. BeginsRight(trajectories, NoState, 0) /\ NoState.active = {} /\ NoState.reason = "none"
  BY DEF NoState, BranchState, BeginsRight, IsState, WitnessesOf, Apart
<1>4. Unstitched(trajectories, NoState)
  BY <1>3 DEF Unstitched, WitnessesOf
<1>5. IndexTyped
  BY DEF TrajectoriesInit, IndexTyped
<1>6. <<>> \in Paths
  BY DEF Paths
<1>7. Follows(trajectories, NoState, 0, NoState, <<>>)
  BY <1>3 DEF Follows
<1> QED BY <1>1, <1>2, <1>3, <1>4, <1>5, <1>6, <1>7 DEF BranchInv

\* Ingestion beside a branch state keeps it,
LEMMA IndexKeeps ==
  ASSUME BranchInv, NEW sources \in SUBSET Nat, NEW many, NEW raws \in SUBSET Paths,
         TrajectoriesNext(sources, many, raws), UNCHANGED branchVars
  PROVE  BranchInv'
<1>1. IndexTyped /\ BeginsRight(trajectories, started.from, started.steps)
  BY DEF BranchInv
<1>2. IndexTyped' /\ Grows
  BY <1>1, IndexGrows
<1>3. state' = state /\ started' = started
  BY DEF branchVars
<1>4. /\ BeginsRight(trajectories', started.from, started.steps)
      /\ Unstitched(trajectories, started.from) => Unstitched(trajectories', started.from)
      /\ \A s, heard : Follows(trajectories, started.from, started.steps, s, heard)
                         => Follows(trajectories', started.from, started.steps, s, heard)
  BY <1>1, <1>2, StillRight DEF Grows
<1> QED BY <1>2, <1>3, <1>4 DEF BranchInv, IndexTyped

\* and so do begin_addresses,
LEMMA BeginKeeps ==
  ASSUME BranchInv, NEW raw \in Paths, NEW steps \in Nat \ {0}, Begin(raw, steps)
  PROVE  BranchInv'
<1>1. trajectories \in Seq(Rows)
  BY DEF BranchInv, IndexTyped
<1> DEFINE s == Begun(trajectories, raw, steps)
<1>2. BeginsRight(trajectories, s, steps) /\ s.reason \notin RecoveryReasons
  BY <1>1, BegunRight
<1>3. StartFrom(s, steps) /\ UNCHANGED trajectories
  BY DEF Begin
<1> HIDE DEF s
<1>4. Unstitched(trajectories, s)
  BY <1>2 DEF Unstitched, RecoveryReasons
<1> QED BY <1>2, <1>3, <1>4, StartKeeps

\* recover_addresses
LEMMA RecoverKeeps ==
  ASSUME BranchInv, NEW raw \in Paths, Recover(raw)
  PROVE  BranchInv'
<1>1. trajectories \in Seq(Rows) /\ started.steps \in Nat \ {0}
  BY DEF BranchInv, IndexTyped, Recover
<1>2. Collapsed(raw) \in Paths
  BY CollapsedTyped
<1> DEFINE s == Recovered(trajectories, Collapsed(raw), started.steps)
<1>3. BeginsRight(trajectories, s, started.steps) /\ Unstitched(trajectories, s)
  BY <1>1, <1>2, RecoveredRight
<1>4. StartFrom(s, started.steps) /\ UNCHANGED trajectories
  BY DEF Recover
<1> HIDE DEF s
<1> DEFINE steps == started.steps
<1>5. steps \in Nat \ {0} /\ BeginsRight(trajectories, s, steps) /\ StartFrom(s, steps)
  BY <1>1, <1>3, <1>4
<1> HIDE DEF steps
<1> QED BY <1>3, <1>4, <1>5, StartKeeps

\* and observe_addresses.
LEMMA ObserveKeeps ==
  ASSUME BranchInv, NEW raw \in Paths, Observe(raw)
  PROVE  BranchInv'
<1> DEFINE h == Onto(started.heard, Collapsed(raw))
<1>1. /\ started = [from |-> started.from, steps |-> started.steps, heard |-> started.heard]
      /\ started' = [started EXCEPT !.heard = Onto(@, Collapsed(raw))]
      /\ state' = ObservedAddresses(state, raw)
      /\ trajectories' = trajectories /\ state # NoState
  BY DEF Observe, BranchInv
<1>2. started' = [started EXCEPT !.heard = h]
  BY <1>1
<1>3. /\ h \in Paths
      /\ Follows(trajectories, started.from, started.steps, ObservedAddresses(state, raw), h)
  BY ObserveAll DEF BranchInv
<1> HIDE DEF h
<1>4. /\ started' = [from |-> started.from, steps |-> started.steps, heard |-> h]
      /\ started'.from = started.from /\ started'.steps = started.steps /\ started'.heard = h
  BY <1>1, <1>2
<1>5. started.steps # 0
  BY <1>1 DEF BranchInv
<1> QED BY <1>1, <1>3, <1>4, <1>5 DEF BranchInv, IndexTyped

\* Every move of a caller or of the index keeps it.
LEMMA BranchStep ==
  ASSUME BranchInv, NEW sources \in SUBSET Nat, NEW many, NEW raws \in SUBSET Paths,
         BranchesNext(sources, many, raws)
  PROVE  BranchInv'
<1>1. \A n \in Nat : Trails(n) \subseteq Paths
  BY TrailsTyped
<1>6. MaxSeed \in Nat /\ MaxObserved \in Nat /\ StepLimits \subseteq Nat \ {0}
  BY BranchParameters
<1>2. CASE TrajectoriesNext(sources, many, raws) /\ UNCHANGED branchVars
  BY <1>2, IndexKeeps
<1>3. CASE \E raw \in Trails(MaxSeed), n \in StepLimits : Begin(raw, n)
  BY <1>1, <1>3, <1>6, BeginKeeps
<1>4. CASE \E raw \in Trails(2) : Observe(raw)
  BY <1>1, <1>4, ObserveKeeps
<1>5. CASE \E raw \in Trails(MaxObserved) : Recover(raw)
  BY <1>1, <1>5, <1>6, RecoverKeeps
<1> QED BY <1>2, <1>3, <1>4, <1>5 DEF BranchesNext

-----------------------------------------------------------------------------
(* What the invariant says of narrowing, of recovery and of the futures.   *)

\* What the invariant says of narrowing,
LEMMA Exactly ==
  ASSUME BranchInv
  PROVE  NarrowingIsExact
<1> DEFINE from == started.from
<1>1. Follows(trajectories, from, started.steps, state, started.heard)
  BY DEF BranchInv
<1>2. ASSUME from.active # {}
      PROVE  /\ UNION {b.witnesses : b \in state.active}
                  = {w \in Hypotheses : IsPrefix(started.heard, Expected(w))}
             /\ \A b \in state.active : \A w \in b.witnesses :
                    started.heard \o b.remaining = Expected(w)
             /\ state.terminals = IF started.heard = <<>> THEN from.terminals ELSE {}
             /\ state.eliminated = (Supporters(from.active) \cup from.terminals)
                                     \ (Supporters(state.active) \cup state.terminals)
  <2>1. Narrowed(trajectories, from, started.steps, state, started.heard)
    BY <1>1, <1>2 DEF Follows
  <2> QED BY <2>1 DEF Narrowed, WitnessesOf, Hypotheses, Expected, After
<1> QED BY <1>2 DEF NarrowingIsExact

\* of recovery,
LEMMA Unjoined ==
  ASSUME BranchInv
  PROVE  RecoveryDoesNotStitch
BY DEF BranchInv, Unstitched, RecoveryDoesNotStitch, WitnessesOf, Hypotheses

\* of where the occurrence of a branch stands now,
LEMMA BranchStands ==
  ASSUME BranchInv, NEW b \in state.active, NEW w \in b.witnesses
  PROVE  LET t == trajectories[w[1]].addresses
             n == Len(started.heard)
         IN /\ w \in Hypotheses /\ w[1] \in DOMAIN trajectories /\ t \in Paths
            /\ w[2] \in 1..Len(t) /\ b.remaining \in Paths
            /\ b.remaining # <<>> => t[w[2] + n + 1] = Head(b.remaining)
            /\ b.remaining = <<>> => n = started.steps \/ w[2] + n = Len(t)
<1> DEFINE from == started.from
           heard == started.heard
           steps == started.steps
           t == trajectories[w[1]].addresses
           n == Len(heard)
           e == After(trajectories, w, steps)
           r == b.remaining
<1>1. /\ BeginsRight(trajectories, from, steps) /\ heard \in Paths /\ steps \in Nat
      /\ Follows(trajectories, from, steps, state, heard) /\ IndexTyped
  BY DEF BranchInv
<1>2. CASE from.active = {}
  <2>1. state = from
    BY <1>1, <1>2 DEF Follows
  <2> QED BY <1>2, <2>1
<1>3. CASE from.active # {}
  <2>1. Narrowed(trajectories, from, steps, state, heard)
    BY <1>1, <1>3 DEF Follows
  <2>2. /\ w \in WitnessesOf(from.active) /\ IsBranch(b) /\ heard \o r = e
    BY <2>1 DEF Narrowed, WitnessesOf
  <2>3. r \in Paths
    BY <2>2 DEF IsBranch
  <2>4. w[1] \in DOMAIN trajectories /\ w[2] \in 1..Len(t)
    BY <1>1, <2>2 DEF BeginsRight, WitnessesOf
  <2>5. trajectories[w[1]] \in Rows
    BY <1>1, <2>4 DEF IndexTyped
  <2>6. t \in Paths
    BY <2>5 DEF Rows
  <2>7. w \in Hypotheses
    BY <2>2 DEF Hypotheses, WitnessesOf
  <2> DEFINE a == w[2]
  <2>8. e = Continuation(t, a, steps)
    BY DEF After
  <2> HIDE DEF from, heard, steps, t, e, r, a
  <2>9. /\ e \in Paths
        /\ Len(e) = IF a + steps > Len(t) THEN Len(t) - a ELSE steps
        /\ \A k \in 1..Len(e) : e[k] = t[a + k]
    <3>1. a \in 0..Len(t)
      BY <2>4 DEF a
    <3> QED BY <1>1, <2>6, <2>8, <3>1, ContinuationIs
  <2>10. /\ Len(e) = n + Len(r) /\ Len(r) \in Nat /\ n \in Nat /\ Len(t) \in Nat /\ a \in Nat
         /\ \A k \in 1..Len(r) : e[n + k] = r[k]
    <3>1. Len(r) \in Nat /\ n \in Nat /\ Len(t) \in Nat /\ a \in Nat
      BY <1>1, <2>3, <2>4, <2>6 DEF Paths, a
    <3>2. heard \in Seq(Addresses) /\ r \in Seq(Addresses)
      BY <1>1, <2>3 DEF Paths
    <3>3. Len(heard \o r) = n + Len(r) /\ \A k \in 1..Len(r) : (heard \o r)[n + k] = r[k]
      BY <3>2, JoinedIs
    <3> QED BY <2>2, <3>1, <3>3
  <2>11. ASSUME r # <<>> PROVE t[a + n + 1] = Head(r)
    <3>1. Len(r) # 0 /\ Head(r) = r[1]
      BY <2>3, <2>11 DEF Paths
    <3>2. 1 \in 1..Len(r) /\ n + 1 \in 1..Len(e) /\ a + (n + 1) = a + n + 1
      BY <2>10, <3>1
    <3>3. e[n + 1] = r[1] /\ e[n + 1] = t[a + (n + 1)]
      BY <2>9, <2>10, <3>2
    <3> QED BY <3>1, <3>2, <3>3
  <2>12. ASSUME r = <<>> PROVE n = steps \/ a + n = Len(t)
    <3>1. Len(r) = 0
      BY <2>12
    <3>2. Len(e) = n
      BY <2>10, <3>1
    <3>3. n = steps \/ n = Len(t) - a
      BY <2>9, <3>2
    <3> QED BY <2>10, <3>3
  <2> QED BY <2>3, <2>4, <2>6, <2>7, <2>11, <2>12 DEF from, heard, steps, t, r, a
<1> QED BY <1>2, <1>3

\* and of the futures a state exposes.
LEMMA Stored ==
  ASSUME BranchInv
  PROVE  FuturesAreStored
<1> DEFINE open == {b \in state.active : b.remaining # <<>>}
           ended == state.terminals \cup Supporters(state.active \ open)
           support(a) == Supporters({b \in open : Head(b.remaining) = a})
           next == {[address |-> a, support |-> support(a)] : a \in {Head(b.remaining) : b \in open}}
           p == TemporalPossibilities(state)
           n == Len(started.heard)
<1>1. p.next = {} \/ p.next = next
  BY DEF TemporalPossibilities
<1>2. p.ended = {} \/ p.ended = ended
  BY DEF TemporalPossibilities
<1>3. state.terminals \subseteq started.from.terminals
  <2>1. Follows(trajectories, started.from, started.steps, state, started.heard)
    BY DEF BranchInv
  <2>2. state = started.from
        \/ Narrowed(trajectories, started.from, started.steps, state, started.heard)
    BY <2>1 DEF Follows
  <2> QED BY <2>2 DEF Narrowed
<1> HIDE DEF p, n
<1>4. ASSUME NEW f \in p.next, NEW i \in f.support
      PROVE  \E w \in Hypotheses :
                w[1] = i /\ trajectories[i].addresses[w[2] + n + 1] = f.address
  <2>1. PICK a : f = [address |-> a, support |-> support(a)]
    BY <1>1, <1>4
  <2>2. i \in support(a) /\ f.address = a
    BY <1>4, <2>1
  <2>3. PICK b \in open : Head(b.remaining) = a /\ i \in {w[1] : w \in b.witnesses}
    BY <2>2 DEF Supporters
  <2>4. PICK w \in b.witnesses : i = w[1]
    BY <2>3
  <2>5. b \in state.active /\ b.remaining # <<>>
    BY <2>3
  <2>6. w \in Hypotheses /\ trajectories[w[1]].addresses[w[2] + n + 1] = Head(b.remaining)
    BY <2>4, <2>5, BranchStands DEF n
  <2> QED BY <2>2, <2>3, <2>4, <2>6
<1>5. ASSUME NEW i \in p.ended, i \notin started.from.terminals
      PROVE  \E w \in Hypotheses :
                /\ w[1] = i
                /\ n = started.steps \/ w[2] + n = Len(trajectories[i].addresses)
  <2>1. i \in Supporters(state.active \ open)
    BY <1>2, <1>3, <1>5
  <2>2. PICK b \in state.active \ open : i \in {w[1] : w \in b.witnesses}
    BY <2>1 DEF Supporters
  <2>3. PICK w \in b.witnesses : i = w[1]
    BY <2>2
  <2>4. b \in state.active /\ b.remaining = <<>>
    BY <2>2
  <2>5. w \in Hypotheses /\ (n = started.steps \/ w[2] + n = Len(trajectories[w[1]].addresses))
    BY <2>3, <2>4, BranchStands DEF n
  <2> QED BY <2>3, <2>5
<1>6. (\A f \in p.next, i \in Supporters(state.active) : i \in f.support =>
              \E w \in Hypotheses : w[1] = i /\
                  trajectories[i].addresses[w[2] + n + 1] = f.address)
      /\ \A i \in p.ended : i \in started.from.terminals \/
              \E w \in Hypotheses :
                  /\ w[1] = i
                  /\ \/ n = started.steps
                     \/ w[2] + n = Len(trajectories[i].addresses)
  BY <1>4, <1>5
<1> QED BY <1>6 DEF FuturesAreStored, p, n

-----------------------------------------------------------------------------
(* The branch states of any index, and of the machine of MCCognition.      *)

\* Whatever is begun, observed and recovered, in any order, while other callers
\* ingest any trails from any sources: the branches left are exactly the occurrences
\* that agree with all that was heard, the others are eliminated, a recovery joins
\* no two occurrences, and every future exposed is one stored
\* (DynamicStructuralBranchResolverV2), for any addresses, steps and limits.
THEOREM BranchesFollow ==
  ASSUME NEW sources \in SUBSET Nat, NEW many, NEW raws \in SUBSET Paths
  PROVE  TrajectoriesInit /\ BranchesInit
           /\ [][BranchesNext(sources, many, raws)]_<<trajectories, branchVars>>
         => []BranchesFollowMemory
<1>1. TrajectoriesInit /\ BranchesInit => BranchInv
  BY BranchInit
<1>2. BranchInv /\ [BranchesNext(sources, many, raws)]_<<trajectories, branchVars>> => BranchInv'
  <2> SUFFICES ASSUME BranchInv, [BranchesNext(sources, many, raws)]_<<trajectories, branchVars>>
               PROVE  BranchInv'
    OBVIOUS
  <2>1. CASE BranchesNext(sources, many, raws)
    BY <2>1, BranchStep
  <2>2. CASE UNCHANGED <<trajectories, branchVars>>
    BY <2>2 DEF branchVars, BranchInv, IndexTyped, Follows, Unstitched
  <2> QED BY <2>1, <2>2
<1>3. BranchInv => BranchesFollowMemory
  BY Exactly, Unjoined, Stored DEF BranchesFollowMemory
<1> QED BY <1>1, <1>2, <1>3, PTL

BranchesHold == focus = "branches" => BranchInv

\* So it is in the machine of MCCognition, where branch states are one focus.
THEOREM BranchesAlwaysExact == Spec => []BranchesAreExact
<1>1. Init => BranchesHold
  BY BranchInit DEF Init, BranchesHold
<1>2. BranchesHold /\ [Next]_<<focus, cognitionVars>> => BranchesHold'
  <2> SUFFICES ASSUME BranchesHold, [Next]_<<focus, cognitionVars>> PROVE BranchesHold'
    OBVIOUS
  <2>1. CASE BranchesMove
    <3>1. focus = "branches" /\ BranchInv /\ BranchesNext({1}, 2, Trails(3))
      BY <2>1 DEF BranchesMove, BranchesHold
    <3>3. {1} \in SUBSET Nat /\ Trails(3) \in SUBSET Paths
      BY TrailsTyped
    <3>2. BranchInv'
      BY <3>1, <3>3, BranchStep
    <3> QED BY <3>2 DEF BranchesHold
  <2>2. CASE LayersMove
    BY <2>2 DEF LayersMove, Others, BranchesHold
  <2>3. CASE FieldMoves
    BY <2>3 DEF FieldMoves, Others, BranchesHold
  <2>4. CASE ContinuousMoves
    BY <2>4 DEF ContinuousMoves, Others, BranchesHold
  <2>5. CASE QueriesMove
    BY <2>5 DEF QueriesMove, Others, BranchesHold
  <2>6. CASE LevelsMove
    BY <2>6 DEF LevelsMove, Others, BranchesHold
  <2>7. CASE InferenceMoves
    BY <2>7 DEF InferenceMoves, Others, BranchesHold
  <2>8. CASE UNCHANGED <<focus, cognitionVars>>
    BY <2>8 DEF cognitionVars, branchVars, BranchesHold, BranchInv, IndexTyped, Follows, Unstitched
  <2> QED BY <2>1, <2>2, <2>3, <2>4, <2>5, <2>6, <2>7, <2>8 DEF Next
<1>3. BranchesHold => BranchesAreExact
  BY Exactly, Unjoined, Stored DEF BranchesHold, BranchesAreExact, BranchesFollowMemory
<1> QED BY <1>1, <1>2, <1>3, PTL DEF Spec

-----------------------------------------------------------------------------
(* Equivalent beginnings: the witnesses, and what a pair is judged by.     *)

\* The image of a finite set is finite, and no larger.
LEMMA ImageFinite ==
  ASSUME NEW S, IsFiniteSet(S), NEW f
  PROVE  /\ IsFiniteSet({f[x] : x \in S})
         /\ Cardinality({f[x] : x \in S}) <= Cardinality(S)
<1> DEFINE T == {f[x] : x \in S}
           g == [x \in S |-> f[x]]
<1>1. g \in Surjection(S, T)
  BY DEF Surjection
<1> HIDE DEF g, T
<1>2. IsFiniteSet(T) /\ Cardinality(T) <= Cardinality(S)
  BY <1>1, FS_Surjection
<1> QED BY <1>2 DEF T

\* So it is for places of a sequence.
LEMMA FewAre ==
  ASSUME NEW n \in Nat, NEW S \in SUBSET (1..n), NEW f
  PROVE  /\ IsFiniteSet(S) /\ Cardinality(S) \in Nat /\ Cardinality(S) <= n
         /\ IsFiniteSet({f[i] : i \in S})
         /\ Cardinality({f[i] : i \in S}) \in Nat /\ Cardinality({f[i] : i \in S}) <= n
<1>1. IsFiniteSet(1..n) /\ Cardinality(1..n) = n
  <2>1. 1 \in Int /\ n \in Int
    OBVIOUS
  <2>2. Cardinality(1..n) = IF 1 > n THEN 0 ELSE n - 1 + 1
    BY <2>1, FS_Interval
  <2>3. IsFiniteSet(1..n)
    BY <2>1, FS_Interval
  <2> QED BY <2>2, <2>3
<1>2. IsFiniteSet(S) /\ Cardinality(S) <= n
  BY <1>1, FS_Subset
<1>3. Cardinality(S) \in Nat
  BY <1>2, FS_CardinalityType
<1> DEFINE T == {f[i] : i \in S}
<1>4. IsFiniteSet(T) /\ Cardinality(T) <= Cardinality(S)
  BY <1>2, ImageFinite
<1> HIDE DEF T
<1>5. Cardinality(T) \in Nat
  BY <1>4, FS_CardinalityType
<1>6. Cardinality(T) <= n
  BY <1>2, <1>3, <1>4, <1>5
<1> QED BY <1>2, <1>3, <1>4, <1>5, <1>6 DEF T

\* The views are those of the trajectories long enough for a bridge.
LEMMA ViewsOf ==
  ASSUME NEW index
  PROVE  /\ DOMAIN OccurrenceViews(index)
              = {j \in DOMAIN index : Len(index[j].addresses) >= MinBridge + 2}
         /\ \A i \in DOMAIN OccurrenceViews(index) : OccurrenceViews(index)[i] = View(index[i])
BY DEF OccurrenceViews

\* Every witness there is.
AllPairs(index) ==
  LET views == OccurrenceViews(index)
  IN {w \in (DOMAIN views) \X (DOMAIN views) :
         /\ views[w[1]].bridge = views[w[2]].bridge
         /\ views[w[1]].signature # views[w[2]].signature
         /\ views[w[1]].lineage # views[w[2]].lineage}

\* A limit never adds a witness; without limits the witnesses are all there are.
LEMMA WitnessesAre ==
  ASSUME NEW index \in Seq(Rows)
  PROVE  /\ \A maxBucket, most : Witnesses(index, maxBucket, most) \subseteq AllPairs(index)
         /\ Len(index) < Unlimited => Witnesses(index, Unlimited, Unlimited) = AllPairs(index)
<1> DEFINE views == OccurrenceViews(index)
           D == DOMAIN views
           counted(maxBucket, most) ==
             {i \in D : /\ Cardinality(Bucket(views, views[i].bridge)) <= maxBucket
                        /\ i \in Considered(index, views, views[i].signature, views[i].bridge, most)}
<1>1. \A maxBucket, most :
        Witnesses(index, maxBucket, most)
          = {w \in counted(maxBucket, most) \X counted(maxBucket, most) :
               /\ views[w[1]].bridge = views[w[2]].bridge
               /\ views[w[1]].signature # views[w[2]].signature
               /\ views[w[1]].lineage # views[w[2]].lineage}
  BY DEF Witnesses
<1>2. \A maxBucket, most : counted(maxBucket, most) \subseteq D
  OBVIOUS
<1>3. AllPairs(index) = {w \in D \X D : /\ views[w[1]].bridge = views[w[2]].bridge
                                        /\ views[w[1]].signature # views[w[2]].signature
                                        /\ views[w[1]].lineage # views[w[2]].lineage}
  BY DEF AllPairs
<1>4. D \subseteq 1..Len(index) /\ Len(index) \in Nat
  <2>1. Len(index) \in Nat /\ DOMAIN index = 1..Len(index)
    OBVIOUS
  <2>2. D \subseteq DOMAIN index
    BY ViewsOf
  <2> QED BY <2>1, <2>2
<1>5. ASSUME Len(index) < Unlimited PROVE counted(Unlimited, Unlimited) = D
  <2> SUFFICES ASSUME NEW i \in D
               PROVE  /\ Cardinality(Bucket(views, views[i].bridge)) <= Unlimited
                      /\ i \in Considered(index, views, views[i].signature, views[i].bridge, Unlimited)
    OBVIOUS
  <2> DEFINE n == Len(index)
             same == {j \in D : views[j].bridge = views[i].bridge}
             signature == [j \in D |-> views[j].signature]
             rows == {j \in D : views[j].signature = views[i].signature /\ views[j].bridge = views[i].bridge}
             before(k, j) == \/ views[k].lineage < views[j].lineage
                             \/ /\ views[k].lineage = views[j].lineage
                                /\ index[k].sequence < index[j].sequence
             ahead == {j \in rows : before(j, i)}
  <2>1. n \in Nat /\ n < 1000 /\ Unlimited = 1000
    BY <1>4, <1>5 DEF Unlimited
  <2>2. Bucket(views, views[i].bridge) = {signature[j] : j \in same}
    BY DEF Bucket
  <2>3. same \in SUBSET (1..n) /\ ahead \in SUBSET (1..n)
    BY <1>4
  <2>4. Considered(index, views, views[i].signature, views[i].bridge, Unlimited)
          = {j \in rows : Cardinality({k \in rows : before(k, j)}) < Unlimited}
    BY DEF Considered
  <2>5. i \in rows
    OBVIOUS
  <2> HIDE DEF n, same, signature, D, views
  <2>6. Cardinality({signature[j] : j \in same}) \in Nat /\ Cardinality({signature[j] : j \in same}) <= n
    <3>1. n \in Nat /\ same \in SUBSET (1..n)
      BY <2>1, <2>3
    <3> QED BY ONLY <3>1, FewAre
  <2> HIDE DEF ahead
  <2>7. Cardinality(ahead) \in Nat /\ Cardinality(ahead) <= n
    BY <2>1, <2>3, FewAre
  <2>8. i \in Considered(index, views, views[i].signature, views[i].bridge, Unlimited)
    <3>1. Cardinality(ahead) < Unlimited
      BY <2>1, <2>7
    <3> QED BY <2>4, <2>5, <3>1 DEF ahead
  <2> DEFINE m == Cardinality({signature[j] : j \in same})
  <2>9. Cardinality(Bucket(views, views[i].bridge)) = m
    BY <2>2
  <2> HIDE DEF m
  <2>10. m <= Unlimited
    BY <2>1, <2>6 DEF m
  <2> QED BY <2>8, <2>9, <2>10
<1> HIDE DEF counted, D, views
<1>6. ASSUME NEW maxBucket, NEW most PROVE Witnesses(index, maxBucket, most) \subseteq AllPairs(index)
  BY <1>1, <1>2, <1>3
<1> QED BY <1>1, <1>3, <1>5, <1>6

\* The lineages between which rows of a pair agree, and differ; and the verdict.
Between(index, witnesses, x, y) ==
  LET views == OccurrenceViews(index)
  IN {w \in witnesses : views[w[1]].signature = x /\ views[w[2]].signature = y}
Together(index, witnesses, x, y) ==
  LET views == OccurrenceViews(index)
  IN {w \in Between(index, witnesses, x, y) : views[w[1]].terminal = views[w[2]].terminal}
LineagesOf(index, ws) ==
  LET views == OccurrenceViews(index)
  IN {<<views[w[1]].lineage, views[w[2]].lineage>> : w \in ws}
Apartness(index, witnesses, x, y) ==
  Between(index, witnesses, x, y) \ Together(index, witnesses, x, y)
Judged(c, d) ==
  IF c >= MinLineages /\ c > d THEN "supported"
  ELSE IF d > 0 /\ d >= c THEN "contradicted"
  ELSE IF c > 0 THEN "candidate" ELSE "insufficient"

\* _evaluate_pair in these words.
LEMMA PairIs ==
  ASSUME NEW index, NEW witnesses, NEW x, NEW y
  PROVE  LET r == EvaluatePair(index, witnesses, x, y)
             c == Cardinality(LineagesOf(index, Together(index, witnesses, x, y)))
             d == Cardinality(LineagesOf(index, Apartness(index, witnesses, x, y)))
         IN /\ r.supporting = Together(index, witnesses, x, y)
            /\ r.convergence = c /\ r.divergence = d /\ r.state = Judged(c, d)
BY DEF EvaluatePair, LineagesOf, Together, Apartness, Between, Judged

\* As many pairs as there are pairs turned round.
LEMMA SwappedSame ==
  ASSUME NEW S, IsFiniteSet(S), \A p \in S : p = <<p[1], p[2]>>,
         NEW T, T = {<<p[2], p[1]>> : p \in S}
  PROVE  Cardinality(T) = Cardinality(S)
<1> DEFINE f == [p \in S |-> <<p[2], p[1]>>]
<1>1. f \in [S -> T] /\ \A t \in T : \E p \in S : f[p] = t
  OBVIOUS
<1>2. ASSUME NEW p \in S, NEW q \in S, f[p] = f[q] PROVE p = q
  <2>1. p[1] = q[1] /\ p[2] = q[2]
    BY <1>2
  <2>2. p = <<p[1], p[2]>> /\ q = <<q[1], q[2]>>
    OBVIOUS
  <2> QED BY <2>1, <2>2
<1> HIDE DEF f
<1>3. f \in Bijection(S, T)
  BY <1>1, <1>2 DEF Bijection, Injection, Surjection, IsInjective
<1>4. ExistsBijection(S, T)
  BY <1>3 DEF ExistsBijection
<1> QED BY <1>4, FS_Bijection

\* The lineages of a pair are finitely many.
LEMMA PairsFinite ==
  ASSUME NEW index \in Seq(Rows), NEW ws \in SUBSET AllPairs(index)
  PROVE  /\ IsFiniteSet(LineagesOf(index, ws))
         /\ Cardinality(LineagesOf(index, ws)) \in Nat
<1> DEFINE views == OccurrenceViews(index)
           D == DOMAIN views
           L == {views[i].lineage : i \in D}
           lineage == [i \in D |-> views[i].lineage]
           T == LineagesOf(index, ws)
<1>1. D \in SUBSET (1..Len(index)) /\ Len(index) \in Nat
  <2>1. Len(index) \in Nat /\ DOMAIN index = 1..Len(index)
    OBVIOUS
  <2>2. D \subseteq DOMAIN index
    BY ViewsOf
  <2> QED BY <2>1, <2>2
<1>2. {lineage[i] : i \in D} = L
  OBVIOUS
<1>3. T \subseteq L \X L
  BY DEF LineagesOf, AllPairs
<1> HIDE DEF lineage, L, D, views, T
<1>4. IsFiniteSet(L)
  BY <1>1, <1>2, FewAre
<1>5. IsFiniteSet(L \X L)
  BY <1>4, FS_Product
<1>6. IsFiniteSet(T)
  BY <1>3, <1>5, FS_Subset
<1>7. Cardinality(T) \in Nat
  BY <1>6, FS_CardinalityType
<1> QED BY <1>6, <1>7 DEF T

\* The relation has no direction.
LEMMA RelationMirrors ==
  ASSUME NEW index \in Seq(Rows), NEW x, NEW y
  PROVE  EvaluatePair(index, AllPairs(index), x, y).state
           = EvaluatePair(index, AllPairs(index), y, x).state
<1> DEFINE W == AllPairs(index)
           views == OccurrenceViews(index)
<1>1. ASSUME NEW u, NEW v
      PROVE  /\ LineagesOf(index, Together(index, W, u, v))
                  = {<<p[2], p[1]>> : p \in LineagesOf(index, Together(index, W, v, u))}
             /\ LineagesOf(index, Apartness(index, W, u, v))
                  = {<<p[2], p[1]>> : p \in LineagesOf(index, Apartness(index, W, v, u))}
  <2>1. \A w \in W : w = <<w[1], w[2]>> /\ <<w[2], w[1]>> \in W
    BY DEF AllPairs
  <2>2. ASSUME NEW S, NEW T, \A w \in S : <<w[2], w[1]>> \in T, \A w \in T : <<w[2], w[1]>> \in S
        PROVE  LineagesOf(index, S) = {<<p[2], p[1]>> : p \in LineagesOf(index, T)}
    <3>1. ASSUME NEW e \in LineagesOf(index, S)
          PROVE  \E p \in LineagesOf(index, T) : e = <<p[2], p[1]>>
      <4>1. PICK w \in S : e = <<views[w[1]].lineage, views[w[2]].lineage>>
        BY <3>1 DEF LineagesOf
      <4> DEFINE p == <<views[w[2]].lineage, views[w[1]].lineage>>
      <4>2. p \in LineagesOf(index, T)
        <5> DEFINE z == <<w[2], w[1]>>
        <5>1. z \in T /\ z[1] = w[2] /\ z[2] = w[1]
          BY <2>2
        <5> HIDE DEF z
        <5>2. <<views[z[1]].lineage, views[z[2]].lineage>> \in LineagesOf(index, T)
          BY <5>1 DEF LineagesOf
        <5> QED BY <5>1, <5>2
      <4> QED BY <4>1, <4>2
    <3>2. ASSUME NEW p \in LineagesOf(index, T)
          PROVE  <<p[2], p[1]>> \in LineagesOf(index, S)
      <4>1. PICK w \in T : p = <<views[w[1]].lineage, views[w[2]].lineage>>
        BY <3>2 DEF LineagesOf
      <4> DEFINE z == <<w[2], w[1]>>
      <4>2. z \in S /\ z[1] = w[2] /\ z[2] = w[1]
        BY <2>2
      <4> HIDE DEF z
      <4>3. <<views[z[1]].lineage, views[z[2]].lineage>> \in LineagesOf(index, S)
        BY <4>2 DEF LineagesOf
      <4> QED BY <4>1, <4>2, <4>3
    <3> QED BY <3>1, <3>2
  <2>3. ASSUME NEW a, NEW b, NEW w \in Together(index, W, a, b)
        PROVE  <<w[2], w[1]>> \in Together(index, W, b, a)
    BY <2>1 DEF Together, Between
  <2>4. ASSUME NEW a, NEW b, NEW w \in Apartness(index, W, a, b)
        PROVE  <<w[2], w[1]>> \in Apartness(index, W, b, a)
    BY <2>1 DEF Apartness, Together, Between
  <2> HIDE DEF W, views
  <2>5. LineagesOf(index, Together(index, W, u, v))
          = {<<p[2], p[1]>> : p \in LineagesOf(index, Together(index, W, v, u))}
    BY <2>2, <2>3
  <2>6. LineagesOf(index, Apartness(index, W, u, v))
          = {<<p[2], p[1]>> : p \in LineagesOf(index, Apartness(index, W, v, u))}
    BY <2>2, <2>4
  <2> QED BY <2>5, <2>6
<1>2. /\ Together(index, W, y, x) \in SUBSET AllPairs(index)
      /\ Apartness(index, W, y, x) \in SUBSET AllPairs(index)
  BY DEF Together, Apartness, Between
<1> DEFINE C(u, v) == LineagesOf(index, Together(index, W, u, v))
           E(u, v) == LineagesOf(index, Apartness(index, W, u, v))
<1>3. IsFiniteSet(C(y, x)) /\ IsFiniteSet(E(y, x))
  BY <1>2, PairsFinite
<1>4. (\A p \in C(y, x) : p = <<p[1], p[2]>>) /\ (\A p \in E(y, x) : p = <<p[1], p[2]>>)
  BY DEF LineagesOf
<1>5. /\ C(x, y) = {<<p[2], p[1]>> : p \in C(y, x)}
      /\ E(x, y) = {<<p[2], p[1]>> : p \in E(y, x)}
  BY <1>1
<1>6. /\ EvaluatePair(index, W, x, y).state = Judged(Cardinality(C(x, y)), Cardinality(E(x, y)))
      /\ EvaluatePair(index, W, y, x).state = Judged(Cardinality(C(y, x)), Cardinality(E(y, x)))
  BY PairIs
<1> HIDE DEF C, E, W
<1>7. Cardinality(C(x, y)) = Cardinality(C(y, x)) /\ Cardinality(E(x, y)) = Cardinality(E(y, x))
  BY <1>3, <1>4, <1>5, SwappedSame
<1>8. EvaluatePair(index, W, x, y).state = EvaluatePair(index, W, y, x).state
  BY <1>6, <1>7
<1> QED BY <1>8 DEF W

\* No beginning is equivalent to itself.
LEMMA RelationIsStrict ==
  ASSUME NEW index \in Seq(Rows), NEW x
  PROVE  EvaluatePair(index, AllPairs(index), x, x).state = "insufficient"
<1> DEFINE W == AllPairs(index)
<1>1. Between(index, W, x, x) = {}
  BY DEF Between, AllPairs
<1>2. /\ LineagesOf(index, Together(index, W, x, x)) = {}
      /\ LineagesOf(index, Apartness(index, W, x, x)) = {}
  BY <1>1 DEF Together, Apartness, LineagesOf
<1>3. Judged(0, 0) = "insufficient"
  BY EquivalenceParameters DEF Judged
<1> HIDE DEF W
<1>4. EvaluatePair(index, W, x, x).state = Judged(0, 0)
  BY <1>2, PairIs, FS_EmptySet
<1> QED BY <1>3, <1>4 DEF W

\* One more occurrence of a trajectory changes no relation.
LEMMA ReplayShowsNothing ==
  ASSUME NEW index \in Seq(Rows), NEW i \in DOMAIN index, NEW x, NEW y
  PROVE  LET replayed == Append(index, [index[i] EXCEPT !.sequence = Len(index) + 1])
         IN /\ replayed \in Seq(Rows) /\ Len(replayed) = Len(index) + 1
            /\ EvaluatePair(replayed, AllPairs(replayed), x, y).state
                 = EvaluatePair(index, AllPairs(index), x, y).state
<1> DEFINE n == Len(index)
           again == [index[i] EXCEPT !.sequence = n + 1]
           replayed == Append(index, again)
           views == OccurrenceViews(index)
           more == OccurrenceViews(replayed)
           o == [k \in DOMAIN more |-> IF k = n + 1 THEN i ELSE k]
<1>1. n \in Nat /\ DOMAIN index = 1..n /\ i \in 1..n /\ index[i] \in Rows
  OBVIOUS
<1>2. again \in Rows /\ again.addresses = index[i].addresses /\ again.source = index[i].source
  <2> DEFINE row == index[i]
  <2>1. row = [source |-> row.source, sequence |-> row.sequence, addresses |-> row.addresses]
        /\ row.source \in Nat /\ row.addresses \in Paths /\ n + 1 \in Nat
    BY <1>1 DEF Rows
  <2> HIDE DEF row, n
  <2>2. again = [source |-> row.source, sequence |-> n + 1, addresses |-> row.addresses]
    BY <2>1 DEF row
  <2> HIDE DEF again
  <2>3. again \in Rows
    BY <2>1, <2>2 DEF Rows
  <2> QED BY <2>2, <2>3 DEF row
<1>3. View(again) = View(index[i])
  BY <1>2 DEF View
<1> HIDE DEF again
<1>4. /\ replayed \in Seq(Rows) /\ Len(replayed) = n + 1 /\ replayed[n + 1] = again
      /\ \A k \in 1..n : replayed[k] = index[k]
  BY <1>1, <1>2
<1> HIDE DEF replayed, n
<1>5. DOMAIN replayed = 1..(n + 1)
  BY <1>4
<1>6. \A k \in DOMAIN more : o[k] \in DOMAIN views /\ more[k] = views[o[k]]
  <2> SUFFICES ASSUME NEW k \in DOMAIN more PROVE o[k] \in DOMAIN views /\ more[k] = views[o[k]]
    OBVIOUS
  <2>1. k \in DOMAIN replayed /\ Len(replayed[k].addresses) >= MinBridge + 2
        /\ more[k] = View(replayed[k])
    BY ViewsOf
  <2>2. CASE k = n + 1
    <3>1. o[k] = i /\ replayed[k].addresses = index[i].addresses /\ more[k] = View(index[i])
      BY <1>2, <1>3, <1>4, <2>1, <2>2
    <3>2. i \in DOMAIN views
      BY <2>1, <3>1, ViewsOf
    <3> QED BY <3>1, <3>2, ViewsOf
  <2>3. CASE k # n + 1
    <3>1. k \in 1..n /\ o[k] = k
      BY <1>1, <1>5, <2>1, <2>3
    <3>2. replayed[k] = index[k]
      BY <1>4, <3>1
    <3>3. k \in DOMAIN views
      BY <1>1, <2>1, <3>1, <3>2, ViewsOf
    <3> QED BY <2>1, <3>1, <3>2, <3>3, ViewsOf
  <2> QED BY <2>2, <2>3
<1>7. \A k \in DOMAIN views : k \in DOMAIN more /\ more[k] = views[k]
  <2> SUFFICES ASSUME NEW k \in DOMAIN views PROVE k \in DOMAIN more /\ more[k] = views[k]
    OBVIOUS
  <2>1. k \in 1..n /\ Len(index[k].addresses) >= MinBridge + 2 /\ views[k] = View(index[k])
    BY <1>1, ViewsOf
  <2>2. replayed[k] = index[k] /\ k \in DOMAIN replayed
    BY <1>1, <1>4, <1>5, <2>1
  <2> QED BY <2>1, <2>2, ViewsOf
<1> DEFINE V == AllPairs(index)
           W == AllPairs(replayed)
<1> HIDE DEF o
<1>8. \A w \in W : <<o[w[1]], o[w[2]]>> \in V
  <2> SUFFICES ASSUME NEW w \in W PROVE <<o[w[1]], o[w[2]]>> \in V
    OBVIOUS
  <2>1. /\ w[1] \in DOMAIN more /\ w[2] \in DOMAIN more
        /\ more[w[1]].bridge = more[w[2]].bridge
        /\ more[w[1]].signature # more[w[2]].signature
        /\ more[w[1]].lineage # more[w[2]].lineage
    BY DEF AllPairs
  <2> HIDE DEF W, views, more
  <2>2. /\ o[w[1]] \in DOMAIN views /\ o[w[2]] \in DOMAIN views
        /\ more[w[1]] = views[o[w[1]]] /\ more[w[2]] = views[o[w[2]]]
    BY <1>6, <2>1
  <2> USE DEF views
  <2> QED BY <2>1, <2>2 DEF AllPairs
<1>9. \A w \in V : w \in W
  BY <1>7 DEF AllPairs
<1>10. /\ LineagesOf(replayed, Together(replayed, W, x, y)) = LineagesOf(index, Together(index, V, x, y))
       /\ LineagesOf(replayed, Apartness(replayed, W, x, y)) = LineagesOf(index, Apartness(index, V, x, y))
  <2>0. /\ \A w \in V : w[1] \in DOMAIN views /\ w[2] \in DOMAIN views
        /\ \A w \in W : w[1] \in DOMAIN more /\ w[2] \in DOMAIN more
    BY DEF AllPairs
  <2>1. ASSUME NEW w \in W
        PROVE  LET v == <<o[w[1]], o[w[2]]>>
               IN /\ v \in V /\ more[w[1]] = views[v[1]] /\ more[w[2]] = views[v[2]]
                  /\ w \in Together(replayed, W, x, y) <=> v \in Together(index, V, x, y)
                  /\ w \in Apartness(replayed, W, x, y) <=> v \in Apartness(index, V, x, y)
    <3> DEFINE v == <<o[w[1]], o[w[2]]>>
    <3>1. v \in V /\ v[1] = o[w[1]] /\ v[2] = o[w[2]]
      BY <1>8
    <3>2. more[w[1]] = views[v[1]] /\ more[w[2]] = views[v[2]]
      BY <1>6, <2>0, <3>1
    <3> HIDE DEF v, V, W
    <3> QED BY <3>1, <3>2 DEF Together, Apartness, Between, v
  <2>2. ASSUME NEW v \in V
        PROVE  /\ v \in W /\ more[v[1]] = views[v[1]] /\ more[v[2]] = views[v[2]]
               /\ v \in Together(replayed, W, x, y) <=> v \in Together(index, V, x, y)
               /\ v \in Apartness(replayed, W, x, y) <=> v \in Apartness(index, V, x, y)
    <3>1. v \in W /\ more[v[1]] = views[v[1]] /\ more[v[2]] = views[v[2]]
      BY <1>7, <1>9, <2>0
    <3> HIDE DEF V, W
    <3> QED BY <3>1 DEF Together, Apartness, Between
  <2>3. ASSUME NEW S, NEW T, S \subseteq W, T \subseteq V,
               \A w \in W : w \in S <=> <<o[w[1]], o[w[2]]>> \in T,
               \A v \in V : v \in S <=> v \in T
        PROVE  LineagesOf(replayed, S) = LineagesOf(index, T)
    <3>1. ASSUME NEW e \in LineagesOf(replayed, S) PROVE e \in LineagesOf(index, T)
      <4>1. PICK w \in S : e = <<more[w[1]].lineage, more[w[2]].lineage>>
        BY <3>1 DEF LineagesOf
      <4> DEFINE v == <<o[w[1]], o[w[2]]>>
      <4>2. v \in T /\ more[w[1]] = views[v[1]] /\ more[w[2]] = views[v[2]]
        BY <2>1, <2>3, <4>1
      <4> HIDE DEF v
      <4> QED BY <4>1, <4>2 DEF LineagesOf
    <3>2. ASSUME NEW e \in LineagesOf(index, T) PROVE e \in LineagesOf(replayed, S)
      <4>1. PICK v \in T : e = <<views[v[1]].lineage, views[v[2]].lineage>>
        BY <3>2 DEF LineagesOf
      <4>2. v \in S /\ more[v[1]] = views[v[1]] /\ more[v[2]] = views[v[2]]
        BY <2>2, <2>3, <4>1
      <4> QED BY <4>1, <4>2 DEF LineagesOf
    <3> QED BY <3>1, <3>2
  <2>4. /\ Together(replayed, W, x, y) \subseteq W /\ Together(index, V, x, y) \subseteq V
        /\ Apartness(replayed, W, x, y) \subseteq W /\ Apartness(index, V, x, y) \subseteq V
    BY DEF Together, Apartness, Between
  <2> HIDE DEF V, W, views, more
  <2>5. LineagesOf(replayed, Together(replayed, W, x, y)) = LineagesOf(index, Together(index, V, x, y))
    BY <2>1, <2>2, <2>3, <2>4
  <2>6. LineagesOf(replayed, Apartness(replayed, W, x, y)) = LineagesOf(index, Apartness(index, V, x, y))
    BY <2>1, <2>2, <2>3, <2>4
  <2> QED BY <2>5, <2>6
<1> HIDE DEF V, W, views, more
<1>11. EvaluatePair(replayed, W, x, y).state = EvaluatePair(index, V, x, y).state
  BY <1>10, PairIs
<1> QED BY <1>4, <1>11 DEF V, W, replayed, again, n

\* A set of two elements or more has two that differ.
LEMMA TwoApart ==
  ASSUME NEW S, IsFiniteSet(S), Cardinality(S) >= 2
  PROVE  \E e, f \in S : e # f
<1>1. SUFFICES ASSUME \A e, f \in S : e = f PROVE FALSE
  OBVIOUS
<1>2. CASE S = {}
  BY <1>2, FS_EmptySet
<1>3. CASE S # {}
  <2>1. PICK e \in S : TRUE
    BY <1>3
  <2>2. S = {e}
    BY <1>1, <2>1
  <2>3. Cardinality(S) = 1
    BY <2>2, FS_Singleton
  <2> QED BY <2>3
<1> QED BY <1>2, <1>3

\* What a supported pair rests on: witnesses of two pairs of lineages at least,
\* none of which speaks for both sides, and more that agree than differ.
LEMMA SupportedMeans ==
  ASSUME NEW index \in Seq(Rows), NEW x, NEW y,
         EvaluatePair(index, AllPairs(index), x, y).state = "supported"
  PROVE  LET r == EvaluatePair(index, AllPairs(index), x, y)
         IN /\ r.supporting = Together(index, AllPairs(index), x, y)
            /\ \E w, v \in r.supporting :
                  <<index[w[1]].source, index[w[2]].source>>
                     # <<index[v[1]].source, index[v[2]].source>>
            /\ \A w \in r.supporting :
                  /\ w[1] \in DOMAIN index /\ w[2] \in DOMAIN index
                  /\ View(index[w[1]]).signature = x
                  /\ index[w[1]].source # index[w[2]].source
                  /\ Last(index[w[1]].addresses) = Last(index[w[2]].addresses)
            /\ r.convergence > r.divergence
<1> DEFINE W == AllPairs(index)
           r == EvaluatePair(index, W, x, y)
           views == OccurrenceViews(index)
           S == Together(index, W, x, y)
           C == LineagesOf(index, S)
           c == Cardinality(C)
           d == Cardinality(LineagesOf(index, Apartness(index, W, x, y)))
<1>1. r.supporting = S /\ r.convergence = c /\ r.divergence = d /\ r.state = Judged(c, d)
  BY PairIs
<1>2. S \in SUBSET AllPairs(index)
  BY DEF Together, Between
<1>3. IsFiniteSet(C)
  BY <1>2, PairsFinite
<1>4. \A w \in S : /\ w[1] \in DOMAIN views /\ w[2] \in DOMAIN views
                   /\ views[w[1]].signature = x
                   /\ views[w[1]].lineage # views[w[2]].lineage
                   /\ views[w[1]].terminal = views[w[2]].terminal
  BY DEF Together, Between, AllPairs
<1>5. \A k \in DOMAIN views : /\ k \in DOMAIN index /\ views[k] = View(index[k])
                              /\ views[k].lineage = index[k].source
                              /\ views[k].terminal = Last(index[k].addresses)
  <2>1. \A k \in DOMAIN views : k \in DOMAIN index /\ views[k] = View(index[k])
    BY ViewsOf
  <2>2. \A t : View(t).lineage = t.source /\ View(t).terminal = Last(t.addresses)
    BY DEF View
  <2> QED BY <2>1, <2>2
<1>6. Judged(c, d) = "supported"
  BY <1>1
<1> HIDE DEF r, S, C, c, d, views, W
<1>7. c >= MinLineages /\ c > d
  BY <1>6 DEF Judged
<1>8. Cardinality(C) >= 2
  <2>1. c \in Nat
    BY <1>3, FS_CardinalityType DEF c
  <2>2. c >= 2
    BY <1>7, <2>1, EquivalenceParameters
  <2> QED BY <2>2 DEF c
<1>9. PICK e \in C, f \in C : e # f
  BY <1>3, <1>8, TwoApart
<1>10. PICK w \in S : e = <<views[w[1]].lineage, views[w[2]].lineage>>
  BY <1>9 DEF C, LineagesOf, views
<1>11. PICK v \in S : f = <<views[v[1]].lineage, views[v[2]].lineage>>
  BY <1>9 DEF C, LineagesOf, views
<1>12. <<index[w[1]].source, index[w[2]].source>> # <<index[v[1]].source, index[v[2]].source>>
  <2>1. e = <<index[w[1]].source, index[w[2]].source>>
    BY <1>4, <1>5, <1>10
  <2>2. f = <<index[v[1]].source, index[v[2]].source>>
    BY <1>4, <1>5, <1>11
  <2> QED BY <1>9, <2>1, <2>2
<1>13. \A u \in S : /\ u[1] \in DOMAIN index /\ u[2] \in DOMAIN index
                    /\ View(index[u[1]]).signature = x
                    /\ index[u[1]].source # index[u[2]].source
                    /\ Last(index[u[1]].addresses) = Last(index[u[2]].addresses)
  BY <1>4, <1>5
<1>14. /\ r.supporting = S
       /\ \E w_1, v_1 \in S : <<index[w_1[1]].source, index[w_1[2]].source>>
                                # <<index[v_1[1]].source, index[v_1[2]].source>>
       /\ r.convergence > r.divergence
  BY <1>1, <1>7, <1>12
<1> QED BY <1>13, <1>14 DEF r, S, W

\* Equivalence is sound in any index the unlimited engine can take whole.
LEMMA EquivalenceSound ==
  ASSUME IndexTyped, Len(trajectories) + 1 < Unlimited
  PROVE  EquivalenceIsSound
<1> DEFINE index == trajectories
           W == Witnesses(index, Unlimited, Unlimited)
<1>1. index \in Seq(Rows) /\ Len(index) \in Nat /\ Len(index) < Unlimited
  <2>1. Unlimited \in Nat
    BY DEF Unlimited
  <2> HIDE DEF Unlimited
  <2>2. index \in Seq(Rows) /\ Len(index) \in Nat
    BY DEF IndexTyped
  <2> QED BY <2>1, <2>2
<1>2. W = AllPairs(index)
  BY <1>1, WitnessesAre
<1>3. EquivalenceIsIndependent
  <2>1. ASSUME NEW x, NEW y, NEW i \in DOMAIN index
        PROVE  State(Append(index, [index[i] EXCEPT !.sequence = Len(index) + 1]), x, y)
                 = EvaluatePair(index, W, x, y).state
    <3> DEFINE replayed == Append(index, [index[i] EXCEPT !.sequence = Len(index) + 1])
    <3>1. /\ replayed \in Seq(Rows) /\ Len(replayed) = Len(index) + 1
          /\ EvaluatePair(replayed, AllPairs(replayed), x, y).state
               = EvaluatePair(index, AllPairs(index), x, y).state
      BY <1>1, ReplayShowsNothing
    <3> HIDE DEF replayed
    <3>2. Len(replayed) < Unlimited
      BY <3>1
    <3>3. Witnesses(replayed, Unlimited, Unlimited) = AllPairs(replayed)
      BY <3>1, <3>2, WitnessesAre
    <3>4. State(replayed, x, y) = EvaluatePair(replayed, AllPairs(replayed), x, y).state
      BY <3>3 DEF State, Evaluate
    <3>5. State(replayed, x, y) = EvaluatePair(index, W, x, y).state
      BY <1>2, <3>1, <3>4
    <3> QED BY <3>5 DEF replayed
  <2>2. ASSUME NEW x, NEW y
        PROVE  EvaluatePair(index, W, x, y).state = EvaluatePair(index, W, y, x).state
    BY <1>1, <1>2, RelationMirrors
  <2>3. ASSUME NEW x PROVE EvaluatePair(index, W, x, x).state = "insufficient"
    BY <1>1, <1>2, RelationIsStrict
  <2> HIDE DEF W
  <2>4. \A x, y \in Signatures(index) :
           /\ EvaluatePair(index, W, x, y).state = EvaluatePair(index, W, y, x).state
           /\ x = y => EvaluatePair(index, W, x, y).state = "insufficient"
           /\ \A i \in DOMAIN index :
                State(Append(index, [index[i] EXCEPT !.sequence = Len(index) + 1]), x, y)
                  = EvaluatePair(index, W, x, y).state
    BY <2>1, <2>2, <2>3
  <2> QED BY <2>4 DEF EquivalenceIsIndependent, W
<1>4. SupportIsRevocable
  <2> SUFFICES ASSUME NEW x, NEW y, EvaluatePair(index, W, x, y).state = "supported"
               PROVE  LET r == EvaluatePair(index, W, x, y)
                      IN /\ \E w, v \in r.supporting :
                               <<index[w[1]].source, index[w[2]].source>>
                                  # <<index[v[1]].source, index[v[2]].source>>
                         /\ \A w \in r.supporting :
                               /\ index[w[1]].source # index[w[2]].source
                               /\ Last(index[w[1]].addresses) = Last(index[w[2]].addresses)
                         /\ r.convergence > r.divergence
    BY DEF SupportIsRevocable
  <2>1. EvaluatePair(index, AllPairs(index), x, y).state = "supported"
    BY <1>2
  <2> QED BY <1>1, <1>2, <2>1, SupportedMeans
<1>5. LimitsOnlyHide
  BY <1>1, <1>2, WitnessesAre DEF LimitsOnlyHide
<1> QED BY <1>3, <1>4, <1>5 DEF EquivalenceIsSound

-----------------------------------------------------------------------------
(* Collapsed trails: the same addresses, and none twice in a row.          *)

\* Collapsing loses no address,
LEMMA SameAddresses ==
  ASSUME NEW raw \in Paths
  PROVE  ToSet(Collapsed(raw)) = ToSet(raw)
<1>1. Len(raw) \in Nat /\ raw \in Seq(Addresses) /\ DOMAIN raw = 1..Len(raw)
  BY DEF Paths
<1>2. PICK f : /\ f[0] = <<>>
               /\ \A n \in 1..Len(raw) : f[n] = Kept(f[n - 1], raw[n])
               /\ Onto(<<>>, raw) = f[Len(raw)]
  BY <1>1, OntoIs
<1> DEFINE P == {n \in 0..Len(raw) : f[n] \in Paths /\ ToSet(f[n]) = {raw[k] : k \in 1..n}}
<1>3. 0 \in P
  <2>1. <<>> \in Paths /\ ToSet(<<>>) = {} /\ 1..0 = {}
    BY DEF Paths, ToSet
  <2> QED BY <1>1, <1>2, <2>1
<1>4. ASSUME NEW n \in 0..Len(raw), n < Len(raw), n \in P PROVE n + 1 \in P
  <2> DEFINE t == f[n]
             a == raw[n + 1]
  <2>1. n + 1 \in 1..Len(raw) /\ n + 1 \in 0..Len(raw) /\ (n + 1) - 1 = n
    BY <1>4
  <2>2. f[n + 1] = Kept(t, a) /\ a \in Addresses
    BY <1>1, <1>2, <2>1
  <2>3. t \in Paths /\ ToSet(t) = {raw[k] : k \in 1..n}
    BY <1>4
  <2> HIDE DEF t
  <2>4. ToSet(Kept(t, a)) = ToSet(t) \cup {a}
    <3>1. Len(t) \in Nat /\ DOMAIN t = 1..Len(t) /\ t \in Seq(Addresses)
      BY <2>3 DEF Paths
    <3>2. CASE t # <<>> /\ Last(t) = a
      <4>1. Len(t) \in DOMAIN t /\ t[Len(t)] = a
        BY <3>1, <3>2 DEF Last
      <4>2. a \in ToSet(t)
        BY <4>1 DEF ToSet
      <4> QED BY <3>2, <4>2 DEF Kept
    <3>3. CASE ~(t # <<>> /\ Last(t) = a)
      <4>1. Kept(t, a) = Append(t, a)
        BY <3>3 DEF Kept
      <4> DEFINE u == Append(t, a)
      <4>2. /\ DOMAIN u = 1..Len(t) + 1 /\ u[Len(t) + 1] = a
            /\ \A k \in 1..Len(t) : u[k] = t[k]
        BY <3>1
      <4> HIDE DEF u, a
      <4>3. \A k \in 1..Len(t) + 1 : k \in 1..Len(t) \/ k = Len(t) + 1
        BY <3>1
      <4>4. 1..Len(t) \subseteq 1..Len(t) + 1 /\ Len(t) + 1 \in 1..Len(t) + 1
        BY <3>1
      <4>5. ToSet(u) = ToSet(t) \cup {a}
        BY <3>1, <4>2, <4>3, <4>4 DEF ToSet
      <4> QED BY <4>1, <4>5 DEF u
    <3> QED BY <3>2, <3>3
  <2>5. {raw[k] : k \in 1..n + 1} = {raw[k] : k \in 1..n} \cup {a}
    <3>1. \A k \in 1..n + 1 : k \in 1..n \/ k = n + 1
      OBVIOUS
    <3>2. 1..n \subseteq 1..n + 1 /\ n + 1 \in 1..n + 1
      OBVIOUS
    <3> QED BY <3>1, <3>2
  <2>6. Kept(t, a) \in Paths
    BY <2>2, <2>3, KeptIs
  <2> QED BY <2>1, <2>2, <2>3, <2>4, <2>5, <2>6
<1>5. Len(raw) \in P
  <2> HIDE DEF P
  <2>1. 0..Len(raw) \subseteq P
    BY <1>1, <1>3, <1>4, Upwards
  <2> QED BY <1>1, <2>1
<1>6. ToSet(raw) = {raw[k] : k \in 1..Len(raw)}
  BY <1>1 DEF ToSet
<1> QED BY <1>2, <1>5, <1>6 DEF Collapsed

\* No address comes twice in a row.
NoRepeats(t) == \A j \in 2..Len(t) : t[j] # t[j - 1]

\* leaves none twice in a row,
LEMMA NeverTwice ==
  ASSUME NEW raw \in Paths
  PROVE  NoRepeats(Collapsed(raw))
<1>1. Len(raw) \in Nat /\ raw \in Seq(Addresses)
  BY DEF Paths
<1>2. PICK f : /\ f[0] = <<>>
               /\ \A n \in 1..Len(raw) : f[n] = Kept(f[n - 1], raw[n])
               /\ Onto(<<>>, raw) = f[Len(raw)]
  BY <1>1, OntoIs
<1> DEFINE P == {n \in 0..Len(raw) : f[n] \in Paths /\ NoRepeats(f[n])}
<1>3. 0 \in P
  <2>1. <<>> \in Paths /\ Len(<<>>) = 0
    BY DEF Paths
  <2>2. NoRepeats(<<>>)
    BY <2>1 DEF NoRepeats
  <2> QED BY <1>1, <1>2, <2>1, <2>2
<1>4. ASSUME NEW n \in 0..Len(raw), n < Len(raw), n \in P PROVE n + 1 \in P
  <2> DEFINE t == f[n]
             a == raw[n + 1]
  <2>1. n + 1 \in 1..Len(raw) /\ n + 1 \in 0..Len(raw) /\ (n + 1) - 1 = n
    BY <1>4
  <2>2. f[n + 1] = Kept(t, a) /\ a \in Addresses
    BY <1>1, <1>2, <2>1
  <2>3. t \in Paths /\ NoRepeats(t)
    BY <1>4
  <2> HIDE DEF t, a
  <2>4. NoRepeats(Kept(t, a))
    <3>1. Len(t) \in Nat /\ t \in Seq(Addresses)
      BY <2>3 DEF Paths
    <3>2. CASE t # <<>> /\ Last(t) = a
      BY <2>3, <3>2 DEF Kept
    <3>3. CASE ~(t # <<>> /\ Last(t) = a)
      <4> DEFINE u == Append(t, a)
      <4>1. Kept(t, a) = u
        BY <3>3 DEF Kept
      <4>2. /\ Len(u) = Len(t) + 1 /\ u[Len(t) + 1] = a
            /\ \A k \in 1..Len(t) : u[k] = t[k]
        BY <2>2, <3>1
      <4> HIDE DEF u
      <4>3. ASSUME NEW j \in 2..Len(u) PROVE u[j] # u[j - 1]
        <5>1. CASE j = Len(t) + 1
          <6>1. t # <<>> /\ j - 1 = Len(t) /\ Len(t) \in 1..Len(t)
            BY <3>1, <5>1
          <6>2. u[j - 1] = Last(t) /\ u[j] = a
            BY <4>2, <5>1, <6>1 DEF Last
          <6> QED BY <3>3, <6>1, <6>2
        <5>2. CASE j # Len(t) + 1
          <6>1. j \in 2..Len(t) /\ j \in 1..Len(t) /\ j - 1 \in 1..Len(t)
            BY <3>1, <4>2, <5>2
          <6> QED BY <2>3, <4>2, <6>1 DEF NoRepeats
        <5> QED BY <5>1, <5>2
      <4> QED BY <4>1, <4>3 DEF NoRepeats
    <3> QED BY <3>2, <3>3
  <2>5. Kept(t, a) \in Paths
    BY <2>2, <2>3, KeptIs
  <2> QED BY <2>1, <2>2, <2>4, <2>5
<1>5. Len(raw) \in P
  <2> HIDE DEF P
  <2>1. 0..Len(raw) \subseteq P
    BY <1>1, <1>3, <1>4, Upwards
  <2> QED BY <1>1, <2>1
<1> QED BY <1>2, <1>5 DEF Collapsed

\* and changes nothing where none is.
LEMMA CollapsedStays ==
  ASSUME NEW t \in Paths, NoRepeats(t)
  PROVE  Collapsed(t) = t
<1>1. Len(t) \in Nat /\ t \in Seq(Addresses)
  BY DEF Paths
<1>2. PICK f : /\ f[0] = <<>>
               /\ \A n \in 1..Len(t) : f[n] = Kept(f[n - 1], t[n])
               /\ Onto(<<>>, t) = f[Len(t)]
  BY <1>1, OntoIs
<1> DEFINE P == {n \in 0..Len(t) : /\ f[n] \in Paths /\ Len(f[n]) = n
                                   /\ \A k \in 1..n : f[n][k] = t[k]}
<1>3. 0 \in P
  <2>1. <<>> \in Paths /\ Len(<<>>) = 0 /\ 1..0 = {}
    BY DEF Paths
  <2> QED BY <1>1, <1>2, <2>1
<1>4. ASSUME NEW n \in 0..Len(t), n < Len(t), n \in P PROVE n + 1 \in P
  <2> DEFINE u == f[n]
             a == t[n + 1]
  <2>1. n + 1 \in 1..Len(t) /\ n + 1 \in 0..Len(t) /\ (n + 1) - 1 = n
    BY <1>4
  <2>2. f[n + 1] = Kept(u, a) /\ a \in Addresses
    BY <1>1, <1>2, <2>1
  <2>3. u \in Paths /\ Len(u) = n /\ \A k \in 1..n : u[k] = t[k]
    BY <1>4
  <2>4. Kept(u, a) = Append(u, a)
    <3>1. CASE u = <<>>
      BY <3>1 DEF Kept
    <3>2. CASE u # <<>>
      <4> HIDE DEF u
      <4>1. n # 0
        BY <2>3, <3>2 DEF Paths
      <4>2. Last(u) = t[n] /\ n + 1 \in 2..Len(t)
        BY <2>1, <2>3, <4>1 DEF Last
      <4>3. t[n + 1] # t[n]
        BY <2>1, <4>2 DEF NoRepeats
      <4> QED BY <4>2, <4>3 DEF Kept
    <3> QED BY <3>1, <3>2
  <2> HIDE DEF u, a
  <2>5. /\ Append(u, a) \in Paths /\ Len(Append(u, a)) = n + 1
        /\ \A k \in 1..n : Append(u, a)[k] = t[k]
        /\ Append(u, a)[n + 1] = a
    BY <2>2, <2>3 DEF Paths
  <2>6. \A k \in 1..n + 1 : Append(u, a)[k] = t[k]
    <3>1. \A k \in 1..n + 1 : k \in 1..n \/ k = n + 1
      OBVIOUS
    <3> QED BY <2>5, <3>1 DEF a
  <2> QED BY <2>1, <2>2, <2>4, <2>5, <2>6
<1>5. Len(t) \in P
  <2> HIDE DEF P
  <2>1. 0..Len(t) \subseteq P
    BY <1>1, <1>3, <1>4, Upwards
  <2> QED BY <1>1, <2>1
<1> DEFINE c == f[Len(t)]
<1>6. c \in Seq(Addresses) /\ Len(c) = Len(t) /\ \A k \in 1..Len(t) : c[k] = t[k]
  BY <1>5 DEF Paths
<1> HIDE DEF c
<1>7. c = t
  BY <1>1, <1>6
<1> QED BY <1>2, <1>7 DEF Collapsed, c

-----------------------------------------------------------------------------
(* Rollouts and attractors: they tell of all that matches best, or say so. *)

\* The trajectories that share an address with a query.
KnownOf(index, raw) == {i \in DOMAIN index : Overlap(Collapsed(raw), index[i].addresses) > 0}

\* The best places are finitely many, known ones, and there is one if any is known.
LEMMA PlacesFinite ==
  ASSUME NEW index \in Seq(Rows), NEW raw \in Paths
  PROVE  /\ IsFiniteSet(PlacesOf(index, raw))
         /\ PlacesOf(index, raw) \subseteq KnownOf(index, raw)
         /\ KnownOf(index, raw) # {} => PlacesOf(index, raw) # {}
<1> DEFINE matches == MatchesOf(index, raw)
           known == {i \in DOMAIN index : Overlap(Collapsed(raw), index[i].addresses) > 0}
           K == PlacesOf(index, raw)
<1>1. /\ \A r \in ToSet(matches) : \E i \in known : r.row = index[i]
      /\ matches = <<>> <=> known = {}
      /\ matches # <<>> => matches[1] \in ToSet(matches)
  BY MatchesMeet
<1>2. K \subseteq DOMAIN index /\ \A i \in K : Overlap(Collapsed(raw), index[i].addresses) > 0
  <2>1. 1 \in Nat
    OBVIOUS
  <2> QED BY <2>1, PlacesMeet
<1>3. IsFiniteSet(K)
  <2>1. Len(index) \in Nat /\ DOMAIN index = 1..Len(index)
    OBVIOUS
  <2> HIDE DEF K
  <2>2. IsFiniteSet(1..Len(index))
    BY <2>1, FS_Interval
  <2> QED BY <1>2, <2>1, <2>2, FS_Subset
<1>4. ASSUME known # {} PROVE K # {}
  <2>1. matches # <<>> /\ matches[1] \in ToSet(matches)
    BY <1>1, <1>4
  <2>2. PICK i \in known : matches[1].row = index[i]
    BY <1>1, <2>1
  <2>3. i \in K
    BY <2>1, <2>2 DEF PlacesOf, Strongest
  <2> QED BY <2>3
<1> QED BY <1>2, <1>3, <1>4 DEF KnownOf

\* A rollout that is not bounded out tells of a branch or an end as soon as
\* anything is known; a bounded one tells of no branch.
LEMMA RollsWhole ==
  ASSUME NEW index \in Seq(Rows), NEW raw \in Paths, NEW steps \in Nat, NEW most, NEW many
  PROVE  LET r == ResolveRollout(index, raw, steps, most, many)
             K == PlacesOf(index, raw)
         IN /\ IsFiniteSet(r.branches) /\ r.bounded \in BOOLEAN
            /\ r.bounded => r.branches = {} /\ KnownOf(index, raw) # {}
            /\ ~r.bounded /\ r.branches = {} /\ r.terminals = {} => KnownOf(index, raw) = {}
            /\ KnownOf(index, raw) = {} => r.branches = {} /\ r.terminals = {}
<1> DEFINE r == ResolveRollout(index, raw, steps, most, many)
           q == Collapsed(raw)
           matches == MatchesOf(index, raw)
           known == KnownOf(index, raw)
           K == PlacesOf(index, raw)
           inside == [i \in K |-> LET t == index[i].addresses
                                  IN Continuation(t, Last(LcsPositions(q, t)), steps)]
           depths == [i \in K |-> DOMAIN (CHOOSE m \in ToSet(matches) : m.row = index[i]).shared]
           ended == {i \in K : inside[i] = <<>>}
           C == {inside[i] : i \in K} \ {<<>>}
           B(c) == Branch(index, q, {i \in K : inside[i] = c}, depths, steps, c)
           branches == {B(c) : c \in C}
<1>1. r = RolledOut(index, q, matches, steps, most, many)
  BY DEF ResolveRollout, MatchesOf
<1>2. \/ matches = <<>> /\ r.branches = {} /\ r.terminals = {} /\ r.bounded = FALSE
      \/ matches # <<>> /\ r.branches = {} /\ r.bounded = TRUE
      \/ r.branches = branches /\ r.terminals = ended /\ r.bounded = FALSE
  <2>1. r = CASE index = <<>> -> Nothing(q, "no-trajectories")
              [] index # <<>> /\ matches = <<>> -> Nothing(q, "no-structural-match")
              [] matches # <<>> /\ Cardinality(K) > most ->
                     Resolution(q, {}, {}, TRUE, "candidate-limit-exceeded")
              [] OTHER ->
                     IF Outcomes(branches, ended) > many
                     THEN Resolution(q, {}, ended, TRUE, "branch-limit-exceeded")
                     ELSE Resolution(q, branches, ended, FALSE,
                                     CASE Outcomes(branches, ended) > 1 -> "competing-forward-outcomes"
                                       [] branches = {} -> "matched-terminal-occurrence"
                                       [] OTHER -> "single-forward-path")
    BY <1>1, Zenon DEF RolledOut, PlacesOf
  <2>2. index = <<>> => matches = <<>>
    <3>1. ASSUME index = <<>> PROVE known = {}
      BY <3>1 DEF KnownOf
    <3> QED BY <3>1, MatchesMeet DEF KnownOf
  <2> HIDE DEF r, branches, ended, matches, K, known
  <2> DEFINE last == CASE Outcomes(branches, ended) > 1 -> "competing-forward-outcomes"
                       [] branches = {} -> "matched-terminal-occurrence"
                       [] OTHER -> "single-forward-path"
             Right(z) ==
               \/ matches = <<>> /\ z.branches = {} /\ z.terminals = {} /\ z.bounded = FALSE
               \/ matches # <<>> /\ z.branches = {} /\ z.bounded = TRUE
               \/ z.branches = branches /\ z.terminals = ended /\ z.bounded = FALSE
  <2>3. \A bs, ts, bounded, reason :
           /\ Resolution(q, bs, ts, bounded, reason).branches = bs
           /\ Resolution(q, bs, ts, bounded, reason).terminals = ts
           /\ Resolution(q, bs, ts, bounded, reason).bounded = bounded
    BY DEF Resolution
  <2>4. ASSUME matches = <<>>, NEW reason PROVE Right(Nothing(q, reason))
    <3> DEFINE z == Resolution(q, {}, {}, FALSE, reason)
    <3>1. z.branches = {} /\ z.terminals = {}
      BY <2>3, Zenon
    <3>2. z.bounded = FALSE
      BY DEF Resolution
    <3> HIDE DEF z
    <3> QED BY <2>4, <3>1, <3>2 DEF Nothing, z
  <2>5. ASSUME matches # <<>>, NEW ts, NEW reason PROVE Right(Resolution(q, {}, ts, TRUE, reason))
    <3> DEFINE z == Resolution(q, {}, ts, TRUE, reason)
    <3>1. z.branches = {} /\ z.bounded = TRUE
      BY <2>3, Zenon
    <3> HIDE DEF z
    <3> QED BY <2>5, <3>1 DEF z
  <2> HIDE DEF last
  <2>6. ASSUME NEW reason PROVE Right(Resolution(q, branches, ended, FALSE, reason))
    <3> DEFINE z == Resolution(q, branches, ended, FALSE, reason)
    <3>1. z.branches = branches /\ z.terminals = ended
      BY DEF Resolution
    <3>2. z.bounded = FALSE
      BY DEF Resolution
    <3> HIDE DEF z
    <3> QED BY <3>1, <3>2 DEF z
  <2> HIDE DEF Right
  <2>7. Right(r)
    BY <2>1, <2>2, <2>4, <2>5, <2>6 DEF last
  <2> QED BY <2>7 DEF Right
<1>3. /\ IsFiniteSet(K) /\ K \subseteq known
      /\ known # {} => K # {}
      /\ matches = <<>> <=> known = {}
  BY PlacesFinite, MatchesMeet DEF KnownOf
<1> HIDE DEF r, K, known, inside, matches, B
<1>4. IsFiniteSet(branches)
  <2> DEFINE D == {inside[i] : i \in K}
             b == [c \in C |-> B(c)]
  <2>1. IsFiniteSet(D)
    BY <1>3, ImageFinite
  <2> HIDE DEF D
  <2>2. IsFiniteSet(C)
    BY <2>1, FS_Subset DEF D
  <2>3. branches = {b[c] : c \in C}
    OBVIOUS
  <2> HIDE DEF b, C
  <2>4. IsFiniteSet({b[c] : c \in C})
    BY <2>2, ImageFinite
  <2> HIDE DEF branches
  <2> QED BY <2>3, <2>4
<1>5. known # {} => branches # {} \/ ended # {}
  <2>1. SUFFICES ASSUME known # {} PROVE branches # {} \/ ended # {}
    OBVIOUS
  <2>2. PICK i \in K : TRUE
    BY <1>3, <2>1
  <2>3. CASE inside[i] = <<>>
    BY <2>2, <2>3
  <2>4. CASE inside[i] # <<>>
    <3>1. inside[i] \in C
      BY <2>2, <2>4
    <3> HIDE DEF C
    <3> QED BY <3>1
  <2> QED BY <2>3, <2>4
<1>6. known = {} => branches = {} /\ ended = {}
  BY <1>3
<1>7. IsFiniteSet({})
  BY FS_EmptySet
<1> HIDE DEF branches, ended
<1>8. /\ IsFiniteSet(r.branches) /\ r.bounded \in BOOLEAN
      /\ r.bounded => r.branches = {} /\ known # {}
      /\ ~r.bounded /\ r.branches = {} /\ r.terminals = {} => known = {}
      /\ known = {} => r.branches = {} /\ r.terminals = {}
  BY <1>2, <1>3, <1>4, <1>5, <1>6, <1>7
<1> QED BY <1>8 DEF r, known

\* Each branch begins with an address its witnesses go on to.
LEMMA BranchesGoOn ==
  ASSUME NEW index \in Seq(Rows), NEW raw \in Paths, NEW most, NEW many
  PROVE  LET r == ResolveRollout(index, raw, 1, most, many)
         IN /\ r.terminals \subseteq KnownOf(index, raw)
            /\ \A b \in r.branches :
                  /\ b.witnesses # {}
                  /\ \A w \in b.witnesses :
                        /\ w[1] \in KnownOf(index, raw)
                        /\ Head(b.continuation) \in ToSet(index[w[1]].addresses)
<1> DEFINE r == ResolveRollout(index, raw, 1, most, many)
           K == PlacesOf(index, raw)
           anchor == AnchorOf(index, raw)
           after == AfterOf(index, raw, 1)
           going == {ActiveBranch(b.witnesses, b.continuation) : b \in r.branches}
<1>0. 1 \in Nat
  OBVIOUS
<1>1. /\ r.terminals = {} \/ r.terminals = {i \in K : after[i] = <<>>}
      /\ going = {} \/ going = Split(K, anchor, after)
  BY <1>0, RollsOut
<1>2. /\ K \subseteq DOMAIN index /\ K \subseteq KnownOf(index, raw)
      /\ \A i \in K : /\ anchor[i] \in 1..Len(index[i].addresses)
                      /\ after[i] \in Paths
  BY <1>0, PlacesMeet, PlacesFinite
<1>3. \A i \in K : after[i] = Continuation(index[i].addresses, anchor[i], 1)
  BY <1>2 DEF AfterOf
<1>4. ASSUME NEW i \in K, after[i] # <<>>
      PROVE  Head(after[i]) \in ToSet(index[i].addresses)
  <2> DEFINE t == index[i].addresses
             a == anchor[i]
             e == Continuation(t, a, 1)
  <2>1. index[i] \in Rows
    BY <1>2
  <2>2. t \in Paths
    BY <2>1 DEF Rows
  <2>3. Len(t) \in Nat /\ DOMAIN t = 1..Len(t)
    BY <2>2 DEF Paths
  <2>4. a \in 0..Len(t) /\ e = after[i]
    BY <1>2, <1>3, <2>3
  <2> HIDE DEF a, t, e
  <2>5. e \in Paths /\ \A k \in 1..Len(e) : e[k] = t[a + k] /\ a + k \in 1..Len(t)
    BY <1>0, <2>2, <2>4, ContinuationIs DEF e
  <2>6. e # <<>>
    BY <1>4, <2>4
  <2>7. 1 \in 1..Len(e) /\ Head(e) = e[1]
    BY <2>5, <2>6 DEF Paths
  <2>8. Head(e) = t[a + 1] /\ a + 1 \in DOMAIN t
    BY <2>3, <2>5, <2>7
  <2> QED BY <2>4, <2>8 DEF t, ToSet
<1> HIDE DEF K, anchor, after, r
<1>5. ASSUME NEW b \in r.branches
      PROVE  /\ b.witnesses # {}
             /\ \A w \in b.witnesses : /\ w[1] \in KnownOf(index, raw)
                                       /\ Head(b.continuation) \in ToSet(index[w[1]].addresses)
  <2> DEFINE g == ActiveBranch(b.witnesses, b.continuation)
  <2>1. g \in going
    OBVIOUS
  <2>2. g.witnesses = b.witnesses /\ g.remaining = b.continuation
    BY DEF ActiveBranch
  <2> HIDE DEF g
  <2>3. g \in Split(K, anchor, after)
    BY <1>1, <2>1
  <2>4. PICK c \in {after[i] : i \in K} \ {<<>>} :
          g = ActiveBranch({<<i, anchor[i]>> : i \in {j \in K : after[j] = c}}, c)
    BY <2>3 DEF Split
  <2>5. /\ b.witnesses = {<<i, anchor[i]>> : i \in {j \in K : after[j] = c}}
        /\ b.continuation = c
    BY <2>2, <2>4 DEF ActiveBranch
  <2>6. b.witnesses # {}
    <3>1. PICK i \in K : after[i] = c
      BY <2>4
    <3>2. <<i, anchor[i]>> \in b.witnesses
      BY <2>5, <3>1
    <3> QED BY <3>2
  <2>7. ASSUME NEW w \in b.witnesses
        PROVE  /\ w[1] \in KnownOf(index, raw)
               /\ Head(b.continuation) \in ToSet(index[w[1]].addresses)
    <3>1. PICK i \in K : after[i] = c /\ w = <<i, anchor[i]>>
      BY <2>5
    <3>2. w[1] = i
      BY <3>1
    <3>3. after[i] # <<>>
      BY <2>4, <3>1
    <3>4. Head(after[i]) \in ToSet(index[i].addresses)
      BY <1>4, <3>3
    <3> QED BY <1>2, <2>5, <3>1, <3>2, <3>4
  <2> QED BY <2>6, <2>7
<1>6. r.terminals \subseteq KnownOf(index, raw)
  BY <1>1, <1>2
<1> QED BY <1>5, <1>6 DEF r

\* A set of one element is a singleton.
LEMMA OneIs ==
  ASSUME NEW S, IsFiniteSet(S), Cardinality(S) = 1
  PROVE  \E x : S = {x}
<1>1. S # {}
  <2>1. Cardinality({}) = 0
    BY FS_EmptySet
  <2> QED BY <2>1
<1>2. PICK x \in S : TRUE
  BY <1>1
<1>3. IsFiniteSet(S \ {x}) /\ Cardinality(S \ {x}) = Cardinality(S) - 1
  BY <1>2, FS_RemoveElement
<1>4. Cardinality(S \ {x}) = 0
  BY <1>3
<1>5. S \ {x} = {}
  BY <1>3, <1>4, FS_EmptySet
<1> QED BY <1>2, <1>5

\* What an attractor is about.
Grounded(index, raw, a) ==
  LET known == KnownOf(index, raw)
  IN /\ a.bounded \in BOOLEAN
     /\ a.ambiguous \in BOOLEAN /\ a.resolved \in BOOLEAN /\ a.terminal \in BOOLEAN
     /\ known = {} <=> ~a.ambiguous /\ ~a.resolved /\ ~a.terminal
     /\ a.ambiguous => ~a.resolved /\ ~a.terminal
     /\ a.resolved => ~a.terminal
     /\ a.resolved => a.terminals = {} /\ \E c \in a.candidates : a.pareto = {c.address}
     /\ a.terminal => a.terminals # {}
     /\ a.terminals \subseteq known
     /\ \A c \in a.candidates :
           c.support # {} /\ \A i \in c.support : i \in known /\ c.address \in ToSet(index[i].addresses)

\* Every attractor is grounded, whatever the reading and the limits.
LEMMA AttractorGrounded ==
  ASSUME NEW index \in Seq(Rows), NEW raw \in Paths, NEW reading, NEW most, NEW many
  PROVE  Grounded(index, raw, ResolveAttractor(index, raw, reading, most, many))
<1> DEFINE q == Collapsed(raw)
           r == ResolveRollout(index, raw, 1, most, many)
           a == ResolveAttractor(index, raw, reading, most, many)
           known == KnownOf(index, raw)
           heads == {Head(b.continuation) : b \in r.branches}
           at(h) == {b \in r.branches : Head(b.continuation) = h}
           candidates == {Candidate(index, q, reading, at(h)) : h \in heads}
           winners == IF r.terminals = {} THEN Pareto(candidates) ELSE candidates
           unique == r.terminals = {} /\ Cardinality(winners) = 1
<1>1. /\ a.candidates = candidates /\ a.terminals = r.terminals
      /\ a.pareto = {c.address : c \in winners}
      /\ a.bounded = r.bounded
      /\ a.terminal = (~r.bounded /\ candidates = {} /\ r.terminals # {})
      /\ a.resolved = unique
      /\ a.ambiguous = (r.bounded \/ (candidates # {} /\ ~unique))
  <2> HIDE DEF r, q
  <2>1. a = Attractor(index, q, reading, r)
    BY DEF ResolveAttractor, q, r
  <2> HIDE DEF a
  <2> QED BY <2>1 DEF Attractor
<1>2. /\ IsFiniteSet(r.branches) /\ r.bounded \in BOOLEAN
      /\ r.bounded => r.branches = {} /\ known # {}
      /\ ~r.bounded /\ r.branches = {} /\ r.terminals = {} => known = {}
      /\ known = {} => r.branches = {} /\ r.terminals = {}
  <2>1. 1 \in Nat
    OBVIOUS
  <2> QED BY <2>1, RollsWhole
<1>3. /\ r.terminals \subseteq known
      /\ \A b \in r.branches :
            /\ b.witnesses # {}
            /\ \A w \in b.witnesses : /\ w[1] \in known
                                      /\ Head(b.continuation) \in ToSet(index[w[1]].addresses)
  BY BranchesGoOn
<1> HIDE DEF r, a, known, q
<1>4. ASSUME NEW c \in candidates
      PROVE  c.support # {} /\ \A i \in c.support : i \in known /\ c.address \in ToSet(index[i].addresses)
  <2>1. PICK h \in heads : c = Candidate(index, q, reading, at(h))
    OBVIOUS
  <2> DEFINE bs == at(h)
  <2>2. PICK b \in r.branches : Head(b.continuation) = h
    BY <2>1
  <2>3. b \in bs
    BY <2>2
  <2>4. \A d \in bs : d \in r.branches /\ Head(d.continuation) = h
    OBVIOUS
  <2> HIDE DEF bs, candidates, heads
  <2>5. c.address = Head((CHOOSE d \in bs : TRUE).continuation)
    BY <2>1 DEF Candidate, bs
  <2>6. c.support = UNION {{w[1] : w \in d.witnesses} : d \in bs}
    BY <2>1 DEF Candidate, bs
  <2>7. c.address = h
    BY <2>3, <2>4, <2>5
  <2>8. c.support # {}
    <3>1. PICK w \in b.witnesses : TRUE
      BY <1>3, <2>3, <2>4
    <3>2. w[1] \in c.support
      BY <2>3, <2>6, <3>1
    <3> QED BY <3>2
  <2>9. ASSUME NEW i \in c.support PROVE i \in known /\ c.address \in ToSet(index[i].addresses)
    <3>1. PICK d \in bs : \E w \in d.witnesses : i = w[1]
      BY <2>6
    <3>2. PICK w \in d.witnesses : i = w[1]
      BY <3>1
    <3>3. d \in r.branches /\ Head(d.continuation) = h
      BY <2>4
    <3> QED BY <1>3, <2>7, <3>2, <3>3
  <2> QED BY <2>8, <2>9
<1>5. IsFiniteSet(winners)
  <2> DEFINE head == [b \in r.branches |-> Head(b.continuation)]
             E == {head[b] : b \in r.branches}
             of == [h \in E |-> Candidate(index, q, reading, at(h))]
             F == {of[h] : h \in E}
  <2>1. IsFiniteSet(E)
    BY <1>2, ImageFinite
  <2>2. heads = E
    OBVIOUS
  <2>3. candidates = F
    <3> HIDE DEF head
    <3>1. \A h \in E : of[h] = Candidate(index, q, reading, at(h))
      OBVIOUS
    <3> HIDE DEF of, E, at
    <3> QED BY <2>2, <3>1
  <2> HIDE DEF E, of
  <2>4. IsFiniteSet(F)
    BY <2>1, ImageFinite
  <2> HIDE DEF F
  <2>5. IsFiniteSet(candidates)
    BY <2>3, <2>4
  <2> HIDE DEF candidates
  <2>6. winners \subseteq candidates
    BY DEF Pareto
  <2> HIDE DEF winners
  <2> QED BY <2>5, <2>6, FS_Subset
<1>6. candidates = {} <=> r.branches = {}
  <2>1. candidates = {} <=> heads = {}
    OBVIOUS
  <2>2. heads = {} <=> r.branches = {}
    OBVIOUS
  <2> QED BY <2>1, <2>2
<1> HIDE DEF heads, at, candidates
<1>7. winners \subseteq candidates
  BY DEF Pareto
<1>8. Cardinality({}) = 0
  BY FS_EmptySet
<1> HIDE DEF winners
<1>9. unique => candidates # {}
  <2>1. SUFFICES ASSUME Cardinality(winners) = 1, candidates = {} PROVE FALSE
    OBVIOUS
  <2>2. winners = {}
    BY <1>7, <2>1
  <2>3. Cardinality(winners) = 0
    BY <1>8, <2>2
  <2> QED BY <2>1, <2>3
<1>10. ASSUME unique PROVE \E c \in candidates : a.pareto = {c.address}
  <2>1. PICK c : winners = {c}
    BY <1>5, <1>10, OneIs
  <2>2. c \in candidates
    BY <1>7, <2>1
  <2>3. a.pareto = {c.address}
    BY <1>1, <2>1
  <2> QED BY <2>2, <2>3
<1>11. unique => r.terminals = {}
  OBVIOUS
<1> HIDE DEF unique
<1>12. unique \in BOOLEAN
  BY DEF unique
<1>13. /\ a.bounded \in BOOLEAN
       /\ a.ambiguous \in BOOLEAN /\ a.resolved \in BOOLEAN /\ a.terminal \in BOOLEAN
       /\ a.ambiguous => ~a.resolved /\ ~a.terminal
       /\ a.resolved => ~a.terminal
       /\ a.terminal => a.terminals # {}
  BY <1>1, <1>2, <1>6, <1>9, <1>11, <1>12
<1>14. known = {} <=> ~a.ambiguous /\ ~a.resolved /\ ~a.terminal
  BY <1>1, <1>2, <1>6, <1>9, <1>11, <1>12
<1>15. a.resolved => a.terminals = {} /\ \E c \in a.candidates : a.pareto = {c.address}
  BY <1>1, <1>10, <1>11
<1>16. /\ a.terminals \subseteq known
       /\ \A c \in a.candidates : c.support # {} /\ \A i \in c.support :
              i \in known /\ c.address \in ToSet(index[i].addresses)
  BY <1>1, <1>3, <1>4
<1> QED BY <1>13, <1>14, <1>15, <1>16 DEF Grounded, a, known

-----------------------------------------------------------------------------
(* Inference: what is answered is in what the answer names.                *)

\* A query with a reformulation begins a stored trajectory.
LEMMA ReformulatedIsKnown ==
  ASSUME NEW index \in Seq(Rows), NEW raw \in Paths, NEW maxBucket, NEW most,
         NEW y \in Reformulations(index, Collapsed(raw), maxBucket, most)
  PROVE  y \in Paths /\ KnownOf(index, raw) # {}
<1> DEFINE q == Collapsed(raw)
           W == Witnesses(index, maxBucket, most)
           views == OccurrenceViews(index)
           S == Together(index, W, q, y)
           C == LineagesOf(index, S)
           c == Cardinality(C)
           d == Cardinality(LineagesOf(index, Apartness(index, W, q, y)))
<1>1. (\E i \in DOMAIN views : y = views[i].signature) /\ EvaluatePair(index, W, q, y).state = "supported"
  BY DEF Reformulations
<1>2. Judged(c, d) = "supported"
  BY <1>1, PairIs
<1>3. S \subseteq W /\ W \subseteq AllPairs(index)
  BY WitnessesAre DEF Together, Between
<1>4. \A w \in S : w[1] \in DOMAIN views /\ views[w[1]].signature = q
  BY <1>3 DEF Together, Between, AllPairs
<1>5. \A k \in DOMAIN views : /\ k \in DOMAIN index /\ views[k] = View(index[k])
                              /\ Len(index[k].addresses) >= MinBridge + 2
  BY ViewsOf
<1>6. \A t : View(t).signature = SubSeq(t.addresses, 1, Len(t.addresses) - MinBridge - 1)
  BY DEF View
<1>7. ASSUME NEW k \in DOMAIN views
      PROVE  LET t == index[k].addresses
             IN /\ t \in Paths /\ Len(t) \in Nat /\ Len(t) >= 1
                /\ views[k].signature \in Paths /\ views[k].signature # <<>>
                /\ views[k].signature[1] = t[1]
  <2> DEFINE t == index[k].addresses
             n == Len(t) - MinBridge - 1
  <2>1. index[k] \in Rows
    BY <1>5
  <2>2. t \in Paths
    BY <2>1 DEF Rows
  <2>3. t \in Seq(Addresses) /\ Len(t) \in Nat
    BY <2>2 DEF Paths
  <2>4. Len(t) >= MinBridge + 2 /\ MinBridge \in Nat
    BY <1>5, EquivalenceParameters
  <2>5. views[k].signature = SubSeq(t, 1, n)
    BY <1>5, <1>6
  <2> HIDE DEF t, views
  <2>6. n \in 1..Len(t)
    BY <2>3, <2>4
  <2> HIDE DEF n
  <2>7. SubSeq(t, 1, n) \in Seq(Addresses) /\ Len(SubSeq(t, 1, n)) = n /\ SubSeq(t, 1, n)[1] = t[1]
    BY <2>3, <2>6
  <2>8. n >= 1 /\ Len(t) >= 1
    BY <2>3, <2>6
  <2>9. SubSeq(t, 1, n) # <<>>
    BY <2>6, <2>7
  <2> QED BY <2>2, <2>3, <2>5, <2>7, <2>8, <2>9 DEF t, Paths
<1>8. y \in Paths
  BY <1>1, <1>7
<1> HIDE DEF views, W, S, C, c, d
<1>9. c \in Nat
  <2>1. S \in SUBSET AllPairs(index)
    BY <1>3
  <2> QED BY <2>1, PairsFinite DEF C, c
<1>10. c # 0
  BY <1>2, <1>9, EquivalenceParameters DEF Judged
<1>11. C # {}
  BY <1>10, FS_EmptySet DEF c
<1>12. PICK w \in S : TRUE
  BY <1>11 DEF C, LineagesOf
<1> DEFINE k == w[1]
           t == index[k].addresses
<1>13. k \in DOMAIN views /\ views[k].signature = q
  BY <1>4
<1>14. t \in Paths /\ Len(t) \in Nat /\ Len(t) >= 1 /\ q \in Paths /\ q # <<>> /\ q[1] = t[1]
  BY <1>7, <1>13
<1>15. k \in DOMAIN index
  BY <1>5, <1>13
<1> HIDE DEF t, q, k
<1>16. Overlap(q, t) > 0
  <2> DEFINE both == ToSet(q) \cap ToSet(t)
  <2>1. t[1] \in both
    <3>1. Len(q) \in Nat /\ Len(q) # 0 /\ DOMAIN q = 1..Len(q) /\ DOMAIN t = 1..Len(t)
      BY <1>14 DEF Paths
    <3>2. 1 \in DOMAIN q /\ 1 \in DOMAIN t
      BY <1>14, <3>1
    <3> QED BY <1>14, <3>2 DEF ToSet
  <2>2. IsFiniteSet(ToSet(t))
    <3>1. DOMAIN t \in SUBSET (1..Len(t))
      BY <1>14 DEF Paths
    <3>2. IsFiniteSet({t[j] : j \in DOMAIN t})
      BY <1>14, <3>1, FewAre
    <3> QED BY <3>2 DEF ToSet
  <2>3. IsFiniteSet(both)
    BY <2>2, FS_Subset
  <2> HIDE DEF both
  <2>4. Cardinality(both) \in Nat /\ Cardinality(both) # 0
    BY <2>1, <2>3, FS_CardinalityType, FS_EmptySet
  <2>5. Cardinality(both) > 0
    BY <2>4
  <2> QED BY <2>5 DEF Overlap, both
<1>17. k \in KnownOf(index, raw)
  BY <1>15, <1>16 DEF KnownOf, t, q
<1> QED BY <1>8, <1>17

\* The answer rests on the direct attractor alone, and on what it names.
LEMMA AnswerGrounded ==
  ASSUME NEW index, NEW raw, NEW direct, Grounded(index, raw, direct), NEW attempts,
         attempts # {} => KnownOf(index, raw) # {}
  PROVE  LET a == DirectAnswer(direct, attempts)
             known == KnownOf(index, raw)
         IN /\ a.status = "unresolved" <=> known = {}
            /\ a.tier \in {"direct-attractor", "none"}
            /\ a.status = "resolved" => direct.resolved /\ a.address = direct.pareto
            /\ a.status \in {"resolved", "terminal"} =>
                  /\ a.support # {}
                  /\ \A i \in a.support : /\ i \in known
                                          /\ \A x \in a.address : x \in ToSet(index[i].addresses)
<1> DEFINE known == KnownOf(index, raw)
           a == DirectAnswer(direct, attempts)
           all == direct.terminals \cup UNION {c.support : c \in direct.candidates}
           one == SupportOf(direct, CHOOSE x \in direct.pareto : TRUE)
           alternate == UNION {r.pareto : r \in {s \in attempts : s.resolved}}
           ends == \E r \in attempts : r.terminal
           open == \E r \in attempts : r.ambiguous
           support == UNION {r.terminals : r \in {s \in attempts : s.terminal}}
                        \cup UNION {SupportOf(r, CHOOSE x \in r.pareto : TRUE) :
                                       r \in {s \in attempts : s.resolved}}
           other == IF open \/ (ends /\ alternate # {}) \/ Cardinality(alternate) > 1
                    THEN Answer("ambiguous", "equivalent-attractor", {}, alternate, support,
                                \E r \in attempts : r.bounded)
                    ELSE IF alternate # {}
                    THEN Answer("resolved", "equivalent-attractor", alternate, {}, support, FALSE)
                    ELSE IF ends THEN Answer("terminal", "equivalent-attractor", {}, {}, support, FALSE)
                    ELSE Answer("unresolved", "none", {}, {}, {}, FALSE)
           unclear == Answer("ambiguous", "direct-attractor", {}, direct.pareto, all, direct.bounded)
           clear == Answer("resolved", "direct-attractor", direct.pareto, {}, one, FALSE)
           end == Answer("terminal", "direct-attractor", {}, {}, direct.terminals, FALSE)
<1>1. a = CASE direct.ambiguous -> unclear
            [] direct.resolved -> clear
            [] direct.terminal -> end
            [] OTHER -> other
  BY DEF DirectAnswer
<1>2. /\ direct.ambiguous \in BOOLEAN /\ direct.resolved \in BOOLEAN /\ direct.terminal \in BOOLEAN
      /\ known = {} <=> ~direct.ambiguous /\ ~direct.resolved /\ ~direct.terminal
      /\ direct.ambiguous => ~direct.resolved /\ ~direct.terminal
      /\ direct.resolved => ~direct.terminal
      /\ direct.resolved => direct.terminals = {} /\ \E c \in direct.candidates : direct.pareto = {c.address}
      /\ direct.terminal => direct.terminals # {}
      /\ direct.terminals \subseteq known
  BY DEF Grounded
<1>3. \A c \in direct.candidates :
         c.support # {} /\ \A i \in c.support : i \in known /\ c.address \in ToSet(index[i].addresses)
  BY DEF Grounded
<1>4. /\ unclear.status = "ambiguous" /\ unclear.tier = "direct-attractor"
      /\ clear.status = "resolved" /\ clear.tier = "direct-attractor"
      /\ clear.address = direct.pareto /\ clear.support = one
      /\ end.status = "terminal" /\ end.tier = "direct-attractor"
      /\ end.address = {} /\ end.support = direct.terminals
  BY DEF Answer
<1>5. ASSUME attempts = {} PROVE other.status = "unresolved" /\ other.tier = "none"
  <2>1. ~open /\ ~ends /\ alternate = {} /\ ~(Cardinality(alternate) > 1)
    <3>1. ~open /\ ~ends /\ alternate = {}
      BY <1>5
    <3> HIDE DEF alternate
    <3>2. Cardinality(alternate) = 0
      BY <3>1, FS_EmptySet
    <3> QED BY <3>1, <3>2
  <2> HIDE DEF open, ends, alternate, support
  <2>2. other = Answer("unresolved", "none", {}, {}, {}, FALSE)
    BY <2>1
  <2> HIDE DEF other
  <2> QED BY <2>2 DEF Answer
<1> HIDE DEF known, a, one, other, unclear, clear, end
<1>6. CASE direct.ambiguous
  <2>1. a = unclear /\ known # {} /\ ~direct.resolved
    BY <1>1, <1>2, <1>6
  <2> QED BY <1>4, <2>1 DEF a, known
<1>7. CASE direct.resolved
  <2>1. a = clear /\ known # {}
    BY <1>1, <1>2, <1>7
  <2>2. PICK c \in direct.candidates : direct.pareto = {c.address}
    BY <1>2, <1>7
  <2>3. (CHOOSE x \in direct.pareto : TRUE) = c.address
    BY <2>2
  <2>4. one = direct.terminals \cup UNION {e.support : e \in {d \in direct.candidates : d.address = c.address}}
    BY <2>3 DEF one, SupportOf
  <2>5. direct.terminals = {}
    BY <1>2, <1>7
  <2>6. one # {}
    <3>1. PICK i \in c.support : TRUE
      BY <1>3
    <3>2. i \in one
      BY <2>4, <3>1
    <3> QED BY <3>2
  <2>7. ASSUME NEW i \in one PROVE i \in known /\ c.address \in ToSet(index[i].addresses)
    <3>1. PICK e \in direct.candidates : e.address = c.address /\ i \in e.support
      BY <2>4, <2>5
    <3>2. i \in known /\ e.address \in ToSet(index[i].addresses)
      BY <1>3, <3>1
    <3> QED BY <3>1, <3>2
  <2>8. /\ a.status = "resolved" /\ a.tier = "direct-attractor"
        /\ a.address = {c.address} /\ a.address = direct.pareto /\ a.support = one
    BY <1>4, <2>1, <2>2
  <2> QED BY <1>7, <2>1, <2>6, <2>7, <2>8 DEF a, known
<1>8. CASE direct.terminal
  <2>1. a = end /\ known # {} /\ direct.terminals # {} /\ direct.terminals \subseteq known
    BY <1>1, <1>2, <1>8
  <2>2. /\ a.status = "terminal" /\ a.tier = "direct-attractor"
        /\ a.address = {} /\ a.support = direct.terminals
    BY <1>4, <2>1
  <2> QED BY <2>1, <2>2 DEF a, known
<1>9. CASE ~direct.ambiguous /\ ~direct.resolved /\ ~direct.terminal
  <2>1. known = {} /\ attempts = {}
    BY <1>2, <1>9 DEF known
  <2>2. a = other
    BY <1>1, <1>9
  <2>3. a.status = "unresolved" /\ a.tier = "none"
    BY <1>5, <2>1, <2>2
  <2> QED BY <2>1, <2>3 DEF a, known
<1> QED BY <1>6, <1>7, <1>8, <1>9

\* Inference is grounded for every query.
LEMMA InferenceGrounded ==
  ASSUME IndexTyped
  PROVE  InferenceIsGrounded(Paths)
<1> DEFINE index == trajectories
<1> SUFFICES ASSUME NEW q \in Paths
             PROVE  LET r == InferStructural(index, q, NoReading, 2, 2)
                        known == \E t \in ToSet(index) : Overlap(q, t.addresses) > 0
                    IN /\ (r.answer.status = "unresolved") <=> ~known
                       /\ r.answer.tier \in {"direct-attractor", "none"}
                       /\ r.attempts # {} => known
                       /\ r.answer.status \in {"resolved", "terminal"} =>
                              /\ r.answer.support # {}
                              /\ \A i \in r.answer.support :
                                     /\ Overlap(q, index[i].addresses) > 0
                                     /\ \A a \in r.answer.address : a \in ToSet(index[i].addresses)
                                     /\ index[i].sequence \in r.provenance
                       /\ r.answer.status = "resolved" /\ r.conflicts = {} =>
                              \A s \in r.attempts : s.resolved => s.pareto = r.answer.address
  BY DEF InferenceIsGrounded
<1>1. index \in Seq(Rows)
  BY DEF IndexTyped
<1> DEFINE r == InferStructural(index, q, NoReading, 2, 2)
           known == \E t \in ToSet(index) : Overlap(q, t.addresses) > 0
           direct == ResolveAttractor(index, q, NoReading, 2, 2)
           attempts == {ResolveAttractor(index, y, NoReading, 2, 2) : y \in Alternates(index, Collapsed(q))}
           places == KnownOf(index, q)
           answer == DirectAnswer(direct, attempts)
<1>2. /\ r.answer = answer /\ r.attempts = attempts /\ r.conflicts = Conflicts(direct, attempts)
      /\ r.provenance = {index[i].sequence : i \in answer.support}
  BY DEF InferStructural, Inferred
<1>3. \A t : Overlap(Collapsed(q), t) = Overlap(q, t)
  BY SameAddresses DEF Overlap
<1>4. places = {i \in DOMAIN index : Overlap(q, index[i].addresses) > 0}
  BY <1>3 DEF KnownOf
<1>5. known <=> places # {}
  BY <1>4 DEF ToSet
<1>6. Grounded(index, q, direct)
  BY <1>1, AttractorGrounded
<1>7. \A y \in Alternates(index, Collapsed(q)) : y \in Paths /\ places # {}
  BY <1>1, ReformulatedIsKnown DEF Alternates
<1>8. ASSUME NEW s \in attempts
      PROVE  /\ places # {}
             /\ s.resolved => \E c \in s.candidates : s.pareto = {c.address}
  <2>1. PICK y \in Alternates(index, Collapsed(q)) : s = ResolveAttractor(index, y, NoReading, 2, 2)
    OBVIOUS
  <2>2. y \in Paths /\ places # {}
    BY <1>7
  <2>3. Grounded(index, y, s)
    BY <1>1, <2>1, <2>2, AttractorGrounded
  <2> QED BY <2>2, <2>3 DEF Grounded
<1> HIDE DEF attempts, direct, r, known, answer
<1>9. attempts # {} => places # {}
  BY <1>8
<1>10. /\ answer.status = "unresolved" <=> places = {}
       /\ answer.tier \in {"direct-attractor", "none"}
       /\ answer.status = "resolved" => direct.resolved /\ answer.address = direct.pareto
       /\ answer.status \in {"resolved", "terminal"} =>
             /\ answer.support # {}
             /\ \A i \in answer.support : /\ i \in places
                                          /\ \A x \in answer.address : x \in ToSet(index[i].addresses)
  BY <1>6, <1>9, AnswerGrounded DEF answer
<1>11. ASSUME answer.status = "resolved", Conflicts(direct, attempts) = {},
              NEW s \in attempts, s.resolved
       PROVE  s.pareto = answer.address
  <2> DEFINE alternate == UNION {z.pareto : z \in {u \in attempts : u.resolved}}
             disagrees == direct.resolved /\ alternate # {} /\ alternate # direct.pareto
  <2>1. ~disagrees
    <3>1. {c \in {"equivalent-path-disagrees-with-direct"} : disagrees} \subseteq Conflicts(direct, attempts)
      BY DEF Conflicts
    <3> HIDE DEF disagrees
    <3> QED BY <1>11, <3>1
  <2>2. PICK c : s.pareto = {c.address}
    BY <1>8, <1>11
  <2>3. c.address \in alternate
    BY <1>11, <2>2
  <2>4. direct.resolved /\ answer.address = direct.pareto
    BY <1>10, <1>11
  <2>5. PICK e : direct.pareto = {e.address}
    BY <1>6, <2>4 DEF Grounded
  <2> HIDE DEF alternate
  <2>6. alternate = direct.pareto
    BY <2>1, <2>3, <2>4
  <2> QED BY <2>2, <2>3, <2>4, <2>5, <2>6
<1>12. \A i \in answer.support : index[i].sequence \in r.provenance
  BY <1>2
<1>13. \A i \in places : Overlap(q, index[i].addresses) > 0
  BY <1>4
<1> HIDE DEF places
<1> QED BY <1>2, <1>5, <1>9, <1>10, <1>11, <1>12, <1>13 DEF r, known

-----------------------------------------------------------------------------
(* Equivalence and inference over any index, and in MCCognition.           *)

\* The invariant of an index of at most so many trajectories.
InferenceInv(many) ==
  /\ IndexTyped /\ Len(trajectories) <= many
  /\ \A i \in DOMAIN trajectories : NoRepeats(trajectories[i].addresses)

\* Ingestion keeps the trails collapsed, and what is delivered again adds no row.
LEMMA InferenceStep ==
  ASSUME NEW many \in Nat, InferenceInv(many), NEW sources \in SUBSET Nat, NEW raws \in SUBSET Paths,
         TrajectoriesNext(sources, many, raws)
  PROVE  InferenceInv(many)'
<1>1. IndexTyped'
  BY IndexGrows DEF InferenceInv
<1>2. /\ trajectories \in Seq(Rows) /\ Len(trajectories) \in Nat /\ Len(trajectories) <= many
      /\ DOMAIN trajectories = 1..Len(trajectories)
      /\ \A i \in DOMAIN trajectories : NoRepeats(trajectories[i].addresses)
  BY DEF InferenceInv, IndexTyped
<1>3. CASE Len(trajectories) < many /\ \E s \in sources, raw \in raws : Ingest(s, Len(trajectories) + 1, raw)
  <2>1. PICK s \in sources, raw \in raws : Ingest(s, Len(trajectories) + 1, raw)
    BY <1>3
  <2> DEFINE n == Len(trajectories)
             t == [source |-> s, sequence |-> n + 1, addresses |-> Collapsed(raw)]
  <2>2. trajectories' = trajectories \/ trajectories' = Append(trajectories, t)
    BY <2>1 DEF Ingest, Ingested
  <2>3. CASE trajectories' = trajectories
    BY <1>1, <1>2, <2>3 DEF InferenceInv
  <2>4. CASE trajectories' = Append(trajectories, t)
    <3>1. NoRepeats(t.addresses)
      BY NeverTwice
    <3> HIDE DEF t
    <3>2. /\ Len(trajectories') = n + 1 /\ DOMAIN trajectories' = 1..n + 1
          /\ trajectories'[n + 1] = t
          /\ \A i \in 1..n : trajectories'[i] = trajectories[i]
      BY <1>2, <2>4
    <3>3. n + 1 <= many /\ \A i \in 1..n + 1 : i \in 1..n \/ i = n + 1
      BY <1>2, <1>3
    <3> HIDE DEF n
    <3>4. \A i \in DOMAIN trajectories' : NoRepeats(trajectories'[i].addresses)
      BY <1>2, <3>1, <3>2, <3>3 DEF n
    <3>5. Len(trajectories') <= many
      BY <3>2, <3>3
    <3> QED BY <1>1, <3>4, <3>5 DEF InferenceInv
  <2> QED BY <2>2, <2>3, <2>4
<1>4. CASE \E i \in DOMAIN trajectories :
             Ingest(trajectories[i].source, trajectories[i].sequence, trajectories[i].addresses)
  <2>1. PICK i \in DOMAIN trajectories :
             Ingest(trajectories[i].source, trajectories[i].sequence, trajectories[i].addresses)
    BY <1>4
  <2> DEFINE t == trajectories[i]
             again == [source |-> t.source, sequence |-> t.sequence, addresses |-> Collapsed(t.addresses)]
  <2>2. t \in Rows
    BY <1>2
  <2>3. t.addresses \in Paths /\ t = [source |-> t.source, sequence |-> t.sequence, addresses |-> t.addresses]
    BY <2>2 DEF Rows
  <2>4. again = t
    BY <1>2, <2>3, CollapsedStays
  <2>5. Contains(trajectories, again)
    <3>1. \E k \in 1..Len(trajectories) : trajectories[k] = again
      BY <1>2, <2>4
    <3> QED BY <3>1 DEF Contains
  <2>6. trajectories' = trajectories
    BY <2>1, <2>5 DEF Ingest, Ingested
  <2> QED BY <1>1, <1>2, <2>6 DEF InferenceInv
<1> QED BY <1>3, <1>4 DEF TrajectoriesNext

\* What the invariant says of equivalence and inference.
LEMMA InferenceFollows ==
  ASSUME NEW many \in Nat, many + 1 < Unlimited, InferenceInv(many)
  PROVE  EquivalenceIsSound /\ InferenceIsGrounded(Paths)
<1>1. IndexTyped /\ Len(trajectories) \in Nat /\ Len(trajectories) <= many
  BY DEF InferenceInv, IndexTyped
<1>2. Unlimited \in Nat
  BY DEF Unlimited
<1>3. Len(trajectories) + 1 < Unlimited
  <2> HIDE DEF Unlimited
  <2> QED BY <1>1, <1>2
<1> QED BY <1>1, <1>3, EquivalenceSound, InferenceGrounded

\* In an index of any trails from any sources, as long as it stays below what the
\* unlimited engine can take whole: equivalence has no direction, rests on different
\* lineages, is moved by no replay and can be revoked; and inference answers every
\* query from trajectories that share an address with it and go on to what it says,
\* or says that there is none (StructuralEquivalenceEngineV2 and
\* ResolutiveInferenceEngineV2).
THEOREM InferenceHolds ==
  ASSUME NEW many \in Nat, many + 1 < Unlimited, NEW sources \in SUBSET Nat, NEW raws \in SUBSET Paths
  PROVE  TrajectoriesInit /\ [][TrajectoriesNext(sources, many, raws)]_trajectories
         => [](EquivalenceIsSound /\ InferenceIsGrounded(Paths))
<1>1. TrajectoriesInit => InferenceInv(many)
  BY DEF TrajectoriesInit, InferenceInv, IndexTyped
<1>2. InferenceInv(many) /\ [TrajectoriesNext(sources, many, raws)]_trajectories => InferenceInv(many)'
  <2>1. CASE TrajectoriesNext(sources, many, raws)
    BY <2>1, InferenceStep
  <2>2. CASE UNCHANGED trajectories
    BY <2>2 DEF InferenceInv, IndexTyped
  <2> QED BY <2>1, <2>2
<1>3. InferenceInv(many) => EquivalenceIsSound /\ InferenceIsGrounded(Paths)
  BY InferenceFollows
<1> QED BY <1>1, <1>2, <1>3, PTL


\* The invariant, where inference is in focus.
InferenceHold == focus = "inference" => InferenceInv(3)

\* So it is in the machine of MCCognition, where inference is one focus.
THEOREM InferenceAlwaysSound == Spec => []InferenceIsSound
<1>1. Init => InferenceHold
  BY DEF Init, TrajectoriesInit, InferenceHold, InferenceInv, IndexTyped
<1>2. InferenceHold /\ [Next]_<<focus, cognitionVars>> => InferenceHold'
  <2> SUFFICES ASSUME InferenceHold, [Next]_<<focus, cognitionVars>> PROVE InferenceHold'
    OBVIOUS
  <2>1. CASE InferenceMoves
    <3> DEFINE sources == 1..(Len(trajectories) + 1)
               raws == {t \in Trails(3) : Len(t) = 3}
    <3>1. focus = "inference" /\ InferenceInv(3) /\ TrajectoriesNext(sources, 3, raws)
      BY <2>1 DEF InferenceMoves, InferenceHold
    <3>2. sources \in SUBSET Nat
      BY <3>1 DEF InferenceInv, IndexTyped
    <3>3. raws \in SUBSET Paths /\ 3 \in Nat
      BY TrailsTyped
    <3> HIDE DEF sources, raws
    <3>4. InferenceInv(3)'
      BY <3>1, <3>2, <3>3, InferenceStep
    <3> QED BY <3>4 DEF InferenceHold
  <2>2. CASE LayersMove
    BY <2>2 DEF LayersMove, Others, InferenceHold, InferenceInv, IndexTyped
  <2>3. CASE BranchesMove
    BY <2>3 DEF BranchesMove, Others, InferenceHold
  <2>4. CASE FieldMoves
    BY <2>4 DEF FieldMoves, Others, InferenceHold, InferenceInv, IndexTyped
  <2>5. CASE ContinuousMoves
    BY <2>5 DEF ContinuousMoves, Others, InferenceHold, InferenceInv, IndexTyped
  <2>6. CASE QueriesMove
    BY <2>6 DEF QueriesMove, Others, InferenceHold
  <2>7. CASE LevelsMove
    BY <2>7 DEF LevelsMove, Others, InferenceHold
  <2>8. CASE UNCHANGED <<focus, cognitionVars>>
    BY <2>8 DEF cognitionVars, InferenceHold, InferenceInv, IndexTyped
  <2> QED BY <2>1, <2>2, <2>3, <2>4, <2>5, <2>6, <2>7, <2>8 DEF Next
<1>3. InferenceHold => InferenceIsSound
  <2> SUFFICES ASSUME InferenceHold, focus = "inference" PROVE EquivalenceIsSound /\ InferenceIsGrounded(Trails(1))
    BY DEF InferenceIsSound
  <2>1. 3 \in Nat /\ 3 + 1 < Unlimited /\ InferenceInv(3)
    BY DEF Unlimited, InferenceHold
  <2>2. EquivalenceIsSound /\ InferenceIsGrounded(Paths)
    BY <2>1, InferenceFollows
  <2>3. Trails(1) \subseteq Paths
    BY TrailsTyped
  <2>4. InferenceIsGrounded(Trails(1))
    BY <2>2, <2>3 DEF InferenceIsGrounded
  <2> QED BY <2>2, <2>4
<1> QED BY <1>1, <1>2, <1>3, PTL DEF Spec

-----------------------------------------------------------------------------
(* Rankings, levels and masses: their recursions unrolled.                 *)

\* Following a query along a trail goes through one step per address,
LEMMA OrderedIs ==
  ASSUME NEW q, NEW t, Len(t) \in Nat
  PROVE  \E f : /\ f[0] = 0
                /\ \A n \in 1..Len(t) : f[n] = f[n - 1] + (IF f[n - 1] < Len(q) /\ t[n] = q[f[n - 1] + 1] THEN 1 ELSE 0)
                /\ OrderedOverlap(q, t) = f[Len(t)]
<1> DEFINE Is(m, f) == f = [n \in 0..m |-> IF n = 0 THEN 0 ELSE f[n - 1] + (IF f[n - 1] < Len(q) /\ t[n] = q[f[n - 1] + 1] THEN 1 ELSE 0)]
           P == {m \in 0..Len(t) : \E f : Is(m, f)}
<1>1. 0 \in P
  <2> DEFINE g == [n \in 0..0 |-> 0]
  <2>1. g = [n \in 0..0 |-> IF n = 0 THEN 0 ELSE g[n - 1] + (IF g[n - 1] < Len(q) /\ t[n] = q[g[n - 1] + 1] THEN 1 ELSE 0)]
    OBVIOUS
  <2> HIDE DEF g
  <2>2. Is(0, g) /\ 0 \in 0..Len(t)
    BY <2>1
  <2> QED BY <2>2
<1>2. ASSUME NEW m \in 0..Len(t), m < Len(t), m \in P PROVE m + 1 \in P
  <2>1. PICK f : Is(m, f)
    BY <1>2
  <2> DEFINE g == [n \in 0..m + 1 |-> IF n <= m THEN f[n] ELSE f[m] + (IF f[m] < Len(q) /\ t[m + 1] = q[f[m] + 1] THEN 1 ELSE 0)]
  <2>2. ASSUME NEW n \in 0..m + 1
        PROVE  g[n] = IF n = 0 THEN 0 ELSE g[n - 1] + (IF g[n - 1] < Len(q) /\ t[n] = q[g[n - 1] + 1] THEN 1 ELSE 0)
    <3>1. CASE n = 0
      BY <2>1, <3>1
    <3>2. CASE n # 0 /\ n <= m
      <4>1. n \in 0..m /\ n - 1 \in 0..m + 1 /\ n - 1 <= m
        BY <3>2
      <4>2. g[n] = f[n] /\ g[n - 1] = f[n - 1]
        BY <3>2, <4>1
      <4> HIDE DEF g
      <4> QED BY <2>1, <3>2, <4>1, <4>2
    <3>3. CASE n = m + 1
      <4>1. n # 0 /\ ~(n <= m) /\ n - 1 = m /\ m \in 0..m + 1
        BY <3>3
      <4>2. g[n - 1] = f[m] /\ g[n] = f[m] + (IF f[m] < Len(q) /\ t[m + 1] = q[f[m] + 1] THEN 1 ELSE 0)
        BY <4>1
      <4> HIDE DEF g
      <4> QED BY <3>3, <4>1, <4>2
    <3> QED BY <3>1, <3>2, <3>3
  <2>3. g = [n \in 0..m + 1 |-> g[n]]
    OBVIOUS
  <2> HIDE DEF g
  <2>4. Is(m + 1, g)
    BY <2>2, <2>3
  <2>5. m + 1 \in 0..Len(t)
    BY <1>2
  <2> QED BY <2>4, <2>5
<1>3. Len(t) \in P
  <2> HIDE DEF P
  <2>1. 0..Len(t) \subseteq P
    BY <1>1, <1>2, Upwards
  <2> QED BY <2>1
<1> DEFINE after == CHOOSE f : Is(Len(t), f)
<1>4. Is(Len(t), after)
  BY <1>3
<1>5. OrderedOverlap(q, t) = after[Len(t)]
  BY DEF OrderedOverlap
<1> HIDE DEF after
<1>6. after[0] = 0 /\ \A n \in 1..Len(t) : after[n] = after[n - 1] + (IF after[n - 1] < Len(q) /\ t[n] = q[after[n - 1] + 1] THEN 1 ELSE 0)
  <2>1. 0 \in 0..Len(t) /\ \A n \in 1..Len(t) : n \in 0..Len(t) /\ n # 0
    OBVIOUS
  <2> QED BY <1>4, <2>1
<1> QED BY <1>5, <1>6

\* restoring one per row,
LEMMA RestoreIs ==
  ASSUME NEW rows, Len(rows) \in Nat
  PROVE  \E f : /\ f[0] = <<>>
                /\ \A n \in 1..Len(rows) : f[n] = Ingested(f[n - 1], rows[n])
                /\ Restore(rows) = f[Len(rows)]
<1> DEFINE Is(m, f) == f = [n \in 0..m |-> IF n = 0 THEN <<>> ELSE Ingested(f[n - 1], rows[n])]
           P == {m \in 0..Len(rows) : \E f : Is(m, f)}
<1>1. 0 \in P
  <2> DEFINE g == [n \in 0..0 |-> <<>>]
  <2>1. g = [n \in 0..0 |-> IF n = 0 THEN <<>> ELSE Ingested(g[n - 1], rows[n])]
    OBVIOUS
  <2> HIDE DEF g
  <2>2. Is(0, g) /\ 0 \in 0..Len(rows)
    BY <2>1
  <2> QED BY <2>2
<1>2. ASSUME NEW m \in 0..Len(rows), m < Len(rows), m \in P PROVE m + 1 \in P
  <2>1. PICK f : Is(m, f)
    BY <1>2
  <2> DEFINE g == [n \in 0..m + 1 |-> IF n <= m THEN f[n] ELSE Ingested(f[m], rows[m + 1])]
  <2>2. ASSUME NEW n \in 0..m + 1
        PROVE  g[n] = IF n = 0 THEN <<>> ELSE Ingested(g[n - 1], rows[n])
    <3>1. CASE n = 0
      BY <2>1, <3>1
    <3>2. CASE n # 0 /\ n <= m
      <4>1. n \in 0..m /\ n - 1 \in 0..m + 1 /\ n - 1 <= m
        BY <3>2
      <4>2. g[n] = f[n] /\ g[n - 1] = f[n - 1]
        BY <3>2, <4>1
      <4> HIDE DEF g
      <4> QED BY <2>1, <3>2, <4>1, <4>2
    <3>3. CASE n = m + 1
      <4>1. n # 0 /\ ~(n <= m) /\ n - 1 = m /\ m \in 0..m + 1
        BY <3>3
      <4>2. g[n - 1] = f[m] /\ g[n] = Ingested(f[m], rows[m + 1])
        BY <4>1
      <4> HIDE DEF g
      <4> QED BY <3>3, <4>1, <4>2
    <3> QED BY <3>1, <3>2, <3>3
  <2>3. g = [n \in 0..m + 1 |-> g[n]]
    OBVIOUS
  <2> HIDE DEF g
  <2>4. Is(m + 1, g)
    BY <2>2, <2>3
  <2>5. m + 1 \in 0..Len(rows)
    BY <1>2
  <2> QED BY <2>4, <2>5
<1>3. Len(rows) \in P
  <2> HIDE DEF P
  <2>1. 0..Len(rows) \subseteq P
    BY <1>1, <1>2, Upwards
  <2> QED BY <2>1
<1> DEFINE after == CHOOSE f : Is(Len(rows), f)
<1>4. Is(Len(rows), after)
  BY <1>3
<1>5. Restore(rows) = after[Len(rows)]
  BY DEF Restore
<1> HIDE DEF after
<1>6. after[0] = <<>> /\ \A n \in 1..Len(rows) : after[n] = Ingested(after[n - 1], rows[n])
  <2>1. 0 \in 0..Len(rows) /\ \A n \in 1..Len(rows) : n \in 0..Len(rows) /\ n # 0
    OBVIOUS
  <2> QED BY <1>4, <2>1
<1> QED BY <1>5, <1>6

\* the length of the longest common subsequence one row per address,
LEMMA LengthIs ==
  ASSUME NEW q, NEW t, Len(q) \in Nat
  PROVE  \E f : /\ f[0] = NoLcs(t)
                /\ \A n \in 1..Len(q) : f[n] = LcsRow(f[n - 1], q[n], t)
                /\ LcsLength(q, t) = Last(f[Len(q)])
<1> DEFINE Is(m, f) == f = [n \in 0..m |-> IF n = 0 THEN NoLcs(t) ELSE LcsRow(f[n - 1], q[n], t)]
           P == {m \in 0..Len(q) : \E f : Is(m, f)}
<1>1. 0 \in P
  <2> DEFINE g == [n \in 0..0 |-> NoLcs(t)]
  <2>1. g = [n \in 0..0 |-> IF n = 0 THEN NoLcs(t) ELSE LcsRow(g[n - 1], q[n], t)]
    OBVIOUS
  <2> HIDE DEF g
  <2>2. Is(0, g) /\ 0 \in 0..Len(q)
    BY <2>1
  <2> QED BY <2>2
<1>2. ASSUME NEW m \in 0..Len(q), m < Len(q), m \in P PROVE m + 1 \in P
  <2>1. PICK f : Is(m, f)
    BY <1>2
  <2> DEFINE g == [n \in 0..m + 1 |-> IF n <= m THEN f[n] ELSE LcsRow(f[m], q[m + 1], t)]
  <2>2. ASSUME NEW n \in 0..m + 1
        PROVE  g[n] = IF n = 0 THEN NoLcs(t) ELSE LcsRow(g[n - 1], q[n], t)
    <3>1. CASE n = 0
      BY <2>1, <3>1
    <3>2. CASE n # 0 /\ n <= m
      <4>1. n \in 0..m /\ n - 1 \in 0..m + 1 /\ n - 1 <= m
        BY <3>2
      <4>2. g[n] = f[n] /\ g[n - 1] = f[n - 1]
        BY <3>2, <4>1
      <4> HIDE DEF g
      <4> QED BY <2>1, <3>2, <4>1, <4>2
    <3>3. CASE n = m + 1
      <4>1. n # 0 /\ ~(n <= m) /\ n - 1 = m /\ m \in 0..m + 1
        BY <3>3
      <4>2. g[n - 1] = f[m] /\ g[n] = LcsRow(f[m], q[m + 1], t)
        BY <4>1
      <4> HIDE DEF g
      <4> QED BY <3>3, <4>1, <4>2
    <3> QED BY <3>1, <3>2, <3>3
  <2>3. g = [n \in 0..m + 1 |-> g[n]]
    OBVIOUS
  <2> HIDE DEF g
  <2>4. Is(m + 1, g)
    BY <2>2, <2>3
  <2>5. m + 1 \in 0..Len(q)
    BY <1>2
  <2> QED BY <2>4, <2>5
<1>3. Len(q) \in P
  <2> HIDE DEF P
  <2>1. 0..Len(q) \subseteq P
    BY <1>1, <1>2, Upwards
  <2> QED BY <2>1
<1> DEFINE after == CHOOSE f : Is(Len(q), f)
<1>4. Is(Len(q), after)
  BY <1>3
<1>5. LcsLength(q, t) = Last(after[Len(q)])
  BY DEF LcsLength
<1> HIDE DEF after
<1>6. after[0] = NoLcs(t) /\ \A n \in 1..Len(q) : after[n] = LcsRow(after[n - 1], q[n], t)
  <2>1. 0 \in 0..Len(q) /\ \A n \in 1..Len(q) : n \in 0..Len(q) /\ n # 0
    OBVIOUS
  <2> QED BY <1>4, <2>1
<1> QED BY <1>5, <1>6

\* the hierarchy one per level,
LEMMA BuildIs ==
  ASSUME NEW index, NEW cap, MaxDepth \in Nat
  PROVE  \E f : /\ f[0] = [levels |-> <<>>, streams |-> AtomicStreams(index), done |-> FALSE]
                /\ \A n \in 1..MaxDepth : f[n] = NextLevel(f[n - 1], n, cap)
                /\ Build(index, cap) = f[MaxDepth].levels
<1> DEFINE Is(m, f) == f = [n \in 0..m |-> IF n = 0 THEN [levels |-> <<>>, streams |-> AtomicStreams(index), done |-> FALSE] ELSE NextLevel(f[n - 1], n, cap)]
           P == {m \in 0..MaxDepth : \E f : Is(m, f)}
<1>1. 0 \in P
  <2> DEFINE g == [n \in 0..0 |-> [levels |-> <<>>, streams |-> AtomicStreams(index), done |-> FALSE]]
  <2>1. g = [n \in 0..0 |-> IF n = 0 THEN [levels |-> <<>>, streams |-> AtomicStreams(index), done |-> FALSE] ELSE NextLevel(g[n - 1], n, cap)]
    OBVIOUS
  <2> HIDE DEF g
  <2>2. Is(0, g) /\ 0 \in 0..MaxDepth
    BY <2>1
  <2> QED BY <2>2
<1>2. ASSUME NEW m \in 0..MaxDepth, m < MaxDepth, m \in P PROVE m + 1 \in P
  <2>1. PICK f : Is(m, f)
    BY <1>2
  <2> DEFINE g == [n \in 0..m + 1 |-> IF n <= m THEN f[n] ELSE NextLevel(f[m], m + 1, cap)]
  <2>2. ASSUME NEW n \in 0..m + 1
        PROVE  g[n] = IF n = 0 THEN [levels |-> <<>>, streams |-> AtomicStreams(index), done |-> FALSE] ELSE NextLevel(g[n - 1], n, cap)
    <3>1. CASE n = 0
      BY <2>1, <3>1
    <3>2. CASE n # 0 /\ n <= m
      <4>1. n \in 0..m /\ n - 1 \in 0..m + 1 /\ n - 1 <= m
        BY <3>2
      <4>2. g[n] = f[n] /\ g[n - 1] = f[n - 1]
        BY <3>2, <4>1
      <4> HIDE DEF g
      <4> QED BY <2>1, <3>2, <4>1, <4>2
    <3>3. CASE n = m + 1
      <4>1. n # 0 /\ ~(n <= m) /\ n - 1 = m /\ m \in 0..m + 1
        BY <3>3
      <4>2. g[n - 1] = f[m] /\ g[n] = NextLevel(f[m], m + 1, cap)
        BY <4>1
      <4> HIDE DEF g
      <4> QED BY <3>3, <4>1, <4>2
    <3> QED BY <3>1, <3>2, <3>3
  <2>3. g = [n \in 0..m + 1 |-> g[n]]
    OBVIOUS
  <2> HIDE DEF g
  <2>4. Is(m + 1, g)
    BY <2>2, <2>3
  <2>5. m + 1 \in 0..MaxDepth
    BY <1>2
  <2> QED BY <2>4, <2>5
<1>3. MaxDepth \in P
  <2> HIDE DEF P
  <2>1. 0..MaxDepth \subseteq P
    BY <1>1, <1>2, Upwards
  <2> QED BY <2>1
<1> DEFINE after == CHOOSE f : Is(MaxDepth, f)
<1>4. Is(MaxDepth, after)
  BY <1>3
<1>5. Build(index, cap) = after[MaxDepth].levels
  BY DEF Build
<1> HIDE DEF after
<1>6. after[0] = [levels |-> <<>>, streams |-> AtomicStreams(index), done |-> FALSE] /\ \A n \in 1..MaxDepth : after[n] = NextLevel(after[n - 1], n, cap)
  <2>1. 0 \in 0..MaxDepth /\ \A n \in 1..MaxDepth : n \in 0..MaxDepth /\ n # 0
    OBVIOUS
  <2> QED BY <1>4, <2>1
<1> QED BY <1>5, <1>6

\* the views of a query one per level,
LEMMA ViewsAre ==
  ASSUME NEW q, NEW levels, Len(levels) \in Nat
  PROVE  \E f : /\ f[0] = <<AtomicView(q)>>
                /\ \A n \in 1..Len(levels) : f[n] = Append(f[n - 1], CollapseWithCatalogue(Last(f[n - 1]), levels[n].catalogue, n))
                /\ QueryViews(q, levels) = f[Len(levels)]
<1> DEFINE Is(m, f) == f = [n \in 0..m |-> IF n = 0 THEN <<AtomicView(q)>> ELSE Append(f[n - 1], CollapseWithCatalogue(Last(f[n - 1]), levels[n].catalogue, n))]
           P == {m \in 0..Len(levels) : \E f : Is(m, f)}
<1>1. 0 \in P
  <2> DEFINE g == [n \in 0..0 |-> <<AtomicView(q)>>]
  <2>1. g = [n \in 0..0 |-> IF n = 0 THEN <<AtomicView(q)>> ELSE Append(g[n - 1], CollapseWithCatalogue(Last(g[n - 1]), levels[n].catalogue, n))]
    OBVIOUS
  <2> HIDE DEF g
  <2>2. Is(0, g) /\ 0 \in 0..Len(levels)
    BY <2>1
  <2> QED BY <2>2
<1>2. ASSUME NEW m \in 0..Len(levels), m < Len(levels), m \in P PROVE m + 1 \in P
  <2>1. PICK f : Is(m, f)
    BY <1>2
  <2> DEFINE g == [n \in 0..m + 1 |-> IF n <= m THEN f[n] ELSE Append(f[m], CollapseWithCatalogue(Last(f[m]), levels[m + 1].catalogue, m + 1))]
  <2>2. ASSUME NEW n \in 0..m + 1
        PROVE  g[n] = IF n = 0 THEN <<AtomicView(q)>> ELSE Append(g[n - 1], CollapseWithCatalogue(Last(g[n - 1]), levels[n].catalogue, n))
    <3>1. CASE n = 0
      BY <2>1, <3>1
    <3>2. CASE n # 0 /\ n <= m
      <4>1. n \in 0..m /\ n - 1 \in 0..m + 1 /\ n - 1 <= m
        BY <3>2
      <4>2. g[n] = f[n] /\ g[n - 1] = f[n - 1]
        BY <3>2, <4>1
      <4> HIDE DEF g
      <4> QED BY <2>1, <3>2, <4>1, <4>2
    <3>3. CASE n = m + 1
      <4>1. n # 0 /\ ~(n <= m) /\ n - 1 = m /\ m \in 0..m + 1
        BY <3>3
      <4>2. g[n - 1] = f[m] /\ g[n] = Append(f[m], CollapseWithCatalogue(Last(f[m]), levels[m + 1].catalogue, m + 1))
        BY <4>1
      <4> HIDE DEF g
      <4> QED BY <3>3, <4>1, <4>2
    <3> QED BY <3>1, <3>2, <3>3
  <2>3. g = [n \in 0..m + 1 |-> g[n]]
    OBVIOUS
  <2> HIDE DEF g
  <2>4. Is(m + 1, g)
    BY <2>2, <2>3
  <2>5. m + 1 \in 0..Len(levels)
    BY <1>2
  <2> QED BY <2>4, <2>5
<1>3. Len(levels) \in P
  <2> HIDE DEF P
  <2>1. 0..Len(levels) \subseteq P
    BY <1>1, <1>2, Upwards
  <2> QED BY <2>1
<1> DEFINE after == CHOOSE f : Is(Len(levels), f)
<1>4. Is(Len(levels), after)
  BY <1>3
<1>5. QueryViews(q, levels) = after[Len(levels)]
  BY DEF QueryViews
<1> HIDE DEF after
<1>6. after[0] = <<AtomicView(q)>> /\ \A n \in 1..Len(levels) : after[n] = Append(after[n - 1], CollapseWithCatalogue(Last(after[n - 1]), levels[n].catalogue, n))
  <2>1. 0 \in 0..Len(levels) /\ \A n \in 1..Len(levels) : n \in 0..Len(levels) /\ n # 0
    OBVIOUS
  <2> QED BY <1>4, <2>1
<1> QED BY <1>5, <1>6

\* and a mass one per address.
LEMMA MassIs ==
  ASSUME NEW q, NEW target, NEW channel, NEW reading, Len(q) \in Nat
  PROVE  \E f : /\ f[0] = 0
                /\ \A n \in 1..Len(q) : f[n] = f[n - 1] + Adds(q, n, target, channel, reading)
                /\ TotalMass(q, target, channel, reading) = f[Len(q)]
<1> DEFINE Is(m, f) == f = [n \in 0..m |-> IF n = 0 THEN 0 ELSE f[n - 1] + Adds(q, n, target, channel, reading)]
           P == {m \in 0..Len(q) : \E f : Is(m, f)}
<1>1. 0 \in P
  <2> DEFINE g == [n \in 0..0 |-> 0]
  <2>1. g = [n \in 0..0 |-> IF n = 0 THEN 0 ELSE g[n - 1] + Adds(q, n, target, channel, reading)]
    OBVIOUS
  <2> HIDE DEF g
  <2>2. Is(0, g) /\ 0 \in 0..Len(q)
    BY <2>1
  <2> QED BY <2>2
<1>2. ASSUME NEW m \in 0..Len(q), m < Len(q), m \in P PROVE m + 1 \in P
  <2>1. PICK f : Is(m, f)
    BY <1>2
  <2> DEFINE g == [n \in 0..m + 1 |-> IF n <= m THEN f[n] ELSE f[m] + Adds(q, m + 1, target, channel, reading)]
  <2>2. ASSUME NEW n \in 0..m + 1
        PROVE  g[n] = IF n = 0 THEN 0 ELSE g[n - 1] + Adds(q, n, target, channel, reading)
    <3>1. CASE n = 0
      BY <2>1, <3>1
    <3>2. CASE n # 0 /\ n <= m
      <4>1. n \in 0..m /\ n - 1 \in 0..m + 1 /\ n - 1 <= m
        BY <3>2
      <4>2. g[n] = f[n] /\ g[n - 1] = f[n - 1]
        BY <3>2, <4>1
      <4> HIDE DEF g
      <4> QED BY <2>1, <3>2, <4>1, <4>2
    <3>3. CASE n = m + 1
      <4>1. n # 0 /\ ~(n <= m) /\ n - 1 = m /\ m \in 0..m + 1
        BY <3>3
      <4>2. g[n - 1] = f[m] /\ g[n] = f[m] + Adds(q, m + 1, target, channel, reading)
        BY <4>1
      <4> HIDE DEF g
      <4> QED BY <3>3, <4>1, <4>2
    <3> QED BY <3>1, <3>2, <3>3
  <2>3. g = [n \in 0..m + 1 |-> g[n]]
    OBVIOUS
  <2> HIDE DEF g
  <2>4. Is(m + 1, g)
    BY <2>2, <2>3
  <2>5. m + 1 \in 0..Len(q)
    BY <1>2
  <2> QED BY <2>4, <2>5
<1>3. Len(q) \in P
  <2> HIDE DEF P
  <2>1. 0..Len(q) \subseteq P
    BY <1>1, <1>2, Upwards
  <2> QED BY <2>1
<1> DEFINE after == CHOOSE f : Is(Len(q), f)
<1>4. Is(Len(q), after)
  BY <1>3
<1>5. TotalMass(q, target, channel, reading) = after[Len(q)]
  BY DEF TotalMass
<1> HIDE DEF after
<1>6. after[0] = 0 /\ \A n \in 1..Len(q) : after[n] = after[n - 1] + Adds(q, n, target, channel, reading)
  <2>1. 0 \in 0..Len(q) /\ \A n \in 1..Len(q) : n \in 0..Len(q) /\ n # 0
    OBVIOUS
  <2> QED BY <1>4, <2>1
<1> QED BY <1>5, <1>6
-----------------------------------------------------------------------------
(* Rankings: lists of rows in the order of their keys, the best first.     *)

Numbers(n) == [1..n -> Int]

\* A key beats another at the first place they differ.
LEMMA BeatsAt ==
  ASSUME NEW n \in Nat, NEW k \in Numbers(n), NEW l \in Numbers(n)
  PROVE  Beats(k, l) <=> \E i \in 1..n : k[i] > l[i] /\ \A j \in 1..n : j < i => k[j] = l[j]
<1> DEFINE differ == {i \in DOMAIN k \cap DOMAIN l : k[i] # l[i]}
<1>1. DOMAIN k = 1..n /\ DOMAIN l = 1..n /\ \A i \in 1..n : k[i] \in Int /\ l[i] \in Int
  BY DEF Numbers
<1>2. differ \in SUBSET Nat /\ differ = {i \in 1..n : k[i] # l[i]}
  BY <1>1
<1>3. Beats(k, l) <=> differ # {} /\ k[Min(differ)] > l[Min(differ)]
  BY DEF Beats
<1> HIDE DEF differ
<1>4. ASSUME Beats(k, l)
      PROVE  \E i \in 1..n : k[i] > l[i] /\ \A j \in 1..n : j < i => k[j] = l[j]
  <2> DEFINE m == Min(differ)
  <2>1. m \in differ /\ \A j \in differ : m <= j
    BY <1>2, <1>3, <1>4, MinExists
  <2>2. k[m] > l[m]
    BY <1>3, <1>4
  <2> HIDE DEF m
  <2>3. m \in 1..n /\ \A j \in 1..n : j < m => k[j] = l[j]
    BY <1>2, <2>1
  <2> QED BY <2>2, <2>3
<1>5. ASSUME NEW i \in 1..n, k[i] > l[i], \A j \in 1..n : j < i => k[j] = l[j]
      PROVE  Beats(k, l)
  <2>1. i \in differ
    BY <1>1, <1>2, <1>5
  <2> DEFINE m == Min(differ)
  <2>2. m \in differ /\ m <= i
    BY <1>2, <2>1, MinExists
  <2>3. k[m] > l[m]
    <3> HIDE DEF m
    <3>1. m \in 1..n /\ k[m] # l[m]
      BY <1>2, <2>2
    <3>2. ~(m < i)
      BY <1>5, <3>1
    <3>3. m = i
      BY <2>2, <3>1, <3>2
    <3> QED BY <1>5, <3>3
  <2> QED BY <1>3, <2>1, <2>3
<1> QED BY <1>4, <1>5

\* Keys of one length are ordered, and two of which none beats the other are one.
LEMMA BeatsOrders ==
  ASSUME NEW n \in Nat, NEW k \in Numbers(n), NEW l \in Numbers(n), NEW m \in Numbers(n)
  PROVE  /\ Beats(k, l) => ~Beats(l, k)
         /\ Beats(k, l) /\ Beats(l, m) => Beats(k, m)
         /\ ~Beats(k, l) /\ ~Beats(l, k) => k = l
         /\ ~Beats(k, k)
<1>1. \A i \in 1..n : k[i] \in Int /\ l[i] \in Int /\ m[i] \in Int
  BY DEF Numbers
<1>2. ASSUME Beats(k, l), Beats(l, k) PROVE FALSE
  <2>1. PICK i \in 1..n : k[i] > l[i] /\ \A j \in 1..n : j < i => k[j] = l[j]
    BY <1>2, BeatsAt
  <2>2. PICK h \in 1..n : l[h] > k[h] /\ \A j \in 1..n : j < h => l[j] = k[j]
    BY <1>2, BeatsAt
  <2>3. i = h
    BY <1>1, <2>1, <2>2
  <2> QED BY <1>1, <2>1, <2>2, <2>3
<1>3. ASSUME Beats(k, l), Beats(l, m) PROVE Beats(k, m)
  <2>1. PICK i \in 1..n : k[i] > l[i] /\ \A j \in 1..n : j < i => k[j] = l[j]
    BY <1>3, BeatsAt
  <2>2. PICK h \in 1..n : l[h] > m[h] /\ \A j \in 1..n : j < h => l[j] = m[j]
    BY <1>3, BeatsAt
  <2>3. \E g \in 1..n : k[g] > m[g] /\ \A j \in 1..n : j < g => k[j] = m[j]
    <3>1. CASE i < h
      <4>1. k[i] > m[i] /\ \A j \in 1..n : j < i => k[j] = m[j]
        BY <1>1, <2>1, <2>2, <3>1
      <4> QED BY <4>1
    <3>2. CASE ~(i < h)
      <4>1. k[h] > m[h] /\ \A j \in 1..n : j < h => k[j] = m[j]
        BY <1>1, <2>1, <2>2, <3>2
      <4> QED BY <4>1
    <3> QED BY <3>1, <3>2
  <2> QED BY <2>3, BeatsAt
<1>4. ASSUME ~Beats(k, l), ~Beats(l, k) PROVE k = l
  <2> DEFINE differ == {i \in 1..n : k[i] # l[i]}
  <2>1. CASE differ = {}
    <3>1. \A i \in 1..n : k[i] = l[i]
      BY <2>1
    <3> HIDE DEF differ
    <3> QED BY <3>1 DEF Numbers
  <2>2. CASE differ # {}
    <3> DEFINE i == Min(differ)
    <3>1. differ \in SUBSET Nat
      OBVIOUS
    <3>2. i \in differ /\ \A j \in differ : i <= j
      BY <2>2, <3>1, MinExists
    <3> HIDE DEF i
    <3>3. i \in 1..n /\ k[i] # l[i] /\ \A j \in 1..n : j < i => k[j] = l[j]
      BY <3>2
    <3>4. k[i] > l[i] \/ l[i] > k[i]
      BY <1>1, <3>3
    <3>5. Beats(k, l) \/ Beats(l, k)
      <4>1. CASE k[i] > l[i]
        BY <3>3, <4>1, BeatsAt
      <4>2. CASE l[i] > k[i]
        <5>1. \A j \in 1..n : j < i => l[j] = k[j]
          BY <3>3
        <5> QED BY <3>3, <4>2, <5>1, BeatsAt
      <4> QED BY <3>4, <4>1, <4>2
    <3> QED BY <1>4, <3>5
  <2> QED BY <2>1, <2>2
<1>5. ASSUME Beats(k, k) PROVE FALSE
  <2>1. PICK i \in 1..n : k[i] > k[i]
    BY <1>5, BeatsAt
  <2> QED BY <1>1, <2>1
<1> QED BY <1>2, <1>3, <1>4, <1>5

\* Who comes ahead of whom: a weak order of rows that the keys respect.
Weak(K, B) ==
  /\ \A x, y \in K : <<x, y>> \in B => <<y, x>> \notin B
  /\ \A x, y, z \in K : <<x, y>> \in B => <<x, z>> \in B \/ <<z, y>> \in B
Respected(K, B) ==
  \A x, y \in K : <<x, y>> \in B => Beats(x.key, y.key) /\ ~Beats(y.key, x.key)
Descends(rows, B) == \A i, j \in 1..Len(rows) : i < j => <<rows[j], rows[i]>> \notin B
Distinct(rows) == \A i, j \in 1..Len(rows) : i # j => rows[i] # rows[j]

\* All holds the rows and r, with that many of them ahead of r.
PutAt(all, rows, r, ahead) ==
  /\ Len(all) = Len(rows) + 1
  /\ \A i \in 1..ahead : all[i] = rows[i]
  /\ all[ahead + 1] = r
  /\ \A i \in ahead + 1..Len(rows) : all[i + 1] = rows[i]

\* An inserted row comes behind those that it does not beat.
LEMMA InsertedAt ==
  ASSUME NEW K, NEW rows \in Seq(K), NEW r \in K
  PROVE  \E ahead \in 0..Len(rows) :
           /\ ahead = Cardinality({n \in DOMAIN rows : ~Beats(r.key, rows[n].key)})
           /\ Inserted(rows, r) \in Seq(K) /\ PutAt(Inserted(rows, r), rows, r, ahead)
<1> DEFINE A == {n \in DOMAIN rows : ~Beats(r.key, rows[n].key)}
           ahead == Cardinality(A)
           N == Len(rows)
<1>1. N \in Nat /\ DOMAIN rows = 1..N
  OBVIOUS
<1>2. ahead \in 0..N
  <2>1. IsFiniteSet(1..N) /\ Cardinality(1..N) = N
    BY <1>1, FS_Interval
  <2>2. A \subseteq 1..N
    BY <1>1
  <2> HIDE DEF A
  <2>3. IsFiniteSet(A) /\ Cardinality(A) <= Cardinality(1..N)
    BY <2>1, <2>2, FS_Subset
  <2>4. Cardinality(A) \in Nat
    BY <2>3, FS_CardinalityType
  <2> QED BY <1>1, <2>1, <2>3, <2>4
<1>3. Inserted(rows, r) = SubSeq(rows, 1, ahead) \o <<r>> \o SubSeq(rows, ahead + 1, N)
  BY DEF Inserted
<1> HIDE DEF ahead
<1> DEFINE p == SubSeq(rows, 1, ahead)
           s == SubSeq(rows, ahead + 1, N)
<1>4. /\ p \in Seq(K) /\ Len(p) = ahead /\ \A i \in 1..ahead : p[i] = rows[i]
      /\ s \in Seq(K) /\ Len(s) = N - ahead /\ \A i \in 1..N - ahead : s[i] = rows[ahead + i]
  <2>1. ahead \in Nat /\ ahead <= N
    BY <1>1, <1>2
  <2>2. /\ p \in Seq(K) /\ Len(p) = ahead /\ \A i \in 1..ahead : p[i] = rows[i]
    BY <1>1, <2>1
  <2>3. /\ s \in Seq(K) /\ Len(s) = N - ahead /\ \A i \in 1..N - ahead : s[i] = rows[ahead + i]
    <3>1. ahead + 1 \in 1..N + 1 /\ N \in ahead..N
      BY <1>1, <2>1
    <3> QED BY <1>1, <2>1, <3>1, PartIs
  <2> QED BY <2>2, <2>3
<1> HIDE DEF p, s
<1> DEFINE m == p \o <<r>>
           all == m \o s
<1>5. /\ m \in Seq(K) /\ Len(m) = ahead + 1 /\ m[ahead + 1] = r
      /\ \A i \in 1..ahead : m[i] = rows[i]
  BY <1>1, <1>2, <1>4
<1> HIDE DEF m
<1>6. /\ all \in Seq(K) /\ Len(all) = N + 1
      /\ \A i \in 1..ahead + 1 : all[i] = m[i]
      /\ \A i \in 1..N - ahead : all[ahead + 1 + i] = s[i]
  <2>1. /\ all \in Seq(K) /\ Len(all) = Len(m) + Len(s)
        /\ \A i \in 1..Len(m) : all[i] = m[i]
        /\ \A i \in 1..Len(s) : all[Len(m) + i] = s[i]
    BY <1>4, <1>5, JoinedIs
  <2> HIDE DEF all
  <2>2. Len(all) = N + 1
    BY <1>1, <1>2, <1>4, <1>5, <2>1
  <2> QED BY <1>4, <1>5, <2>1, <2>2
<1> HIDE DEF all
<1>7. all[ahead + 1] = r /\ \A i \in 1..ahead : all[i] = rows[i]
  <2>1. ahead + 1 \in 1..ahead + 1 /\ \A i \in 1..ahead : i \in 1..ahead + 1
    BY <1>2
  <2> QED BY <1>5, <1>6, <2>1
<1>8. ASSUME NEW i \in ahead + 1..N PROVE all[i + 1] = rows[i]
  <2> DEFINE k == i - ahead
  <2>1. k \in 1..N - ahead /\ ahead + 1 + k = i + 1 /\ ahead + k = i
    BY <1>1, <1>2
  <2> HIDE DEF k
  <2> QED BY <1>4, <1>6, <2>1
<1>9. Inserted(rows, r) = all
  BY <1>3 DEF all, m, p, s
<1>10. PutAt(all, rows, r, ahead)
  BY <1>6, <1>7, <1>8 DEF PutAt
<1> QED BY <1>2, <1>6, <1>9, <1>10 DEF ahead

\* Counting the places up to one, or from the next on.
LEMMA CountsUpTo ==
  ASSUME NEW N \in Nat, NEW A \in SUBSET (1..N), NEW n \in 0..N
  PROVE  /\ Cardinality(A) \in Nat
         /\ 1..n \subseteq A => n <= Cardinality(A)
         /\ A \subseteq 1..n => Cardinality(A) <= n
<1>1. IsFiniteSet(1..N) /\ IsFiniteSet(1..n) /\ Cardinality(1..n) = n
  <2>1. n \in Nat
    OBVIOUS
  <2> QED BY <2>1, FS_Interval
<1>2. IsFiniteSet(A)
  BY <1>1, FS_Subset
<1>3. Cardinality(A) \in Nat
  BY <1>2, FS_CardinalityType
<1>4. ASSUME 1..n \subseteq A PROVE n <= Cardinality(A)
  BY <1>1, <1>2, <1>4, FS_Subset
<1>5. ASSUME A \subseteq 1..n PROVE Cardinality(A) <= n
  BY <1>1, <1>5, FS_Subset
<1> QED BY <1>3, <1>4, <1>5

\* A row inserted where the others descend leaves them so.
LEMMA InsertedDescends ==
  ASSUME NEW K, NEW B, Weak(K, B), Respected(K, B),
         NEW rows \in Seq(K), NEW r \in K, Descends(rows, B)
  PROVE  /\ Descends(Inserted(rows, r), B)
         /\ Distinct(rows) /\ r \notin ToSet(rows) => Distinct(Inserted(rows, r))
<1> DEFINE N == Len(rows)
           A == {n \in DOMAIN rows : ~Beats(r.key, rows[n].key)}
           all == Inserted(rows, r)
<1>1. N \in Nat /\ DOMAIN rows = 1..N /\ \A n \in 1..N : rows[n] \in K
  OBVIOUS
<1>0. PICK ahead \in 0..N : ahead = Cardinality(A) /\ all \in Seq(K) /\ PutAt(all, rows, r, ahead)
  BY InsertedAt
<1> HIDE DEF all
<1>2. /\ ahead \in 0..N /\ ahead = Cardinality(A)
      /\ all \in Seq(K) /\ Len(all) = N + 1
      /\ \A i \in 1..ahead : all[i] = rows[i]
      /\ all[ahead + 1] = r
      /\ \A i \in ahead + 1..N : all[i + 1] = rows[i]
  BY <1>0 DEF PutAt
<1>3. A \in SUBSET (1..N) /\ \A n \in 1..N : n \in A <=> ~Beats(r.key, rows[n].key)
  BY <1>1
<1> HIDE DEF A
<1>4. ASSUME NEW n \in 1..ahead PROVE <<r, rows[n]>> \notin B
  <2>1. SUFFICES ASSUME <<r, rows[n]>> \in B PROVE FALSE
    OBVIOUS
  <2>2. n \in 1..N
    BY <1>1, <1>2
  <2>3. ASSUME NEW k \in A, ~(k \in 1..(n - 1)) PROVE FALSE
    <3>1. k \in 1..N /\ k >= n /\ rows[k] \in K /\ rows[n] \in K
      BY <1>1, <1>3, <2>2, <2>3
    <3>2. <<rows[k], rows[n]>> \notin B
      BY <2>1, <2>2, <3>1 DEF Descends, Weak
    <3>3. <<r, rows[k]>> \in B
      BY <2>1, <3>1, <3>2 DEF Weak
    <3> QED BY <1>3, <3>1, <3>3 DEF Respected
  <2>4. A \subseteq 1..(n - 1) /\ n - 1 \in 0..N
    BY <1>1, <2>2, <2>3
  <2>5. Cardinality(A) <= n - 1
    BY <1>1, <1>3, <2>4, CountsUpTo
  <2> QED BY <1>1, <1>2, <2>2, <2>5
<1>5. ASSUME NEW n \in ahead + 1..N PROVE <<rows[n], r>> \notin B
  <2>1. SUFFICES ASSUME <<rows[n], r>> \in B PROVE FALSE
    OBVIOUS
  <2>2. n \in 1..N
    BY <1>1, <1>2
  <2>3. ASSUME NEW k \in 1..n PROVE k \in A
    <3>1. k \in 1..N /\ k <= n /\ rows[k] \in K /\ rows[n] \in K
      BY <1>1, <2>2
    <3>2. <<rows[n], rows[k]>> \notin B
      BY <2>1, <2>2, <3>1 DEF Descends, Weak
    <3>3. <<rows[k], r>> \in B
      BY <2>1, <3>1, <3>2 DEF Weak
    <3> QED BY <1>3, <3>1, <3>3 DEF Respected
  <2>4. n <= Cardinality(A)
    BY <1>1, <1>3, <2>2, <2>3, CountsUpTo
  <2> QED BY <1>1, <1>2, <2>2, <2>4
<1>6. ASSUME NEW i \in 1..N + 1
      PROVE  \/ i \in 1..ahead /\ i \in 1..N /\ all[i] = rows[i]
             \/ i = ahead + 1 /\ all[i] = r
             \/ i - 1 \in ahead + 1..N /\ i - 1 \in 1..N /\ all[i] = rows[i - 1]
  <2>1. CASE i \in 1..ahead
    BY <1>1, <1>2, <2>1
  <2>2. CASE i = ahead + 1
    BY <1>2, <2>2
  <2>3. CASE i > ahead + 1
    <3>1. i - 1 \in ahead + 1..N /\ i - 1 \in 1..N /\ i - 1 + 1 = i
      BY <1>1, <1>2, <2>3
    <3> QED BY <1>2, <3>1
  <2> QED BY <1>1, <1>2, <2>1, <2>2, <2>3
<1>7. ASSUME NEW i \in 1..N + 1, NEW j \in 1..N + 1, i < j PROVE <<all[j], all[i]>> \notin B
  <2>1. CASE i \in 1..ahead /\ i \in 1..N /\ all[i] = rows[i]
    <3>1. CASE j \in 1..N /\ all[j] = rows[j]
      BY <1>7, <2>1, <3>1 DEF Descends
    <3>2. CASE j = ahead + 1 /\ all[j] = r
      BY <1>4, <2>1, <3>2
    <3>3. CASE j - 1 \in ahead + 1..N /\ j - 1 \in 1..N /\ all[j] = rows[j - 1]
      <4>1. i < j - 1
        BY <1>2, <2>1, <3>3
      <4> QED BY <2>1, <3>3, <4>1 DEF Descends
    <3> QED BY <1>6, <3>1, <3>2, <3>3
  <2>2. CASE i = ahead + 1 /\ all[i] = r
    <3>1. j - 1 \in ahead + 1..N /\ all[j] = rows[j - 1]
      BY <1>2, <1>6, <1>7, <2>2
    <3> QED BY <1>5, <2>2, <3>1
  <2>3. CASE i - 1 \in ahead + 1..N /\ i - 1 \in 1..N /\ all[i] = rows[i - 1]
    <3>1. j - 1 \in 1..N /\ all[j] = rows[j - 1] /\ i - 1 < j - 1
      BY <1>2, <1>6, <1>7, <2>3
    <3> QED BY <2>3, <3>1 DEF Descends
  <2> QED BY <1>6, <2>1, <2>2, <2>3
<1>8. ASSUME Distinct(rows), r \notin ToSet(rows), NEW i \in 1..N + 1, NEW j \in 1..N + 1, i < j
      PROVE  all[i] # all[j]
  <2>1. \A n \in 1..N : rows[n] # r
    BY <1>1, <1>8 DEF ToSet
  <2>2. CASE i \in 1..ahead /\ i \in 1..N /\ all[i] = rows[i]
    <3>1. CASE j \in 1..N /\ all[j] = rows[j]
      BY <1>8, <2>2, <3>1 DEF Distinct
    <3>2. CASE j = ahead + 1 /\ all[j] = r
      BY <2>1, <2>2, <3>2
    <3>3. CASE j - 1 \in ahead + 1..N /\ j - 1 \in 1..N /\ all[j] = rows[j - 1]
      <4>1. i # j - 1
        BY <1>2, <2>2, <3>3
      <4> QED BY <1>8, <2>2, <3>3, <4>1 DEF Distinct
    <3> QED BY <1>6, <3>1, <3>2, <3>3
  <2>3. CASE i = ahead + 1 /\ all[i] = r
    <3>1. j - 1 \in 1..N /\ all[j] = rows[j - 1]
      BY <1>1, <1>2, <1>6, <1>8, <2>3
    <3> QED BY <2>1, <2>3, <3>1
  <2>4. CASE i - 1 \in ahead + 1..N /\ i - 1 \in 1..N /\ all[i] = rows[i - 1]
    <3>1. j - 1 \in 1..N /\ all[j] = rows[j - 1] /\ i - 1 # j - 1
      BY <1>2, <1>6, <1>8, <2>4
    <3> QED BY <1>8, <2>4, <3>1 DEF Distinct
  <2> QED BY <1>6, <2>2, <2>3, <2>4
<1>9. Descends(all, B)
  BY <1>2, <1>7 DEF Descends
<1>10. Distinct(rows) /\ r \notin ToSet(rows) => Distinct(all)
  <2> SUFFICES ASSUME Distinct(rows), r \notin ToSet(rows),
                      NEW i \in 1..N + 1, NEW j \in 1..N + 1, i # j
               PROVE  all[i] # all[j]
    BY <1>2 DEF Distinct
  <2>1. i < j \/ j < i
    BY <1>1
  <2> QED BY <1>8, <2>1
<1> QED BY <1>9, <1>10 DEF all
\* A list of what is keyed, the best first.
RankedBy(rows, keyed, K, B) ==
  /\ rows \in Seq(K) /\ Descends(rows, B)
  /\ \A x : x \in ToSet(rows) <=> \E n \in DOMAIN keyed : x = keyed[n]
  /\ (\A m, n \in DOMAIN keyed : m # n => keyed[m] # keyed[n]) => Distinct(rows)

\* Sorting ranks.
LEMMA SortedRanks ==
  ASSUME NEW keyed, NEW last \in Nat, DOMAIN keyed \subseteq 1..last,
         NEW K, \A n \in DOMAIN keyed : keyed[n] \in K,
         NEW B, Weak(K, B), Respected(K, B)
  PROVE  \E rows : /\ RankedBy(rows, keyed, K, B) /\ Len(rows) <= last
                   /\ Sorted(keyed, last) = RowsOf(rows)
<1>1. PICK f : /\ f[0] = <<>>
               /\ \A n \in 1..last : f[n] = SortedTo(keyed, f[n - 1], n)
               /\ Sorted(keyed, last) = RowsOf(f[last])
  BY SortingIs
<1> DEFINE Apart2 == \A m, n \in DOMAIN keyed : m # n => keyed[m] # keyed[n]
           Holds(n) == \A x : x \in ToSet(f[n]) <=> \E i \in DOMAIN keyed : i <= n /\ x = keyed[i]
           P == {n \in 0..last :
                   /\ f[n] \in Seq(K) /\ Descends(f[n], B) /\ Len(f[n]) <= n
                   /\ Holds(n)
                   /\ Apart2 => Distinct(f[n])}
<1>2. 0 \in P
  <2>1. f[0] \in Seq(K) /\ ToSet(f[0]) = {} /\ Len(f[0]) = 0
    BY <1>1 DEF ToSet
  <2>2. \A i \in DOMAIN keyed : ~(i <= 0)
    OBVIOUS
  <2>3. Descends(f[0], B) /\ Distinct(f[0])
    BY <2>1 DEF Descends, Distinct
  <2>4. Holds(0)
    BY <2>1, <2>2
  <2> HIDE DEF Holds
  <2> QED BY <2>1, <2>3, <2>4
<1>3. ASSUME NEW n \in 0..last, n < last, n \in P PROVE n + 1 \in P
  <2>1. n + 1 \in 1..last /\ n + 1 - 1 = n /\ n + 1 \in 0..last
    BY <1>3
  <2>2. f[n + 1] = SortedTo(keyed, f[n], n + 1)
    BY <1>1, <2>1
  <2>3. /\ f[n] \in Seq(K) /\ Descends(f[n], B) /\ Len(f[n]) <= n /\ Len(f[n]) \in Nat
        /\ Holds(n)
        /\ Apart2 => Distinct(f[n])
    BY <1>3
  <2>4. \A i \in DOMAIN keyed : i <= n + 1 <=> i <= n \/ i = n + 1
    OBVIOUS
  <2>5. CASE n + 1 \in DOMAIN keyed
    <3> DEFINE r == keyed[n + 1]
    <3>1. f[n + 1] = Inserted(f[n], r) /\ r \in K
      BY <2>2, <2>5 DEF SortedTo
    <3>2. /\ Inserted(f[n], r) \in Seq(K)
          /\ \A x : x \in ToSet(Inserted(f[n], r)) <=> x = r \/ x \in ToSet(f[n])
      BY <2>3, <3>1, InsertedKeeps
    <3>3. /\ Descends(Inserted(f[n], r), B)
          /\ Distinct(f[n]) /\ r \notin ToSet(f[n]) => Distinct(Inserted(f[n], r))
      BY <2>3, <3>1, InsertedDescends
    <3>4. PICK ahead \in 0..Len(f[n]) : PutAt(Inserted(f[n], r), f[n], r, ahead)
      BY <2>3, <3>1, InsertedAt
    <3>5. Len(f[n + 1]) <= n + 1
      BY <2>3, <3>1, <3>4 DEF PutAt
    <3>6. Holds(n + 1)
      <4> SUFFICES ASSUME NEW x PROVE x \in ToSet(f[n + 1]) <=> \E i \in DOMAIN keyed : i <= n + 1 /\ x = keyed[i]
        OBVIOUS
      <4>1. x \in ToSet(f[n]) <=> \E i \in DOMAIN keyed : i <= n /\ x = keyed[i]
        BY <2>3
      <4>2. x \in ToSet(f[n + 1]) <=> x = r \/ x \in ToSet(f[n])
        BY <3>1, <3>2
      <4> HIDE DEF Holds
      <4> QED BY <2>4, <2>5, <4>1, <4>2
    <3>7. ASSUME Apart2 PROVE r \notin ToSet(f[n])
      <4>1. SUFFICES ASSUME NEW i \in DOMAIN keyed, i <= n, r = keyed[i] PROVE FALSE
        BY <2>3
      <4>2. i # n + 1
        BY <4>1
      <4> QED BY <2>5, <3>7, <4>1, <4>2
    <3> HIDE DEF r, Holds, Apart2
    <3> QED BY <2>1, <2>3, <3>1, <3>2, <3>3, <3>5, <3>6, <3>7
  <2>6. CASE n + 1 \notin DOMAIN keyed
    <3>1. f[n + 1] = f[n]
      BY <2>2, <2>6 DEF SortedTo
    <3>2. Holds(n + 1)
      <4> SUFFICES ASSUME NEW x PROVE x \in ToSet(f[n + 1]) <=> \E i \in DOMAIN keyed : i <= n + 1 /\ x = keyed[i]
        OBVIOUS
      <4>1. x \in ToSet(f[n]) <=> \E i \in DOMAIN keyed : i <= n /\ x = keyed[i]
        BY <2>3
      <4> HIDE DEF Holds
      <4> QED BY <2>4, <2>6, <3>1, <4>1
    <3>3. Len(f[n + 1]) <= n + 1
      BY <2>3, <3>1
    <3> HIDE DEF Holds, Apart2
    <3> QED BY <2>1, <2>3, <3>1, <3>2, <3>3
  <2> QED BY <2>5, <2>6
<1> HIDE DEF P
<1>4. 0..last \subseteq P
  BY <1>2, <1>3, Upwards
<1>5. last \in P
  BY <1>4
<1>6. \A i \in DOMAIN keyed : i <= last
  OBVIOUS
<1>7. RankedBy(f[last], keyed, K, B) /\ Len(f[last]) <= last
  <2>1. /\ f[last] \in Seq(K) /\ Descends(f[last], B) /\ Len(f[last]) <= last
        /\ Apart2 => Distinct(f[last])
    BY <1>5 DEF P
  <2>2. Holds(last)
    BY <1>5 DEF P
  <2>3. \A x : x \in ToSet(f[last]) <=> \E i \in DOMAIN keyed : x = keyed[i]
    BY <1>6, <2>2
  <2> HIDE DEF Holds
  <2> QED BY <2>1, <2>3 DEF RankedBy
<1> QED BY <1>1, <1>7

\* Each comes ahead of those behind it.
Ranks(rows, B) == \A i, j \in 1..Len(rows) : i < j => <<rows[i], rows[j]>> \in B

\* Two lists agree before a place, and what is in the second at that place.
SameBefore(s, t, i) == \A k \in 1..Len(s) : k < i => k \in 1..Len(t) /\ s[k] = t[k]
NextIs(s, t, i, B) == i \in 1..Len(t) /\ (s[i] = t[i] \/ <<t[i], s[i]>> \in B)

\* There is one way to rank a set.
LEMMA FirstDifference ==
  ASSUME NEW K, NEW B, \A x, y \in K : <<x, y>> \in B => <<y, x>> \notin B,
         NEW s \in Seq(K), NEW t \in Seq(K), Ranks(s, B), Ranks(t, B), ToSet(s) = ToSet(t),
         NEW i \in 1..Len(s), SameBefore(s, t, i)
  PROVE  NextIs(s, t, i, B)
<1> SUFFICES i \in 1..Len(t) /\ (s[i] = t[i] \/ <<t[i], s[i]>> \in B)
  BY DEF NextIs
<1>1. /\ Len(s) \in Nat /\ Len(t) \in Nat /\ DOMAIN s = 1..Len(s) /\ DOMAIN t = 1..Len(t)
      /\ \A k \in 1..Len(s) : s[k] \in K
  OBVIOUS
<1>2. s[i] \in ToSet(s)
  BY <1>1 DEF ToSet
<1>3. PICK k \in 1..Len(t) : s[i] = t[k]
  BY <1>1, <1>2 DEF ToSet
<1>4. ~(k < i)
  <2>1. SUFFICES ASSUME k < i PROVE FALSE
    OBVIOUS
  <2>2. k \in 1..Len(s) /\ s[k] = t[k]
    BY <1>1, <2>1 DEF SameBefore
  <2>3. <<s[k], s[i]>> \in B
    BY <2>1, <2>2 DEF Ranks
  <2> QED BY <1>1, <1>3, <2>2, <2>3
<1>5. i \in 1..Len(t)
  BY <1>1, <1>3, <1>4
<1>6. CASE k = i
  BY <1>3, <1>5, <1>6
<1>7. CASE i < k
  <2>1. <<t[i], t[k]>> \in B
    BY <1>5, <1>7 DEF Ranks
  <2> QED BY <1>3, <1>5, <2>1
<1> QED BY <1>1, <1>4, <1>6, <1>7

LEMMA SameRanking ==
  ASSUME NEW K, NEW B, \A x, y \in K : <<x, y>> \in B => <<y, x>> \notin B,
         NEW s \in Seq(K), NEW t \in Seq(K), Ranks(s, B), Ranks(t, B), ToSet(s) = ToSet(t)
  PROVE  s = t
<1>1. /\ Len(s) \in Nat /\ Len(t) \in Nat /\ s = [k \in 1..Len(s) |-> s[k]] /\ t = [k \in 1..Len(t) |-> t[k]]
      /\ \A k \in 1..Len(s) : s[k] \in K
      /\ \A k \in 1..Len(t) : t[k] \in K
  OBVIOUS
<1> DEFINE N == Len(s) + Len(t)
           wrong == {k \in 1..N : (k \in 1..Len(s) \/ k \in 1..Len(t))
                                  /\ ~(k \in 1..Len(s) /\ k \in 1..Len(t) /\ s[k] = t[k])}
<1>2. wrong = {}
  <2>1. SUFFICES ASSUME wrong # {} PROVE FALSE
    OBVIOUS
  <2> DEFINE i == Min(wrong)
  <2>2. wrong \in SUBSET Nat
    BY <1>1
  <2>3. i \in wrong /\ \A j \in wrong : i <= j
    BY <2>1, <2>2, MinExists
  <2> HIDE DEF i
  <2>4. i \in Nat /\ i >= 1
    BY <1>1, <2>3
  <2>5. SameBefore(s, t, i) /\ SameBefore(t, s, i)
    <3>1. ASSUME NEW k \in 1..N, k < i PROVE k \notin wrong
      BY <2>3, <2>4, <3>1
    <3>2. 1..Len(s) \subseteq 1..N /\ 1..Len(t) \subseteq 1..N
      BY <1>1
    <3> QED BY <3>1, <3>2 DEF SameBefore
  <2>8. i \in wrong
    BY <2>3
  <2>9. ~(i \in 1..Len(s) /\ i \in 1..Len(t) /\ s[i] = t[i]) /\ (i \in 1..Len(s) \/ i \in 1..Len(t))
    BY <2>8
  <2> HIDE DEF wrong, N
  <2>6. CASE i \in 1..Len(s)
    <3>1. NextIs(s, t, i, B)
      BY <2>5, <2>6, FirstDifference
    <3>2. i \in 1..Len(t)
      BY <3>1 DEF NextIs
    <3>3. NextIs(t, s, i, B)
      BY <2>5, <3>2, FirstDifference
    <3>4. s[i] = t[i]
      BY <1>1, <2>6, <3>1, <3>2, <3>3 DEF NextIs
    <3> QED BY <2>6, <2>9, <3>2, <3>4
  <2>7. CASE i \in 1..Len(t)
    <3>1. i \in 1..Len(s)
      BY <2>5, <2>7, FirstDifference DEF NextIs
    <3> QED BY <2>6, <3>1
  <2> QED BY <2>6, <2>7, <2>9
<1>3. ASSUME NEW k \in 1..Len(s) PROVE k \in 1..Len(t) /\ s[k] = t[k]
  <2>1. k \in 1..N
    BY <1>1
  <2> QED BY <1>2, <2>1
<1>4. ASSUME NEW k \in 1..Len(t) PROVE k \in 1..Len(s)
  <2>1. k \in 1..N
    BY <1>1
  <2> QED BY <1>2, <2>1
<1> HIDE DEF wrong, N
<1>5. 1..Len(s) = 1..Len(t)
  BY <1>3, <1>4
<1> QED BY <1>1, <1>3, <1>5

\* The order of rows whose keys are of one length.
Ahead(K) == {p \in K \X K : Beats(p[1].key, p[2].key)}

LEMMA AheadIsWeak ==
  ASSUME NEW n \in Nat, NEW K, \A x \in K : x.key \in Numbers(n)
  PROVE  /\ Weak(K, Ahead(K)) /\ Respected(K, Ahead(K))
         /\ \A x, y \in K : x.key # y.key => <<x, y>> \in Ahead(K) \/ <<y, x>> \in Ahead(K)
<1>1. \A x, y \in K : <<x, y>> \in Ahead(K) <=> Beats(x.key, y.key)
  BY DEF Ahead
<1>2. \A x, y \in K : /\ Beats(x.key, y.key) => ~Beats(y.key, x.key)
                      /\ ~Beats(x.key, y.key) /\ ~Beats(y.key, x.key) => x.key = y.key
  BY BeatsOrders
<1>3. \A x, y, z \in K : Beats(x.key, y.key) /\ Beats(y.key, z.key) => Beats(x.key, z.key)
  BY BeatsOrders
<1>4. ASSUME NEW x \in K, NEW y \in K, NEW z \in K, Beats(x.key, y.key), ~Beats(x.key, z.key)
      PROVE  Beats(z.key, y.key)
  <2>1. CASE Beats(z.key, x.key)
    BY <1>3, <1>4, <2>1
  <2>2. CASE x.key = z.key
    BY <1>4, <2>2
  <2> QED BY <1>2, <1>4, <2>1, <2>2
<1>5. Weak(K, Ahead(K))
  BY <1>1, <1>2, <1>4 DEF Weak
<1>6. Respected(K, Ahead(K))
  BY <1>1, <1>2 DEF Respected
<1> QED BY <1>1, <1>2, <1>5, <1>6
-----------------------------------------------------------------------------
(* The trajectory index: one row per occurrence, in their order; what it   *)
(* answers depends on the rows and not on their order.                     *)

\* A trail has finitely many addresses, and what is counted of it are numbers.
LEMMA CountsAre ==
  ASSUME NEW S, NEW q \in Seq(S), NEW t, Len(t) \in Nat
  PROVE  /\ IsFiniteSet(ToSet(q)) /\ Cardinality(ToSet(q)) \in Nat
         /\ Overlap(q, t) \in Nat /\ AdjacencyOverlap(q, t) \in Nat
<1>1. IsFiniteSet(ToSet(q))
  <2>1. IsFiniteSet(1..Len(q)) /\ DOMAIN q = 1..Len(q)
    BY FS_Interval
  <2>2. IsFiniteSet({q[i] : i \in 1..Len(q)})
    BY <2>1, ImageFinite
  <2> QED BY <2>1, <2>2 DEF ToSet
<1>2. Overlap(q, t) \in Nat
  <2>1. IsFiniteSet(ToSet(q) \cap ToSet(t))
    BY <1>1, FS_Subset
  <2> QED BY <2>1, FS_CardinalityType DEF Overlap
<1>3. AdjacencyOverlap(q, t) \in Nat
  <2> DEFINE A == {i \in 1..(Len(t) - 1) : <<t[i], t[i + 1]>> \in Pairs(q)}
  <2> DEFINE m == Len(t) - 1
  <2>0. m \in Int
    OBVIOUS
  <2>1. IsFiniteSet(1..m) /\ A \subseteq 1..m
    <3>1. A \subseteq 1..m
      OBVIOUS
    <3> HIDE DEF m, A
    <3>2. IsFiniteSet(1..m)
      BY <2>0, FS_Interval
    <3> QED BY <3>1, <3>2
  <2> HIDE DEF A, m
  <2>2. Cardinality(A) \in Nat
    BY <2>1, FS_Subset, FS_CardinalityType
  <2> QED BY <2>2 DEF AdjacencyOverlap, A
<1> QED BY <1>1, <1>2, <1>3, FS_CardinalityType

\* So is how far a query is followed in order.
LEMMA FollowedIs ==
  ASSUME NEW q, Len(q) \in Nat, NEW t, Len(t) \in Nat
  PROVE  OrderedOverlap(q, t) \in Nat
<1>1. PICK f : /\ f[0] = 0
               /\ \A n \in 1..Len(t) : f[n] = f[n - 1] + (IF f[n - 1] < Len(q) /\ t[n] = q[f[n - 1] + 1] THEN 1 ELSE 0)
               /\ OrderedOverlap(q, t) = f[Len(t)]
  BY OrderedIs
<1> DEFINE P == {n \in 0..Len(t) : f[n] \in Nat}
<1>2. 0 \in P
  BY <1>1
<1>3. ASSUME NEW n \in 0..Len(t), n < Len(t), n \in P PROVE n + 1 \in P
  <2>1. n + 1 \in 1..Len(t) /\ n + 1 - 1 = n
    BY <1>3
  <2> DEFINE more == f[n] < Len(q) /\ t[n + 1] = q[f[n] + 1]
  <2>2. f[n + 1] = f[n] + (IF more THEN 1 ELSE 0)
    BY <1>1, <2>1
  <2> HIDE DEF more
  <2>3. f[n] \in Nat
    BY <1>3
  <2> QED BY <2>1, <2>2, <2>3
<1> HIDE DEF P
<1>4. 0..Len(t) \subseteq P
  BY <1>2, <1>3, Upwards
<1>5. Len(t) \in P
  BY <1>4
<1> QED BY <1>1, <1>5 DEF P

\* The key of a trajectory is made of numbers, the sequence among them.
LEMMA StructuralKeyIs ==
  ASSUME NEW q \in Paths, NEW t \in Rows
  PROVE  StructuralKey(q, t) \in Numbers(6) /\ StructuralKey(q, t)[6] = t.sequence
<1>1. t.addresses \in Paths /\ t.sequence \in Nat
  BY DEF Rows
<1>2. Len(q) \in Nat /\ Len(t.addresses) \in Nat
  BY <1>1 DEF Paths
<1> DEFINE a == Overlap(q, t.addresses)
           b == Cardinality(ToSet(q))
           c == OrderedOverlap(q, t.addresses)
           d == AdjacencyOverlap(q, t.addresses)
           k == <<a, -b, c, d, a>>
<1>3. a \in Int /\ b \in Int /\ -b \in Int /\ c \in Int /\ d \in Int
  <2>1. q \in Seq(Addresses)
    BY DEF Paths
  <2>2. b \in Nat /\ a \in Nat /\ d \in Nat
    BY <1>2, <2>1, CountsAre
  <2>3. c \in Nat
    BY <1>2, FollowedIs
  <2> HIDE DEF a, b, c, d
  <2> QED BY <2>2, <2>3
<1>4. StructuralKey(q, t) = Append(k, t.sequence)
  BY DEF StructuralKey, KeyWithoutId
<1> HIDE DEF a, b, c, d
<1>5. k \in Seq(Int) /\ Len(k) = 5
  BY <1>3
<1>6. t.sequence \in Int
  BY <1>1
<1> HIDE DEF k
<1> DEFINE e == t.sequence
           K == Append(k, e)
<1> HIDE DEF e
<1>7. e \in Int
  BY <1>6 DEF e
<1>8. /\ K \in Seq(Int) /\ Len(K) = 6 /\ K[6] = e
  <2>1. K \in Seq(Int) /\ Len(K) = Len(k) + 1 /\ K[Len(k) + 1] = e
    BY ONLY <1>5, <1>7, AppendProperties
  <2> HIDE DEF K
  <2> QED BY <1>5, <2>1
<1>9. K \in [1..6 -> Int]
  <2> HIDE DEF K
  <2>1. K \in [1..Len(K) -> Int]
    BY <1>8, LenProperties
  <2> QED BY <1>8, <2>1
<1> QED BY <1>4, <1>8, <1>9 DEF Numbers, e

\* An answer is cut from the one ranking of the rows that share an address.
Keyed == [row : Rows, key : Numbers(6)]
KeyedBy(q, t) == [row |-> t, key |-> StructuralKey(q, t)]
RankingOf(rows, index, q) ==
  /\ rows \in Seq(Keyed) /\ Ranks(rows, Ahead(Keyed))
  /\ \A x : x \in ToSet(rows) <=>
              \E i \in DOMAIN index : Overlap(q, index[i].addresses) > 0 /\ x = KeyedBy(q, index[i])

LEMMA ResolveRanks ==
  ASSUME NEW index \in Seq(Rows), NEW raw \in Paths, NEW limit,
         \A i, j \in DOMAIN index : i # j => index[i].sequence # index[j].sequence
  PROVE  \E rows : RankingOf(rows, index, Collapsed(raw)) /\ Resolve(index, raw, limit) = Top(RowsOf(rows), limit)
<1> DEFINE q == Collapsed(raw)
           matching == {i \in DOMAIN index : Overlap(q, index[i].addresses) > 0}
           keyed == [i \in matching |-> [row |-> index[i], key |-> StructuralKey(q, index[i])]]
           N == Len(index)
<1>1. Resolve(index, raw, limit) = Top(Sorted(keyed, N), limit)
  BY DEF Resolve
<1>2. q \in Paths
  BY CollapsedTyped
<1>3. N \in Nat /\ DOMAIN index = 1..N /\ matching \subseteq 1..N /\ DOMAIN keyed = matching
  OBVIOUS
<1> HIDE DEF q
<1>4. \A i \in matching : keyed[i] = KeyedBy(q, index[i]) /\ index[i] \in Rows
  BY DEF KeyedBy
<1> HIDE DEF keyed
<1>5. \A i \in matching : /\ keyed[i] \in Keyed /\ keyed[i].key[6] = index[i].sequence
                          /\ keyed[i].row = index[i]
  <2> SUFFICES ASSUME NEW i \in matching
               PROVE  /\ keyed[i] \in Keyed /\ keyed[i].key[6] = index[i].sequence
                      /\ keyed[i].row = index[i]
    OBVIOUS
  <2>1. index[i] \in Rows /\ keyed[i] = KeyedBy(q, index[i])
    BY <1>4
  <2>2. StructuralKey(q, index[i]) \in Numbers(6) /\ StructuralKey(q, index[i])[6] = index[i].sequence
    BY <1>2, <2>1, StructuralKeyIs
  <2> QED BY ONLY <2>1, <2>2 DEF KeyedBy, Keyed
<1>6. \A x \in Keyed : x.key \in Numbers(6)
  BY DEF Keyed
<1>7. /\ Weak(Keyed, Ahead(Keyed)) /\ Respected(Keyed, Ahead(Keyed))
      /\ \A x, y \in Keyed : x.key # y.key => <<x, y>> \in Ahead(Keyed) \/ <<y, x>> \in Ahead(Keyed)
  BY <1>6, AheadIsWeak
<1>8. PICK rows : /\ RankedBy(rows, keyed, Keyed, Ahead(Keyed))
                  /\ Sorted(keyed, N) = RowsOf(rows)
  <2>1. \A n \in DOMAIN keyed : keyed[n] \in Keyed
    BY <1>3, <1>5
  <2> HIDE DEF matching, N
  <2> QED BY <1>3, <1>7, <2>1, SortedRanks
<1>9. \A m, n \in DOMAIN keyed : m # n => keyed[m].key # keyed[n].key
  <2> SUFFICES ASSUME NEW m \in matching, NEW n \in matching, m # n PROVE keyed[m].key # keyed[n].key
    BY <1>3
  <2>1. index[m].sequence # index[n].sequence
    OBVIOUS
  <2> QED BY <1>5, <2>1
<1>10. /\ rows \in Seq(Keyed) /\ Descends(rows, Ahead(Keyed)) /\ Distinct(rows)
       /\ \A x : x \in ToSet(rows) <=> \E n \in DOMAIN keyed : x = keyed[n]
  <2>1. \A m, n \in DOMAIN keyed : m # n => keyed[m] # keyed[n]
    BY <1>9
  <2> QED BY <1>8, <2>1 DEF RankedBy
<1>11. Ranks(rows, Ahead(Keyed))
  <2> SUFFICES ASSUME NEW i \in 1..Len(rows), NEW j \in 1..Len(rows), i < j
               PROVE  <<rows[i], rows[j]>> \in Ahead(Keyed)
    BY DEF Ranks
  <2>1. rows[i] # rows[j] /\ <<rows[j], rows[i]>> \notin Ahead(Keyed)
    BY <1>10 DEF Descends, Distinct
  <2>2. rows[i] \in ToSet(rows) /\ rows[j] \in ToSet(rows) /\ rows[i] \in Keyed /\ rows[j] \in Keyed
    BY <1>10 DEF ToSet
  <2>3. PICK m \in DOMAIN keyed : rows[i] = keyed[m]
    BY <1>10, <2>2
  <2>4. PICK n \in DOMAIN keyed : rows[j] = keyed[n]
    BY <1>10, <2>2
  <2>5. rows[i].key # rows[j].key
    <3>1. m # n
      BY <2>1, <2>3, <2>4
    <3> QED BY <1>9, <2>3, <2>4, <3>1
  <2> QED BY <1>7, <2>1, <2>2, <2>5
<1>12. \A x : x \in ToSet(rows) <=>
              \E i \in DOMAIN index : Overlap(q, index[i].addresses) > 0 /\ x = KeyedBy(q, index[i])
  <2>1. \A x : (\E n \in matching : x = keyed[n]) <=> \E i \in matching : x = KeyedBy(q, index[i])
    BY <1>4
  <2> QED BY <1>3, <1>10, <2>1
<1>13. RankingOf(rows, index, q)
  BY <1>10, <1>11, <1>12 DEF RankingOf
<1> QED BY <1>1, <1>8, <1>13 DEF q

\* What the invariant says of the rows: each tells its place, and its trail is
\* a collapsed one.
Numbered(index) == \A i \in DOMAIN index : index[i].sequence = i

\* The answer does not depend on the order of ingestion.
LEMMA OrderIgnored ==
  ASSUME NEW index \in Seq(Rows), Numbered(index), NEW raw \in Paths,
         NEW p \in Bijection(DOMAIN index, DOMAIN index), NEW limit
  PROVE  Resolve([i \in DOMAIN index |-> index[p[i]]], raw, limit) = Resolve(index, raw, limit)
<1> DEFINE D == DOMAIN index
           other == [i \in D |-> index[p[i]]]
           q == Collapsed(raw)
<1>1. Len(index) \in Nat /\ D = 1..Len(index) /\ \A i \in D : index[i] \in Rows
  OBVIOUS
<1>2. p \in [D -> D] /\ \A w \in D : \E v \in D : w = p[v]
  BY DEF Bijection, Surjection
<1>3. \A i, j \in D : p[i] = p[j] => i = j
  BY DEF Bijection, Injection, IsInjective
<1>4. other \in Seq(Rows) /\ DOMAIN other = D /\ \A i \in D : other[i] = index[p[i]]
  <2>1. \A i \in D : index[p[i]] \in Rows
    BY <1>1, <1>2
  <2> QED BY <1>1, <2>1
<1> HIDE DEF other
<1>5. \A i, j \in DOMAIN index : i # j => index[i].sequence # index[j].sequence
  BY DEF Numbered
<1>6. \A i, j \in DOMAIN other : i # j => other[i].sequence # other[j].sequence
  <2> SUFFICES ASSUME NEW i \in D, NEW j \in D, i # j PROVE other[i].sequence # other[j].sequence
    BY <1>4
  <2>1. p[i] \in D /\ p[j] \in D /\ p[i] # p[j]
    BY <1>2, <1>3
  <2>2. index[p[i]].sequence = p[i] /\ index[p[j]].sequence = p[j]
    BY <2>1 DEF Numbered
  <2> QED BY <1>4, <2>1, <2>2
<1>7. PICK s : RankingOf(s, index, q) /\ Resolve(index, raw, limit) = Top(RowsOf(s), limit)
  BY <1>5, ResolveRanks
<1>8. PICK t : RankingOf(t, other, q) /\ Resolve(other, raw, limit) = Top(RowsOf(t), limit)
  BY <1>4, <1>6, ResolveRanks
<1> HIDE DEF D, q
<1>9. ToSet(s) = ToSet(t)
  <2>1. ASSUME NEW x, x \in ToSet(s) PROVE x \in ToSet(t)
    <3>1. PICK i \in D : Overlap(q, index[i].addresses) > 0 /\ x = KeyedBy(q, index[i])
      BY <1>7, <2>1 DEF RankingOf, D
    <3>2. PICK v \in D : p[v] = i
      BY <1>2
    <3>3. other[v] = index[i]
      BY <1>4, <3>2
    <3> QED BY <1>4, <1>8, <3>1, <3>3 DEF RankingOf
  <2>2. ASSUME NEW x, x \in ToSet(t) PROVE x \in ToSet(s)
    <3>1. PICK i \in D : Overlap(q, other[i].addresses) > 0 /\ x = KeyedBy(q, other[i])
      BY <1>4, <1>8, <2>2 DEF RankingOf
    <3>2. p[i] \in D /\ other[i] = index[p[i]]
      BY <1>2, <1>4
    <3> QED BY <1>7, <3>1, <3>2 DEF RankingOf, D
  <2> QED BY <2>1, <2>2
<1>10. \A x, y \in Keyed : <<x, y>> \in Ahead(Keyed) => <<y, x>> \notin Ahead(Keyed)
  <2>1. \A x \in Keyed : x.key \in Numbers(6)
    BY DEF Keyed
  <2> QED BY <2>1, AheadIsWeak DEF Weak
<1>11. s = t
  BY <1>7, <1>8, <1>9, <1>10, SameRanking DEF RankingOf
<1> QED BY <1>7, <1>8, <1>11 DEF other, D

-----------------------------------------------------------------------------
(* The index is canonical: one row per occurrence, and rebuilt from its    *)
(* own rows it is the same.                                                *)

\* A set counted one by one with another has as many elements.
LEMMA SameCount ==
  ASSUME NEW A, IsFiniteSet(A), NEW B, NEW f,
         \A x \in A : f[x] \in B,
         \A x, y \in A : f[x] = f[y] => x = y,
         \A b \in B : \E x \in A : b = f[x]
  PROVE  IsFiniteSet(B) /\ Cardinality(B) = Cardinality(A)
<1> DEFINE g == [x \in A |-> f[x]]
<1>1. g \in [A -> B] /\ \A x \in A : g[x] = f[x]
  OBVIOUS
<1> HIDE DEF g
<1>2. g \in Bijection(A, B)
  BY <1>1 DEF Bijection, Injection, Surjection, IsInjective
<1>3. ExistsBijection(A, B)
  BY <1>2 DEF ExistsBijection
<1> QED BY <1>3, FS_Bijection

\* Rows that tell their places are as many as the index is long,
LEMMA RowsCounted ==
  ASSUME NEW index \in Seq(Rows), Numbered(index)
  PROVE  Cardinality(ToSet(index)) = Len(index)
<1>1. Len(index) \in Nat /\ DOMAIN index = 1..Len(index)
  OBVIOUS
<1>2. ToSet(index) = {index[i] : i \in 1..Len(index)}
  BY <1>1 DEF ToSet
<1>3. \A i, j \in 1..Len(index) : index[i] = index[j] => i = j
  BY <1>1 DEF Numbered
<1>4. IsFiniteSet(1..Len(index)) /\ Cardinality(1..Len(index)) = Len(index)
  BY <1>1, FS_Interval
<1>5. /\ \A i \in 1..Len(index) : index[i] \in ToSet(index)
      /\ \A b \in ToSet(index) : \E i \in 1..Len(index) : b = index[i]
  BY <1>2
<1> QED BY <1>3, <1>4, <1>5, SameCount

\* and restored in order, each is added to those before it.
LEMMA Restored ==
  ASSUME NEW index \in Seq(Rows), Numbered(index)
  PROVE  Restore(index) = index
<1>1. Len(index) \in Nat /\ DOMAIN index = 1..Len(index)
  OBVIOUS
<1>2. PICK f : /\ f[0] = <<>>
               /\ \A n \in 1..Len(index) : f[n] = Ingested(f[n - 1], index[n])
               /\ Restore(index) = f[Len(index)]
  BY <1>1, RestoreIs
<1> DEFINE P == {n \in 0..Len(index) : /\ f[n] \in Seq(Rows) /\ Len(f[n]) = n
                                       /\ \A k \in 1..n : f[n][k] = index[k]}
<1>3. 0 \in P
  <2>1. <<>> \in Seq(Rows) /\ Len(<<>>) = 0 /\ 1..0 = {}
    OBVIOUS
  <2>2. f[0] \in Seq(Rows) /\ Len(f[0]) = 0 /\ \A k \in 1..0 : f[0][k] = index[k]
    BY <1>2, <2>1
  <2>3. 0 \in 0..Len(index)
    BY <1>1
  <2> QED BY <2>2, <2>3
<1>4. ASSUME NEW n \in 0..Len(index), n < Len(index), n \in P PROVE n + 1 \in P
  <2> DEFINE u == f[n]
             t == index[n + 1]
  <2>1. n + 1 \in 1..Len(index) /\ n + 1 \in 0..Len(index) /\ (n + 1) - 1 = n
    BY <1>4
  <2>2. f[n + 1] = Ingested(u, t) /\ t \in Rows /\ t.sequence = n + 1
    BY <1>1, <1>2, <2>1 DEF Numbered
  <2>3. u \in Seq(Rows) /\ Len(u) = n /\ \A k \in 1..n : u[k] = index[k]
    BY <1>4
  <2> HIDE DEF u, t
  <2>4. \A k \in 1..Len(u) : u[k] # t
    <3> SUFFICES ASSUME NEW k \in 1..n PROVE u[k] # t
      BY <2>3
    <3>1. k \in DOMAIN index /\ k # n + 1
      BY <1>1, <1>4
    <3>2. u[k].sequence = k
      BY <2>3, <3>1 DEF Numbered
    <3> QED BY <2>2, <3>1, <3>2
  <2>5. f[n + 1] = Append(u, t)
    BY <2>2, <2>4 DEF Ingested, Contains
  <2> DEFINE v == Append(u, t)
  <2>6. v \in Seq(Rows) /\ Len(v) = n + 1 /\ v[n + 1] = t /\ \A k \in 1..n : v[k] = u[k]
    BY <2>2, <2>3, AppendProperties
  <2> HIDE DEF v
  <2>7. \A k \in 1..n + 1 : v[k] = index[k]
    <3>1. \A k \in 1..n + 1 : k \in 1..n \/ k = n + 1
      BY <1>4
    <3> QED BY <2>3, <2>6, <3>1 DEF t
  <2>8. f[n + 1] = v
    BY <2>5 DEF v
  <2> QED BY <2>1, <2>6, <2>7, <2>8
<1> HIDE DEF P
<1>5. 0..Len(index) \subseteq P
  BY <1>1, <1>3, <1>4, Upwards
<1>6. Len(index) \in P
  BY <1>1, <1>5
<1> DEFINE g == f[Len(index)]
<1>7. g \in Seq(Rows) /\ Len(g) = Len(index) /\ \A k \in 1..Len(index) : g[k] = index[k]
  BY <1>6 DEF P
<1>8. g = index
  <2> HIDE DEF g
  <2> QED BY <1>7, SeqEqual
<1> QED BY <1>2, <1>8

-----------------------------------------------------------------------------
(* The frontiers: where a query starts in the trails.                      *)

\* A query starts where its addresses follow each other.
LEMMA StartsAre ==
  ASSUME NEW q \in Paths, q # <<>>, NEW t \in Paths, NEW s
  PROVE  s \in Starts(q, t) <=> /\ s \in 1..(Len(t) - Len(q) + 1)
                                /\ \A k \in 1..Len(q) : t[s + k - 1] = q[k]
<1>1. Len(q) \in Nat /\ Len(t) \in Nat /\ q \in Seq(Addresses) /\ t \in Seq(Addresses) /\ Len(q) # 0
  BY DEF Paths
<1>2. s \in Starts(q, t) <=> s \in 1..(Len(t) - Len(q) + 1) /\ SubSeq(t, s, s + Len(q) - 1) = q
  BY DEF Starts
<1>3. ASSUME s \in 1..(Len(t) - Len(q) + 1)
      PROVE  SubSeq(t, s, s + Len(q) - 1) = q <=> \A k \in 1..Len(q) : t[s + k - 1] = q[k]
  <2> DEFINE a == s - 1
             b == s + Len(q) - 1
             part == SubSeq(t, a + 1, b)
  <2>1. a \in Nat /\ b \in Nat /\ a + 1 \in 1..Len(t) + 1 /\ b \in a..Len(t) /\ a + 1 = s /\ b - a = Len(q)
    BY <1>1, <1>3
  <2>2. SubSeq(t, s, s + Len(q) - 1) = part
    BY <2>1
  <2> HIDE DEF a, b
  <2>3. part \in Seq(Addresses) /\ Len(part) = Len(q) /\ \A i \in 1..Len(q) : part[i] = t[a + i]
    BY <1>1, <2>1, PartIs
  <2>4. \A k \in 1..Len(q) : a + k = s + k - 1
    BY <1>1, <1>3 DEF a
  <2> HIDE DEF part
  <2>5. (\A k \in 1..Len(q) : part[k] = q[k]) => part = q
    BY <1>1, <2>3, SeqEqual
  <2> QED BY <2>2, <2>3, <2>4, <2>5
<1> QED BY <1>2, <1>3

\* What a frontier tells of one address: nothing, or where and how often.
LEMMA CandidatesAt ==
  ASSUME NEW found, NEW a
  PROVE  LET here == {n \in found : n[1] = a}
         IN  {<<c.support, c.count>> : c \in {d \in Frontier(found).candidates : d.address = a}}
               = IF here = {} THEN {} ELSE {<<{n[2] : n \in here}, Cardinality(here)>>}
<1> DEFINE here == {n \in found : n[1] = a}
           said(b) == [address |-> b, support |-> {n[2] : n \in {m \in found : m[1] = b}},
                       count |-> Cardinality({n \in found : n[1] = b})]
           all == Frontier(found).candidates
<1>1. all = {said(b) : b \in {n[1] : n \in found}}
  BY DEF Frontier
<1>2. {d \in all : d.address = a} = IF here = {} THEN {} ELSE {said(a)}
  <2>1. \A b : said(b).address = b
    OBVIOUS
  <2>2. a \in {n[1] : n \in found} <=> here # {}
    OBVIOUS
  <2> HIDE DEF said, here, all
  <2>3. \A d : d \in {e \in all : e.address = a} <=> d = said(a) /\ here # {}
    BY <1>1, <2>1, <2>2
  <2> QED BY <2>3
<1>3. said(a).support = {n[2] : n \in here} /\ said(a).count = Cardinality(here)
  OBVIOUS
<1> QED BY <1>2, <1>3

\* A trail goes on from a query to an address where it has both, one after the
\* other,
LEMMA GoesOn ==
  ASSUME NEW q \in Paths, q # <<>>, NEW b \in Addresses, NEW t \in Paths, NEW s
  PROVE  s \in Starts(Append(q, b), t)
           <=> s \in Starts(q, t) \ {Len(t) - Len(q) + 1} /\ t[s + Len(q)] = b
<1> DEFINE w == Append(q, b)
           n == Len(q)
           m == Len(t)
<1>1. n \in Nat /\ m \in Nat /\ n # 0 /\ q \in Seq(Addresses)
  BY DEF Paths
<1>2. w \in Paths /\ w # <<>> /\ Len(w) = n + 1 /\ w[n + 1] = b /\ \A k \in 1..n : w[k] = q[k]
  BY <1>1, AppendProperties DEF Paths
<1> HIDE DEF w
<1>3. s \in Starts(w, t) <=> s \in 1..(m - (n + 1) + 1) /\ \A k \in 1..n + 1 : t[s + k - 1] = w[k]
  <2>1. s \in Starts(w, t) <=> s \in 1..(m - Len(w) + 1) /\ \A k \in 1..Len(w) : t[s + k - 1] = w[k]
    BY <1>2, StartsAre
  <2> HIDE DEF n, m
  <2> QED BY <1>2, <2>1
<1>4. s \in Starts(q, t) <=> s \in 1..(m - n + 1) /\ \A k \in 1..n : t[s + k - 1] = q[k]
  BY StartsAre
<1> HIDE DEF n, m
<1>5. s \in 1..(m - (n + 1) + 1) <=> s \in 1..(m - n + 1) \ {m - n + 1}
  BY <1>1
<1>6. ASSUME s \in 1..(m - n + 1)
      PROVE  (\A k \in 1..n + 1 : t[s + k - 1] = w[k]) <=> (\A k \in 1..n : t[s + k - 1] = q[k]) /\ t[s + n] = b
  <2>1. /\ \A k \in 1..n + 1 : k \in 1..n \/ k = n + 1
        /\ \A k \in 1..n : k \in 1..n + 1
        /\ n + 1 \in 1..n + 1 /\ s + (n + 1) - 1 = s + n
    BY <1>1, <1>6
  <2> QED BY <1>2, <2>1
<1> QED BY <1>3, <1>4, <1>5, <1>6 DEF w, n, m

\* and the rest of the query comes after its first address there.
LEMMA ComesFrom ==
  ASSUME NEW w \in Paths, Len(w) > 1, NEW t \in Paths, NEW s
  PROVE  s \in Starts(Tail(w), t) \ {1} /\ t[s - 1] = w[1]
           <=> s \in Int /\ s - 1 \in Starts(w, t)
<1> DEFINE v == Tail(w)
           n == Len(w)
           m == Len(t)
<1>1. n \in Nat /\ m \in Nat /\ n > 1 /\ w \in Seq(Addresses) /\ w # <<>>
  BY DEF Paths
<1>2. v \in Paths /\ Len(v) = n - 1 /\ v # <<>> /\ \A k \in 1..n - 1 : v[k] = w[k + 1]
  <2>1. v \in Seq(Addresses) /\ Len(v) = n - 1 /\ \A k \in 1..n - 1 : v[k] = w[k + 1]
    BY <1>1
  <2> HIDE DEF v
  <2>2. v # <<>>
    BY <1>1, <2>1
  <2> QED BY <2>1, <2>2 DEF Paths
<1> HIDE DEF v
<1>3. s \in Starts(v, t) <=> s \in 1..(m - (n - 1) + 1) /\ \A k \in 1..n - 1 : t[s + k - 1] = v[k]
  BY <1>2, StartsAre
<1>4. s - 1 \in Starts(w, t) <=> s - 1 \in 1..(m - n + 1) /\ \A k \in 1..n : t[(s - 1) + k - 1] = w[k]
  BY <1>1, StartsAre
<1> HIDE DEF n, m
<1>5. ASSUME s \in Int PROVE s \in 1..(m - (n - 1) + 1) \ {1} <=> s - 1 \in 1..(m - n + 1)
  BY <1>1, <1>5
<1>6. ASSUME s \in Int
      PROVE  (\A k \in 1..n : t[(s - 1) + k - 1] = w[k])
               <=> (\A k \in 1..n - 1 : t[s + k - 1] = v[k]) /\ t[s - 1] = w[1]
  <2>1. ASSUME \A k \in 1..n : t[(s - 1) + k - 1] = w[k]
        PROVE  (\A k \in 1..n - 1 : t[s + k - 1] = v[k]) /\ t[s - 1] = w[1]
    <3>1. 1 \in 1..n /\ (s - 1) + 1 - 1 = s - 1
      BY <1>1, <1>6
    <3>2. \A k \in 1..n - 1 : k + 1 \in 1..n /\ (s - 1) + (k + 1) - 1 = s + k - 1
      BY <1>1, <1>6
    <3> QED BY <1>2, <2>1, <3>1, <3>2
  <2>2. ASSUME \A k \in 1..n - 1 : t[s + k - 1] = v[k], t[s - 1] = w[1]
        PROVE  \A k \in 1..n : t[(s - 1) + k - 1] = w[k]
    <3> SUFFICES ASSUME NEW k \in 1..n PROVE t[(s - 1) + k - 1] = w[k]
      OBVIOUS
    <3>1. CASE k = 1
      <4>1. (s - 1) + k - 1 = s - 1
        BY <1>6, <3>1
      <4> QED BY <2>2, <3>1, <4>1
    <3>2. CASE k # 1
      <4>1. k - 1 \in 1..n - 1 /\ (s - 1) + k - 1 = s + (k - 1) - 1 /\ (k - 1) + 1 = k
        BY <1>1, <1>6, <3>2
      <4> QED BY <1>2, <2>2, <4>1
    <3> QED BY <3>1, <3>2
  <2> QED BY <2>1, <2>2
<1>7. s \in 1..(m - (n - 1) + 1) => s \in Int
  BY <1>1
<1> QED BY <1>3, <1>4, <1>5, <1>6, <1>7 DEF v

\* Where a query and the address after it are found, in both directions.
FoundAt(index, w) == UNION {{<<i, s>> : s \in Starts(w, index[i].addresses)} : i \in DOMAIN index}

LEMMA NeighboursAre ==
  ASSUME NEW index \in Seq(Rows), NEW q \in Paths, q # <<>>, NEW b \in Addresses
  PROVE  LET whole == Append(q, b)
         IN  /\ {n \in ForwardNeighbours(index, q) : n[1] = b}
                  = {<<b, p[1], p[2]>> : p \in FoundAt(index, whole)}
             /\ {n \in ReverseNeighbours(index, Tail(whole)) : n[1] = Head(q)}
                  = {<<Head(q), p[1], p[2] + 1>> : p \in FoundAt(index, whole)}
             /\ IsFiniteSet(FoundAt(index, whole))
             /\ FoundAt(index, whole) \subseteq Nat \X Int
<1> DEFINE whole == Append(q, b)
           at(i) == index[i].addresses
           F == ForwardNeighbours(index, q)
           R == ReverseNeighbours(index, Tail(whole))
           W == FoundAt(index, whole)
           h == Head(q)
<1>1. Len(index) \in Nat /\ DOMAIN index = 1..Len(index) /\ \A i \in DOMAIN index : at(i) \in Paths
  <2>1. \A i \in DOMAIN index : index[i] \in Rows
    OBVIOUS
  <2> QED BY <2>1 DEF Rows
<1>2. /\ whole \in Paths /\ Len(whole) = Len(q) + 1 /\ whole # <<>> /\ whole[1] = h
      /\ Len(q) \in Nat /\ Len(whole) > 1
  <2>1. q \in Seq(Addresses) /\ Len(q) \in Nat /\ Len(q) # 0 /\ h = q[1]
    BY DEF Paths
  <2>2. whole \in Seq(Addresses) /\ Len(whole) = Len(q) + 1 /\ \A k \in 1..Len(q) : whole[k] = q[k]
    BY <2>1, AppendProperties
  <2> HIDE DEF whole
  <2> QED BY <2>1, <2>2 DEF Paths
<1>3. \A i \in DOMAIN index : \A s : s \in Starts(whole, at(i))
           <=> s \in Starts(q, at(i)) \ {Len(at(i)) - Len(q) + 1} /\ at(i)[s + Len(q)] = b
  BY <1>1, GoesOn
<1>4. \A i \in DOMAIN index : \A s : s \in Starts(Tail(whole), at(i)) \ {1} /\ at(i)[s - 1] = h
           <=> s \in Int /\ s - 1 \in Starts(whole, at(i))
  <2> HIDE DEF whole
  <2> QED BY <1>1, <1>2, ComesFrom
<1>5. ASSUME NEW i \in DOMAIN index, NEW s \in Starts(whole, at(i))
      PROVE  s \in 1..(Len(at(i)) - Len(whole) + 1) /\ s \in Int
  <2> HIDE DEF whole
  <2>1. s \in 1..(Len(at(i)) - Len(whole) + 1)
    BY <1>1, <1>2, <1>5, StartsAre
  <2>2. Len(at(i)) \in Nat
    BY <1>1 DEF Paths
  <2> QED BY <1>2, <2>1, <2>2
<1> HIDE DEF whole, h
<1>6. {n \in F : n[1] = b} = {<<b, p[1], p[2]>> : p \in W}
  <2>1. ASSUME NEW n \in F, n[1] = b PROVE \E p \in W : n = <<b, p[1], p[2]>>
    <3>1. PICK i \in DOMAIN index : \E s \in Starts(q, at(i)) \ {Len(at(i)) - Len(q) + 1} :
                                       n = <<at(i)[s + Len(q)], i, s>>
      BY <2>1 DEF ForwardNeighbours
    <3>2. PICK s \in Starts(q, at(i)) \ {Len(at(i)) - Len(q) + 1} : n = <<at(i)[s + Len(q)], i, s>>
      BY <3>1
    <3>3. s \in Starts(whole, at(i))
      BY <1>3, <2>1, <3>2
    <3>4. <<i, s>> \in W
      BY <3>3 DEF FoundAt
    <3> QED BY <2>1, <3>2, <3>4
  <2>2. ASSUME NEW p \in W PROVE <<b, p[1], p[2]>> \in F
    <3>1. PICK i \in DOMAIN index : \E s \in Starts(whole, at(i)) : p = <<i, s>>
      BY <2>2 DEF FoundAt
    <3>2. PICK s \in Starts(whole, at(i)) : p = <<i, s>>
      BY <3>1
    <3>3. s \in Starts(q, at(i)) \ {Len(at(i)) - Len(q) + 1} /\ at(i)[s + Len(q)] = b
      BY <1>3, <3>2
    <3>4. <<at(i)[s + Len(q)], i, s>> \in F
      BY <3>3 DEF ForwardNeighbours
    <3> QED BY <3>2, <3>3, <3>4
  <2> HIDE DEF F, W
  <2> QED BY <2>1, <2>2
<1>7. {n \in R : n[1] = h} = {<<h, p[1], p[2] + 1>> : p \in W}
  <2>1. ASSUME NEW n \in R, n[1] = h PROVE \E p \in W : n = <<h, p[1], p[2] + 1>>
    <3>1. PICK i \in DOMAIN index : \E s \in Starts(Tail(whole), at(i)) \ {1} : n = <<at(i)[s - 1], i, s>>
      BY <2>1 DEF ReverseNeighbours
    <3>2. PICK s \in Starts(Tail(whole), at(i)) \ {1} : n = <<at(i)[s - 1], i, s>>
      BY <3>1
    <3>3. s \in Int /\ s - 1 \in Starts(whole, at(i))
      BY <1>4, <2>1, <3>2
    <3>4. <<i, s - 1>> \in W
      BY <3>3 DEF FoundAt
    <3>5. (s - 1) + 1 = s
      BY <3>3
    <3> QED BY <2>1, <3>2, <3>4, <3>5
  <2>2. ASSUME NEW p \in W PROVE <<h, p[1], p[2] + 1>> \in R
    <3>1. PICK i \in DOMAIN index : \E s \in Starts(whole, at(i)) : p = <<i, s>>
      BY <2>2 DEF FoundAt
    <3>2. PICK s \in Starts(whole, at(i)) : p = <<i, s>>
      BY <3>1
    <3> DEFINE r == s + 1
    <3>3. r \in Int /\ r - 1 = s
      BY <1>5, <3>2
    <3> HIDE DEF r
    <3>4. r \in Starts(Tail(whole), at(i)) \ {1} /\ at(i)[r - 1] = h
      BY <1>4, <3>2, <3>3
    <3>5. <<at(i)[r - 1], i, r>> \in R
      BY <3>4 DEF ReverseNeighbours
    <3> QED BY <3>2, <3>4, <3>5 DEF r
  <2> HIDE DEF R, W
  <2> QED BY <2>1, <2>2
<1>8. IsFiniteSet(W)
  <2> DEFINE here(i) == {<<i, s>> : s \in Starts(whole, at(i))}
             family == {here(i) : i \in DOMAIN index}
  <2>1. IsFiniteSet(family)
    <3> DEFINE f == [i \in DOMAIN index |-> here(i)]
    <3>1. family = {f[i] : i \in DOMAIN index}
      OBVIOUS
    <3> HIDE DEF f, family
    <3>2. IsFiniteSet(DOMAIN index)
      BY <1>1, FS_Interval
    <3> QED BY <3>1, <3>2, ImageFinite
  <2>2. ASSUME NEW i \in DOMAIN index PROVE IsFiniteSet(here(i))
    <3> DEFINE S == Starts(whole, at(i))
               m == Len(at(i)) - Len(whole) + 1
    <3>1. m \in Int
      BY <1>1, <1>2 DEF Paths
    <3>2. S \subseteq 1..m
      BY <1>5
    <3> HIDE DEF S, m
    <3>5. IsFiniteSet(1..m)
      BY <3>1, FS_Interval
    <3>3. IsFiniteSet(S)
      BY <3>2, <3>5, FS_Subset
    <3> DEFINE g == [s \in S |-> <<i, s>>]
    <3>4. here(i) = {g[s] : s \in S}
      BY DEF S
    <3> HIDE DEF g, here
    <3> QED BY <3>3, <3>4, ImageFinite
  <2>3. W = UNION family
    BY DEF FoundAt
  <2>4. \A T \in family : IsFiniteSet(T)
    BY <2>2
  <2> HIDE DEF family, W
  <2> QED BY <2>1, <2>3, <2>4, FS_UNION
<1>9. W \subseteq Nat \X Int
  BY <1>1, <1>2, <1>5 DEF FoundAt
<1> QED BY <1>6, <1>7, <1>8, <1>9 DEF whole, h

\* So the frontiers agree: they count the same occurrences.
LEMMA FrontiersMeet ==
  ASSUME IndexTyped
  PROVE  FrontiersAgree(Paths \ {<<>>})
<1> SUFFICES ASSUME NEW q \in Paths, q # <<>>, NEW b \in Addresses
             PROVE  LET whole == Append(q, b)
                        ahead == {c \in Frontier(ForwardNeighbours(trajectories, q)).candidates :
                                      c.address = b}
                        behind == {c \in Frontier(ReverseNeighbours(trajectories, Tail(whole))).candidates :
                                       c.address = Head(q)}
                    IN  {<<c.support, c.count>> : c \in ahead} = {<<c.support, c.count>> : c \in behind}
  BY DEF FrontiersAgree
<1> DEFINE whole == Append(q, b)
           W == FoundAt(trajectories, whole)
           FF == ForwardNeighbours(trajectories, q)
           RR == ReverseNeighbours(trajectories, Tail(whole))
           F == {n \in FF : n[1] = b}
           R == {n \in RR : n[1] = Head(q)}
<1>1. /\ F = {<<b, p[1], p[2]>> : p \in W} /\ R = {<<Head(q), p[1], p[2] + 1>> : p \in W}
      /\ IsFiniteSet(W) /\ W \subseteq Nat \X Int
  BY NeighboursAre DEF IndexTyped
<1>2. /\ {<<c.support, c.count>> : c \in {d \in Frontier(FF).candidates : d.address = b}}
           = IF F = {} THEN {} ELSE {<<{n[2] : n \in F}, Cardinality(F)>>}
      /\ {<<c.support, c.count>> : c \in {d \in Frontier(RR).candidates : d.address = Head(q)}}
           = IF R = {} THEN {} ELSE {<<{n[2] : n \in R}, Cardinality(R)>>}
  <2> HIDE DEF FF, RR
  <2>1. {<<c.support, c.count>> : c \in {d \in Frontier(FF).candidates : d.address = b}}
           = IF F = {} THEN {} ELSE {<<{n[2] : n \in F}, Cardinality(F)>>}
    BY CandidatesAt
  <2>2. {<<c.support, c.count>> : c \in {d \in Frontier(RR).candidates : d.address = Head(q)}}
           = IF R = {} THEN {} ELSE {<<{n[2] : n \in R}, Cardinality(R)>>}
    <3> DEFINE h == Head(q)
    <3> HIDE DEF h
    <3>1. {<<c.support, c.count>> : c \in {d \in Frontier(RR).candidates : d.address = h}}
           = LET here == {n \in RR : n[1] = h}
             IN  IF here = {} THEN {} ELSE {<<{n[2] : n \in here}, Cardinality(here)>>}
      BY CandidatesAt
    <3> QED BY <3>1 DEF h
  <2> QED BY <2>1, <2>2
<1> HIDE DEF whole, W, F, R
<1>3. (F = {} <=> W = {}) /\ (R = {} <=> W = {})
  BY <1>1
<1>4. {n[2] : n \in F} = {p[1] : p \in W} /\ {n[2] : n \in R} = {p[1] : p \in W}
  <2>1. ASSUME NEW S, NEW f, S = {f[p] : p \in W}, \A p \in W : f[p][2] = p[1]
        PROVE  {n[2] : n \in S} = {p[1] : p \in W}
    BY <2>1
  <2> DEFINE f == [p \in W |-> <<b, p[1], p[2]>>]
             g == [p \in W |-> <<Head(q), p[1], p[2] + 1>>]
  <2>2. \A p \in W : f[p][2] = p[1] /\ g[p][2] = p[1]
    OBVIOUS
  <2>3. F = {f[p] : p \in W} /\ R = {g[p] : p \in W}
    BY <1>1
  <2> HIDE DEF f, g
  <2> QED BY <2>1, <2>2, <2>3
<1>5. Cardinality(F) = Cardinality(W) /\ Cardinality(R) = Cardinality(W)
  <2> DEFINE f == [p \in W |-> <<b, p[1], p[2]>>]
             g == [p \in W |-> <<Head(q), p[1], p[2] + 1>>]
  <2>1. \A x, y \in W : x[1] = y[1] /\ x[2] = y[2] => x = y
    BY <1>1
  <2>2. \A x \in W : f[x] = <<b, x[1], x[2]>> /\ g[x] = <<Head(q), x[1], x[2] + 1>> /\ x[2] \in Int
    BY <1>1
  <2> HIDE DEF f, g
  <2>3. \A x \in W : f[x][2] = x[1] /\ f[x][3] = x[2] /\ g[x][2] = x[1] /\ g[x][3] = x[2] + 1
    BY <2>2
  <2>4. /\ \A x, y \in W : f[x] = f[y] => x = y
        /\ \A x, y \in W : g[x] = g[y] => x = y
    BY <2>1, <2>2, <2>3
  <2>5. /\ \A x \in W : f[x] \in F /\ g[x] \in R
        /\ \A n \in F : \E x \in W : n = f[x]
        /\ \A n \in R : \E x \in W : n = g[x]
    BY <1>1, <2>2
  <2>6. Cardinality(F) = Cardinality(W)
    BY <1>1, <2>4, <2>5, SameCount
  <2>7. Cardinality(R) = Cardinality(W)
    BY <1>1, <2>4, <2>5, SameCount
  <2> QED BY <2>6, <2>7
<1> QED BY <1>2, <1>3, <1>4, <1>5 DEF whole, F, R

-----------------------------------------------------------------------------
(* The index answers by its content.                                       *)

\* The invariant of an index: its rows tell their places, their trails are
\* collapsed and none is empty.
QueryInv(many) ==
  /\ InferenceInv(many) /\ Numbered(trajectories)
  /\ \A i \in DOMAIN trajectories : trajectories[i].addresses # <<>>

\* Ingestion keeps it.
LEMMA QueryStep ==
  ASSUME NEW many \in Nat, QueryInv(many), NEW sources \in SUBSET Nat,
         NEW raws \in SUBSET (Paths \ {<<>>}), TrajectoriesNext(sources, many, raws)
  PROVE  QueryInv(many)'
<1>1. InferenceInv(many)'
  BY InferenceStep DEF QueryInv
<1>2. /\ trajectories \in Seq(Rows) /\ Len(trajectories) \in Nat
      /\ DOMAIN trajectories = 1..Len(trajectories)
      /\ \A i \in DOMAIN trajectories : /\ trajectories[i].sequence = i
                                        /\ trajectories[i].addresses # <<>>
                                        /\ NoRepeats(trajectories[i].addresses)
  BY DEF QueryInv, InferenceInv, IndexTyped, Numbered
<1>3. CASE \E s \in sources, raw \in raws : Ingest(s, Len(trajectories) + 1, raw)
  <2>1. PICK s \in sources, raw \in raws : Ingest(s, Len(trajectories) + 1, raw)
    BY <1>3
  <2> DEFINE n == Len(trajectories)
             t == [source |-> s, sequence |-> n + 1, addresses |-> Collapsed(raw)]
  <2>2. trajectories' = trajectories \/ trajectories' = Append(trajectories, t)
    BY <2>1 DEF Ingest, Ingested
  <2>3. CASE trajectories' = trajectories
    BY <1>1, <1>2, <2>3 DEF QueryInv, Numbered
  <2>4. CASE trajectories' = Append(trajectories, t)
    <3>1. t.sequence = n + 1 /\ t.addresses # <<>>
      BY CollapsedTyped
    <3> HIDE DEF t
    <3>2. /\ Len(trajectories') = n + 1 /\ DOMAIN trajectories' = 1..n + 1
          /\ trajectories'[n + 1] = t
          /\ \A i \in 1..n : trajectories'[i] = trajectories[i]
      BY <1>2, <2>4
    <3>3. \A i \in 1..n + 1 : i \in 1..n \/ i = n + 1
      BY <1>2
    <3>4. \A i \in 1..n : trajectories[i].sequence = i /\ trajectories[i].addresses # <<>>
      BY <1>2
    <3> HIDE DEF n
    <3>5. \A i \in DOMAIN trajectories' :
              trajectories'[i].sequence = i /\ trajectories'[i].addresses # <<>>
      BY <3>1, <3>2, <3>3, <3>4
    <3> QED BY <1>1, <3>5 DEF QueryInv, Numbered
  <2> QED BY <2>2, <2>3, <2>4
<1>4. CASE \E i \in DOMAIN trajectories :
             Ingest(trajectories[i].source, trajectories[i].sequence, trajectories[i].addresses)
  <2>1. PICK i \in DOMAIN trajectories :
             Ingest(trajectories[i].source, trajectories[i].sequence, trajectories[i].addresses)
    BY <1>4
  <2> DEFINE t == trajectories[i]
             again == [source |-> t.source, sequence |-> t.sequence, addresses |-> Collapsed(t.addresses)]
  <2>2. t \in Rows
    BY <1>2
  <2>3. t.addresses \in Paths /\ t = [source |-> t.source, sequence |-> t.sequence, addresses |-> t.addresses]
    BY <2>2 DEF Rows
  <2>4. again = t
    BY <1>2, <2>3, CollapsedStays
  <2>5. Contains(trajectories, again)
    <3>1. \E k \in 1..Len(trajectories) : trajectories[k] = again
      BY <1>2, <2>4
    <3> QED BY <3>1 DEF Contains
  <2>6. trajectories' = trajectories
    BY <2>1, <2>5 DEF Ingest, Ingested
  <2> QED BY <1>1, <1>2, <2>6 DEF QueryInv, Numbered
<1> QED BY <1>3, <1>4 DEF TrajectoriesNext

\* What the invariant says of the queries.
LEMMA QueryFollows ==
  ASSUME NEW many, QueryInv(many)
  PROVE  QueriesReadContent(Paths \ {<<>>})
<1>1. /\ IndexTyped /\ trajectories \in Seq(Rows) /\ Numbered(trajectories)
      /\ \A i \in DOMAIN trajectories : /\ trajectories[i].addresses # <<>>
                                        /\ NoRepeats(trajectories[i].addresses)
  BY DEF QueryInv, InferenceInv, IndexTyped
<1>2. IndexIsCanonical
  <2>1. Cardinality(ToSet(trajectories)) = Len(trajectories) /\ Restore(trajectories) = trajectories
    BY <1>1, RowsCounted, Restored
  <2> QED BY <1>1, <2>1 DEF IndexIsCanonical, NoRepeats
<1>3. RankingIgnoresOrder(Paths \ {<<>>})
  BY <1>1, OrderIgnored DEF RankingIgnoresOrder
<1>4. FrontiersAgree(Paths \ {<<>>})
  BY <1>1, FrontiersMeet
<1> QED BY <1>2, <1>3, <1>4 DEF QueriesReadContent
\* Climbing one level goes through one step per address.
LEMMA CollapseIs ==
  ASSUME NEW s, NEW catalogue, NEW depth, Len(s) \in Nat
  PROVE  \E f : /\ f[0] = [cursor |-> 1, output |-> <<>>]
                /\ \A n \in 1..Len(s) : f[n] = Climbed(f[n - 1], s, catalogue, depth)
                /\ CollapseWithCatalogue(s, catalogue, depth) = f[Len(s)].output
<1> DEFINE Is(m, f) == f = [n \in 0..m |-> IF n = 0 THEN [cursor |-> 1, output |-> <<>>] ELSE Climbed(f[n - 1], s, catalogue, depth)]
           P == {m \in 0..Len(s) : \E f : Is(m, f)}
<1>1. 0 \in P
  <2> DEFINE g == [n \in 0..0 |-> [cursor |-> 1, output |-> <<>>]]
  <2>1. g = [n \in 0..0 |-> IF n = 0 THEN [cursor |-> 1, output |-> <<>>] ELSE Climbed(g[n - 1], s, catalogue, depth)]
    OBVIOUS
  <2> HIDE DEF g
  <2>2. Is(0, g) /\ 0 \in 0..Len(s)
    BY <2>1
  <2> QED BY <2>2
<1>2. ASSUME NEW m \in 0..Len(s), m < Len(s), m \in P PROVE m + 1 \in P
  <2>1. PICK f : Is(m, f)
    BY <1>2
  <2> DEFINE g == [n \in 0..m + 1 |-> IF n <= m THEN f[n] ELSE Climbed(f[m], s, catalogue, depth)]
  <2>2. ASSUME NEW n \in 0..m + 1
        PROVE  g[n] = IF n = 0 THEN [cursor |-> 1, output |-> <<>>] ELSE Climbed(g[n - 1], s, catalogue, depth)
    <3>1. CASE n = 0
      BY <2>1, <3>1
    <3>2. CASE n # 0 /\ n <= m
      <4>1. n \in 0..m /\ n - 1 \in 0..m + 1 /\ n - 1 <= m
        BY <3>2
      <4>2. g[n] = f[n] /\ g[n - 1] = f[n - 1]
        BY <3>2, <4>1
      <4> HIDE DEF g
      <4> QED BY <2>1, <3>2, <4>1, <4>2
    <3>3. CASE n = m + 1
      <4>1. n # 0 /\ ~(n <= m) /\ n - 1 = m /\ m \in 0..m + 1
        BY <3>3
      <4>2. g[n - 1] = f[m] /\ g[n] = Climbed(f[m], s, catalogue, depth)
        BY <4>1
      <4> HIDE DEF g
      <4> QED BY <3>3, <4>1, <4>2
    <3> QED BY <3>1, <3>2, <3>3
  <2>3. g = [n \in 0..m + 1 |-> g[n]]
    OBVIOUS
  <2> HIDE DEF g
  <2>4. Is(m + 1, g)
    BY <2>2, <2>3
  <2>5. m + 1 \in 0..Len(s)
    BY <1>2
  <2> QED BY <2>4, <2>5
<1>3. Len(s) \in P
  <2> HIDE DEF P
  <2>1. 0..Len(s) \subseteq P
    BY <1>1, <1>2, Upwards
  <2> QED BY <2>1
<1> DEFINE after == CHOOSE f : Is(Len(s), f)
<1>4. Is(Len(s), after)
  BY <1>3
<1>5. CollapseWithCatalogue(s, catalogue, depth) = after[Len(s)].output
  BY DEF CollapseWithCatalogue
<1> HIDE DEF after
<1>6. after[0] = [cursor |-> 1, output |-> <<>>] /\ \A n \in 1..Len(s) : after[n] = Climbed(after[n - 1], s, catalogue, depth)
  <2>1. 0 \in 0..Len(s) /\ \A n \in 1..Len(s) : n \in 0..Len(s) /\ n # 0
    OBVIOUS
  <2> QED BY <1>4, <2>1
<1> QED BY <1>5, <1>6

-----------------------------------------------------------------------------
(* Streams of addresses of any depth: what is known of them is that they   *)
(* are lists, of whatever.                                                 *)

IsList(s) == \E S : s \in Seq(S)

\* A list has a length, and with one more entry it is still a list.
LEMMA ListIs ==
  ASSUME NEW s, IsList(s)
  PROVE  /\ Len(s) \in Nat /\ DOMAIN s = 1..Len(s)
         /\ \A e : /\ IsList(Append(s, e)) /\ Len(Append(s, e)) = Len(s) + 1
                   /\ Append(s, e)[Len(s) + 1] = e
                   /\ \A i \in 1..Len(s) : Append(s, e)[i] = s[i]
<1>1. PICK S : s \in Seq(S)
  BY DEF IsList
<1>2. Len(s) \in Nat /\ DOMAIN s = 1..Len(s)
  BY <1>1
<1>3. ASSUME NEW e
      PROVE  /\ IsList(Append(s, e)) /\ Len(Append(s, e)) = Len(s) + 1
             /\ Append(s, e)[Len(s) + 1] = e
             /\ \A i \in 1..Len(s) : Append(s, e)[i] = s[i]
  <2> DEFINE T == S \cup {e}
  <2>1. s \in Seq(T) /\ e \in T
    <3>1. S \subseteq T
      OBVIOUS
    <3>2. s \in [1..Len(s) -> T]
      BY <1>1, <3>1
    <3> HIDE DEF T
    <3>3. s \in Seq(T)
      BY <1>2, <3>2
    <3> QED BY <3>3 DEF T
  <2> HIDE DEF T
  <2>2. /\ Append(s, e) \in Seq(T) /\ Len(Append(s, e)) = Len(s) + 1
        /\ Append(s, e)[Len(s) + 1] = e
        /\ \A i \in 1..Len(s) : Append(s, e)[i] = s[i]
    BY <2>1, AppendProperties
  <2> QED BY <2>2 DEF IsList
<1> QED BY <1>2, <1>3

\* A function on the places of a list is one.
LEMMA ListOf ==
  ASSUME NEW n \in Nat, NEW f, f = [i \in 1..n |-> f[i]]
  PROVE  IsList(f) /\ Len(f) = n
<1> DEFINE S == {f[i] : i \in 1..n}
<1>1. f \in [1..n -> S]
  OBVIOUS
<1> HIDE DEF S
<1>2. f \in Seq(S) /\ Len(f) = n
  BY <1>1
<1> QED BY <1>2 DEF IsList

LEMMA NoneIsList == IsList(<<>>) /\ Len(<<>>) = 0
<1>1. <<>> \in Seq({}) /\ Len(<<>>) = 0
  OBVIOUS
<1> QED BY <1>1 DEF IsList

\* The atoms of a trail are a list as long as it.
LEMMA AtomsListed ==
  ASSUME NEW t \in Paths
  PROVE  /\ IsList(AtomicView(t)) /\ Len(AtomicView(t)) = Len(t)
         /\ \A i \in 1..Len(t) : AtomicView(t)[i] = <<0, <<t[i]>>>>
<1>1. Len(t) \in Nat /\ DOMAIN t = 1..Len(t)
  BY DEF Paths
<1> DEFINE f == AtomicView(t)
<1>2. f = [i \in 1..Len(t) |-> <<0, <<t[i]>>>>]
  BY <1>1 DEF AtomicView
<1> HIDE DEF f
<1>3. f = [i \in 1..Len(t) |-> f[i]]
  BY <1>2
<1> QED BY <1>1, <1>2, <1>3, ListOf DEF f

\* What a stream climbs to is one, on every level.
LEMMA ClimbedListed ==
  ASSUME NEW s, IsList(s), NEW catalogue, NEW depth
  PROVE  IsList(CollapseWithCatalogue(s, catalogue, depth))
<1>1. Len(s) \in Nat
  BY ListIs
<1>9. \E f : /\ f[0] = [cursor |-> 1, output |-> <<>>]
             /\ \A n \in 1..Len(s) : f[n] = Climbed(f[n - 1], s, catalogue, depth)
             /\ CollapseWithCatalogue(s, catalogue, depth) = f[Len(s)].output
  BY ONLY <1>1, CollapseIs
<1>2. PICK f : /\ f[0] = [cursor |-> 1, output |-> <<>>]
               /\ \A n \in 1..Len(s) : f[n] = Climbed(f[n - 1], s, catalogue, depth)
               /\ CollapseWithCatalogue(s, catalogue, depth) = f[Len(s)].output
  BY <1>9
<1> DEFINE P == {n \in 0..Len(s) : IsList(f[n].output)}
<1>3. 0 \in P
  <2>1. f[0].output = <<>>
    BY <1>2
  <2> QED BY <1>1, <2>1, NoneIsList
<1>4. ASSUME NEW n \in 0..Len(s), n < Len(s), n \in P PROVE n + 1 \in P
  <2> DEFINE at == f[n]
  <2>1. n + 1 \in 1..Len(s) /\ n + 1 \in 0..Len(s) /\ (n + 1) - 1 = n
    BY <1>4
  <2>2. f[n + 1] = Climbed(at, s, catalogue, depth) /\ IsList(at.output)
    BY <1>2, <1>4, <2>1
  <2> HIDE DEF at
  <2>3. Climbed(at, s, catalogue, depth).output = at.output
          \/ \E e : Climbed(at, s, catalogue, depth).output = Append(at.output, e)
    <3> DEFINE rest == SubSeq(s, at.cursor, Len(s))
               fit == {w \in catalogue : IsPrefix(w, rest)}
               w == CHOOSE w \in fit : \A v \in fit : Len(v) <= Len(w)
               c == Climbed(at, s, catalogue, depth)
    <3>1. c = IF at.cursor > Len(s) THEN at
              ELSE IF fit = {}
              THEN [cursor |-> at.cursor + 1, output |-> Append(at.output, s[at.cursor])]
              ELSE [cursor |-> at.cursor + Len(w), output |-> Append(at.output, <<depth, w>>)]
      BY DEF Climbed
    <3> HIDE DEF rest, fit, w, c
    <3>2. c.output = at.output \/ c.output = Append(at.output, s[at.cursor])
            \/ c.output = Append(at.output, <<depth, w>>)
      BY <3>1
    <3> QED BY <3>2 DEF c
  <2>5. \A e : IsList(Append(at.output, e))
    BY <2>2, ListIs
  <2>4. IsList(f[n + 1].output)
    BY <2>2, <2>3, <2>5
  <2> QED BY <2>1, <2>4
<1> HIDE DEF P
<1>5. 0..Len(s) \subseteq P
  BY <1>1, <1>3, <1>4, Upwards
<1>6. Len(s) \in P
  BY <1>1, <1>5
<1> QED BY <1>2, <1>6 DEF P

\* A hierarchy has at most as many levels as are allowed, and on each a stream of
\* every trajectory.
LevelsListed(index, levels) ==
  /\ IsList(levels)
  /\ \A d \in 1..Len(levels), i \in DOMAIN index : IsList(levels[d].streams[i])

LEMMA BuiltListed ==
  ASSUME NEW index \in Seq(Rows), NEW cap
  PROVE  LevelsListed(index, Build(index, cap)) /\ Len(Build(index, cap)) <= MaxDepth
<1>1. MaxDepth \in Nat
  BY HierarchyParameters
<1>2. PICK f : /\ f[0] = [levels |-> <<>>, streams |-> AtomicStreams(index), done |-> FALSE]
               /\ \A n \in 1..MaxDepth : f[n] = NextLevel(f[n - 1], n, cap)
               /\ Build(index, cap) = f[MaxDepth].levels
  BY <1>1, BuildIs
<1> DEFINE Listed(at, n) ==
             /\ LevelsListed(index, at.levels) /\ Len(at.levels) <= n
             /\ DOMAIN at.streams = DOMAIN index
             /\ \A i \in DOMAIN index : IsList(at.streams[i])
           P == {n \in 0..MaxDepth : Listed(f[n], n)}
<1>3. 0 \in P
  <2> DEFINE at == f[0]
  <2>1. at.levels = <<>> /\ at.streams = AtomicStreams(index)
    BY <1>2
  <2> HIDE DEF at
  <2>2. ASSUME NEW i \in DOMAIN index PROVE IsList(AtomicStreams(index)[i])
    <3>1. index[i] \in Rows
      OBVIOUS
    <3>2. index[i].addresses \in Paths
      BY <3>1 DEF Rows
    <3> QED BY <3>2, AtomsListed DEF AtomicStreams
  <2>3. DOMAIN AtomicStreams(index) = DOMAIN index
    BY DEF AtomicStreams
  <2>4. LevelsListed(index, <<>>)
    BY NoneIsList DEF LevelsListed
  <2>5. Listed(at, 0)
    BY <2>1, <2>2, <2>3, <2>4, NoneIsList
  <2> HIDE DEF Listed
  <2> QED BY <1>1, <2>5 DEF at
<1>4. ASSUME NEW n \in 0..MaxDepth, n < MaxDepth, n \in P PROVE n + 1 \in P
  <2> DEFINE at == f[n]
             catalogue == DiscoverLevel(at.streams, cap)
             above == [i \in DOMAIN at.streams |-> CollapseWithCatalogue(at.streams[i], catalogue, n + 1)]
             e == [catalogue |-> catalogue, streams |-> above]
             new == f[n + 1]
  <2>1. n + 1 \in 1..MaxDepth /\ n + 1 \in 0..MaxDepth /\ (n + 1) - 1 = n
    <3> HIDE DEF P
    <3> QED BY <1>1, <1>4
  <2>2. new = NextLevel(at, n + 1, cap)
    BY <1>2, <2>1
  <2>3. Listed(at, n)
    BY <1>4
  <2> HIDE DEF at, new
  <2>4. new = IF at.done THEN at ELSE IF catalogue = {} THEN [at EXCEPT !.done = TRUE]
              ELSE [levels |-> Append(at.levels, e), streams |-> above, done |-> above = at.streams]
    BY <2>2 DEF NextLevel
  <2> HIDE DEF catalogue
  <2>5. CASE new.levels = at.levels /\ new.streams = at.streams
    <3>1. Len(at.levels) \in Nat /\ Len(at.levels) <= n
      BY <2>3, ListIs DEF LevelsListed
    <3>2. Len(at.levels) <= n + 1
      BY <3>1
    <3>3. Listed(new, n + 1)
      BY <2>3, <2>5, <3>2
    <3> HIDE DEF Listed
    <3> QED BY <2>1, <3>3 DEF new
  <2>6. CASE new.levels = Append(at.levels, e) /\ new.streams = above
    <3>1. IsList(at.levels) /\ Len(at.levels) \in Nat /\ Len(at.levels) <= n
      BY <2>3, ListIs DEF LevelsListed
    <3>2. \A i \in DOMAIN index : IsList(above[i])
      BY <2>3, ClimbedListed
    <3>3. DOMAIN above = DOMAIN index
      BY <2>3
    <3>4. e.streams = above
      OBVIOUS
    <3> HIDE DEF above, e
    <3> DEFINE levels == Append(at.levels, e)
               m == Len(at.levels)
    <3>5. /\ IsList(levels) /\ Len(levels) = m + 1 /\ levels[m + 1] = e
          /\ \A d \in 1..m : levels[d] = at.levels[d]
      BY <3>1, ListIs
    <3>6. new.levels = levels
      BY <2>6
    <3>7. \A d \in 1..m, i \in DOMAIN index : IsList(at.levels[d].streams[i])
      BY <2>3 DEF LevelsListed
    <3> HIDE DEF levels
    <3>8. \A d \in 1..m + 1 : d \in 1..m \/ d = m + 1
      BY <3>1
    <3>9. ASSUME NEW d \in 1..Len(levels), NEW i \in DOMAIN index PROVE IsList(levels[d].streams[i])
      <4>1. d \in 1..m \/ d = m + 1
        BY <3>5, <3>8
      <4> HIDE DEF m
      <4> QED BY <3>2, <3>4, <3>5, <3>7, <4>1
    <3>10. Len(levels) <= n + 1
      BY <3>1, <3>5
    <3>11. Listed(new, n + 1)
      BY <2>6, <3>2, <3>3, <3>5, <3>6, <3>9, <3>10 DEF LevelsListed
    <3> HIDE DEF Listed
    <3> QED BY <2>1, <3>11 DEF new
  <2> QED BY <2>4, <2>5, <2>6
<1> HIDE DEF P
<1>5. 0..MaxDepth \subseteq P
  BY <1>1, <1>3, <1>4, Upwards
<1>6. MaxDepth \in P
  BY <1>1, <1>5
<1> QED BY <1>2, <1>6 DEF P

\* The views of a query are one per level and its atoms.
LEMMA ViewsListed ==
  ASSUME NEW q \in Paths, NEW levels, IsList(levels)
  PROVE  /\ Len(QueryViews(q, levels)) = Len(levels) + 1
         /\ QueryViews(q, levels)[1] = AtomicView(q)
         /\ \A d \in 1..Len(levels) + 1 : IsList(QueryViews(q, levels)[d])
<1>1. Len(levels) \in Nat
  BY ListIs
<1>2. PICK f : /\ f[0] = <<AtomicView(q)>>
               /\ \A n \in 1..Len(levels) : f[n] = Append(f[n - 1], CollapseWithCatalogue(Last(f[n - 1]), levels[n].catalogue, n))
               /\ QueryViews(q, levels) = f[Len(levels)]
  BY <1>1, ViewsAre
<1> DEFINE Viewed(v, n) == /\ IsList(v) /\ Len(v) = n + 1 /\ v[1] = AtomicView(q)
                           /\ \A d \in 1..n + 1 : IsList(v[d])
           P == {n \in 0..Len(levels) : Viewed(f[n], n)}
<1>3. 0 \in P
  <2> DEFINE v == <<AtomicView(q)>>
             a == AtomicView(q)
  <2>1. v = Append(<<>>, a)
    OBVIOUS
  <2> HIDE DEF v
  <2>2. IsList(v) /\ Len(v) = 1 /\ v[1] = a
    <3>1. IsList(Append(<<>>, a)) /\ Len(Append(<<>>, a)) = Len(<<>>) + 1 /\ Append(<<>>, a)[Len(<<>>) + 1] = a
      BY NoneIsList, ListIs
    <3> QED BY <2>1, <3>1, NoneIsList
  <2>3. IsList(a)
    BY AtomsListed
  <2>4. Viewed(v, 0)
    BY <2>2, <2>3
  <2>5. f[0] = v
    BY <1>2 DEF v
  <2> HIDE DEF Viewed
  <2> QED BY <1>1, <2>4, <2>5
<1>4. ASSUME NEW n \in 0..Len(levels), n < Len(levels), n \in P PROVE n + 1 \in P
  <2> DEFINE v == f[n]
             e == CollapseWithCatalogue(Last(v), levels[n + 1].catalogue, n + 1)
             w == Append(v, e)
  <2>1. n + 1 \in 1..Len(levels) /\ n + 1 \in 0..Len(levels) /\ (n + 1) - 1 = n
    BY <1>4
  <2>2. f[n + 1] = w
    BY <1>2, <2>1
  <2>3. Viewed(v, n)
    BY <1>4
  <2> HIDE DEF v
  <2>4. IsList(Last(v))
    BY <2>1, <2>3 DEF Last
  <2>5. IsList(e)
    BY <2>4, ClimbedListed
  <2> HIDE DEF e
  <2>6. /\ IsList(w) /\ Len(w) = n + 2 /\ w[n + 2] = e /\ \A d \in 1..n + 1 : w[d] = v[d]
    <3>1. IsList(v) /\ Len(v) = n + 1
      BY <2>3
    <3> QED BY <3>1, ListIs
  <2> HIDE DEF w
  <2>7. \A d \in 1..n + 2 : d \in 1..n + 1 \/ d = n + 2
    BY <2>1
  <2>8. 1 \in 1..n + 1
    BY <2>1
  <2>9. Viewed(w, n + 1)
    <3>1. (n + 1) + 1 = n + 2
      BY <2>1
    <3> QED BY <2>3, <2>5, <2>6, <2>7, <2>8, <3>1
  <2> HIDE DEF Viewed
  <2> QED BY <2>1, <2>2, <2>9
<1> HIDE DEF P
<1>5. 0..Len(levels) \subseteq P
  BY <1>1, <1>3, <1>4, Upwards
<1>6. Len(levels) \in P
  BY <1>1, <1>5
<1> QED BY <1>2, <1>6 DEF P
-----------------------------------------------------------------------------
(* The keys of the multiscale ranking are made of numbers.                 *)

\* One row of the table of common subsequences is made from the one above.
NumberRow(row, t) == row \in Seq(Nat) /\ Len(row) = Len(t) + 1

LEMMA LcsRowTyped ==
  ASSUME NEW above, NEW a, NEW t, Len(t) \in Nat, NumberRow(above, t)
  PROVE  NumberRow(LcsRow(above, a, t), t)
<1>1. PICK f : /\ f[0] = <<0>>
               /\ \A n \in 1..Len(t) : f[n] = LcsCell(f[n - 1], above, a, t, n)
               /\ LcsRow(above, a, t) = f[Len(t)]
  <2>1. Len(t) \in Nat
    OBVIOUS
  <2> QED BY ONLY <2>1, RowIs
<1>2. /\ above \in Seq(Nat) /\ Len(above) = Len(t) + 1
      /\ \A j \in 1..Len(t) + 1 : above[j] \in Nat
  BY DEF NumberRow
<1> DEFINE P == {n \in 0..Len(t) : f[n] \in Seq(Nat) /\ Len(f[n]) = n + 1}
<1>3. 0 \in P
  <2>1. f[0] \in Seq(Nat) /\ Len(f[0]) = 1
    BY <1>1
  <2>2. 0 \in 0..Len(t)
    OBVIOUS
  <2> QED BY <2>1, <2>2
<1>4. ASSUME NEW n \in 0..Len(t), n < Len(t), n \in P PROVE n + 1 \in P
  <2> DEFINE row == f[n]
             k == n + 1
             cell == IF a = t[k] THEN above[k] + 1
                     ELSE IF row[k] >= above[k + 1] THEN row[k] ELSE above[k + 1]
  <2>1. k \in 1..Len(t) /\ k \in 0..Len(t) /\ k - 1 = n /\ k \in 1..Len(t) + 1 /\ k + 1 \in 1..Len(t) + 1
    BY <1>4
  <2>2. f[k] = Append(row, cell)
    BY <1>1, <2>1 DEF LcsCell
  <2>3. row \in Seq(Nat) /\ Len(row) = k
    BY <1>4
  <2> HIDE DEF row
  <2>4. row[k] \in Nat
    <3>1. k \in 1..Len(row)
      BY <2>1, <2>3
    <3> HIDE DEF k
    <3> QED BY <2>3, <3>1
  <2>5. above[k] \in Nat /\ above[k + 1] \in Nat
    BY <1>2, <2>1
  <2>6. cell \in Nat
    <3> DEFINE x == above[k]
               y == above[k + 1]
               z == row[k]
    <3>1. cell = IF a = t[k] THEN x + 1 ELSE IF z >= y THEN z ELSE y
      OBVIOUS
    <3>2. x \in Nat /\ y \in Nat /\ z \in Nat
      BY <2>4, <2>5
    <3> HIDE DEF x, y, z, cell, k
    <3> QED BY <3>1, <3>2
  <2> HIDE DEF cell
  <2>7. Append(row, cell) \in Seq(Nat) /\ Len(Append(row, cell)) = Len(row) + 1
    BY <2>3, <2>6, AppendProperties
  <2>8. f[k] \in Seq(Nat) /\ Len(f[k]) = k + 1
    BY <2>2, <2>3, <2>7
  <2> QED BY <2>1, <2>8
<1> HIDE DEF P
<1>5. 0..Len(t) \subseteq P
  BY <1>3, <1>4, Upwards
<1>6. Len(t) \in P
  BY <1>5
<1> QED BY <1>1, <1>6 DEF P, NumberRow

LEMMA LcsTyped ==
  ASSUME NEW q, Len(q) \in Nat, NEW t, Len(t) \in Nat
  PROVE  LcsLength(q, t) \in Nat
<1>1. \E f : /\ f[0] = NoLcs(t)
             /\ \A n \in 1..Len(q) : f[n] = LcsRow(f[n - 1], q[n], t)
             /\ LcsLength(q, t) = Last(f[Len(q)])
  <2>1. Len(q) \in Nat
    OBVIOUS
  <2> QED BY ONLY <2>1, LengthIs
<1>2. PICK f : /\ f[0] = NoLcs(t)
               /\ \A n \in 1..Len(q) : f[n] = LcsRow(f[n - 1], q[n], t)
               /\ LcsLength(q, t) = Last(f[Len(q)])
  BY <1>1
<1> DEFINE P == {n \in 0..Len(q) : NumberRow(f[n], t)}
<1>3. 0 \in P
  <2>1. NumberRow(NoLcs(t), t)
    <3>1. NoLcs(t) \in [1..Len(t) + 1 -> Nat] /\ Len(t) + 1 \in Nat
      BY DEF NoLcs
    <3> QED BY <3>1 DEF NumberRow
  <2>2. NumberRow(f[0], t) /\ 0 \in 0..Len(q)
    BY <1>2, <2>1
  <2> QED BY <2>2
<1>4. ASSUME NEW n \in 0..Len(q), n < Len(q), n \in P PROVE n + 1 \in P
  <2>1. n + 1 \in 1..Len(q) /\ n + 1 \in 0..Len(q) /\ (n + 1) - 1 = n
    BY <1>4
  <2>2. f[n + 1] = LcsRow(f[n], q[n + 1], t)
    BY <1>2, <2>1
  <2>3. NumberRow(f[n + 1], t)
    BY <1>4, <2>2, LcsRowTyped
  <2> QED BY <2>1, <2>3
<1> HIDE DEF P
<1>5. 0..Len(q) \subseteq P
  BY <1>3, <1>4, Upwards
<1>6. Len(q) \in P
  BY <1>5
<1> DEFINE row == f[Len(q)]
<1>7. row \in Seq(Nat) /\ Len(row) = Len(t) + 1
  BY <1>6 DEF P, NumberRow
<1> HIDE DEF row
<1>8. Len(row) \in 1..Len(row)
  BY <1>7
<1>9. Last(row) \in Nat
  BY <1>7, <1>8 DEF Last
<1> QED BY <1>2, <1>9 DEF row

\* A sequence of numbers as long as n.
Figures(n) == {k \in Seq(Int) : Len(k) = n}

\* What a query shares with a trail at one depth is five numbers.
LEMMA ScaleKeyIs ==
  ASSUME NEW q, IsList(q), NEW t, IsList(t)
  PROVE  ScaleKey(q, t) \in Figures(5)
<1>1. PICK S : q \in Seq(S)
  BY DEF IsList
<1>2. Len(q) \in Nat /\ Len(t) \in Nat
  BY ListIs
<1> DEFINE a == Overlap(q, t)
           b == Cardinality(ToSet(q))
           c == LcsLength(q, t)
           d == AdjacencyOverlap(q, t)
<1>3. a \in Nat /\ b \in Nat /\ d \in Nat
  BY <1>1, <1>2, CountsAre
<1>4. c \in Nat
  BY <1>2, LcsTyped
<1>5. ScaleKey(q, t) = <<a, -b, c, d, a>>
  BY DEF ScaleKey
<1> HIDE DEF a, b, c, d
<1>6. a \in Int /\ -b \in Int /\ c \in Int /\ d \in Int
  BY <1>3, <1>4
<1>7. <<a, -b, c, d, a>> \in Seq(Int) /\ Len(<<a, -b, c, d, a>>) = 5
  BY <1>6
<1> QED BY <1>5, <1>7 DEF Figures

\* Lists of numbers chained are a list of numbers.
LEMMA Flattened ==
  ASSUME NEW S, NEW seqs \in Seq(Seq(S))
  PROVE  FlattenSeq(seqs) \in Seq(S)
<1>1. Len(seqs) \in Nat /\ \A i \in 1..Len(seqs) : seqs[i] \in Seq(S)
  OBVIOUS
<1>2. CASE Len(seqs) = 0
  <2>1. seqs = <<>> /\ <<>> \in Seq(S)
    BY <1>2
  <2> QED BY <1>2, <2>1 DEF FlattenSeq
<1>3. CASE Len(seqs) # 0
  <2> DEFINE N == Len(seqs)
             Is(m, f) == f = [i \in 1..m |-> IF i = 1 THEN seqs[i] ELSE f[i - 1] \o seqs[i]]
             P == {m \in 0..N : m # 0 => \E f : Is(m, f)}
  <2>0. N \in Nat /\ N # 0
    BY <1>1, <1>3
  <2>1. 0 \in P
    BY <2>0
  <2>2. ASSUME NEW m \in 0..N, m < N, m \in P PROVE m + 1 \in P
    <3>0. m + 1 \in 0..N /\ m \in Nat
      <4> HIDE DEF P, N
      <4> QED BY <2>0, <2>2
    <3>1. CASE m = 0
      <4> DEFINE g == [i \in 1..1 |-> seqs[i]]
      <4>1. g = [i \in 1..1 |-> IF i = 1 THEN seqs[i] ELSE g[i - 1] \o seqs[i]]
        OBVIOUS
      <4> HIDE DEF g
      <4>2. Is(1, g)
        BY <4>1
      <4>3. m + 1 = 1
        BY <3>1
      <4> QED BY <3>0, <4>2, <4>3
    <3>2. CASE m # 0
      <4>1. PICK f : Is(m, f)
        BY <2>2, <3>2
      <4> DEFINE g == [i \in 1..m + 1 |-> IF i <= m THEN f[i] ELSE f[m] \o seqs[m + 1]]
      <4>2. ASSUME NEW i \in 1..m + 1
            PROVE  g[i] = IF i = 1 THEN seqs[i] ELSE g[i - 1] \o seqs[i]
        <5>1. CASE i = 1
          <6>1. i \in 1..m /\ i <= m
            BY <3>0, <3>2, <5>1
          <6>2. g[i] = f[i]
            BY <6>1
          <6> HIDE DEF g
          <6> QED BY <4>1, <5>1, <6>1, <6>2
        <5>2. CASE i # 1 /\ i <= m
          <6>1. i \in 1..m /\ i - 1 \in 1..m + 1 /\ i - 1 <= m
            BY <3>0, <5>2
          <6>2. g[i] = f[i] /\ g[i - 1] = f[i - 1]
            BY <5>2, <6>1
          <6> HIDE DEF g
          <6> QED BY <4>1, <5>2, <6>1, <6>2
        <5>3. CASE i = m + 1
          <6>1. i # 1 /\ ~(i <= m) /\ i - 1 = m /\ m \in 1..m + 1
            BY <3>0, <3>2, <5>3
          <6>3. g[m] = f[m]
            <7>1. m <= m
              BY <3>0
            <7> QED BY <6>1, <7>1
          <6>4. g[i] = f[m] \o seqs[m + 1]
            <7> DEFINE chained == f[m] \o seqs[m + 1]
            <7> HIDE DEF chained
            <7>1. g = [j \in 1..m + 1 |-> IF j <= m THEN f[j] ELSE chained]
              BY DEF chained
            <7> HIDE DEF g
            <7>2. g[i] = chained
              BY <6>1, <7>1
            <7> QED BY <7>2 DEF chained
          <6>2. g[i - 1] = f[m] /\ g[i] = f[m] \o seqs[m + 1]
            <7> HIDE DEF g
            <7> QED BY <6>1, <6>3, <6>4
          <6> HIDE DEF g
          <6> QED BY <5>3, <6>1, <6>2
        <5>4. i <= m \/ i = m + 1
          BY <3>0
        <5> QED BY <5>1, <5>2, <5>3, <5>4
      <4>3. g = [i \in 1..m + 1 |-> g[i]]
        OBVIOUS
      <4> HIDE DEF g
      <4>4. Is(m + 1, g)
        BY <4>2, <4>3
      <4> QED BY <3>0, <4>4
    <3> QED BY <3>1, <3>2
  <2>3. \E f : Is(N, f)
    <3> HIDE DEF P
    <3>1. 0..N \subseteq P
      BY <2>0, <2>1, <2>2, Upwards
    <3>2. N \in P
      BY <2>0, <3>1
    <3> QED BY <2>0, <3>2 DEF P
  <2> DEFINE after == CHOOSE f : Is(N, f)
  <2>4. Is(N, after)
    BY <2>3
  <2>5. FlattenSeq(seqs) = after[N]
    BY <1>3 DEF FlattenSeq
  <2> HIDE DEF after, N
  <2>6. /\ after[1] = seqs[1]
        /\ \A i \in 1..N : i # 1 => after[i] = after[i - 1] \o seqs[i]
    <3>1. 1 \in 1..N
      BY <2>0
    <3> QED BY <2>4, <3>1
  <2> DEFINE Q == {m \in 0..N : m # 0 => after[m] \in Seq(S)}
  <2>7. 0 \in Q
    BY <2>0
  <2>8. ASSUME NEW m \in 0..N, m < N, m \in Q PROVE m + 1 \in Q
    <3>0. m + 1 \in 1..N /\ m + 1 \in 0..N /\ (m + 1) - 1 = m
      <4> HIDE DEF Q
      <4> QED BY <2>0, <2>8
    <3>1. seqs[m + 1] \in Seq(S)
      BY <1>1, <3>0 DEF N
    <3>2. CASE m = 0
      <4>1. m + 1 = 1
        BY <3>2
      <4>2. after[m + 1] \in Seq(S)
        BY <2>6, <3>1, <4>1
      <4> QED BY <3>0, <4>2
    <3>3. CASE m # 0
      <4>1. after[m] \in Seq(S) /\ m + 1 # 1
        BY <2>8, <3>3
      <4>2. after[m + 1] = after[m] \o seqs[m + 1]
        BY <2>6, <3>0, <4>1
      <4>3. after[m + 1] \in Seq(S)
        BY <3>1, <4>1, <4>2
      <4> QED BY <3>0, <4>3
    <3> QED BY <3>2, <3>3
  <2> HIDE DEF Q
  <2>9. 0..N \subseteq Q
    BY <2>0, <2>7, <2>8, Upwards
  <2>10. N \in Q
    BY <2>0, <2>9
  <2> QED BY <2>0, <2>5, <2>10 DEF Q
<1> QED BY <1>2, <1>3

\* What is shared by depth: five numbers each, and no depth beyond the last.
IsShared(shared) ==
  /\ 0 \in DOMAIN shared /\ DOMAIN shared \subseteq 0..MaxDepth
  /\ \A d \in DOMAIN shared : shared[d] \in Figures(5)

\* The atomic evidence comes first in a key.
LEMMA KeyBegins ==
  ASSUME NEW shared, IsShared(shared), NEW t \in Rows
  PROVE  /\ IsList(MultiscaleKey(shared, t)) /\ Len(MultiscaleKey(shared, t)) >= 5
         /\ \A n \in 1..5 : MultiscaleKey(shared, t)[n] = shared[0][n]
<1>1. MaxDepth \in Nat
  BY HierarchyParameters
<1> DEFINE first == shared[0]
           scales == Cardinality(DOMAIN shared)
           derived == FlattenSeq(DerivedKeys(shared))
<1>2. first \in Seq(Int) /\ Len(first) = 5
  BY DEF IsShared, Figures
<1>3. scales \in Int
  <2>1. IsFiniteSet(0..MaxDepth)
    BY <1>1, FS_Interval
  <2>2. IsFiniteSet(DOMAIN shared)
    BY <2>1, FS_Subset DEF IsShared
  <2>3. scales \in Nat
    BY <2>2, FS_CardinalityType
  <2> QED BY <2>3
<1>4. derived \in Seq(Int)
  <2> DEFINE keyed == [d \in DOMAIN shared \ {0} |-> [row |-> shared[d], key |-> shared[d]]]
  <2>1. DOMAIN keyed \subseteq 1..MaxDepth
    BY <1>1 DEF IsShared
  <2>2. \A d \in DOMAIN keyed : keyed[d].row \in Seq(Int)
    BY DEF IsShared, Figures
  <2>3. DerivedKeys(shared) = Sorted(keyed, MaxDepth)
    BY DEF DerivedKeys
  <2> HIDE DEF keyed
  <2>4. Sorted(keyed, MaxDepth) \in Seq(Seq(Int))
    BY <1>1, <2>1, <2>2, SortedKeeps
  <2> QED BY <2>3, <2>4, Flattened
<1>5. t.sequence \in Int
  <2>1. t.sequence \in Nat
    BY DEF Rows
  <2> QED BY <2>1
<1> DEFINE rest == <<scales>> \o derived \o <<t.sequence>>
<1>6. MultiscaleKey(shared, t) = ((first \o <<scales>>) \o derived) \o <<t.sequence>>
  BY DEF MultiscaleKey
<1> DEFINE e == t.sequence
<1> HIDE DEF first, scales, derived, e
<1> DEFINE u == first \o <<scales>>
           v == u \o derived
           w == v \o <<e>>
<1>7. u \in Seq(Int) /\ Len(u) >= 5 /\ \A n \in 1..5 : u[n] = first[n]
  <2>1. <<scales>> \in Seq(Int) /\ Len(<<scales>>) = 1
    BY <1>3
  <2> DEFINE one == <<scales>>
  <2> HIDE DEF one
  <2>2. u \in Seq(Int) /\ Len(u) = Len(first) + Len(one) /\ \A n \in 1..Len(first) : u[n] = first[n]
    BY <1>2, <2>1, JoinedIs DEF one
  <2> HIDE DEF u
  <2>3. Len(u) = 6
    BY <1>2, <2>1, <2>2 DEF one
  <2> QED BY <1>2, <2>2, <2>3
<1> HIDE DEF u
<1>8. v \in Seq(Int) /\ Len(v) >= 5 /\ \A n \in 1..5 : v[n] = first[n]
  <2>1. v \in Seq(Int) /\ Len(v) = Len(u) + Len(derived) /\ \A n \in 1..Len(u) : v[n] = u[n]
    BY <1>4, <1>7, JoinedIs
  <2>2. Len(u) \in Nat /\ Len(derived) \in Nat
    BY <1>4, <1>7
  <2> HIDE DEF v
  <2>3. Len(v) >= 5
    BY <1>7, <2>1, <2>2
  <2>4. \A n \in 1..5 : n \in 1..Len(u)
    BY <1>7, <2>2
  <2> QED BY <1>7, <2>1, <2>3, <2>4
<1> HIDE DEF v
<1>9. w \in Seq(Int) /\ Len(w) >= 5 /\ \A n \in 1..5 : w[n] = first[n]
  <2>1. <<e>> \in Seq(Int) /\ Len(<<e>>) = 1
    BY <1>5 DEF e
  <2>2. w \in Seq(Int) /\ Len(w) = Len(v) + Len(<<e>>) /\ \A n \in 1..Len(v) : w[n] = v[n]
    BY <1>8, <2>1, JoinedIs
  <2>3. Len(v) \in Nat
    BY <1>8
  <2> HIDE DEF w
  <2>4. Len(w) >= 5
    BY <1>8, <2>1, <2>2, <2>3
  <2>5. \A n \in 1..5 : n \in 1..Len(v)
    BY <1>8, <2>3
  <2> QED BY <1>8, <2>2, <2>4, <2>5
<1> HIDE DEF w
<1>10. IsList(w)
  BY <1>9 DEF IsList
<1> QED BY <1>6, <1>9, <1>10 DEF first, u, v, w, e
-----------------------------------------------------------------------------
(* The places a rollout starts from: no other trajectory shares more with  *)
(* the query at depth 0, whatever the levels above.                        *)

LEMMA FiguresAre == ASSUME NEW n \in Nat, NEW k \in Figures(n)
                    PROVE  k \in Numbers(n) /\ DOMAIN k = 1..n
<1>1. k \in Seq(Int) /\ Len(k) = n
  BY DEF Figures
<1>2. k \in [1..Len(k) -> Int] /\ DOMAIN k = 1..Len(k)
  BY <1>1, LenProperties
<1> QED BY <1>1, <1>2 DEF Numbers

\* Where the first five numbers decide, they decide.
LEMMA FirstDecide ==
  ASSUME NEW x \in Figures(5), NEW y \in Figures(5), Beats(x, y),
         NEW k, IsList(k), Len(k) >= 5, \A n \in 1..5 : k[n] = x[n],
         NEW l, IsList(l), Len(l) >= 5, \A n \in 1..5 : l[n] = y[n]
  PROVE  Beats(k, l) /\ ~Beats(l, k)
<1>1. x \in Numbers(5) /\ y \in Numbers(5) /\ 5 \in Nat
  BY FiguresAre
<1>2. PICK m \in 1..5 : x[m] > y[m] /\ \A j \in 1..5 : j < m => x[j] = y[j]
  BY <1>1, BeatsAt
<1>3. x[m] \in Int /\ y[m] \in Int
  BY <1>1 DEF Numbers
<1> DEFINE differ == {i \in DOMAIN k \cap DOMAIN l : k[i] # l[i]}
           other == {i \in DOMAIN l \cap DOMAIN k : l[i] # k[i]}
<1>4. /\ Len(k) \in Nat /\ Len(l) \in Nat /\ DOMAIN k = 1..Len(k) /\ DOMAIN l = 1..Len(l)
  BY ListIs
<1>5. differ = other /\ differ \in SUBSET Nat
  BY <1>4
<1>6. m \in differ
  <2>1. m \in DOMAIN k /\ m \in DOMAIN l
    BY <1>4
  <2>2. k[m] # l[m]
    BY <1>2, <1>3
  <2> QED BY <2>1, <2>2
<1>7. Min(differ) = m
  <2> DEFINE d == Min(differ)
  <2>1. d \in differ /\ d <= m
    <3> HIDE DEF differ
    <3> QED BY <1>5, <1>6, MinExists
  <2>2. d \in 1..5 /\ k[d] # l[d]
    <3> HIDE DEF d
    <3> QED BY <1>4, <2>1
  <2>3. ~(d < m)
    <3> HIDE DEF d
    <3> QED BY <1>2, <2>2
  <2> HIDE DEF d
  <2>4. d = m
    BY <2>1, <2>2, <2>3
  <2> QED BY <2>4 DEF d
<1>8. k[m] > l[m] /\ ~(l[m] > k[m])
  BY <1>2, <1>3
<1>9. /\ Beats(k, l) <=> differ # {} /\ k[Min(differ)] > l[Min(differ)]
      /\ Beats(l, k) <=> other # {} /\ l[Min(other)] > k[Min(other)]
  BY DEF Beats
<1> HIDE DEF differ, other
<1> QED BY <1>5, <1>6, <1>7, <1>8, <1>9

\* What a query shares with a trajectory at depth 0.
ShareOf(index, raw, i) == ScaleKey(AtomicView(Collapsed(raw)), AtomicView(index[i].addresses))

\* A known trajectory shares something with the query at depth 0, and what it
\* shares there does not depend on the levels.
LEMMA SharedIs ==
  ASSUME NEW index \in Seq(Rows), NEW raw \in Paths, NEW i \in KnownOf(index, raw)
  PROVE  LET levels == Build(index, NoCap)
             shared == Shared(QueryViews(Collapsed(raw), levels), levels, index, i)
         IN  /\ IsShared(shared) /\ shared[0] = ShareOf(index, raw, i)
             /\ ShareOf(index, raw, i) \in Figures(5)
<1> DEFINE q == Collapsed(raw)
           levels == Build(index, NoCap)
           views == QueryViews(q, levels)
           t == index[i].addresses
           at(d) == IF d = 0 THEN AtomicView(t) ELSE levels[d].streams[i]
           shared == Shared(views, levels, index, i)
<1>1. q \in Paths /\ i \in DOMAIN index /\ t \in Paths /\ Overlap(q, t) > 0
  <2>1. i \in DOMAIN index /\ Overlap(q, t) > 0
    BY DEF KnownOf
  <2>2. index[i] \in Rows
    BY <2>1
  <2> QED BY <2>1, <2>2, CollapsedTyped DEF Rows
<1>2. MaxDepth \in Nat
  BY HierarchyParameters
<1> HIDE DEF levels
<1>3. LevelsListed(index, levels) /\ Len(levels) <= MaxDepth
  BY BuiltListed DEF levels
<1>4. IsList(levels) /\ Len(levels) \in Nat
  BY <1>3, ListIs DEF LevelsListed
<1>5. /\ views[1] = AtomicView(q)
      /\ \A d \in 1..Len(levels) + 1 : IsList(views[d])
  <2> HIDE DEF q
  <2> QED BY <1>1, <1>4, ViewsListed
<1> HIDE DEF views, q
<1>6. \A d \in 0..Len(levels) : IsList(at(d))
  <2>1. \A d \in 0..Len(levels) : d = 0 \/ d \in 1..Len(levels)
    BY <1>4
  <2>2. \A d \in 1..Len(levels) : IsList(levels[d].streams[i])
    BY <1>1, <1>3 DEF LevelsListed
  <2>3. IsList(AtomicView(t))
    BY <1>1, AtomsListed
  <2> QED BY <2>1, <2>2, <2>3
<1>7. shared = [d \in {e \in 0..Len(levels) : Overlap(views[e + 1], at(e)) > 0} |->
                   ScaleKey(views[d + 1], at(d))]
  BY DEF Shared
<1>8. at(0) = AtomicView(t)
  OBVIOUS
<1>9. Overlap(AtomicView(q), AtomicView(t)) > 0
  <2> DEFINE A == AtomicView(q)
             B == AtomicView(t)
  <2>1. /\ IsList(A) /\ Len(A) = Len(q) /\ \A k \in 1..Len(q) : A[k] = <<0, <<q[k]>>>>
        /\ IsList(B) /\ Len(B) = Len(t) /\ \A k \in 1..Len(t) : B[k] = <<0, <<t[k]>>>>
    BY <1>1, AtomsListed
  <2> HIDE DEF A, B, t
  <2>2. DOMAIN A = 1..Len(q) /\ DOMAIN B = 1..Len(t) /\ Len(q) \in Nat /\ Len(t) \in Nat
    BY <2>1, ListIs
  <2>3. Meet(q, t, Len(q), Len(t))
    BY <1>1, OverlapMeets
  <2>4. PICK m \in 1..Len(q), n \in 1..Len(t) : q[m] = t[n]
    BY <2>3 DEF Meet
  <2>5. A[m] = B[n] /\ A[m] \in ToSet(A) /\ B[n] \in ToSet(B)
    BY <2>1, <2>2, <2>4 DEF ToSet
  <2>6. PICK S : A \in Seq(S)
    BY <2>1 DEF IsList
  <2>7. IsFiniteSet(ToSet(A)) /\ Overlap(A, B) \in Nat
    BY <2>1, <2>2, <2>6, CountsAre
  <2>8. IsFiniteSet(ToSet(A) \cap ToSet(B)) /\ ToSet(A) \cap ToSet(B) # {}
    BY <2>5, <2>7, FS_Subset
  <2>9. Overlap(A, B) # 0
    BY <2>8, FS_EmptySet DEF Overlap
  <2> QED BY <2>7, <2>9 DEF A, B
<1> HIDE DEF t, at
<1>10. \A d \in 0..Len(levels) : d + 1 \in 1..Len(levels) + 1
  BY <1>4
<1>11. \A d \in 0..Len(levels) : ScaleKey(views[d + 1], at(d)) \in Figures(5)
  BY <1>5, <1>6, <1>10, ScaleKeyIs
<1>12. 0 \in 0..Len(levels) /\ 0 + 1 = 1 /\ 0..Len(levels) \subseteq 0..MaxDepth
  BY <1>2, <1>3, <1>4
<1>13. Overlap(views[0 + 1], at(0)) > 0 /\ ScaleKey(views[0 + 1], at(0)) = ShareOf(index, raw, i)
  BY <1>5, <1>8, <1>9, <1>12 DEF ShareOf, q, t
<1> HIDE DEF shared
<1>14. IsShared(shared) /\ shared[0] = ShareOf(index, raw, i)
  BY <1>7, <1>11, <1>12, <1>13 DEF IsShared
<1> QED BY <1>11, <1>12, <1>13, <1>14 DEF shared, views, levels, q

\* The known trajectories that no other beats at depth 0.
BestOf(index, raw) ==
  {i \in KnownOf(index, raw) : \A j \in KnownOf(index, raw) :
      ~Beats(ShareOf(index, raw, j), ShareOf(index, raw, i))}

LEMMA PlacesAre ==
  ASSUME NEW index \in Seq(Rows), NEW raw \in Paths
  PROVE  PlacesOf(index, raw) = BestOf(index, raw)
<1> DEFINE q == Collapsed(raw)
           matches == MatchesOf(index, raw)
           known == KnownOf(index, raw)
           levels == Build(index, NoCap)
           shared(i) == Shared(QueryViews(q, levels), levels, index, i)
           match(i) == [row |-> [row |-> index[i], shared |-> shared(i)],
                        key |-> MultiscaleKey(shared(i), index[i])]
           keyed == [i \in known |-> match(i)]
           share(i) == ShareOf(index, raw, i)
           N == Len(index)
           K == {keyed[i] : i \in known}
           B == {p \in K \X K : Beats(p[1].row.shared[0], p[2].row.shared[0])}
<1>1. matches = Top(Sorted(keyed, N), N)
  BY DEF MatchesOf, MultiscaleResolve, ResolveOver, KnownOf
<1>2. /\ N \in Nat /\ DOMAIN index = 1..N /\ known \subseteq 1..N
      /\ \A i \in DOMAIN index : index[i] \in Rows
  BY DEF KnownOf
<1>3. \A i \in known : /\ IsShared(shared(i)) /\ shared(i)[0] = share(i)
                       /\ share(i) \in Figures(5) /\ index[i] \in Rows
  BY <1>2, SharedIs
<1> HIDE DEF shared, share, known
<1>4. DOMAIN keyed = known
      /\ \A i \in known : /\ keyed[i].row.row = index[i] /\ keyed[i].row.shared[0] = share(i)
                          /\ keyed[i].key = MultiscaleKey(shared(i), index[i])
  BY <1>3
<1> HIDE DEF keyed
<1>5. \A x, y \in K : <<x, y>> \in B <=> Beats(x.row.shared[0], y.row.shared[0])
  OBVIOUS
<1>6. \A i \in known : share(i) \in Numbers(5)
  <2>1. 5 \in Nat
    OBVIOUS
  <2> QED BY <1>3, <2>1, FiguresAre
<1>7. \A x \in K : \E i \in known : x = keyed[i]
  OBVIOUS
<1> HIDE DEF B
<1>8. Weak(K, B)
  <2>1. 5 \in Nat
    OBVIOUS
  <2>2. \A x \in K : x.row.shared[0] \in Numbers(5)
    BY <1>4, <1>6, <1>7
  <2>3. ASSUME NEW x \in K, NEW y \in K, <<x, y>> \in B PROVE <<y, x>> \notin B
    BY <1>5, <2>1, <2>2, <2>3, BeatsOrders
  <2>4. ASSUME NEW x \in K, NEW y \in K, NEW z \in K, <<x, y>> \in B, <<x, z>> \notin B
        PROVE  <<z, y>> \in B
    <3> DEFINE a == x.row.shared[0]
               b == y.row.shared[0]
               c == z.row.shared[0]
    <3>1. Beats(a, b) /\ ~Beats(a, c) /\ a \in Numbers(5) /\ b \in Numbers(5) /\ c \in Numbers(5)
      BY <1>5, <2>2, <2>4
    <3> HIDE DEF a, b, c
    <3>2. /\ Beats(c, a) /\ Beats(a, b) => Beats(c, b)
          /\ ~Beats(a, c) /\ ~Beats(c, a) => a = c
      BY <2>1, <3>1, BeatsOrders
    <3>4. Beats(c, b)
      BY <3>1, <3>2
    <3> QED BY <1>5, <3>4 DEF b, c
  <2> HIDE DEF K
  <2> QED BY <2>3, <2>4 DEF Weak
<1>9. Respected(K, B)
  <2>1. ASSUME NEW i \in known, NEW j \in known, Beats(share(i), share(j))
        PROVE  Beats(keyed[i].key, keyed[j].key) /\ ~Beats(keyed[j].key, keyed[i].key)
    <3> DEFINE k == MultiscaleKey(shared(i), index[i])
               l == MultiscaleKey(shared(j), index[j])
    <3>1. /\ IsList(k) /\ Len(k) >= 5 /\ \A n \in 1..5 : k[n] = share(i)[n]
          /\ IsList(l) /\ Len(l) >= 5 /\ \A n \in 1..5 : l[n] = share(j)[n]
      BY <1>3, KeyBegins
    <3>2. keyed[i].key = k /\ keyed[j].key = l /\ share(i) \in Figures(5) /\ share(j) \in Figures(5)
      BY <1>3, <1>4
    <3> HIDE DEF k, l
    <3>3. Beats(k, l) /\ ~Beats(l, k)
      BY <2>1, <3>1, <3>2, FirstDecide
    <3> QED BY <3>2, <3>3
  <2>2. ASSUME NEW x \in K, NEW y \in K, <<x, y>> \in B
        PROVE  Beats(x.key, y.key) /\ ~Beats(y.key, x.key)
    <3>1. PICK i \in known : x = keyed[i]
      BY <1>7
    <3>2. PICK j \in known : y = keyed[j]
      BY <1>7
    <3>3. Beats(share(i), share(j))
      BY <1>4, <1>5, <2>2, <3>1, <3>2
    <3> QED BY <2>1, <3>1, <3>2, <3>3
  <2> HIDE DEF K
  <2> QED BY <2>2 DEF Respected
<1>10. PICK rows : /\ RankedBy(rows, keyed, K, B) /\ Len(rows) <= N
                   /\ Sorted(keyed, N) = RowsOf(rows)
  <2>1. \A n \in DOMAIN keyed : keyed[n] \in K
    BY <1>4
  <2>2. DOMAIN keyed \subseteq 1..N
    BY <1>2, <1>4
  <2> HIDE DEF K, N
  <2> QED BY <1>2, <1>8, <1>9, <2>1, <2>2, SortedRanks
<1>11. /\ rows \in Seq(K) /\ Descends(rows, B) /\ Len(rows) \in Nat /\ DOMAIN rows = 1..Len(rows)
       /\ \A x : x \in ToSet(rows) <=> \E n \in known : x = keyed[n]
  BY <1>4, <1>10 DEF RankedBy
<1> HIDE DEF K, N
<1>12. /\ DOMAIN matches = 1..Len(rows) /\ (matches = <<>> <=> Len(rows) = 0)
       /\ \A n \in 1..Len(rows) : matches[n] = rows[n].row
  <2> DEFINE m == Len(rows)
             s == RowsOf(rows)
             V == {rows[n].row : n \in 1..m}
  <2>1. s = [n \in 1..m |-> rows[n].row]
    BY <1>11 DEF RowsOf
  <2>2. s \in [1..m -> V] /\ m \in Nat /\ m <= N
    BY <1>10, <1>11, <2>1
  <2> HIDE DEF V, m, s
  <2>3. s \in Seq(V) /\ Len(s) = m
    BY <2>2
  <2>4. (IF Len(s) < N THEN Len(s) ELSE N) = m
    BY <1>2, <2>2, <2>3
  <2>5. matches = SubSeq(s, 1, m)
    BY <1>1, <1>10, <2>4 DEF Top, s
  <2> DEFINE u == SubSeq(s, 1, m)
  <2>6. u \in Seq(V) /\ Len(u) = m /\ \A n \in 1..m : u[n] = s[n]
    BY <2>2, <2>3
  <2> HIDE DEF u
  <2>7. DOMAIN u = 1..m /\ (u = <<>> <=> m = 0)
    BY <2>2, <2>6
  <2>8. matches = u
    BY <2>5 DEF u
  <2>9. \A n \in 1..m : s[n] = rows[n].row
    BY <2>1
  <2> HIDE DEF matches
  <2> QED BY <2>6, <2>7, <2>8, <2>9 DEF m
<1> HIDE DEF matches
<1>13. \A r : r \in ToSet(matches) <=> \E i \in known : r = keyed[i].row
  <2>1. ASSUME NEW r, r \in ToSet(matches) PROVE \E i \in known : r = keyed[i].row
    <3>1. PICK n \in 1..Len(rows) : r = rows[n].row
      BY <1>12, <2>1 DEF ToSet
    <3>2. rows[n] \in ToSet(rows)
      BY <1>11 DEF ToSet
    <3> QED BY <1>11, <3>1, <3>2
  <2>2. ASSUME NEW i \in known PROVE keyed[i].row \in ToSet(matches)
    <3>1. keyed[i] \in ToSet(rows)
      BY <1>11
    <3>2. PICK n \in 1..Len(rows) : rows[n] = keyed[i]
      BY <1>11, <3>1 DEF ToSet
    <3> QED BY <1>12, <3>2 DEF ToSet
  <2> QED BY <2>1, <2>2
<1>14. CASE known = {}
  <2>1. PlacesOf(index, raw) = {}
    BY <1>13, <1>14 DEF PlacesOf, Strongest, matches
  <2>2. BestOf(index, raw) = {}
    BY <1>14 DEF BestOf, known
  <2> QED BY <2>1, <2>2
<1>15. CASE known # {}
  <2>1. 1 \in 1..Len(rows)
    <3>1. PICK i \in known : TRUE
      BY <1>15
    <3>2. keyed[i] \in ToSet(rows)
      BY <1>11
    <3>3. Len(rows) # 0
      BY <1>11, <3>2 DEF ToSet
    <3> QED BY <1>11, <3>3
  <2>2. PICK f \in known : rows[1] = keyed[f]
    <3>1. rows[1] \in ToSet(rows)
      BY <1>11, <2>1 DEF ToSet
    <3> QED BY <1>11, <3>1
  <2>3. matches[1].shared[0] = share(f)
    BY <1>4, <1>12, <2>1, <2>2
  <2>4. ASSUME NEW j \in known PROVE ~Beats(share(j), share(f))
    <3>1. keyed[j] \in ToSet(rows)
      BY <1>11
    <3>2. PICK n \in 1..Len(rows) : rows[n] = keyed[j]
      BY <1>11, <3>1 DEF ToSet
    <3>3. CASE n = 1
      <4>1. share(j) = share(f)
        BY <1>4, <2>2, <3>2, <3>3
      <4>2. 5 \in Nat /\ share(f) \in Numbers(5)
        BY <1>6
      <4> QED BY <4>1, <4>2, BeatsOrders
    <3>4. CASE n # 1
      <4>1. 1 < n
        BY <1>11, <3>4
      <4>2. <<rows[n], rows[1]>> \notin B
        BY <1>11, <2>1, <4>1 DEF Descends
      <4>3. keyed[j] \in K /\ keyed[f] \in K
        BY DEF K
      <4> QED BY <1>4, <1>5, <2>2, <3>2, <4>2, <4>3
    <3> QED BY <3>3, <3>4
  <2>5. ASSUME NEW i \in PlacesOf(index, raw) PROVE i \in BestOf(index, raw)
    <3>1. i \in DOMAIN index /\ \E r \in ToSet(matches) : r.row = index[i] /\ r.shared[0] = matches[1].shared[0]
      BY <2>5 DEF PlacesOf, Strongest, matches
    <3>2. PICK r \in ToSet(matches) : r.row = index[i] /\ r.shared[0] = share(f)
      BY <2>3, <3>1
    <3>3. PICK j \in known : r = keyed[j].row
      BY <1>13
    <3>4. index[i] = index[j] /\ share(j) = share(f)
      BY <1>4, <3>2, <3>3
    <3>5. share(i) = share(j)
      BY <3>4 DEF share, ShareOf
    <3>6. i \in known
      BY <3>1, <3>4 DEF known, KnownOf
    <3> QED BY <2>4, <3>4, <3>5, <3>6 DEF BestOf, known, share
  <2>6. ASSUME NEW i \in BestOf(index, raw) PROVE i \in PlacesOf(index, raw)
    <3>1. i \in known /\ ~Beats(share(f), share(i))
      BY <2>6 DEF BestOf, known, share
    <3>2. ~Beats(share(i), share(f))
      BY <2>4, <3>1
    <3>3. share(i) = share(f)
      <4>1. 5 \in Nat /\ share(f) \in Numbers(5) /\ share(i) \in Numbers(5)
        BY <1>6, <3>1
      <4> QED BY <3>1, <3>2, <4>1, BeatsOrders
    <3>4. keyed[i].row \in ToSet(matches) /\ i \in DOMAIN index
      BY <1>2, <1>13, <3>1
    <3>5. keyed[i].row.row = index[i] /\ keyed[i].row.shared[0] = matches[1].shared[0]
      BY <1>4, <2>3, <3>1, <3>3
    <3> QED BY <3>4, <3>5 DEF PlacesOf, Strongest, matches
  <2> QED BY <2>5, <2>6
<1> QED BY <1>14, <1>15

-----------------------------------------------------------------------------
(* Dominance: some candidate is never dominated.                           *)

\* Where dominance lowers a measure, or keeps it and lowers a second one, some
\* candidate of finitely many is not dominated.
LEMMA ParetoExists ==
  ASSUME NEW C, IsFiniteSet(C), C # {}, NEW first, NEW second,
         \A c \in C : first[c] \in Nat /\ second[c] \in Nat,
         \A l, r \in C : Dominates(l, r) =>
             first[l] > first[r] \/ (first[l] = first[r] /\ second[l] > second[r])
  PROVE  Pareto(C) # {}
<1> DEFINE F == {first[c] : c \in C}
<1>1. F \in SUBSET Nat /\ F # {} /\ IsFiniteSet(F)
  BY ImageFinite
<1>2. PICK f \in F : \A j \in F : j <= f
  <2> HIDE DEF F
  <2> QED BY <1>1, MaxExists
<1> DEFINE D == {c \in C : first[c] = f}
           S == {second[c] : c \in D}
<1>3. D # {} /\ IsFiniteSet(D)
  BY <1>2, FS_Subset
<1>4. S \in SUBSET Nat /\ S # {} /\ IsFiniteSet(S)
  <2>1. IsFiniteSet(S)
    <3> HIDE DEF D
    <3> QED BY <1>3, ImageFinite
  <2> QED BY <1>3, <2>1
<1>5. PICK s \in S : \A j \in S : j <= s
  <2> HIDE DEF S
  <2> QED BY <1>4, MaxExists
<1>6. PICK c \in D : second[c] = s
  BY <1>5
<1>7. ASSUME NEW l \in C, Dominates(l, c) PROVE FALSE
  <2>1. first[l] \in Nat /\ second[l] \in Nat /\ first[c] \in Nat /\ second[c] \in Nat /\ first[c] = f
    BY <1>6
  <2>2. first[l] > first[c] \/ (first[l] = first[c] /\ second[l] > second[c])
    BY <1>6, <1>7
  <2>3. first[l] <= f
    BY <1>2
  <2>4. first[l] = f /\ second[l] > s
    BY <1>6, <2>1, <2>2, <2>3
  <2>5. second[l] <= s
    BY <1>5, <2>4
  <2> HIDE DEF F, D, S
  <2> QED BY <1>6, <2>1, <2>4, <2>5
<1>8. c \in Pareto(C)
  BY <1>7 DEF Pareto
<1> QED BY <1>8

\* What a candidate is weighed by: as many dimensions, all of them counts.
Weighed(c) ==
  /\ DOMAIN c.discrete = 1..4 /\ \A d \in 1..4 : c.discrete[d] \in Nat
  /\ DOMAIN c.continuous = 1..2 /\ \A d \in 1..2 : c.continuous[d] \in Nat

\* Dominance is more discrete evidence in all, or as much with more mass in all.
LEMMA DominanceLowers ==
  ASSUME NEW l, Weighed(l), NEW r, Weighed(r), Dominates(l, r)
  PROVE  LET discrete(c) == c.discrete[1] + c.discrete[2] + c.discrete[3] + c.discrete[4]
             mass(c) == c.continuous[1] + c.continuous[2]
         IN  \/ discrete(l) > discrete(r)
             \/ discrete(l) = discrete(r) /\ mass(l) > mass(r)
<1>1. 1..4 = {1, 2, 3, 4} /\ 1..2 = {1, 2}
  OBVIOUS
<1> DEFINE a == l.discrete
           b == r.discrete
           x == l.continuous
           y == r.continuous
<1>2. /\ a[1] \in Nat /\ a[2] \in Nat /\ a[3] \in Nat /\ a[4] \in Nat
      /\ b[1] \in Nat /\ b[2] \in Nat /\ b[3] \in Nat /\ b[4] \in Nat
      /\ x[1] \in Nat /\ x[2] \in Nat /\ y[1] \in Nat /\ y[2] \in Nat
  BY <1>1 DEF Weighed
<1>3. /\ a[1] >= b[1] /\ a[2] >= b[2] /\ a[3] >= b[3] /\ a[4] >= b[4]
      /\ x[1] + 1 >= y[1] /\ x[2] + 1 >= y[2]
  BY <1>1 DEF Weighed, Dominates, Epsilon
<1>4. \/ a[1] > b[1] \/ a[2] > b[2] \/ a[3] > b[3] \/ a[4] > b[4]
      \/ x[1] > y[1] + 1 \/ x[2] > y[2] + 1
  BY <1>1 DEF Weighed, Dominates, Epsilon
<1> HIDE DEF a, b, x, y
<1>5. \/ a[1] + a[2] + a[3] + a[4] > b[1] + b[2] + b[3] + b[4]
      \/ a[1] + a[2] + a[3] + a[4] = b[1] + b[2] + b[3] + b[4] /\ x[1] + x[2] > y[1] + y[2]
  BY <1>2, <1>3, <1>4
<1> QED BY <1>5 DEF a, b, x, y

\* So the candidates of an attractor have an undominated one.
LEMMA WeighedPareto ==
  ASSUME NEW C, IsFiniteSet(C), C # {}, \A c \in C : Weighed(c)
  PROVE  Pareto(C) # {}
<1> DEFINE first == [c \in C |-> c.discrete[1] + c.discrete[2] + c.discrete[3] + c.discrete[4]]
           second == [c \in C |-> c.continuous[1] + c.continuous[2]]
<1>1. ASSUME NEW c \in C PROVE first[c] \in Nat /\ second[c] \in Nat
  <2>1. 1..4 = {1, 2, 3, 4} /\ 1..2 = {1, 2}
    OBVIOUS
  <2>2. /\ c.discrete[1] \in Nat /\ c.discrete[2] \in Nat /\ c.discrete[3] \in Nat
        /\ c.discrete[4] \in Nat /\ c.continuous[1] \in Nat /\ c.continuous[2] \in Nat
    BY <2>1 DEF Weighed
  <2> QED BY <2>2
<1>2. ASSUME NEW l \in C, NEW r \in C, Dominates(l, r)
      PROVE  first[l] > first[r] \/ (first[l] = first[r] /\ second[l] > second[r])
  BY <1>2, DominanceLowers
<1> HIDE DEF first, second
<1> QED BY <1>1, <1>2, ParetoExists

\* and dominance has no cycle of three, on any two masses up to 3.
LEMMA NoCycle == DominanceHasNoCycle
<1> SUFFICES ASSUME NEW a \in EvidenceGrid, NEW b \in EvidenceGrid, NEW c \in EvidenceGrid
             PROVE  Pareto({a, b, c}) # {}
  BY DEF DominanceHasNoCycle
<1> DEFINE C == {a, b, c}
           first == [e \in C |-> 0]
           second == [e \in C |-> e.continuous[1] + e.continuous[2]]
<1>1. \A e \in C : \E x, y \in 0..3 : e = [discrete |-> <<0>>, continuous |-> <<x, y>>]
  BY DEF EvidenceGrid
<1>2. IsFiniteSet(C) /\ C # {}
  <2>1. IsFiniteSet({a})
    BY FS_Singleton
  <2>2. IsFiniteSet({a} \cup {b})
    BY <2>1, FS_AddElement
  <2>3. IsFiniteSet(({a} \cup {b}) \cup {c})
    BY <2>2, FS_AddElement
  <2>4. C = ({a} \cup {b}) \cup {c}
    OBVIOUS
  <2> QED BY <2>3, <2>4
<1> HIDE DEF C
<1>3. ASSUME NEW e \in C PROVE first[e] \in Nat /\ second[e] \in Nat
  <2>1. PICK x \in 0..3, y \in 0..3 : e = [discrete |-> <<0>>, continuous |-> <<x, y>>]
    BY <1>1
  <2>2. e.continuous[1] = x /\ e.continuous[2] = y
    BY <2>1
  <2>3. second[e] = x + y /\ first[e] = 0
    BY <2>2
  <2> QED BY <2>3
<1>4. ASSUME NEW l \in C, NEW r \in C, Dominates(l, r)
      PROVE  first[l] > first[r] \/ (first[l] = first[r] /\ second[l] > second[r])
  <2>1. PICK x \in 0..3, y \in 0..3 : l = [discrete |-> <<0>>, continuous |-> <<x, y>>]
    BY <1>1
  <2>2. PICK u \in 0..3, v \in 0..3 : r = [discrete |-> <<0>>, continuous |-> <<u, v>>]
    BY <1>1
  <2>3. /\ l.discrete = <<0>> /\ r.discrete = <<0>> /\ l.continuous = <<x, y>>
        /\ r.continuous = <<u, v>>
    BY <2>1, <2>2
  <2>4. /\ DOMAIN <<0>> = {1} /\ <<0>>[1] = 0 /\ DOMAIN <<x, y>> = {1, 2}
        /\ <<x, y>>[1] = x /\ <<x, y>>[2] = y /\ <<u, v>>[1] = u /\ <<u, v>>[2] = v
    OBVIOUS
  <2>5. /\ x + 1 >= u /\ y + 1 >= v
        /\ x > u + 1 \/ y > v + 1
    BY <1>4, <2>3, <2>4 DEF Dominates, Epsilon
  <2>6. second[l] = x + y /\ second[r] = u + v /\ first[l] = 0 /\ first[r] = 0
    BY <2>3, <2>4
  <2> QED BY <2>5, <2>6
<1> HIDE DEF first, second
<1>5. Pareto(C) # {}
  BY <1>2, <1>3, <1>4, ParetoExists
<1> QED BY <1>5 DEF C

-----------------------------------------------------------------------------
(* The rollout of one step, branch by branch, and its candidates.          *)

\* What the match has on a trajectory, and the best places that go on to an address.
MatchedOn(index, raw, i) ==
  {index[i].addresses[p] : p \in ToSet(LcsPositions(Collapsed(raw), index[i].addresses))}
GoersOf(index, raw, h) ==
  {i \in PlacesOf(index, raw) : /\ AfterOf(index, raw, 1)[i] # <<>>
                                /\ Head(AfterOf(index, raw, 1)[i]) = h}
ContinuationsOf(index, raw) ==
  {AfterOf(index, raw, 1)[i] : i \in PlacesOf(index, raw)} \ {<<>>}
Describes(b, index, raw, c) ==
  LET goers == {i \in PlacesOf(index, raw) : AfterOf(index, raw, 1)[i] = c}
  IN  /\ b.continuation = c
      /\ b.witnesses = {<<i, AnchorOf(index, raw)[i]>> : i \in goers}
      /\ b.matched = UNION {MatchedOn(index, raw, i) : i \in goers}

\* A rollout that is not bounded out has one branch for each continuation of a best
\* place, and ends where one has none.
LEMMA RollsTo ==
  ASSUME NEW index \in Seq(Rows), NEW raw \in Paths, NEW most, NEW many
  PROVE  LET r == ResolveRollout(index, raw, 1, most, many)
         IN  /\ r.bounded \in BOOLEAN /\ (r.bounded => r.branches = {})
             /\ ~r.bounded =>
                  /\ r.terminals = {i \in PlacesOf(index, raw) : AfterOf(index, raw, 1)[i] = <<>>}
                  /\ \A b \in r.branches : \E c \in ContinuationsOf(index, raw) :
                         Describes(b, index, raw, c)
                  /\ \A c \in ContinuationsOf(index, raw) : \E b \in r.branches :
                         Describes(b, index, raw, c)
<1> DEFINE r == ResolveRollout(index, raw, 1, most, many)
           q == Collapsed(raw)
           matches == MatchesOf(index, raw)
           known == KnownOf(index, raw)
           K == PlacesOf(index, raw)
           anchor == AnchorOf(index, raw)
           after == AfterOf(index, raw, 1)
           inside == [i \in K |-> LET t == index[i].addresses
                                  IN Continuation(t, Last(LcsPositions(q, t)), 1)]
           depths == [i \in K |-> DOMAIN (CHOOSE m \in ToSet(matches) : m.row = index[i]).shared]
           ended == {i \in K : inside[i] = <<>>}
           C == {inside[i] : i \in K} \ {<<>>}
           B(c) == Branch(index, q, {i \in K : inside[i] = c}, depths, 1, c)
           branches == {B(c) : c \in C}
<1>1. r = RolledOut(index, q, matches, 1, most, many)
  BY DEF ResolveRollout, MatchesOf
<1>2. \/ matches = <<>> /\ r.branches = {} /\ r.terminals = {} /\ r.bounded = FALSE
      \/ matches # <<>> /\ r.branches = {} /\ r.bounded = TRUE
      \/ r.branches = branches /\ r.terminals = ended /\ r.bounded = FALSE
  <2>1. r = CASE index = <<>> -> Nothing(q, "no-trajectories")
              [] index # <<>> /\ matches = <<>> -> Nothing(q, "no-structural-match")
              [] matches # <<>> /\ Cardinality(K) > most ->
                     Resolution(q, {}, {}, TRUE, "candidate-limit-exceeded")
              [] OTHER ->
                     IF Outcomes(branches, ended) > many
                     THEN Resolution(q, {}, ended, TRUE, "branch-limit-exceeded")
                     ELSE Resolution(q, branches, ended, FALSE,
                                     CASE Outcomes(branches, ended) > 1 -> "competing-forward-outcomes"
                                       [] branches = {} -> "matched-terminal-occurrence"
                                       [] OTHER -> "single-forward-path")
    BY <1>1, Zenon DEF RolledOut, PlacesOf
  <2>2. index = <<>> => matches = <<>>
    <3>1. ASSUME index = <<>> PROVE known = {}
      BY <3>1 DEF KnownOf
    <3> QED BY <3>1, MatchesMeet DEF KnownOf
  <2> HIDE DEF r, branches, ended, matches, K, known
  <2> DEFINE last == CASE Outcomes(branches, ended) > 1 -> "competing-forward-outcomes"
                       [] branches = {} -> "matched-terminal-occurrence"
                       [] OTHER -> "single-forward-path"
             Right(z) ==
               \/ matches = <<>> /\ z.branches = {} /\ z.terminals = {} /\ z.bounded = FALSE
               \/ matches # <<>> /\ z.branches = {} /\ z.bounded = TRUE
               \/ z.branches = branches /\ z.terminals = ended /\ z.bounded = FALSE
  <2>3. \A bs, ts, bounded, reason :
           /\ Resolution(q, bs, ts, bounded, reason).branches = bs
           /\ Resolution(q, bs, ts, bounded, reason).terminals = ts
           /\ Resolution(q, bs, ts, bounded, reason).bounded = bounded
    BY DEF Resolution
  <2>4. ASSUME matches = <<>>, NEW reason PROVE Right(Nothing(q, reason))
    <3> DEFINE z == Resolution(q, {}, {}, FALSE, reason)
    <3>1. z.branches = {} /\ z.terminals = {}
      BY <2>3, Zenon
    <3>2. z.bounded = FALSE
      BY DEF Resolution
    <3> HIDE DEF z
    <3> QED BY <2>4, <3>1, <3>2 DEF Nothing, z
  <2>5. ASSUME matches # <<>>, NEW ts, NEW reason PROVE Right(Resolution(q, {}, ts, TRUE, reason))
    <3> DEFINE z == Resolution(q, {}, ts, TRUE, reason)
    <3>1. z.branches = {} /\ z.bounded = TRUE
      BY <2>3, Zenon
    <3> HIDE DEF z
    <3> QED BY <2>5, <3>1 DEF z
  <2> HIDE DEF last
  <2>6. ASSUME NEW reason PROVE Right(Resolution(q, branches, ended, FALSE, reason))
    <3> DEFINE z == Resolution(q, branches, ended, FALSE, reason)
    <3>1. z.branches = branches /\ z.terminals = ended
      BY DEF Resolution
    <3>2. z.bounded = FALSE
      BY DEF Resolution
    <3> HIDE DEF z
    <3> QED BY <3>1, <3>2 DEF z
  <2> HIDE DEF Right
  <2>7. Right(r)
    BY <2>1, <2>2, <2>4, <2>5, <2>6 DEF last
  <2> QED BY <2>7 DEF Right
<1>3. K \subseteq known /\ K \subseteq DOMAIN index /\ (matches = <<>> <=> known = {})
  BY PlacesFinite, MatchesMeet DEF KnownOf
<1>4. \A i \in K : after[i] = inside[i] /\ anchor[i] = Last(LcsPositions(q, index[i].addresses))
  BY <1>3 DEF AfterOf, AnchorOf
<1>5. ended = {i \in K : after[i] = <<>>} /\ C = ContinuationsOf(index, raw)
  BY <1>4 DEF ContinuationsOf
<1>6. ASSUME NEW c PROVE Describes(B(c), index, raw, c)
  <2> DEFINE M == {j \in K : after[j] = c}
  <2>1. {i \in K : inside[i] = c} = M
    BY <1>4
  <2>2. /\ B(c).continuation = c
        /\ B(c).witnesses = {<<i, Last(LcsPositions(q, index[i].addresses))>> : i \in M}
        /\ B(c).matched = UNION {MatchedOn(index, raw, i) : i \in M}
    BY <2>1 DEF Branch, MatchedOn
  <2>3. \A i \in M : <<i, Last(LcsPositions(q, index[i].addresses))>> = <<i, anchor[i]>>
    BY <1>4
  <2> HIDE DEF B
  <2> QED BY <2>2, <2>3 DEF Describes
<1> HIDE DEF r, known, matches, B, inside, C
<1>7. branches = {B(c) : c \in C}
  OBVIOUS
<1> HIDE DEF branches, ended
<1>8. CASE r.branches = branches /\ r.terminals = ended /\ r.bounded = FALSE
  <2>1. \A b \in branches : \E c \in ContinuationsOf(index, raw) : Describes(b, index, raw, c)
    BY <1>5, <1>6, <1>7
  <2>2. \A c \in ContinuationsOf(index, raw) : \E b \in branches : Describes(b, index, raw, c)
    BY <1>5, <1>6, <1>7
  <2> QED BY <1>5, <1>8, <2>1, <2>2 DEF r
<1>9. CASE matches # <<>> /\ r.branches = {} /\ r.bounded = TRUE
  BY <1>9 DEF r
<1>10. CASE matches = <<>> /\ r.branches = {} /\ r.terminals = {} /\ r.bounded = FALSE
  <2>1. K = {}
    BY <1>3, <1>10
  <2>2. ContinuationsOf(index, raw) = {}
    BY <2>1 DEF ContinuationsOf
  <2> HIDE DEF K
  <2> QED BY <1>10, <2>1, <2>2 DEF r, K
<1> QED BY <1>2, <1>8, <1>9, <1>10

\* What a candidate says of an address.
Tells(c, index, raw, reading, h) ==
  LET q == Collapsed(raw)
      goers == GoersOf(index, raw, h)
  IN  /\ c.address = h /\ c.support = goers
      /\ c.discrete = <<Cardinality(goers),
                        Cardinality(UNION {MatchedOn(index, raw, i) : i \in goers}),
                        SupportedSources(q, h, "within", reading),
                        SupportedSources(q, h, "temporal", reading)>>
      /\ c.continuous = <<TotalMass(q, h, "within", reading), TotalMass(q, h, "temporal", reading)>>
HeadsOf(index, raw) == {Head(c) : c \in ContinuationsOf(index, raw)}

\* The candidates of a rollout that is not bounded out are those of the addresses
\* the best places go on to.
LEMMA CandidatesTell ==
  ASSUME NEW index \in Seq(Rows), NEW raw \in Paths, NEW reading, NEW most, NEW many,
         ~ResolveRollout(index, raw, 1, most, many).bounded
  PROVE  LET candidates == ResolveAttractor(index, raw, reading, most, many).candidates
         IN  /\ \A c \in candidates : \E h \in HeadsOf(index, raw) : Tells(c, index, raw, reading, h)
             /\ \A h \in HeadsOf(index, raw) : \E c \in candidates : Tells(c, index, raw, reading, h)
<1> DEFINE q == Collapsed(raw)
           r == ResolveRollout(index, raw, 1, most, many)
           heads == {Head(b.continuation) : b \in r.branches}
           at(h) == {b \in r.branches : Head(b.continuation) = h}
           candidates == {Candidate(index, q, reading, at(h)) : h \in heads}
           K == PlacesOf(index, raw)
           after == AfterOf(index, raw, 1)
           C == ContinuationsOf(index, raw)
<1>1. ResolveAttractor(index, raw, reading, most, many).candidates = candidates
  <2> HIDE DEF r, q
  <2>1. ResolveAttractor(index, raw, reading, most, many) = Attractor(index, q, reading, r)
    BY DEF ResolveAttractor, q, r
  <2> QED BY <2>1 DEF Attractor
<1>2. /\ \A b \in r.branches : \E c \in C : Describes(b, index, raw, c)
      /\ \A c \in C : \E b \in r.branches : Describes(b, index, raw, c)
  BY RollsTo
<1>3. \A c : c \in C <=> c # <<>> /\ \E i \in K : after[i] = c
  BY DEF ContinuationsOf
<1> HIDE DEF r, q, C
<1>4. heads = HeadsOf(index, raw)
  BY <1>2 DEF HeadsOf, C, Describes
<1>5. ASSUME NEW h \in heads PROVE Tells(Candidate(index, q, reading, at(h)), index, raw, reading, h)
  <2> DEFINE bs == at(h)
             c == Candidate(index, q, reading, bs)
             target == Head((CHOOSE b \in bs : TRUE).continuation)
             support == UNION {{w[1] : w \in b.witnesses} : b \in bs}
             matched == UNION {b.matched : b \in bs}
             goers == GoersOf(index, raw, h)
             whole == UNION {MatchedOn(index, raw, i) : i \in goers}
  <2>1. /\ bs # {} /\ \A b \in bs : b \in r.branches /\ Head(b.continuation) = h
    OBVIOUS
  <2>2. /\ \A b \in r.branches : Head(b.continuation) = h => b \in bs
    OBVIOUS
  <2> HIDE DEF bs, heads
  <2>3. target = h
    BY <2>1
  <2>4. /\ c.address = target /\ c.support = support
        /\ c.discrete = <<Cardinality(support), Cardinality(matched),
                          SupportedSources(q, target, "within", reading),
                          SupportedSources(q, target, "temporal", reading)>>
        /\ c.continuous = <<TotalMass(q, target, "within", reading),
                            TotalMass(q, target, "temporal", reading)>>
    BY DEF Candidate
  <2>5. ASSUME NEW b \in bs
        PROVE  \E d \in C : Describes(b, index, raw, d) /\ d # <<>> /\ Head(d) = h
    <3>1. PICK d \in C : Describes(b, index, raw, d)
      BY <1>2, <2>1
    <3> QED BY <1>3, <2>1, <3>1 DEF Describes
  <2>6. ASSUME NEW i \in goers
        PROVE  \E b \in bs : Describes(b, index, raw, after[i]) /\ i \in K
    <3>1. i \in K /\ after[i] # <<>> /\ Head(after[i]) = h
      BY DEF GoersOf
    <3>2. PICK b \in r.branches : Describes(b, index, raw, after[i])
      BY <1>2, <1>3, <3>1
    <3>3. b \in bs
      BY <2>2, <3>1, <3>2 DEF Describes
    <3> QED BY <3>1, <3>2, <3>3
  <2>7. ASSUME NEW b, NEW d, Describes(b, index, raw, d)
        PROVE  /\ \A x : x \in {w[1] : w \in b.witnesses} <=> x \in K /\ after[x] = d
               /\ \A x : x \in b.matched <=> \E i \in K : after[i] = d /\ x \in MatchedOn(index, raw, i)
    <3> DEFINE G == {i \in K : after[i] = d}
               on(i) == MatchedOn(index, raw, i)
    <3>1. b.witnesses = {<<i, AnchorOf(index, raw)[i]>> : i \in G} /\ b.matched = UNION {on(i) : i \in G}
      BY <2>7 DEF Describes
    <3>2. \A i : i \in G <=> i \in K /\ after[i] = d
      OBVIOUS
    <3> HIDE DEF G, on, K, after
    <3>3. \A x : x \in b.matched <=> \E i \in G : x \in on(i)
      BY <3>1
    <3>4. \A x : x \in {w[1] : w \in b.witnesses} <=> x \in G
      <4>1. \A w \in b.witnesses : \E i \in G : w = <<i, AnchorOf(index, raw)[i]>>
        BY <3>1
      <4>2. \A w \in b.witnesses : w[1] \in G
        BY <4>1
      <4>3. \A i \in G : <<i, AnchorOf(index, raw)[i]>> \in b.witnesses
                         /\ <<i, AnchorOf(index, raw)[i]>>[1] = i
        BY <3>1
      <4> QED BY <4>2, <4>3
    <3> QED BY <3>2, <3>3, <3>4 DEF on
  <2>8. \A i : i \in goers <=> i \in K /\ after[i] # <<>> /\ Head(after[i]) = h
    BY DEF GoersOf
  <2> HIDE DEF K, after, goers
  <2>9. support = goers
    <3>1. ASSUME NEW x \in support PROVE x \in goers
      <4>1. PICK b \in bs : x \in {w[1] : w \in b.witnesses}
        OBVIOUS
      <4>2. PICK d \in C : Describes(b, index, raw, d) /\ d # <<>> /\ Head(d) = h
        BY <2>5
      <4> QED BY <2>7, <2>8, <4>1, <4>2
    <3>2. ASSUME NEW x \in goers PROVE x \in support
      <4>1. PICK b \in bs : Describes(b, index, raw, after[x]) /\ x \in K
        BY <2>6
      <4>2. x \in {w[1] : w \in b.witnesses}
        BY <2>7, <4>1
      <4> QED BY <4>2
    <3> QED BY <3>1, <3>2
  <2>10. matched = whole
    <3>1. ASSUME NEW x \in matched PROVE x \in whole
      <4>1. PICK b \in bs : x \in b.matched
        OBVIOUS
      <4>2. PICK d \in C : Describes(b, index, raw, d) /\ d # <<>> /\ Head(d) = h
        BY <2>5
      <4>3. PICK i \in K : after[i] = d /\ x \in MatchedOn(index, raw, i)
        BY <2>7, <4>1, <4>2
      <4>4. i \in goers
        BY <2>8, <4>2, <4>3
      <4> QED BY <4>3, <4>4
    <3>2. ASSUME NEW x \in whole PROVE x \in matched
      <4>1. PICK i \in goers : x \in MatchedOn(index, raw, i)
        OBVIOUS
      <4>2. PICK b \in bs : Describes(b, index, raw, after[i]) /\ i \in K
        BY <2>6
      <4>3. x \in b.matched
        BY <2>7, <4>1, <4>2
      <4> QED BY <4>3
    <3> QED BY <3>1, <3>2
  <2> HIDE DEF c, support, matched, whole, target
  <2>11. /\ c.address = h /\ c.support = goers
         /\ c.discrete = <<Cardinality(goers), Cardinality(whole),
                           SupportedSources(q, h, "within", reading),
                           SupportedSources(q, h, "temporal", reading)>>
         /\ c.continuous = <<TotalMass(q, h, "within", reading), TotalMass(q, h, "temporal", reading)>>
    BY <2>3, <2>4, <2>9, <2>10
  <2>12. Tells(c, index, raw, reading, h)
    BY <2>11 DEF Tells, q, goers, whole
  <2> QED BY <2>12 DEF c, bs
<1>6. ASSUME NEW c \in candidates
      PROVE  \E h \in HeadsOf(index, raw) : Tells(c, index, raw, reading, h)
  <2>1. PICK h \in heads : c = Candidate(index, q, reading, at(h))
    OBVIOUS
  <2> QED BY <1>4, <1>5, <2>1
<1>7. ASSUME NEW h \in HeadsOf(index, raw)
      PROVE  \E c \in candidates : Tells(c, index, raw, reading, h)
  <2>1. h \in heads
    BY <1>4
  <2>2. Candidate(index, q, reading, at(h)) \in candidates
    BY <2>1
  <2> QED BY <1>5, <2>1, <2>2
<1> HIDE DEF candidates
<1> QED BY <1>1, <1>6, <1>7

-----------------------------------------------------------------------------
(* What an attractor's candidates are worth.                               *)

\* The parts of an attractor: finitely many candidates, one for each address.
LEMMA AttractorParts ==
  ASSUME NEW index \in Seq(Rows), NEW raw \in Paths, NEW reading, NEW most, NEW many
  PROVE  LET r == ResolveRollout(index, raw, 1, most, many)
             a == ResolveAttractor(index, raw, reading, most, many)
             winners == IF r.terminals = {} THEN Pareto(a.candidates) ELSE a.candidates
         IN  /\ a.bounded = r.bounded /\ a.bounded \in BOOLEAN
             /\ a.bounded => a.candidates = {}
             /\ a.pareto = {c.address : c \in winners}
             /\ a.resolved = (r.terminals = {} /\ Cardinality(winners) = 1)
             /\ IsFiniteSet(a.candidates)
             /\ \A c, d \in a.candidates : c.address = d.address => c = d
<1> DEFINE q == Collapsed(raw)
           r == ResolveRollout(index, raw, 1, most, many)
           a == ResolveAttractor(index, raw, reading, most, many)
           heads == {Head(b.continuation) : b \in r.branches}
           at(h) == {b \in r.branches : Head(b.continuation) = h}
           candidates == {Candidate(index, q, reading, at(h)) : h \in heads}
           winners == IF r.terminals = {} THEN Pareto(candidates) ELSE candidates
<1>1. /\ a.candidates = candidates
      /\ a.pareto = {c.address : c \in winners}
      /\ a.bounded = r.bounded
      /\ a.resolved = (r.terminals = {} /\ Cardinality(winners) = 1)
  <2> HIDE DEF r, q
  <2>1. a = Attractor(index, q, reading, r)
    BY DEF ResolveAttractor, q, r
  <2> HIDE DEF a
  <2> QED BY <2>1 DEF Attractor
<1>2. IsFiniteSet(r.branches) /\ r.bounded \in BOOLEAN /\ (r.bounded => r.branches = {})
  <2>1. 1 \in Nat
    OBVIOUS
  <2> QED BY <2>1, RollsWhole
<1> HIDE DEF r, a, q
<1>3. IsFiniteSet(candidates)
  <2> DEFINE head == [b \in r.branches |-> Head(b.continuation)]
             E == {head[b] : b \in r.branches}
             of == [h \in E |-> Candidate(index, q, reading, at(h))]
             F == {of[h] : h \in E}
  <2>1. IsFiniteSet(E)
    BY <1>2, ImageFinite
  <2>2. heads = E
    OBVIOUS
  <2>3. candidates = F
    <3> HIDE DEF head
    <3>1. \A h \in E : of[h] = Candidate(index, q, reading, at(h))
      OBVIOUS
    <3> HIDE DEF of, E, at
    <3> QED BY <2>2, <3>1
  <2> HIDE DEF E, of
  <2>4. IsFiniteSet(F)
    BY <2>1, ImageFinite
  <2> HIDE DEF F
  <2> QED BY <2>3, <2>4
<1>4. ASSUME NEW h \in heads PROVE Candidate(index, q, reading, at(h)).address = h
  <2> DEFINE bs == at(h)
             c == Candidate(index, q, reading, bs)
  <2>1. bs # {} /\ \A b \in bs : Head(b.continuation) = h
    OBVIOUS
  <2> HIDE DEF bs, heads
  <2>2. c.address = Head((CHOOSE b \in bs : TRUE).continuation)
    BY DEF Candidate
  <2> QED BY <2>1, <2>2 DEF bs
<1>5. ASSUME NEW c \in candidates, NEW d \in candidates, c.address = d.address PROVE c = d
  <2>1. PICK g \in heads : c = Candidate(index, q, reading, at(g))
    OBVIOUS
  <2>2. PICK h \in heads : d = Candidate(index, q, reading, at(h))
    OBVIOUS
  <2>3. g = h
    BY <1>4, <1>5, <2>1, <2>2
  <2> QED BY <2>1, <2>2, <2>3
<1>6. r.bounded => candidates = {}
  BY <1>2
<1> HIDE DEF candidates
<1> QED BY <1>1, <1>2, <1>3, <1>5, <1>6 DEF r, a

\* A finite union of finite sets is finite.
LEMMA UnionFinite ==
  ASSUME NEW S, IsFiniteSet(S), NEW f, \A x \in S : IsFiniteSet(f[x])
  PROVE  IsFiniteSet(UNION {f[x] : x \in S})
<1> DEFINE T == {f[x] : x \in S}
<1>1. IsFiniteSet(T) /\ \A t \in T : IsFiniteSet(t)
  BY ImageFinite
<1> HIDE DEF T
<1>2. IsFiniteSet(UNION T)
  BY <1>1, FS_UNION
<1> QED BY <1>2 DEF T

\* A reading gives a mass for each pair of addresses on each channel.
LEMMA ReadsMasses ==
  ASSUME NEW reading \in Readings, NEW channel \in Channels, NEW s \in Addresses, NEW t \in Addresses
  PROVE  reading[channel][s][t] \in Nat
<1>1. PICK within, temporal : reading = Preferring(within, temporal)
  BY DEF Readings
<1> DEFINE preferred == IF channel = "within" THEN within ELSE temporal
<1>2. reading[channel][s][t] = IF t \in preferred THEN 2 ELSE 0
  BY <1>1 DEF Preferring
<1> HIDE DEF preferred
<1> QED BY <1>2

\* What a query's addresses add up to is a mass.
LEMMA MassTyped ==
  ASSUME NEW reading \in Readings, NEW channel \in Channels, NEW q \in Paths, NEW h \in Addresses
  PROVE  TotalMass(q, h, channel, reading) \in Nat
<1> DEFINE N == Len(q)
<1>1. N \in Nat /\ \A n \in 1..N : q[n] \in Addresses
  BY DEF Paths
<1>2. PICK f : /\ f[0] = 0
               /\ \A n \in 1..N : f[n] = f[n - 1] + Adds(q, n, h, channel, reading)
               /\ TotalMass(q, h, channel, reading) = f[N]
  <2>1. \E f : /\ f[0] = 0
               /\ \A n \in 1..Len(q) : f[n] = f[n - 1] + Adds(q, n, h, channel, reading)
               /\ TotalMass(q, h, channel, reading) = f[Len(q)]
    <3>1. Len(q) \in Nat
      BY <1>1
    <3> QED BY ONLY <3>1, MassIs
  <2> QED BY <2>1
<1>3. \A n \in 1..N : Adds(q, n, h, channel, reading) \in Nat
  BY <1>1, ReadsMasses DEF Adds
<1> HIDE DEF N
<1> DEFINE P == {n \in 0..N : f[n] \in Nat}
<1>4. 0 \in P
  BY <1>1, <1>2
<1>5. ASSUME NEW n \in 0..N, n < N, n \in P PROVE n + 1 \in P
  <2>1. n + 1 \in 1..N /\ n + 1 \in 0..N /\ (n + 1) - 1 = n /\ f[n] \in Nat
    BY <1>1, <1>5
  <2>2. f[n + 1] = f[n] + Adds(q, n + 1, h, channel, reading)
    BY <1>2, <2>1
  <2>3. Adds(q, n + 1, h, channel, reading) \in Nat
    BY <1>3, <2>1
  <2>4. f[n + 1] \in Nat
    BY <2>1, <2>2, <2>3
  <2> QED BY <2>1, <2>4
<1>6. N \in P
  <2> HIDE DEF P
  <2>1. 0..N \subseteq P
    BY <1>1, <1>4, <1>5, Upwards
  <2> QED BY <1>1, <2>1
<1> QED BY <1>2, <1>6

\* A candidate's evidence is counted.
LEMMA TellsWeighed ==
  ASSUME NEW index \in Seq(Rows), NEW raw \in Paths, NEW reading \in Readings, NEW h \in Addresses,
         NEW c, Tells(c, index, raw, reading, h)
  PROVE  Weighed(c) /\ IsFiniteSet(GoersOf(index, raw, h))
<1> DEFINE q == Collapsed(raw)
           goers == GoersOf(index, raw, h)
           on == [i \in goers |-> MatchedOn(index, raw, i)]
           whole == UNION {on[i] : i \in goers}
<1>1. q \in Paths
  BY CollapsedTyped
<1>2. IsFiniteSet(goers)
  BY PlacesFinite, FS_Subset DEF GoersOf
<1>3. IsFiniteSet(whole)
  <2>1. ASSUME NEW i \in goers PROVE IsFiniteSet(on[i])
    <3> DEFINE t == index[i].addresses
               p == LcsPositions(q, t)
               P == ToSet(p)
               v == [j \in P |-> t[j]]
    <3>1. i \in DOMAIN index /\ Overlap(q, t) > 0
      BY PlacesFinite DEF GoersOf, KnownOf
    <3>2. index[i] \in Rows
      BY <3>1
    <3>3. t \in Paths
      BY <3>2 DEF Rows
    <3>4. p \in Seq(1..Len(t))
      BY <1>1, <3>1, <3>3, OverlapMeets, PositionsLie
    <3>5. Len(p) \in Nat /\ DOMAIN p = 1..Len(p)
      BY <3>4
    <3>6. IsFiniteSet(P)
      <4> HIDE DEF p
      <4> DEFINE S == 1..Len(p)
      <4>1. IsFiniteSet(S)
        <5>1. 1 \in Int /\ Len(p) \in Int
          BY <3>5
        <5> QED BY <5>1, FS_Interval
      <4>2. P = {p[n] : n \in S}
        BY <3>5 DEF ToSet
      <4> HIDE DEF S, P
      <4> QED BY <4>1, <4>2, ImageFinite
    <3>7. on[i] = {v[j] : j \in P}
      BY DEF MatchedOn
    <3> HIDE DEF v, P
    <3> QED BY <3>6, <3>7, ImageFinite
  <2> HIDE DEF on, goers
  <2> QED BY <1>2, <2>1, UnionFinite
<1>4. whole = UNION {MatchedOn(index, raw, i) : i \in goers}
  <2> HIDE DEF goers
  <2> QED OBVIOUS
<1>5. ASSUME NEW channel \in Channels
      PROVE  /\ SupportedSources(q, h, channel, reading) \in Nat
             /\ TotalMass(q, h, channel, reading) \in Nat
  <2>1. IsFiniteSet(ToSet(q))
    <3>1. Len(q) \in Nat
      BY <1>1 DEF Paths
    <3> HIDE DEF q
    <3> QED BY <1>1, <3>1, CountsAre DEF Paths
  <2> HIDE DEF q
  <2> DEFINE S == {source \in ToSet(q) : reading[channel][source][h] > Epsilon}
  <2>2. IsFiniteSet(S)
    BY <2>1, FS_Subset
  <2>3. Cardinality(S) \in Nat
    BY <2>2, FS_CardinalityType
  <2>4. SupportedSources(q, h, channel, reading) = Cardinality(S)
    BY DEF SupportedSources
  <2> HIDE DEF S
  <2> QED BY <1>1, <2>3, <2>4, MassTyped
<1>6. Cardinality(goers) \in Nat /\ Cardinality(whole) \in Nat
  <2> HIDE DEF goers, whole
  <2> QED BY <1>2, <1>3, FS_CardinalityType
<1>7. "within" \in Channels /\ "temporal" \in Channels
  BY DEF Channels
<1> DEFINE d == <<Cardinality(goers), Cardinality(whole),
                  SupportedSources(q, h, "within", reading),
                  SupportedSources(q, h, "temporal", reading)>>
           m == <<TotalMass(q, h, "within", reading), TotalMass(q, h, "temporal", reading)>>
<1>8. c.discrete = d /\ c.continuous = m
  BY <1>4 DEF Tells
<1>9. /\ DOMAIN d = 1..4 /\ \A k \in 1..4 : d[k] \in Nat
      /\ DOMAIN m = 1..2 /\ \A k \in 1..2 : m[k] \in Nat
  <2> HIDE DEF goers, whole, q
  <2>1. 1..4 = {1, 2, 3, 4} /\ 1..2 = {1, 2}
    OBVIOUS
  <2>2. DOMAIN d = {1, 2, 3, 4} /\ DOMAIN m = {1, 2}
    OBVIOUS
  <2>3. d[1] \in Nat /\ d[2] \in Nat /\ d[3] \in Nat /\ d[4] \in Nat /\ m[1] \in Nat /\ m[2] \in Nat
    BY <1>5, <1>6, <1>7
  <2> HIDE DEF d, m
  <2> QED BY <2>1, <2>2, <2>3
<1> HIDE DEF d, m
<1>10. Weighed(c)
  BY <1>8, <1>9 DEF Weighed
<1> QED BY <1>2, <1>10

\* The addresses the best places go on to are addresses.
LEMMA HeadsTyped ==
  ASSUME NEW index \in Seq(Rows), NEW raw \in Paths
  PROVE  /\ HeadsOf(index, raw) \subseteq Addresses
         /\ \A h : h \in HeadsOf(index, raw) <=> GoersOf(index, raw, h) # {}
<1> DEFINE after == AfterOf(index, raw, 1)
           K == PlacesOf(index, raw)
<1>1. \A i \in K : after[i] \in Paths
  <2>1. 1 \in Nat
    OBVIOUS
  <2> QED BY <2>1, PlacesMeet
<1>2. \A c \in Paths : c # <<>> => Head(c) \in Addresses
  BY DEF Paths
<1>3. \A h : h \in HeadsOf(index, raw) <=> \E i \in K : after[i] # <<>> /\ Head(after[i]) = h
  BY DEF HeadsOf, ContinuationsOf
<1>4. \A h : GoersOf(index, raw, h) # {} <=> \E i \in K : after[i] # <<>> /\ Head(after[i]) = h
  BY DEF GoersOf
<1> HIDE DEF K, after
<1> QED BY <1>1, <1>2, <1>3, <1>4

-----------------------------------------------------------------------------
(* One more occurrence of a trajectory among the best.                     *)

\* The index shown trajectory i again, and whose trail each place has.
Again(index, i) == Append(index, [index[i] EXCEPT !.sequence = Len(index) + 1])
From(index, i, k) == IF k = Len(index) + 1 THEN i ELSE k

LEMMA AgainIs ==
  ASSUME NEW index \in Seq(Rows), NEW i \in DOMAIN index
  PROVE  /\ Again(index, i) \in Seq(Rows) /\ DOMAIN Again(index, i) = 1..Len(index) + 1
         /\ \A k \in 1..Len(index) + 1 :
               /\ From(index, i, k) \in DOMAIN index
               /\ Again(index, i)[k].addresses = index[From(index, i, k)].addresses
         /\ \A k \in DOMAIN index : /\ k \in 1..Len(index) + 1 /\ k # Len(index) + 1
                                    /\ From(index, i, k) = k
         /\ From(index, i, Len(index) + 1) = i
<1> DEFINE N == Len(index)
           e == [index[i] EXCEPT !.sequence = N + 1]
           again == Append(index, e)
<1>1. N \in Nat /\ DOMAIN index = 1..N /\ index[i] \in Rows /\ i \in 1..N
  OBVIOUS
<1>2. e \in Rows /\ e.addresses = index[i].addresses
  BY <1>1 DEF Rows
<1> HIDE DEF e
<1>3. /\ again \in Seq(Rows) /\ Len(again) = N + 1 /\ again[N + 1] = e
      /\ \A k \in 1..N : again[k] = index[k]
  BY <1>1, <1>2
<1>4. DOMAIN again = 1..N + 1
  BY <1>3
<1>5. again = Again(index, i)
  BY DEF Again, e
<1> HIDE DEF again
<1>6. \A k \in 1..N + 1 : k = N + 1 \/ (k # N + 1 /\ k \in 1..N)
  BY <1>1
<1>7. ASSUME NEW k \in 1..N + 1
      PROVE  /\ From(index, i, k) \in DOMAIN index
             /\ again[k].addresses = index[From(index, i, k)].addresses
  <2>1. CASE k = N + 1
    BY <1>1, <1>2, <1>3, <2>1 DEF From
  <2>2. CASE k # N + 1 /\ k \in 1..N
    BY <1>1, <1>3, <2>2 DEF From
  <2> QED BY <1>6, <2>1, <2>2
<1>8. \A k \in DOMAIN index : k \in 1..N + 1 /\ k # N + 1 /\ From(index, i, k) = k
  BY <1>1 DEF From
<1>9. From(index, i, N + 1) = i
  BY DEF From
<1> QED BY <1>3, <1>4, <1>5, <1>7, <1>8, <1>9

\* Every place stands where the one it has its trail from stands: among the best,
\* with what comes after it and what it has of the match.
LEMMA AgainStands ==
  ASSUME NEW index \in Seq(Rows), NEW i \in DOMAIN index, NEW raw \in Paths, NEW k \in 1..Len(index) + 1
  PROVE  LET again == Again(index, i)
             from == From(index, i, k)
         IN  /\ k \in PlacesOf(again, raw) <=> from \in PlacesOf(index, raw)
             /\ AfterOf(again, raw, 1)[k] = AfterOf(index, raw, 1)[from]
             /\ MatchedOn(again, raw, k) = MatchedOn(index, raw, from)
<1> DEFINE again == Again(index, i)
           from(n) == From(index, i, n)
           D == 1..Len(index) + 1
<1>1. /\ again \in Seq(Rows) /\ DOMAIN again = D
      /\ \A n \in D : from(n) \in DOMAIN index /\ again[n].addresses = index[from(n)].addresses
      /\ \A n \in DOMAIN index : n \in D /\ from(n) = n
  BY AgainIs
<1> HIDE DEF again, from, D
<1>2. k \in D
  BY DEF D
<1>3. \A n \in D : n \in KnownOf(again, raw) <=> from(n) \in KnownOf(index, raw)
  BY <1>1 DEF KnownOf
<1>4. \A n \in D : ShareOf(again, raw, n) = ShareOf(index, raw, from(n))
  BY <1>1 DEF ShareOf
<1>5. KnownOf(again, raw) \subseteq D /\ KnownOf(index, raw) \subseteq DOMAIN index
  BY <1>1 DEF KnownOf
<1>6. k \in BestOf(again, raw) <=> from(k) \in BestOf(index, raw)
  <2>1. ASSUME k \in BestOf(again, raw) PROVE from(k) \in BestOf(index, raw)
    <3>1. /\ k \in KnownOf(again, raw)
          /\ \A j \in KnownOf(again, raw) : ~Beats(ShareOf(again, raw, j), ShareOf(again, raw, k))
      BY <2>1 DEF BestOf
    <3>2. ASSUME NEW j \in KnownOf(index, raw)
          PROVE  ~Beats(ShareOf(index, raw, j), ShareOf(index, raw, from(k)))
      <4>1. j \in D /\ from(j) = j
        BY <1>1, <1>5
      <4>2. j \in KnownOf(again, raw)
        BY <1>3, <4>1
      <4> QED BY <1>2, <1>4, <3>1, <4>1, <4>2
    <3> QED BY <1>2, <1>3, <3>1, <3>2 DEF BestOf
  <2>2. ASSUME from(k) \in BestOf(index, raw) PROVE k \in BestOf(again, raw)
    <3>1. /\ from(k) \in KnownOf(index, raw)
          /\ \A j \in KnownOf(index, raw) : ~Beats(ShareOf(index, raw, j), ShareOf(index, raw, from(k)))
      BY <2>2 DEF BestOf
    <3>2. ASSUME NEW j \in KnownOf(again, raw)
          PROVE  ~Beats(ShareOf(again, raw, j), ShareOf(again, raw, k))
      <4>1. j \in D /\ from(j) \in KnownOf(index, raw)
        BY <1>3, <1>5
      <4> QED BY <1>2, <1>4, <3>1, <4>1
    <3> QED BY <1>2, <1>3, <3>1, <3>2 DEF BestOf
  <2> QED BY <2>1, <2>2
<1>7. PlacesOf(again, raw) = BestOf(again, raw) /\ PlacesOf(index, raw) = BestOf(index, raw)
  BY <1>1, PlacesAre
<1>8. AfterOf(again, raw, 1)[k] = AfterOf(index, raw, 1)[from(k)]
  BY <1>1, <1>2 DEF AfterOf, AnchorOf
<1>9. MatchedOn(again, raw, k) = MatchedOn(index, raw, from(k))
  BY <1>1, <1>2 DEF MatchedOn
<1> QED BY <1>6, <1>7, <1>8, <1>9 DEF again, from

\* So the best places that go on to an address are those that did, and the new one
\* if the old one was among them.
LEMMA AgainGoes ==
  ASSUME NEW index \in Seq(Rows), NEW i \in DOMAIN index, NEW raw \in Paths, NEW h
  PROVE  LET again == Again(index, i)
             N == Len(index)
             goers == GoersOf(index, raw, h)
             more == IF i \in goers THEN {N + 1} ELSE {}
         IN  /\ GoersOf(again, raw, h) = goers \cup more
             /\ goers \subseteq 1..N /\ N + 1 \notin goers
             /\ UNION {MatchedOn(again, raw, k) : k \in GoersOf(again, raw, h)}
                  = UNION {MatchedOn(index, raw, k) : k \in goers}
<1> DEFINE again == Again(index, i)
           N == Len(index)
           D == 1..N + 1
           from(n) == From(index, i, n)
           goers == GoersOf(index, raw, h)
           gone == GoersOf(again, raw, h)
           more == IF i \in goers THEN {N + 1} ELSE {}
<1>1. /\ N \in Nat /\ DOMAIN again = D /\ again \in Seq(Rows) /\ DOMAIN index = 1..N
      /\ \A n \in DOMAIN index : n \in D /\ n # N + 1 /\ from(n) = n
      /\ from(N + 1) = i /\ N + 1 \in D
      /\ \A n \in D : from(n) \in DOMAIN index
  BY AgainIs
<1>2. \A n \in D : /\ n \in PlacesOf(again, raw) <=> from(n) \in PlacesOf(index, raw)
                   /\ AfterOf(again, raw, 1)[n] = AfterOf(index, raw, 1)[from(n)]
                   /\ MatchedOn(again, raw, n) = MatchedOn(index, raw, from(n))
  BY AgainStands
<1>3. goers \subseteq 1..N /\ gone \subseteq D
  <2>1. PlacesOf(index, raw) \subseteq DOMAIN index
    BY PlacesFinite DEF KnownOf
  <2>2. PlacesOf(again, raw) \subseteq DOMAIN again
    BY <1>1, PlacesFinite DEF KnownOf
  <2> QED BY <1>1, <2>1, <2>2 DEF GoersOf
<1>4. \A n \in D : n \in gone <=> from(n) \in goers
  BY <1>2 DEF GoersOf
<1>5. \A n \in D : n = N + 1 \/ n \in 1..N
  BY <1>1
<1> HIDE DEF again, N, D, from, goers, gone
<1>6. N + 1 \notin goers
  BY <1>1, <1>3
<1>7. gone = goers \cup more
  <2>1. ASSUME NEW n \in gone PROVE n \in goers \cup more
    <3>1. n \in D /\ from(n) \in goers
      BY <1>3, <1>4
    <3>2. CASE n = N + 1
      BY <1>1, <3>1, <3>2
    <3>3. CASE n \in 1..N
      BY <1>1, <3>1, <3>3
    <3> QED BY <1>5, <3>1, <3>2, <3>3
  <2>2. ASSUME NEW n \in goers \cup more PROVE n \in gone
    <3>1. CASE n \in goers
      <4>1. n \in D /\ from(n) = n
        BY <1>1, <1>3, <3>1
      <4> QED BY <1>4, <3>1, <4>1
    <3>2. CASE n \in more
      <4>1. i \in goers /\ n = N + 1
        BY <3>2
      <4> QED BY <1>1, <1>4, <4>1
    <3> QED BY <3>1, <3>2
  <2> QED BY <2>1, <2>2
<1>8. UNION {MatchedOn(again, raw, k) : k \in gone} = UNION {MatchedOn(index, raw, k) : k \in goers}
  <2>1. ASSUME NEW x, NEW k \in gone, x \in MatchedOn(again, raw, k)
        PROVE  \E n \in goers : x \in MatchedOn(index, raw, n)
    <3>1. k \in D /\ from(k) \in goers
      BY <1>3, <1>4
    <3> QED BY <1>2, <2>1, <3>1
  <2>2. ASSUME NEW x, NEW k \in goers, x \in MatchedOn(index, raw, k)
        PROVE  \E n \in gone : x \in MatchedOn(again, raw, n)
    <3>1. k \in D /\ from(k) = k
      BY <1>1, <1>3
    <3>2. k \in gone
      BY <1>4, <3>1
    <3> QED BY <1>2, <2>2, <3>1, <3>2
  <2> QED BY <2>1, <2>2
<1> QED BY <1>3, <1>6, <1>7, <1>8 DEF again, N, goers, gone

\* and no best place ends that did not.
LEMMA AgainEnds ==
  ASSUME NEW index \in Seq(Rows), NEW i \in DOMAIN index, NEW raw \in Paths,
         \A k \in PlacesOf(index, raw) : AfterOf(index, raw, 1)[k] # <<>>
  PROVE  /\ \A k \in PlacesOf(Again(index, i), raw) : AfterOf(Again(index, i), raw, 1)[k] # <<>>
         /\ HeadsOf(Again(index, i), raw) = HeadsOf(index, raw)
<1> DEFINE again == Again(index, i)
<1>1. again \in Seq(Rows) /\ DOMAIN again = 1..Len(index) + 1
  BY AgainIs
<1>2. PlacesOf(again, raw) \subseteq DOMAIN again
  BY <1>1, PlacesFinite DEF KnownOf
<1>3. ASSUME NEW k \in PlacesOf(again, raw) PROVE AfterOf(again, raw, 1)[k] # <<>>
  <2>1. k \in 1..Len(index) + 1
    BY <1>1, <1>2
  <2>2. From(index, i, k) \in PlacesOf(index, raw)
        /\ AfterOf(again, raw, 1)[k] = AfterOf(index, raw, 1)[From(index, i, k)]
    BY <2>1, AgainStands
  <2> QED BY <2>2
<1>4. \A h : GoersOf(again, raw, h) = {} <=> GoersOf(index, raw, h) = {}
  BY AgainGoes
<1>5. HeadsOf(again, raw) = HeadsOf(index, raw)
  BY <1>1, <1>4, HeadsTyped
<1> QED BY <1>3, <1>5

-----------------------------------------------------------------------------
(* What was resolved is not unseated.                                      *)

\* Candidate d is candidate c of the same address, with one more trajectory if c is w.
Grown(d, c, w) ==
  /\ d.address = c.address /\ d.continuous = c.continuous
  /\ \A k \in 2..4 : d.discrete[k] = c.discrete[k]
  /\ d.discrete[1] = c.discrete[1] + (IF c = w THEN 1 ELSE 0)

\* Growth of one candidate helps it only: who it dominates it still does, and who
\* does not dominate it still does not.
LEMMA GrowthHelps ==
  ASSUME NEW a, Weighed(a), NEW b, Weighed(b), NEW x, Weighed(x), NEW y, Weighed(y), NEW w,
         Grown(x, a, w), Grown(y, b, w), a # b
  PROVE  /\ b # w /\ Dominates(a, b) => Dominates(x, y)
         /\ b = w /\ Dominates(x, y) => Dominates(a, b)
<1>1. 1..4 = {1, 2, 3, 4} /\ 1..2 = {1, 2} /\ 2..4 = {2, 3, 4}
  OBVIOUS
<1> DEFINE A == a.discrete
           B == b.discrete
           X == x.discrete
           Y == y.discrete
           more == IF a = w THEN 1 ELSE 0
           less == IF b = w THEN 1 ELSE 0
<1>2. /\ DOMAIN A = {1, 2, 3, 4} /\ DOMAIN X = {1, 2, 3, 4}
      /\ A[1] \in Nat /\ B[1] \in Nat /\ X[1] \in Nat /\ Y[1] \in Nat
  BY <1>1 DEF Weighed
<1>3. /\ X[2] = A[2] /\ X[3] = A[3] /\ X[4] = A[4] /\ X[1] = A[1] + more
      /\ Y[2] = B[2] /\ Y[3] = B[3] /\ Y[4] = B[4] /\ Y[1] = B[1] + less
      /\ x.continuous = a.continuous /\ y.continuous = b.continuous
  BY <1>1 DEF Grown
<1> DEFINE close == \A d \in DOMAIN a.continuous : a.continuous[d] + Epsilon >= b.continuous[d]
           ahead == \E d \in DOMAIN a.continuous : a.continuous[d] > b.continuous[d] + Epsilon
<1>4. Dominates(a, b) <=>
        /\ A[1] >= B[1] /\ A[2] >= B[2] /\ A[3] >= B[3] /\ A[4] >= B[4] /\ close
        /\ A[1] > B[1] \/ A[2] > B[2] \/ A[3] > B[3] \/ A[4] > B[4] \/ ahead
  BY <1>2 DEF Dominates
<1>5. Dominates(x, y) <=>
        /\ X[1] >= Y[1] /\ X[2] >= Y[2] /\ X[3] >= Y[3] /\ X[4] >= Y[4] /\ close
        /\ X[1] > Y[1] \/ X[2] > Y[2] \/ X[3] > Y[3] \/ X[4] > Y[4] \/ ahead
  BY <1>2, <1>3 DEF Dominates
<1>6. more \in {0, 1} /\ less \in {0, 1} /\ (b # w => less = 0) /\ (b = w => more = 0 /\ less = 1)
  OBVIOUS
<1> HIDE DEF A, B, X, Y, more, less, close, ahead
<1>7. ASSUME b # w, Dominates(a, b) PROVE Dominates(x, y)
  <2>1. X[1] >= A[1] /\ Y[1] = B[1]
    BY <1>2, <1>3, <1>6, <1>7
  <2>2. A[1] >= B[1] => X[1] >= Y[1]
    BY <1>2, <2>1
  <2>3. A[1] > B[1] => X[1] > Y[1]
    BY <1>2, <2>1
  <2> QED BY <1>3, <1>4, <1>5, <1>7, <2>2, <2>3
<1>8. ASSUME b = w, Dominates(x, y) PROVE Dominates(a, b)
  <2>1. X[1] = A[1] /\ Y[1] = B[1] + 1
    BY <1>2, <1>3, <1>6, <1>8
  <2>2. X[1] >= Y[1] => A[1] >= B[1]
    BY <1>2, <2>1
  <2>3. X[1] > Y[1] => A[1] > B[1]
    BY <1>2, <2>1
  <2> QED BY <1>3, <1>4, <1>5, <1>8, <2>2, <2>3
<1> QED BY <1>7, <1>8

LEMMA NotItself ==
  ASSUME NEW c, Weighed(c)
  PROVE  ~Dominates(c, c)
<1>1. /\ DOMAIN c.discrete = 1..4 /\ \A d \in 1..4 : c.discrete[d] \in Nat
      /\ DOMAIN c.continuous = 1..2 /\ \A d \in 1..2 : c.continuous[d] \in Nat
  BY DEF Weighed
<1>2. \A n \in Nat : ~(n > n) /\ ~(n > n + 1)
  OBVIOUS
<1> QED BY <1>1, <1>2 DEF Dominates, Epsilon

\* Weighed candidates, one for each address; and candidates grown out of others.
Rivals(C) == /\ \A c \in C : Weighed(c)
             /\ \A c, d \in C : c.address = d.address => c = d
GrownFrom(E, C, w) == /\ \A c \in C : \E e \in E : Grown(e, c, w)
                      /\ \A e \in E : \E c \in C : Grown(e, c, w)

\* So the one undominated candidate stays the only one.
LEMMA WinnerStays ==
  ASSUME NEW C, Rivals(C), NEW E, Rivals(E), NEW w, Pareto(C) = {w}, GrownFrom(E, C, w)
  PROVE  \E e : Pareto(E) = {e} /\ e.address = w.address
<1>1. /\ \A c \in C : Weighed(c)
      /\ \A e \in E : Weighed(e)
      /\ \A d, e \in E : d.address = e.address => d = e
      /\ \A c \in C : \E e \in E : Grown(e, c, w)
      /\ \A e \in E : \E c \in C : Grown(e, c, w)
  BY DEF Rivals, GrownFrom
<1>2. w \in C /\ \A c \in C : ~Dominates(c, w)
  BY DEF Pareto
<1>3. PICK v \in E : Grown(v, w, w)
  BY <1>1, <1>2
<1>4. ASSUME NEW e \in E, Dominates(e, v) PROVE FALSE
  <2>1. PICK c \in C : Grown(e, c, w)
    BY <1>1
  <2>2. CASE c = w
    <3>1. e.address = v.address
      BY <1>3, <2>1, <2>2 DEF Grown
    <3>2. e = v
      BY <1>1, <3>1
    <3> QED BY <1>1, <1>4, <3>2, NotItself
  <2>3. CASE c # w
    <3>1. Weighed(c) /\ Weighed(w) /\ Weighed(e) /\ Weighed(v)
      BY <1>1, <1>2
    <3>2. Dominates(c, w)
      BY <1>3, <1>4, <2>1, <2>3, <3>1, GrowthHelps
    <3> QED BY <1>2, <3>2
  <2> QED BY <2>2, <2>3
<1>5. v \in Pareto(E)
  BY <1>4 DEF Pareto
<1>6. ASSUME NEW e \in Pareto(E) PROVE e = v
  <2>1. e \in E /\ \A d \in E : ~Dominates(d, e)
    BY DEF Pareto
  <2>2. PICK c \in C : Grown(e, c, w)
    BY <1>1, <2>1
  <2>3. CASE c = w
    <3>1. e.address = v.address
      BY <1>3, <2>2, <2>3 DEF Grown
    <3> QED BY <1>1, <2>1, <3>1
  <2>4. CASE c # w
    <3>1. c \notin Pareto(C)
      BY <2>4
    <3>2. PICK b \in C : Dominates(b, c)
      BY <3>1 DEF Pareto
    <3>3. PICK d \in E : Grown(d, b, w)
      BY <1>1
    <3>4. b # c
      BY <1>1, <3>2, NotItself
    <3>5. Weighed(b) /\ Weighed(c) /\ Weighed(d) /\ Weighed(e)
      BY <1>1, <2>1
    <3>6. Dominates(d, e)
      BY <2>2, <2>4, <3>2, <3>3, <3>4, <3>5, GrowthHelps
    <3> QED BY <2>1, <3>6
  <2> QED BY <2>3, <2>4
<1>7. Pareto(E) = {v} /\ v.address = w.address
  BY <1>3, <1>5, <1>6 DEF Grown
<1> QED BY <1>7

\* The candidates of an attractor are weighed, each by what is told of its address.
LEMMA CandidatesWeighed ==
  ASSUME NEW index \in Seq(Rows), NEW raw \in Paths, NEW reading \in Readings, NEW most, NEW many
  PROVE  LET a == ResolveAttractor(index, raw, reading, most, many)
         IN  /\ \A c \in a.candidates : Weighed(c)
             /\ a.candidates # {} => a.pareto # {}
<1> DEFINE r == ResolveRollout(index, raw, 1, most, many)
           a == ResolveAttractor(index, raw, reading, most, many)
           C == a.candidates
           winners == IF r.terminals = {} THEN Pareto(C) ELSE C
<1>1. /\ a.bounded = r.bounded /\ a.bounded \in BOOLEAN /\ (a.bounded => C = {})
      /\ a.pareto = {c.address : c \in winners} /\ IsFiniteSet(C)
  BY AttractorParts
<1>2. ASSUME NEW c \in C PROVE Weighed(c)
  <2>1. ~r.bounded
    BY <1>1, <1>2
  <2>2. \A d \in C : \E h \in HeadsOf(index, raw) : Tells(d, index, raw, reading, h)
    BY <2>1, CandidatesTell
  <2> HIDE DEF C
  <2>3. PICK h \in HeadsOf(index, raw) : Tells(c, index, raw, reading, h)
    BY <1>2, <2>2
  <2>4. h \in Addresses
    BY HeadsTyped
  <2> QED BY <2>3, <2>4, TellsWeighed
<1>3. ASSUME C # {} PROVE a.pareto # {}
  <2> HIDE DEF C
  <2>1. Pareto(C) # {}
    BY <1>1, <1>2, <1>3, WeighedPareto
  <2>2. winners # {}
    BY <1>3, <2>1
  <2> HIDE DEF winners
  <2> QED BY <1>1, <2>2
<1> HIDE DEF C
<1> QED BY <1>2, <1>3 DEF C

\* What is told of an address once trajectory i was shown again: the same, and one
\* more trajectory if i goes on to that address.
LEMMA ToldAgain ==
  ASSUME NEW index \in Seq(Rows), NEW i \in DOMAIN index, NEW raw \in Paths, NEW reading \in Readings,
         NEW h \in Addresses, NEW c, Tells(c, index, raw, reading, h),
         NEW e, Tells(e, Again(index, i), raw, reading, h), NEW w,
         c = w <=> i \in GoersOf(index, raw, h)
  PROVE  Grown(e, c, w)
<1> DEFINE goers == GoersOf(index, raw, h)
           gone == GoersOf(Again(index, i), raw, h)
           whole == UNION {MatchedOn(index, raw, k) : k \in goers}
           all == UNION {MatchedOn(Again(index, i), raw, k) : k \in gone}
           q == Collapsed(raw)
           N == Len(index)
<1>1. /\ gone = goers \cup (IF i \in goers THEN {N + 1} ELSE {})
      /\ N + 1 \notin goers /\ all = whole
  BY AgainGoes
<1>2. IsFiniteSet(goers)
  BY TellsWeighed
<1>3. /\ c.address = h /\ e.address = h
      /\ c.discrete = <<Cardinality(goers), Cardinality(whole),
                        SupportedSources(q, h, "within", reading),
                        SupportedSources(q, h, "temporal", reading)>>
      /\ e.discrete = <<Cardinality(gone), Cardinality(all),
                        SupportedSources(q, h, "within", reading),
                        SupportedSources(q, h, "temporal", reading)>>
      /\ c.continuous = e.continuous
  BY DEF Tells
<1> HIDE DEF goers, gone, whole, all, q, N
<1>4. Cardinality(gone) = Cardinality(goers) + (IF c = w THEN 1 ELSE 0)
  <2>1. Cardinality(goers) \in Nat
    BY <1>2, FS_CardinalityType
  <2>2. CASE i \in goers
    <3>1. gone = goers \cup {N + 1} /\ c = w
      BY <1>1, <2>2 DEF goers
    <3>2. Cardinality(gone) = Cardinality(goers) + 1
      BY <1>1, <1>2, <3>1, FS_AddElement
    <3> QED BY <3>1, <3>2
  <2>3. CASE i \notin goers
    <3>1. gone = goers /\ c # w
      BY <1>1, <2>3 DEF goers
    <3> QED BY <2>1, <3>1
  <2> QED BY <2>2, <2>3
<1>5. 2..4 = {2, 3, 4}
  OBVIOUS
<1>6. /\ e.discrete[1] = Cardinality(gone) /\ c.discrete[1] = Cardinality(goers)
      /\ e.discrete[2] = c.discrete[2] /\ e.discrete[3] = c.discrete[3]
      /\ e.discrete[4] = c.discrete[4]
  BY <1>1, <1>3
<1> QED BY <1>3, <1>4, <1>5, <1>6 DEF Grown

\* One more occurrence of what an attractor resolved to does not unseat it.
LEMMA StaysResolved ==
  ASSUME NEW index \in Seq(Rows), NEW raw \in Paths, NEW reading \in Readings, NEW most, NEW many,
         ResolveAttractor(index, raw, reading, most, many).resolved,
         NEW c \in ResolveAttractor(index, raw, reading, most, many).candidates,
         c.address \in ResolveAttractor(index, raw, reading, most, many).pareto,
         NEW i \in c.support
  PROVE  LET a == ResolveAttractor(index, raw, reading, most, many)
             s == ResolveAttractor(Again(index, i), raw, reading, most, many)
         IN  s.bounded \/ (s.resolved /\ s.pareto = a.pareto)
<1> DEFINE r == ResolveRollout(index, raw, 1, most, many)
           a == ResolveAttractor(index, raw, reading, most, many)
           C == a.candidates
           again == Again(index, i)
           t == ResolveRollout(again, raw, 1, most, many)
           s == ResolveAttractor(again, raw, reading, most, many)
           E == s.candidates
           heads == HeadsOf(index, raw)
<1>1. /\ a.bounded = r.bounded /\ a.bounded \in BOOLEAN /\ (a.bounded => C = {})
      /\ a.pareto = {d.address : d \in (IF r.terminals = {} THEN Pareto(C) ELSE C)}
      /\ a.resolved = (r.terminals = {}
                         /\ Cardinality(IF r.terminals = {} THEN Pareto(C) ELSE C) = 1)
      /\ IsFiniteSet(C) /\ \A d, e \in C : d.address = e.address => d = e
  BY AttractorParts
<1>2. ~r.bounded /\ r.terminals = {} /\ Cardinality(Pareto(C)) = 1
  <2>1. ~r.bounded
    BY <1>1
  <2>2. r.terminals = {}
    BY <1>1
  <2> HIDE DEF r, C
  <2> QED BY <1>1, <2>1, <2>2
<1>3. /\ \A d \in C : \E h \in heads : Tells(d, index, raw, reading, h)
      /\ \A h \in heads : \E d \in C : Tells(d, index, raw, reading, h)
  BY <1>2, CandidatesTell
<1>4. \A k \in PlacesOf(index, raw) : AfterOf(index, raw, 1)[k] # <<>>
  BY <1>2, RollsTo
<1>5. \A d \in C : Weighed(d)
  BY CandidatesWeighed
<1>6. heads \subseteq Addresses
  BY HeadsTyped
<1>7. c \in C /\ c.address \in a.pareto
  OBVIOUS
<1> HIDE DEF r, a, C, heads
<1>8. PICK w : Pareto(C) = {w}
  <2>1. IsFiniteSet(Pareto(C))
    BY <1>1, FS_Subset DEF Pareto
  <2> QED BY <1>2, <2>1, OneIs
<1>9. a.pareto = {w.address} /\ w \in C
  <2>1. a.pareto = {d.address : d \in {w}}
    BY <1>1, <1>2, <1>8
  <2> QED BY <1>8, <2>1 DEF Pareto
<1>10. c = w
  BY <1>1, <1>7, <1>9
<1>11. PICK g \in heads : Tells(c, index, raw, reading, g)
  BY <1>3, <1>7
<1>12. c.address = g /\ i \in GoersOf(index, raw, g)
  BY <1>11 DEF Tells
<1>13. i \in DOMAIN index /\ \A h : i \in GoersOf(index, raw, h) <=> h = g
  <2>1. i \in PlacesOf(index, raw)
    BY <1>12 DEF GoersOf
  <2>2. i \in DOMAIN index
    BY <2>1, PlacesFinite DEF KnownOf
  <2> QED BY <1>12, <2>2 DEF GoersOf
<1>14. again \in Seq(Rows)
  BY <1>13, AgainIs
<1>15. SUFFICES ASSUME ~s.bounded PROVE s.resolved /\ s.pareto = a.pareto
  BY DEF a
<1>16. /\ s.bounded = t.bounded
       /\ s.pareto = {d.address : d \in (IF t.terminals = {} THEN Pareto(E) ELSE E)}
       /\ s.resolved = (t.terminals = {}
                          /\ Cardinality(IF t.terminals = {} THEN Pareto(E) ELSE E) = 1)
       /\ \A d, e \in E : d.address = e.address => d = e
  BY <1>14, AttractorParts
<1>17. \A e \in E : Weighed(e)
  BY <1>14, CandidatesWeighed
<1>18. /\ \A k \in PlacesOf(again, raw) : AfterOf(again, raw, 1)[k] # <<>>
       /\ HeadsOf(again, raw) = heads
  BY <1>4, <1>13, AgainEnds DEF heads
<1>19. ~t.bounded
  BY <1>15, <1>16
<1>20. t.terminals = {}
  <2>1. t.terminals = {k \in PlacesOf(again, raw) : AfterOf(again, raw, 1)[k] = <<>>}
    BY <1>14, <1>19, RollsTo
  <2> HIDE DEF t, again
  <2> QED BY <1>18, <2>1
<1>21. /\ \A e \in E : \E h \in HeadsOf(again, raw) : Tells(e, again, raw, reading, h)
       /\ \A h \in HeadsOf(again, raw) : \E e \in E : Tells(e, again, raw, reading, h)
  BY <1>14, <1>19, CandidatesTell
<1> HIDE DEF s, t, E
<1>22. ASSUME NEW h \in heads, NEW d \in C, Tells(d, index, raw, reading, h),
              NEW e \in E, Tells(e, again, raw, reading, h)
       PROVE  Grown(e, d, w)
  <2>1. d = w <=> h = g
    <3>1. d.address = h
      BY <1>22 DEF Tells
    <3> QED BY <1>1, <1>7, <1>10, <1>12, <1>22, <3>1
  <2>2. d = w <=> i \in GoersOf(index, raw, h)
    BY <1>13, <2>1
  <2>3. h \in Addresses
    BY <1>6
  <2> QED BY <1>13, <1>22, <2>2, <2>3, ToldAgain
<1> HIDE DEF again
<1>23. \A d \in C : \E e \in E : Grown(e, d, w)
  BY <1>3, <1>18, <1>21, <1>22
<1>24. \A e \in E : \E d \in C : Grown(e, d, w)
  BY <1>3, <1>18, <1>21, <1>22
<1>25. PICK e : Pareto(E) = {e} /\ e.address = w.address
  <2>1. Rivals(C) /\ Rivals(E)
    BY <1>1, <1>5, <1>16, <1>17 DEF Rivals
  <2>2. GrownFrom(E, C, w)
    BY <1>23, <1>24 DEF GrownFrom
  <2> QED BY <1>8, <2>1, <2>2, WinnerStays
<1>26. s.pareto = {e.address}
  <2>1. s.pareto = {d.address : d \in {e}}
    BY <1>16, <1>20, <1>25
  <2> QED BY <2>1
<1>27. Cardinality({e}) = 1
  BY FS_Singleton
<1>28. s.resolved
  BY <1>16, <1>20, <1>25, <1>27
<1> QED BY <1>9, <1>25, <1>26, <1>28

\* So every attractor stands, whatever is asked of the index.
LEMMA AttractorsStand ==
  ASSUME IndexTyped
  PROVE  AttractorIsStable(Paths)
<1>1. trajectories \in Seq(Rows)
  BY DEF IndexTyped
<1>2. AttractorsHold(Paths)
  <2> SUFFICES ASSUME NEW q \in Paths, NEW reading \in Readings
               PROVE  LET r == ResolveAttractor(trajectories, q, reading, 2, 2)
                      IN  /\ r.candidates # {} => r.pareto # {}
                          /\ r.resolved => \A c \in r.candidates : c.address \in r.pareto =>
                                 \A i \in c.support :
                                     LET s == ResolveAttractor(Again(trajectories, i), q, reading, 2, 2)
                                     IN  s.bounded \/ (s.resolved /\ s.pareto = r.pareto)
    BY DEF AttractorsHold, Again
  <2>1. ResolveAttractor(trajectories, q, reading, 2, 2).candidates # {}
          => ResolveAttractor(trajectories, q, reading, 2, 2).pareto # {}
    BY <1>1, CandidatesWeighed
  <2> QED BY <1>1, <2>1, StaysResolved
<1> QED BY <1>2, NoCycle DEF AttractorIsStable

-----------------------------------------------------------------------------
(* The index and its attractors over any queries, and in MCCognition.      *)

\* An index that ingests any trails from any sources, new or delivered again, keeps
\* one row per occurrence and is rebuilt from its rows as it is; every query ranks
\* the trajectories the same in whatever order they came, and its two frontiers
\* count the same occurrences (StructuralTrajectoryIndex).  Some candidate of every
\* attractor is undominated, and what it resolved to stays resolved when one of its
\* occurrences is shown again, unless the limits refuse to tell
\* (StructuralAttractorResolverV2).
THEOREM QueriesHold ==
  ASSUME NEW many \in Nat, NEW sources \in SUBSET Nat, NEW raws \in SUBSET (Paths \ {<<>>})
  PROVE  TrajectoriesInit /\ [][TrajectoriesNext(sources, many, raws)]_trajectories
         => [](QueriesReadContent(Paths \ {<<>>}) /\ AttractorIsStable(Paths))
<1>1. TrajectoriesInit => QueryInv(many)
  BY DEF TrajectoriesInit, QueryInv, InferenceInv, IndexTyped, Numbered
<1>2. QueryInv(many) /\ [TrajectoriesNext(sources, many, raws)]_trajectories => QueryInv(many)'
  <2>1. CASE TrajectoriesNext(sources, many, raws)
    BY <2>1, QueryStep
  <2>2. CASE UNCHANGED trajectories
    BY <2>2 DEF QueryInv, InferenceInv, IndexTyped, Numbered
  <2> QED BY <2>1, <2>2
<1>3. QueryInv(many) => QueriesReadContent(Paths \ {<<>>}) /\ AttractorIsStable(Paths)
  BY QueryFollows, AttractorsStand DEF QueryInv, InferenceInv
<1> QED BY <1>1, <1>2, <1>3, PTL

\* The invariant, where queries are in focus.
QueryHold == focus = "queries" => QueryInv(3)

\* So it is in the machine of MCCognition, where queries are one focus.
THEOREM AnswersAlwaysRead == Spec => []AnswersReadContent
<1>1. Init => QueryHold
  BY DEF Init, TrajectoriesInit, QueryHold, QueryInv, InferenceInv, IndexTyped, Numbered
<1>2. QueryHold /\ [Next]_<<focus, cognitionVars>> => QueryHold'
  <2> SUFFICES ASSUME QueryHold, [Next]_<<focus, cognitionVars>> PROVE QueryHold'
    OBVIOUS
  <2>1. CASE QueriesMove
    <3> DEFINE raws == Raw(3)
    <3>1. focus = "queries" /\ QueryInv(3) /\ TrajectoriesNext({1}, 3, raws)
      BY <2>1 DEF QueriesMove, QueryHold
    <3>2. raws \in SUBSET (Paths \ {<<>>}) /\ 3 \in Nat /\ {1} \in SUBSET Nat
      BY TrailsTyped
    <3> HIDE DEF raws
    <3>3. QueryInv(3)'
      BY <3>1, <3>2, QueryStep
    <3> QED BY <3>3 DEF QueryHold
  <2>2. CASE LayersMove
    BY <2>2 DEF LayersMove, Others, QueryHold
  <2>3. CASE BranchesMove
    BY <2>3 DEF BranchesMove, Others, QueryHold
  <2>4. CASE FieldMoves
    BY <2>4 DEF FieldMoves, Others, QueryHold
  <2>5. CASE ContinuousMoves
    BY <2>5 DEF ContinuousMoves, Others, QueryHold
  <2>6. CASE InferenceMoves
    BY <2>6 DEF InferenceMoves, Others, QueryHold
  <2>7. CASE LevelsMove
    BY <2>7 DEF LevelsMove, Others, QueryHold
  <2>8. CASE UNCHANGED <<focus, cognitionVars>>
    BY <2>8 DEF cognitionVars, QueryHold, QueryInv, InferenceInv, IndexTyped, Numbered
  <2> QED BY <2>1, <2>2, <2>3, <2>4, <2>5, <2>6, <2>7, <2>8 DEF Next
<1>3. QueryHold => AnswersReadContent
  <2> SUFFICES ASSUME QueryHold, focus = "queries"
               PROVE  QueriesReadContent(Trails(2)) /\ AttractorIsStable(Trails(2))
    BY DEF AnswersReadContent
  <2>1. QueriesReadContent(Paths \ {<<>>}) /\ AttractorIsStable(Paths)
    BY QueryFollows, AttractorsStand DEF QueryHold, QueryInv, InferenceInv
  <2> DEFINE few == Trails(2)
  <2>2. few \subseteq Paths /\ few \subseteq Paths \ {<<>>}
    BY TrailsTyped
  <2> HIDE DEF few
  <2>3. QueriesReadContent(few)
    BY <2>1, <2>2 DEF QueriesReadContent, RankingIgnoresOrder, FrontiersAgree
  <2>4. AttractorIsStable(few)
    BY <2>1, <2>2 DEF AttractorIsStable, AttractorsHold
  <2> QED BY <2>3, <2>4 DEF few
<1> QED BY <1>1, <1>2, <1>3, PTL DEF Spec

=============================================================================
