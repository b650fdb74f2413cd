-------------------------- MODULE SaturatingLifecycle --------------------------
(***************************************************************************)
(* SaturatingMemoryLifecycle: the layers of one route of the engine.       *)
(*                                                                         *)
(* Support raises the strength of layer 0, and of each next layer as long  *)
(* as all layers before it have once been active; contradiction lowers     *)
(* every layer.  Layer i moves 2^i times slower than layer 0, saturates at *)
(* MaxStrength, turns active at Activate and inactive at Deactivate.       *)
(* Strengths are dyadic fractions in the code; here they are whole numbers *)
(* of a unit small enough for every layer's step.                          *)
(***************************************************************************)
EXTENDS Integers

CONSTANTS
  LastLevel,     \* levels - 1
  Rate,          \* the step of each level for an amount of one
  Activate, Deactivate, MaxStrength,
  Amounts,       \* amounts callers support and contradict with
  MaxTime        \* bound: calls in a behaviour

Levels == 0..LastLevel

ASSUME LifecycleParameters ==
  /\ LastLevel \in Nat
  /\ Rate \in [Levels -> Nat]
  /\ Activate \in Nat /\ Deactivate \in Nat /\ MaxStrength \in Nat
  /\ Deactivate < Activate /\ Activate < MaxStrength
  /\ Amounts \subseteq Nat
  /\ MaxTime \in Nat

VARIABLES
  strength, active,
  ever,            \* ever_active
  activations,     \* activation_count
  deactivations,   \* deactivation_count
  time

lifecycleVars == <<strength, active, ever, activations, deactivations, time>>

LifecycleInit ==
  /\ strength = [i \in Levels |-> 0]
  /\ active = [i \in Levels |-> FALSE]
  /\ ever = [i \in Levels |-> FALSE]
  /\ activations = [i \in Levels |-> 0]
  /\ deactivations = [i \in Levels |-> 0]
  /\ time = 0

Lesser(x, y) == IF x <= y THEN x ELSE y
Greater(x, y) == IF x >= y THEN x ELSE y

Raised(a, i) == Lesser(MaxStrength, strength[i] + a * Rate[i])
\* Mutant: the strength has no floor.
LoweredFreely(a, i) == strength[i] - a * Rate[i]
Lowered(a, i) == Greater(0, strength[i] - a * Rate[i])

\* Mutant: a layer is reached when any layer before it was ever active.
ReachesAny(a, i) ==
  i = 0 \/ \E j \in 0..(i - 1) : ever[j] \/ (~active[j] /\ Raised(a, j) >= Activate)

\* The loop of support() gets to layer i: each layer before it has once
\* been active, by this call at the latest.
Reaches(a, i) ==
  \A j \in 0..(i - 1) : ever[j] \/ (~active[j] /\ Raised(a, j) >= Activate)

Tick == time < MaxTime /\ time' = time + 1

\* Mutant: the layer turns active without the test that it is not.
AlwaysWakes(a, i) == Reaches(a, i) /\ Raised(a, i) >= Activate

\* Mutant: a layer turns active above the threshold only.
WakesLate(a, i) == Reaches(a, i) /\ ~active[i] /\ Raised(a, i) > Activate

Wakes(a, i) == Reaches(a, i) /\ ~active[i] /\ Raised(a, i) >= Activate

Support(a) ==
  /\ Tick
  /\ strength' = [i \in Levels |-> IF Reaches(a, i) THEN Raised(a, i) ELSE strength[i]]
  /\ active' = [i \in Levels |-> active[i] \/ Wakes(a, i)]
  /\ ever' = [i \in Levels |-> ever[i] \/ Wakes(a, i)]
  /\ activations' = [i \in Levels |-> activations[i] + IF Wakes(a, i) THEN 1 ELSE 0]
  /\ UNCHANGED deactivations

Sleeps(a, i) == active[i] /\ Lowered(a, i) <= Deactivate

\* Mutant: a layer that turns inactive forgets that it was active.
Forget(a) ==
  /\ Tick
  /\ strength' = [i \in Levels |-> Lowered(a, i)]
  /\ active' = [i \in Levels |-> active[i] /\ ~Sleeps(a, i)]
  /\ ever' = active'
  /\ deactivations' = [i \in Levels |-> deactivations[i] + IF Sleeps(a, i) THEN 1 ELSE 0]
  /\ UNCHANGED activations

Contradict(a) ==
  /\ Tick
  /\ strength' = [i \in Levels |-> Lowered(a, i)]
  /\ active' = [i \in Levels |-> active[i] /\ ~Sleeps(a, i)]
  /\ deactivations' = [i \in Levels |-> deactivations[i] + IF Sleeps(a, i) THEN 1 ELSE 0]
  /\ UNCHANGED <<ever, activations>>

\* save() and load() of the engine carry every field: a restart is a stutter.
LifecycleNext == \E a \in Amounts : Support(a) \/ Contradict(a)

LifecycleSpec == LifecycleInit /\ [][LifecycleNext]_lifecycleVars

-----------------------------------------------------------------------------
(* Properties.                                                             *)

TypeOK ==
  /\ strength \in [Levels -> 0..MaxStrength]
  /\ active \in [Levels -> BOOLEAN]
  /\ ever \in [Levels -> BOOLEAN]
  /\ activations \in [Levels -> Nat]
  /\ deactivations \in [Levels -> Nat]
  /\ time \in Nat

(* Hysteresis: an active layer is above the lower threshold, an inactive   *)
(* one below the upper: no call leaves a layer on the wrong side.          *)
Hysteresis ==
  \A i \in Levels :
    IF active[i] THEN strength[i] > Deactivate ELSE strength[i] < Activate

(* Layers wake in order: a layer that has any strength, or has ever been   *)
(* active, stands on layers that have all been active.                     *)
Ladder ==
  \A i \in Levels : ever[i] \/ strength[i] > 0 =>
    \A j \in 0..(i - 1) : ever[j]

(* The counters tell the history: activations and deactivations alternate, *)
(* and a layer was ever active if and only if it was activated once.       *)
CountersAgree ==
  \A i \in Levels :
    /\ activations[i] = deactivations[i] + IF active[i] THEN 1 ELSE 0
    /\ ever[i] <=> activations[i] > 0

(* saturating_lifecycle.py: after any calls of support() and contradict()  *)
(* the strengths, the flags and the counters of the layers fit together.   *)
LifecycleSafe == TypeOK /\ Hysteresis /\ Ladder /\ CountersAgree
=============================================================================
