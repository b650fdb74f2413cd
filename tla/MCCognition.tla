----------------------------- MODULE MCCognition -----------------------------
(***************************************************************************)
(* The structural engine's readers and fields, checked in one run.  Each   *)
(* is a function of the trajectory index, or a state machine of its own:   *)
(* focus picks the one a behaviour is about, and the shape of the          *)
(* trajectories that make its interesting cases happen.                    *)
(***************************************************************************)
EXTENDS SaturatingLifecycle, StructuralBranches, ResolutiveInference,
        AssociationField, ContinuousField, TLC

CONSTANT Foci        \* the parts this run is about

VARIABLE focus

\* The product's thresholds in units of 1/16: activation at 1.0, deactivation
\* at 0.25, saturation at 1.25, on three levels; amounts in units of 1/4.
HalvingRate == [i \in 0..2 |-> CASE i = 0 -> 4 [] i = 1 -> 2 [] i = 2 -> 1]

\* Time coordinates that overlap, touch, leave gaps within and past the horizon.
ShortIntervals == {<<0, 0>>, <<3, 3>>, <<4, 5>>, <<7, 7>>}
\* The same, and one that ends long after the others begin.
LongIntervals == {<<0, 0>>, <<3, 3>>, <<4, 5>>, <<0, 9>>}

\* Addresses of the index are interchangeable.
Symmetry == Permutations(Addresses)

cognitionVars ==
    <<lifecycleVars, trajectories, branchVars, fieldVars, continuousVars>>

Init ==
    /\ focus \in Foci
    /\ LifecycleInit /\ TrajectoriesInit /\ BranchesInit /\ FieldInit /\ ContinuousInit

\* Every part but the one in focus stays as it is.
Others(parts) == /\ UNCHANGED focus
                 /\ IF "layers" \in parts THEN TRUE ELSE UNCHANGED lifecycleVars
                 /\ IF "index" \in parts THEN TRUE ELSE UNCHANGED trajectories
                 /\ IF "branches" \in parts THEN TRUE ELSE UNCHANGED branchVars
                 /\ IF "field" \in parts THEN TRUE ELSE UNCHANGED fieldVars
                 /\ IF "continuous" \in parts THEN TRUE ELSE UNCHANGED continuousVars

LayersMove == focus = "layers" /\ LifecycleNext /\ Others({"layers"})
BranchesMove == focus = "branches" /\ BranchesNext({1}, 2, Trails(3)) /\ Others({"branches", "index"})
FieldMoves == focus = "field" /\ FieldNext /\ Others({"field"})
ContinuousMoves == focus = "continuous" /\ ContinuousNext /\ Others({"continuous"})
\* Three short trails answer queries; two long ones repeat their parts; three
\* of one length share prefixes, bridges and ends, from sources numbered as they
\* come.
QueriesMove == focus = "queries" /\ TrajectoriesNext({1}, 3, Raw(3)) /\ Others({"index"})
LevelsMove == focus = "levels" /\ TrajectoriesNext({1}, 2, Trails(5)) /\ Others({"index"})
InferenceMoves ==
    /\ focus = "inference"
    /\ TrajectoriesNext(1..(Len(trajectories) + 1), 3, {t \in Trails(3) : Len(t) = 3})
    /\ Others({"index"})

Next ==
    \/ LayersMove \/ BranchesMove \/ FieldMoves \/ ContinuousMoves
    \/ QueriesMove \/ LevelsMove \/ InferenceMoves

Spec == Init /\ [][Next]_<<focus, cognitionVars>>

-----------------------------------------------------------------------------
\* structural_trajectory_v2.py and structural_attractor_v2.py: an index answers by
\* its content, and what it is shown again never unseats what it resolved to.
AnswersReadContent ==
    focus = "queries" =>
        /\ QueriesReadContent(Trails(2))
        /\ Len(trajectories) <= 2 => AttractorIsStable(Trails(2))

\* hierarchical_composition_v2.py, multiscale_resolver_v2.py,
\* structural_density_v2.py and structural_rollout_v2.py: levels are windows that
\* recur, and climbing them loses nothing a query could have matched; a rollout
\* covers what the trajectories continue with, each in one branch, and begins
\* where the frontier does.
LevelsAreFaithful ==
    focus = "levels" => HierarchyIsFaithful(Trails(2)) /\ RolloutIsFaithful(Trails(2))

\* structural_branch_state_v2.py: what is observed narrows the hypotheses exactly,
\* and recovery only takes up occurrences the trajectories hold.
BranchesAreExact == focus = "branches" => BranchesFollowMemory

\* structural_equivalence_v2.py and resolutive_inference_v2.py: equivalence rests
\* on independent lineages, and inference answers what the index supports.
InferenceIsSound ==
    focus = "inference" => EquivalenceIsSound /\ InferenceIsGrounded(Trails(1))

\* structural_association_field.py and structural_association_continuous.py: a
\* weight is the discounted sum of what was observed, wherever it is kept, and
\* what leaves the window could not have joined a later observation.
FieldsRememberEnough ==
    /\ focus = "field" => AssociationIsDiscountedHistory
    /\ focus = "continuous" => OnlyNegligibleOmitted
=============================================================================
