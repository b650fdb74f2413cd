------------------------------ MODULE MCLiveness ------------------------------
(***************************************************************************)
(* What must eventually happen, under the scheduling the code relies on:   *)
(* the observation pipeline and the leases of native runtimes, one of them *)
(* per behaviour (focus), since they share no state.                       *)
(***************************************************************************)
EXTENDS StructuralPipeline

CONSTANTS Libraries, Stores, LeaseIds, RuntimeIds, SharedRelease

VARIABLES focus, entries, storeLibraries, runtimes, leases, manager, threads

Leases == INSTANCE NativeLeases
leaseVars == <<entries, storeLibraries, runtimes, leases, manager, threads>>

LiveInit == focus \in {"pipeline", "leases"} /\ Init /\ Leases!LeaseInit

PipelineMoves == focus = "pipeline" /\ Next /\ UNCHANGED <<focus, leaseVars>>
LeasesMove == focus = "leases" /\ Leases!LeaseNext /\ UNCHANGED <<focus, vars>>
LiveNext == PipelineMoves \/ LeasesMove

\* The fairness of StructuralPipeline!FairSpec and NativeLeases!FairLeaseSpec.
GoesOn(a) == focus = "pipeline" /\ Continues(a)
Starts == focus = "pipeline" /\ StartupSteps
LeaseGoesOn(t) == focus = "leases" /\ Leases!Progress(t)

LiveSpec ==
  /\ LiveInit /\ [][LiveNext]_<<focus, vars, leaseVars>>
  /\ \A a \in Actors : WF_vars(GoesOn(a))
  /\ WF_vars(Starts)
  /\ \A t \in Threads : WF_leaseVars(LeaseGoesOn(t))

-----------------------------------------------------------------------------
\* native_runtime.py: a release that began ends, though it waits for the
\* runtime's lock while it holds the manager's.
ReleaseEnds == Leases!ReleaseEnds
=============================================================================
