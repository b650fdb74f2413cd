----------------------- MODULE MCStructuralPipeline -----------------------
(* Instances of StructuralPipeline for TLC.                                *)
EXTENDS StructuralPipeline, TLC

\* Request threads are interchangeable; the opener is not one of them.
Symmetry == Permutations(Threads)
=============================================================================
