-------------------------- MODULE MCReconstruction --------------------------
(* Reconstruction for TLC; the executions are interchangeable. *)
EXTENDS Reconstruction, TLC

Symmetry == Permutations(Executions)
=============================================================================
