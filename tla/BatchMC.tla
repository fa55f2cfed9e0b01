------------------------------ MODULE BatchMC ------------------------------
(* Instances of Batch for TLC. *)
EXTENDS Batch, TLC

\* Processes are interchangeable: used only by runs without liveness.
ProcSymmetry == Permutations(Procs)
=============================================================================
