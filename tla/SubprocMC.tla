----------------------------- MODULE SubprocMC -----------------------------
(* Instances of Subproc for TLC. *)
EXTENDS Subproc, TLC
=============================================================================
