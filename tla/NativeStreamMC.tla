--------------------------- MODULE NativeStreamMC ---------------------------
(* Instances of NativeStream for TLC. *)
EXTENDS NativeStream, TLC
=============================================================================
