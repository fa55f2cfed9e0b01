---------------------------- MODULE ChatStoreMC ----------------------------
(* Instances of ChatStore for TLC. *)
EXTENDS ChatStore, TLC
=============================================================================
