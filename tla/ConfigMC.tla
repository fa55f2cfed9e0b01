------------------------------ MODULE ConfigMC ------------------------------
(* Three writers of two keys, and a reader.                                *)
EXTENDS Config

CONSTANTS w1, w2, w3, r1, k1, k2, v1
=============================================================================
