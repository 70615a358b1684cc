---------------------------- MODULE MCJobRestore ----------------------------
(* JobRestore for TLC. *)
EXTENDS JobRestore, TLC

RestoreSymmetry == Permutations(Restores)
=============================================================================
