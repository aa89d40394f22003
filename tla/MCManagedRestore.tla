-------------------------- MODULE MCManagedRestore --------------------------
(* Instance of ManagedRestore for TLC. *)
EXTENDS ManagedRestore, TLC

\* Contents are only compared with each other.
ContentSymmetry == Permutations(Content)
=============================================================================
