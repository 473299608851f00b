--------------------------- MODULE MCManagedModels ---------------------------
(* Instances of ManagedModels small enough for TLC. *)
EXTENDS ManagedModels, TLC

Symmetry == Permutations(Generation) \union Permutations(Process)
=============================================================================
