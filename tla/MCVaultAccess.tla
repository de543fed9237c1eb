--------------------------- MODULE MCVaultAccess ---------------------------
(* VaultAccess for TLC: a vault with k = 2, holders and an ADMIN who holds *)
(* no share.                                                               *)
EXTENDS VaultAccess, TLC

CONSTANT admin

\* Holders, handler slots and request identifiers are interchangeable.
Symmetry == Permutations(Holders) \cup Permutations(Procs) \cup Permutations(Reqs)

=============================================================================
