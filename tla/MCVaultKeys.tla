---------------------------- MODULE MCVaultKeys ----------------------------
(* VaultKeys for TLC. *)
EXTENDS VaultKeys, TLC

Symmetry == Permutations(Users) \cup Permutations(Devices)

=============================================================================
