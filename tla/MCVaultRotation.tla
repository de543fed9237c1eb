-------------------------- MODULE MCVaultRotation --------------------------
(* OrderlyRotation for TLC: three holders, k = 2. *)
EXTENDS OrderlyRotation, TLC

\* Rows as they were inserted, and with two of them swapped.
TwoOrders == {<<1, 2, 3>>, <<2, 1, 3>>}
OneOrder == {<<1, 2, 3>>}

Symmetry == Permutations(Rots) \cup Permutations(Procs)

=============================================================================
