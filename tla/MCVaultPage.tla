---------------------------- MODULE MCVaultPage ----------------------------
(* VaultPage for TLC. *)
EXTENDS VaultPage, TLC

Symmetry == Permutations(Sockets)

\* What has been read of the kind that no request is of matters to nothing: a list
\* of that kind is read without a subscription, or fails.
OneKind == UNION {watch[l] : l \in Loads} \cup covered \subseteq {kind[r] : r \in Reqs}

=============================================================================
