---------------------------- MODULE MCMembership ----------------------------
(* Membership for TLC. *)
EXTENDS Membership, TLC

CONSTANTS founder, ann, bob

Symmetry == Permutations(Procs) \cup Permutations({ann, bob})

=============================================================================
