------------------------- MODULE MC_LockstepServer -------------------------
(* LockstepServer for TLC: no handler compares connections, users or        *)
(* operations but for equality, so each of these sets is symmetric.         *)
EXTENDS LockstepServer, TLC

Symmetry ==
  Permutations(Conns) \cup Permutations(Uids) \cup Permutations(Ops)

=============================================================================
