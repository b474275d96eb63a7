--------------------------- MODULE MC_TankReplay ---------------------------
(***************************************************************************)
(* A small scene for TLC: a tank that drives up is not at the wall after   *)
(* one frame, and is with the second.                                      *)
(***************************************************************************)
EXTENDS TankReplay, TLC

Symmetry == Permutations(Users)

MCBorn == [x |-> 1, y |-> 3]

=============================================================================
