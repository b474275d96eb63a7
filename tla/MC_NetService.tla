--------------------------- MODULE MC_NetService ---------------------------
(***************************************************************************)
(* Two connections on two net threads for the safety of the tables; one    *)
(* connection, with more messages and operations, for its whole life.      *)
(***************************************************************************)
EXTENDS NetService, TLC

Symmetry == Permutations(Conns)

=============================================================================
