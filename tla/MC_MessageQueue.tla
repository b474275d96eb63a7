-------------------------- MODULE MC_MessageQueue --------------------------
(***************************************************************************)
(* Two threads that push, for readers with and without a limit.            *)
(***************************************************************************)
EXTENDS MessageQueue

=============================================================================
