---------------------------- MODULE MC_AsyncLog ----------------------------
(***************************************************************************)
(* Threads that log more lines at once than the queue holds.               *)
(***************************************************************************)
EXTENDS AsyncLog

=============================================================================
