---------------------------- MODULE MC_TimerHeap ----------------------------
(***************************************************************************)
(* Enough timers for a heap of three levels, which a stopped timer leaves  *)
(* out of order.                                                           *)
(***************************************************************************)
EXTENDS TimerHeap

Kind(ms, calls) == [timeout |-> ms, times |-> calls]

MCKinds == { Kind(1, 2), Kind(0, 1) }

=============================================================================
