------------------------------- MODULE Timers -------------------------------
(***************************************************************************)
(* What the timers of an IOService of zbluenet promise: a timer is called  *)
(* when its time has come, as often as it was asked for, the earliest      *)
(* first.  Stopping a timer may give up the order, never the rest.         *)
(***************************************************************************)
EXTENDS Integers

CONSTANTS
  Ids,    \* numbers of timers
  Kinds,  \* timeouts and numbers of calls; -1 is for ever
  Ms      \* ticks of the clock in a millisecond

VARIABLES
  clock,  \* the time, in ticks
  timers, \* the timers that are set
  calling,  \* the timer whose function runs, or 0
  loose   \* the order is given up

vars == <<clock, timers, calling, loose>>

Upper(m, n) == IF m >= n THEN m ELSE n

With(f, t, x) == [u \in DOMAIN f \cup {t} |-> IF u = t THEN x ELSE f[u]]
Without(f, t) == [u \in DOMAIN f \ {t} |-> f[u]]

\* A timer of a kind, set at a time; a timeout is not negative.
NewTimer(at, kind) ==
  [value   |-> at + Upper(0, kind.timeout) * Ms,
   timeout |-> Upper(0, kind.timeout),
   times   |-> kind.times]

\* A timer that is called again.
Again(x) ==
  [x EXCEPT !.value = @ + x.timeout * Ms,
            !.times = IF @ > 0 THEN @ - 1 ELSE @]

Init == clock = 0 /\ timers = [t \in {} |-> 0] /\ calling = 0 /\ loose = FALSE

Tick == clock' = clock + 1 /\ UNCHANGED <<timers, calling, loose>>

Start(t, kind) ==
  /\ t \notin DOMAIN timers
  /\ timers' = With(timers, t, NewTimer(clock, kind))
  /\ UNCHANGED <<clock, calling, loose>>

Stop(t) ==
  /\ t \in DOMAIN timers
  /\ timers' = Without(timers, t) /\ loose' \in {loose, TRUE}
  /\ UNCHANGED <<clock, calling>>

\* The clock has reached the millisecond of the timer.
Due(t) == timers[t].value \div Ms <= clock \div Ms

Call(t) ==
  /\ calling = 0 /\ t \in DOMAIN timers /\ Due(t)
  /\ calling' = t
  /\ loose \/ \A u \in DOMAIN timers : timers[t].value <= timers[u].value
  /\ timers' = IF timers[t].times = 1 THEN Without(timers, t)
               ELSE With(timers, t, Again(timers[t]))
  /\ UNCHANGED <<clock, loose>>

Return ==
  /\ calling # 0
  /\ calling' = 0
  /\ UNCHANGED <<clock, timers, loose>>

Next ==
  \/ Tick \/ Return
  \/ \E t \in Ids : Stop(t) \/ Call(t) \/ \E kind \in Kinds : Start(t, kind)

Spec == Init /\ [][Next]_vars

=============================================================================
