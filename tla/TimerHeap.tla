----------------------------- MODULE TimerHeap -----------------------------
(***************************************************************************)
(* The timers of zbluenet (timer_heap.cc) and the loop that calls them     *)
(* (net/epoll_service.cc, and net/epoll_reactor.cc, which is the same):    *)
(* sleep in epoll until the first timer is due or an event comes, handle   *)
(* events, call the timers that are due.                                   *)
(*                                                                         *)
(* Timers are started and stopped by the thread of the loop: before it     *)
(* starts, by the handlers of events, and by timers.  The heap is a        *)
(* sequence of their numbers; the entry 0 of the code's vector is not      *)
(* used, and the position each timer keeps is where it is.  The clock does *)
(* not go back.                                                            *)
(***************************************************************************)
EXTENDS Integers, Sequences, SequencesExt

CONSTANTS
  Kinds,      \* timeouts in ms and numbers of calls; -1 is for ever
  Ms,         \* ticks of the clock in a millisecond
  MaxSleep,   \* in ms, MAX_EPOLL_TIMEOUT_MSEC
  MaxStarts,  \* bound on the timers that are started
  MaxStops,   \* bound on those that are stopped
  LastStart,  \* bound on the time of a start
  MaxClock      \* bound on the clock

\* A timer without a timeout that repeats would be called for ever in one
\* check, and a timeout of more than 31 bits becomes another one as an int.
ASSUME ConstantsAssumption ==
  /\ Ms \in Nat \ {0} /\ {MaxSleep, MaxStarts, MaxStops, LastStart, MaxClock} \subseteq Nat
  /\ \A k \in Kinds : /\ k.timeout \in Int /\ k.timeout <= 2147483647
                      /\ k.times \in Int /\ (k.times = 1 \/ k.timeout > 0)

VARIABLES
  clock,      \* the time, in ticks
  timers,     \* timer_map_
  heap,       \* timer_min_heap_
  started, stopped,  \* numbers of timers started and stopped
  pc,         \* where the loop is
  now,        \* the time it goes by
  timeout,    \* how long it sleeps at the most, in ms
  calling,    \* the timer that is called, or 0
  loose       \* history: a timer that was erased left the heap out of order

heapVars == <<timers, heap, started, stopped, loose>>
loopVars == <<pc, now, timeout, calling>>
vars == <<clock, heapVars, loopVars>>

Ids == 1..MaxStarts

\* Timers as the abstract module has them.
Abstract == INSTANCE Timers

-----------------------------------------------------------------------------
(* The heap; v gives the values of the timers in it *)

Swap(h, i, j) == [h EXCEPT ![i] = h[j], ![j] = h[i]]

\* What becomes of a heap of n timers when the one at place i goes up, past all
\* that are not earlier,
Up(v, n) ==
  LET up[i \in 1..n] ==
        [g \in [1..n -> Ids] |->
           IF i = 1 \/ v[g[i \div 2]] < v[g[i]] THEN g
           ELSE up[i \div 2][Swap(g, i \div 2, i)]]
  IN up

\* and when it goes down, past all that are not later.
Child(v, g, i) ==
  IF 2 * i + 1 \in DOMAIN g /\ v[g[2 * i + 1]] < v[g[2 * i]] THEN 2 * i + 1
  ELSE 2 * i

Down(v, n) ==
  LET down[i \in 1..n] ==
        [g \in [1..n -> Ids] |->
           IF 2 * i > n \/ v[g[i]] < v[g[Child(v, g, i)]] THEN g
           ELSE down[Child(v, g, i)][Swap(g, i, Child(v, g, i))]]
  IN down

\* minHeapInsert: to the end, and up.
Insert(v, h, t) ==
  LET n == Len(h) + 1
  IN Up(v, n)[n][Append(h, t)]

\* minHeapErase: the last takes the place, and goes down; it does not go up.
Erase(v, h, place) ==
  IF place = Len(h) THEN Front(h)
  ELSE Down(v, Len(h) - 1)[place][[Front(h) EXCEPT ![place] = Last(h)]]

\* So it is out of order when it is earlier than the one above.
Disturbs(v, h, place) ==
  place \notin {1, Len(h)} /\ v[Last(h)] < v[h[place \div 2]]

Value(t) == timers[t].value
Values == [t \in DOMAIN timers |-> Value(t)]

-----------------------------------------------------------------------------

Init ==
  /\ clock = 0 /\ timers = [t \in {} |-> 0] /\ heap = <<>>
  /\ started = 0 /\ stopped = 0 /\ loose = FALSE
  /\ pc = "setup" /\ now = 0 /\ timeout = 0 /\ calling = 0

\* The application's code runs.
InApplication == pc \in {"setup", "events", "call"}

\* Time passes, wherever the loop is.
Tick ==
  /\ clock < MaxClock
  /\ clock' = clock + 1
  /\ UNCHANGED <<heapVars, loopVars>>

\* IOService.startTimer
Start(kind) ==
  /\ InApplication /\ started < MaxStarts /\ clock <= LastStart
  /\ started' = started + 1
  /\ timers' = Abstract!With(timers, started', Abstract!NewTimer(clock, kind))
  /\ heap' = Insert([t \in DOMAIN timers' |-> timers'[t].value], heap, started')
  /\ UNCHANGED <<clock, stopped, loose, loopVars>>

\* Mutant: the timer that is stopped stays in the heap.
Stop_Heap(t) ==
  /\ InApplication /\ stopped < MaxStops /\ t \in DOMAIN timers
  /\ stopped' = stopped + 1
  /\ timers' = Abstract!Without(timers, t)
  /\ UNCHANGED <<clock, started, heap, loose, loopVars>>

\* IOService.stopTimer
Stop(t) ==
  /\ InApplication /\ stopped < MaxStops /\ t \in DOMAIN timers
  /\ stopped' = stopped + 1
  /\ \E place \in DOMAIN heap :
       /\ heap[place] = t
       /\ heap' = Erase(Values, heap, place)
       /\ loose' = (loose \/ Disturbs(Values, heap, place))
  /\ timers' = Abstract!Without(timers, t)
  /\ UNCHANGED <<clock, started, loopVars>>

\* Mutant: the milliseconds of the difference, rounded up.
NextTimeout_RoundsUp ==
  IF heap = <<>> \/ Value(heap[1]) < clock THEN 0
  ELSE ((Value(heap[1]) - clock) + Ms) \div Ms

\* getNextTimeoutMillisecond, with 0 in place of its -1.
NextTimeout ==
  IF heap = <<>> \/ Value(heap[1]) < clock THEN 0
  ELSE (Value(heap[1]) \div Ms) - (clock \div Ms)

\* An iteration of the loop begins,
Poll ==
  /\ pc \in {"setup", "poll"}
  /\ pc' = "sleep" /\ now' = clock
  /\ timeout' = IF NextTimeout < MaxSleep THEN NextTimeout ELSE MaxSleep
  /\ UNCHANGED <<clock, calling, heapVars>>

\* sleeps until an event comes or, at the latest, the time is over,
Wake ==
  /\ pc = "sleep"
  /\ pc' = "events" /\ timeout' = 0
  /\ UNCHANGED <<clock, now, calling, heapVars>>

\* and checks for timers when the events are handled.
BeginCheck ==
  /\ pc = "events"
  /\ pc' = "check" /\ now' = clock
  /\ UNCHANGED <<clock, timeout, calling, heapVars>>

FirstIsDue == heap # <<>> /\ Value(heap[1]) \div Ms <= now \div Ms

\* Mutant: a timer that repeats keeps its place in the heap.
GoAgain_KeepsPlace(t) ==
  /\ timers' = [timers EXCEPT ![t] = Abstract!Again(@)]
  /\ UNCHANGED heap

\* Mutant: a timer that repeats leaves the heap when it is called.
GoAgain_Leaves(t) ==
  /\ timers' = [timers EXCEPT ![t] = Abstract!Again(@)]
  /\ heap' = Erase(Values, heap, 1)

\* The timer, which was the first, is put back with its next time.
GoAgain(t) ==
  /\ timers' = [timers EXCEPT ![t] = Abstract!Again(@)]
  /\ heap' = Insert([u \in DOMAIN timers' |-> timers'[u].value],
                    Erase(Values, heap, 1), t)

\* A round of checkTimeout: the first timer is due, and leaves the heap for good
\* or for its next time before it is called.
Expire ==
  /\ pc = "check" /\ FirstIsDue
  /\ pc' = "call" /\ calling' = heap[1]
  /\ IF timers[heap[1]].times = 1
     THEN /\ timers' = Abstract!Without(timers, heap[1])
          /\ heap' = Erase(Values, heap, 1)
     ELSE GoAgain(heap[1])
  /\ UNCHANGED <<clock, now, timeout, started, stopped, loose>>

\* The timer's function returns.
Return ==
  /\ pc = "call"
  /\ pc' = "check" /\ calling' = 0
  /\ UNCHANGED <<clock, now, timeout, heapVars>>

\* No timer is due any more.
EndCheck ==
  /\ pc = "check" /\ ~FirstIsDue
  /\ pc' = "poll"
  /\ UNCHANGED <<clock, now, timeout, calling, heapVars>>

Work == Poll \/ BeginCheck \/ Expire \/ Return \/ EndCheck

Next ==
  \/ Tick \/ Work \/ Wake
  \/ \E kind \in Kinds : Start(kind)
  \/ \E t \in Ids : Stop(t)

\* When epoll_wait returns at the latest.
WakeAt == now + Ms * timeout

\* The clock goes on, the loop runs, and epoll returns when the time is over;
\* no event need come.
Fairness == WF_vars(Tick) /\ WF_vars(Work) /\ WF_vars(clock >= WakeAt /\ Wake)

Spec == Init /\ [][Next]_vars /\ Fairness

-----------------------------------------------------------------------------
(* Properties *)

\* Type correctness: the heap holds each timer that is set, once.
TypeOK ==
  /\ clock \in 0..MaxClock /\ now \in 0..clock /\ timeout \in 0..MaxSleep
  /\ DOMAIN timers \subseteq 1..started
  /\ timers \in [DOMAIN timers -> [value : Nat, timeout : Nat, times : Int]]
  /\ heap \in Seq(DOMAIN timers)
  /\ \A t \in DOMAIN timers : \E i \in DOMAIN heap : heap[i] = t
  /\ \A i, j \in DOMAIN heap : heap[i] = heap[j] => i = j
  /\ started \in 0..MaxStarts /\ stopped \in 0..MaxStops
  /\ pc \in {"setup", "poll", "sleep", "events", "check", "call"}
  /\ calling \in 0..started /\ (calling # 0 <=> pc = "call") /\ loose \in BOOLEAN

\* The loop calls timers as Timers promises: never before their millisecond, the
\* earliest first, as often as they were asked for, whatever is started and
\* stopped while it does.
ImplementsTimers == Abstract!Spec

\* The loop does not sleep past the millisecond of a timer, unless a timer that
\* was stopped has left the heap out of order.
SleepsUntilDue ==
  pc = "sleep" /\ ~loose =>
    \A t \in DOMAIN timers :
      WakeAt \div Ms <= Abstract!Upper(now, Value(t)) \div Ms

\* No timer stays due: it is called, again if it is still due, or stopped.  (The
\* clock of the model ends, so that a heap out of order may hide a timer behind
\* one beyond the end.)
NoneStaysDue ==
  \A t \in Ids : []<>(t \in DOMAIN timers => loose \/ ~Abstract!Due(t))

=============================================================================
