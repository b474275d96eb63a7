------------------------------ MODULE AsyncLog ------------------------------
(***************************************************************************)
(* The asynchronous log of zbluenet (logger_async_sink.cc): threads that   *)
(* log copy a line into a buffer of a pool (object_pool.h) and push it to  *)
(* a bounded queue (concurrent_queue.h); the log's own thread (thread.cc)  *)
(* pops it, writes the line, and puts the buffer back.  The destructor     *)
(* pushes a null buffer and waits for that thread with a semaphore         *)
(* (semaphore.cc).                                                         *)
(*                                                                         *)
(* A step is what happens under one lock.  A thread that waits for a       *)
(* condition may also wake up without being told.  The destructor runs     *)
(* when nobody logs.                                                       *)
(***************************************************************************)
EXTENDS Integers, Sequences, FiniteSets, SequencesExt

CONSTANTS
  Loggers,   \* threads that log
  Closer,    \* the thread that runs the destructor
  Capacity,  \* of the queue, 1024 in log.cc
  MaxLines   \* bound on the lines of each logger

ASSUME ConstantsAssumption ==
  /\ Closer \notin Loggers
  /\ Capacity \in Nat \ {0} /\ MaxLines \in Nat

VARIABLES
  queue,    \* the queue, of numbers of buffers and End
  pool,     \* reused_object_list_
  content,  \* the lines in each buffer that was made
  act,      \* what each pusher does: "idle", "push", "asleep" for a full queue
  mine,     \* the buffer each pusher is about to push
  logged,   \* number of lines each logger has begun to log
  thread,   \* what the log thread does
  hand,     \* the buffer the log thread has popped, or End
  written,  \* the lines written
  dtor,     \* how far the destructor has come; "live" before it
  isRun,    \* is_run_ of the thread
  waitCount, wakeupCount  \* of its semaphore

queueVars == <<queue, act, mine>>
bufVars   == <<pool, content, logged>>
semVars   == <<isRun, waitCount, wakeupCount>>
vars == <<queueVars, bufVars, thread, hand, written, dtor, semVars>>

Pushers == Loggers \cup {Closer}
End == 0

\* is_run_ is not initialised: if it happens to be true, start does nothing.
Init ==
  /\ queue = <<>> /\ pool = <<>> /\ content = <<>>
  /\ act = [p \in Pushers |-> "idle"] /\ mine = [p \in Pushers |-> End]
  /\ logged = [p \in Loggers |-> 0]
  /\ thread \in {"never", "pop"} /\ hand = End /\ written = <<>>
  /\ dtor = "live"
  /\ isRun = TRUE /\ waitCount = 0 /\ wakeupCount = 0

-----------------------------------------------------------------------------
(* The queue *)

\* notify_one wakes one of those that sleep, if any does.
WakePusher(a) ==
  IF \E p \in Pushers : a[p] = "asleep"
  THEN \E p \in Pushers : a[p] = "asleep" /\ act' = [a EXCEPT ![p] = "push"]
  ELSE act' = a

\* Mutant: a pop wakes a pusher only if the queue was full.
Pop_NotifiesWhenFull ==
  /\ thread = "pop" /\ queue # <<>>
  /\ hand' = Head(queue) /\ queue' = Tail(queue)
  /\ IF Len(queue) = Capacity THEN WakePusher(act) ELSE UNCHANGED act
  /\ thread' = IF Head(queue) = End THEN "wakeup" ELSE "write"
  /\ UNCHANGED <<mine, bufVars, written, dtor, semVars>>

\* ConcurrentQueue.push, under the lock: into the queue, or to sleep.
Push(p) ==
  /\ act[p] = "push"
  /\ IF Len(queue) >= Capacity THEN
       act' = [act EXCEPT ![p] = "asleep"] /\ UNCHANGED <<queue, mine, thread, dtor>>
     ELSE
       /\ queue' = Append(queue, mine[p])
       /\ act' = [act EXCEPT ![p] = "idle"] /\ mine' = [mine EXCEPT ![p] = End]
       /\ thread' = IF thread = "asleep" THEN "pop" ELSE thread
       /\ dtor' = IF p = Closer THEN "close" ELSE dtor
  /\ UNCHANGED <<bufVars, hand, written, semVars>>

\* ConcurrentQueue.pop, of the log thread; it ends with the null buffer.
Pop ==
  /\ thread = "pop" /\ queue # <<>>
  /\ hand' = Head(queue) /\ queue' = Tail(queue)
  /\ WakePusher(act)
  /\ thread' = IF Head(queue) = End THEN "wakeup" ELSE "write"
  /\ UNCHANGED <<mine, bufVars, written, dtor, semVars>>

PopSleeps ==
  /\ thread = "pop" /\ queue = <<>>
  /\ thread' = "asleep"
  /\ UNCHANGED <<queueVars, bufVars, hand, written, dtor, semVars>>

\* A condition variable wakes a thread that nobody notified.
Spurious ==
  /\ \/ thread = "asleep" /\ thread' = "pop" /\ UNCHANGED act
     \/ \E p \in Pushers : act[p] = "asleep" /\ act' = [act EXCEPT ![p] = "push"]
                           /\ UNCHANGED thread
  /\ UNCHANGED <<queue, mine, bufVars, hand, written, dtor, semVars>>

-----------------------------------------------------------------------------
(* Logging *)

\* LoggerAsyncSink.log: a buffer of the pool or a new one, which from here on
\* nobody else has, and the line behind what is in it.
Log(p) ==
  /\ act[p] = "idle" /\ dtor = "live" /\ logged[p] < MaxLines
  /\ logged' = [logged EXCEPT ![p] = @ + 1]
  /\ LET line == <<p, logged'[p]>>
     IN IF pool # <<>>
        THEN /\ mine' = [mine EXCEPT ![p] = Last(pool)] /\ pool' = Front(pool)
             /\ content' = [content EXCEPT ![Last(pool)] = Append(@, line)]
        ELSE /\ mine' = [mine EXCEPT ![p] = Len(content) + 1]
             /\ content' = Append(content, <<line>>) /\ UNCHANGED pool
  /\ act' = [act EXCEPT ![p] = "push"]
  /\ UNCHANGED <<queue, thread, hand, written, dtor, semVars>>

\* Mutant: the buffer is read out before its line is written.
WriteLine_Empty ==
  /\ thread = "write"
  /\ content' = [content EXCEPT ![hand] = <<>>]
  /\ written' = written \o content'[hand]
  /\ thread' = "return"
  /\ UNCHANGED <<queueVars, pool, logged, hand, dtor, semVars>>

\* The line is written, and read out of the buffer.
WriteLine ==
  /\ thread = "write"
  /\ written' = written \o content[hand]
  /\ content' = [content EXCEPT ![hand] = <<>>]
  /\ thread' = "return"
  /\ UNCHANGED <<queueVars, pool, logged, hand, dtor, semVars>>

\* Mutant: the log thread still holds the buffer.
ReturnBuffer_Holds ==
  /\ thread = "return"
  /\ pool' = Append(pool, hand)
  /\ thread' = "pop"
  /\ UNCHANGED <<queueVars, content, logged, hand, written, dtor, semVars>>

\* The buffer goes back to the pool.
ReturnBuffer ==
  /\ thread = "return"
  /\ pool' = Append(pool, hand) /\ hand' = End
  /\ thread' = "pop"
  /\ UNCHANGED <<queueVars, content, logged, written, dtor, semVars>>

-----------------------------------------------------------------------------
(* The end of the log thread *)

\* Mutant: counts up without counting a wake-up for one who waits.
Wakeup_NotCounted ==
  /\ thread = "wakeup"
  /\ waitCount' = waitCount + 1
  /\ wakeupCount' = IF waitCount' < 0 THEN wakeupCount + 1 ELSE wakeupCount
  /\ thread' = "clear"
  /\ UNCHANGED <<queueVars, bufVars, hand, written, dtor, isRun>>

\* Semaphore.wakeup, by Thread.onRun,
Wakeup ==
  /\ thread = "wakeup"
  /\ waitCount' = waitCount + 1
  /\ wakeupCount' = IF waitCount' <= 0 THEN wakeupCount + 1 ELSE wakeupCount
  /\ thread' = "clear"
  /\ UNCHANGED <<queueVars, bufVars, hand, written, dtor, isRun>>

\* which then clears is_run_, in memory that may have been freed.
ClearIsRun ==
  /\ thread = "clear"
  /\ thread' = "done" /\ isRun' = FALSE
  /\ UNCHANGED <<queueVars, bufVars, hand, written, dtor, waitCount, wakeupCount>>

-----------------------------------------------------------------------------
(* The destructor *)

\* Impl's destructor begins to push the null buffer.
Destroy ==
  /\ dtor = "live" /\ \A p \in Loggers : act[p] = "idle"
  /\ dtor' = "push" /\ act' = [act EXCEPT ![Closer] = "push"]
  /\ UNCHANGED <<queue, mine, bufVars, thread, hand, written, semVars>>

\* Mutant: a thread that runs is told to stop and not waited for.
Close_NoWait ==
  /\ dtor = "close"
  /\ isRun' = FALSE /\ dtor' = "freed"
  /\ UNCHANGED <<queueVars, bufVars, thread, hand, written, waitCount, wakeupCount>>

\* Thread.close waits only for a thread that has not ended.
Close ==
  /\ dtor = "close"
  /\ isRun' = FALSE /\ dtor' = IF isRun THEN "wait" ELSE "freed"
  /\ UNCHANGED <<queueVars, bufVars, thread, hand, written, waitCount, wakeupCount>>

\* Semaphore.wait: down, and asleep if nobody was up before.
Wait ==
  /\ dtor = "wait"
  /\ waitCount' = waitCount - 1
  /\ dtor' = IF waitCount' < 0 THEN "asleep" ELSE "freed"
  /\ UNCHANGED <<queueVars, bufVars, thread, hand, written, isRun, wakeupCount>>

Awake ==
  /\ dtor = "asleep" /\ wakeupCount > 0
  /\ wakeupCount' = wakeupCount - 1
  /\ dtor' = "freed"
  /\ UNCHANGED <<queueVars, bufVars, thread, hand, written, isRun, waitCount>>

-----------------------------------------------------------------------------

LogThread == Pop \/ PopSleeps \/ WriteLine \/ ReturnBuffer \/ Wakeup \/ ClearIsRun
Destructor == Push(Closer) \/ Close \/ Wait \/ Awake

Next ==
  \/ LogThread \/ Destructor \/ Destroy \/ Spurious
  \/ \E p \in Loggers : Log(p) \/ Push(p)

\* Threads run; nothing obliges anyone to log, to destroy, or to wake up
\* unasked.
Fairness ==
  WF_vars(LogThread) /\ WF_vars(Destructor) /\ \A p \in Loggers : WF_vars(Push(p))

Spec == Init /\ [][Next]_vars /\ Fairness

-----------------------------------------------------------------------------
(* Properties *)

Buffers == DOMAIN content
Lines == Loggers \X (1..MaxLines)

Places(b) ==
  Cardinality({i \in DOMAIN pool : pool[i] = b})
    + Cardinality({i \in DOMAIN queue : queue[i] = b})
    + Cardinality({p \in Pushers : mine[p] = b})
    + IF hand = b THEN 1 ELSE 0

\* Type correctness: every buffer is in one place, the pool, the queue, a
\* logger's hands or the log thread's, and has lines in it exactly from when it
\* is taken from the pool until it is written.
TypeOK ==
  /\ queue \in Seq(Buffers \cup {End}) /\ Len(queue) <= Capacity
  /\ pool \in Seq(Buffers)
  /\ content \in Seq(Seq(Lines)) /\ written \in Seq(Lines)
  /\ act \in [Pushers -> {"idle", "push", "asleep"}]
  /\ mine \in [Pushers -> Buffers \cup {End}]
  /\ logged \in [Loggers -> 0..MaxLines]
  /\ thread \in {"never", "pop", "asleep", "write", "return", "wakeup",
                 "clear", "done"}
  /\ hand \in Buffers \cup {End}
  /\ dtor \in {"live", "push", "close", "wait", "asleep", "freed"}
  /\ isRun \in BOOLEAN /\ waitCount \in -1..1 /\ wakeupCount \in 0..1
  /\ \A b \in Buffers :
       /\ Places(b) = 1
       /\ content[b] = <<>> <=> (\E i \in DOMAIN pool : pool[i] = b)
                                  \/ (hand = b /\ thread = "return")

\* The lines that wait to be written; End has none.
Waiting ==
  (IF thread = "write" THEN content[hand] ELSE <<>>)
    \o FlattenSeq([i \in DOMAIN queue |->
                     IF queue[i] = End THEN <<>> ELSE content[queue[i]]])

\* The log is a channel: what was written and what waits is what was pushed, in
\* order, each line once, however its buffer is used again.
Chan == INSTANCE Channel WITH Commands <- Lines,
          sent <- written \o Waiting, got <- Len(written)
ImplementsChannel == Chan!Spec

Among(state) == {p \in Pushers : act[p] = state}

\* No notification is lost: for every free place of the queue for which somebody
\* sleeps there is one who is awake to take it, and the log thread sleeps only
\* on an empty queue.
NobodyForgotten ==
  /\ Among("asleep") # {} =>
       Capacity - Len(queue) <= Cardinality(Among("push"))
  /\ thread = "asleep" => queue = <<>>

\* When the log of a thread that runs is freed, every line that was logged is
\* written, every buffer is in the pool, and the thread has nothing to do but
\* to clear its flag.
FreedWhenWritten ==
  dtor = "freed" /\ thread # "never" =>
    /\ thread \in {"clear", "done"} /\ queue = <<>>
    /\ Len(pool) = Len(content)
    /\ \A p \in Loggers : Cardinality({i \in DOMAIN written : written[i][1] = p})
                            = logged[p]

\* The destructor ends if the thread was started, and a logger's push too.
Terminates ==
  /\ dtor # "live" /\ thread # "never" ~> dtor = "freed"
  /\ \A p \in Loggers : act[p] # "idle" /\ thread # "never" ~> act[p] = "idle"

=============================================================================
