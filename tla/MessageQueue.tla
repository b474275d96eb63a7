---------------------------- MODULE MessageQueue ----------------------------
(***************************************************************************)
(* The queue through which the threads of zbluenet hand each other         *)
(* commands (net/message_queue.h over concurrent_queue.h and               *)
(* net/self_pipe.cc) and its two readers: a net thread, which pops until   *)
(* the queue is empty (net_thread.cc), and the main loop, which pops at    *)
(* most 100 commands per callback (tcp_service.cc).                        *)
(*                                                                         *)
(* A push is two steps, the queue under its mutex and then a byte into a   *)
(* pipe that the reader's epoll watches; the reader empties the pipe       *)
(* before it pops.  Commands are numbered by pusher.  The queues of        *)
(* commands are unbounded, so that a push never waits.                     *)
(***************************************************************************)
EXTENDS Integers, Sequences, FiniteSets

CONSTANTS
  Pushers,   \* threads that push
  Limits,    \* limits of the readers; 0 is none
  PipeSize,  \* bytes the pipe holds
  ReadSize,  \* bytes one read of the pipe takes, 1024 in the code
  MaxPushes  \* bound on the commands of each pusher

ASSUME ConstantsAssumption ==
  /\ Limits \subseteq Nat
  /\ PipeSize \in Nat \ {0}
  /\ ReadSize \in Nat \ {0}
  /\ MaxPushes \in Nat

VARIABLES
  queue,   \* the queue
  pipe,    \* bytes in the pipe
  pushed,  \* number of commands each thread has pushed
  pushing, \* threads between the two steps of a push
  reader,  \* what the reader does: "wait" in epoll, "drain" the pipe, or "pop"
  limit,   \* the most commands the reader pops in one callback
  count,   \* commands popped in the last callback
  seen,    \* history: commands queued when that callback had emptied the pipe
  taken    \* history: the commands popped

vars == <<queue, pipe, pushed, pushing, reader, limit, count, seen, taken>>

Commands == Pushers \X (1..MaxPushes)

Lower(m, n) == IF m <= n THEN m ELSE n

Init ==
  /\ queue = <<>> /\ pipe = 0
  /\ pushed = [p \in Pushers |-> 0] /\ pushing = {}
  /\ reader = "wait"
  /\ limit \in Limits
  /\ count = 0 /\ seen = 0
  /\ taken = <<>>

\* ConcurrentQueue.push, the first step of MessageQueue.push.
Push(p) ==
  /\ p \notin pushing /\ pushed[p] < MaxPushes
  /\ pushed' = [pushed EXCEPT ![p] = @ + 1]
  /\ queue' = Append(queue, <<p, pushed'[p]>>)
  /\ pushing' = pushing \cup {p}
  /\ UNCHANGED <<pipe, reader, limit, count, seen, taken>>

\* Mutant: a reader that is busy is not told.
Notify_OnlyIdle(p) ==
  /\ p \in pushing
  /\ pushing' = pushing \ {p}
  /\ pipe' = IF reader = "wait" THEN Lower(pipe + 1, PipeSize) ELSE pipe
  /\ UNCHANGED <<queue, pushed, reader, limit, count, seen, taken>>

\* The second step: a byte for the reader, which a full pipe refuses.
Notify(p) ==
  /\ p \in pushing
  /\ pushing' = pushing \ {p}
  /\ pipe' = Lower(pipe + 1, PipeSize)
  /\ UNCHANGED <<queue, pushed, reader, limit, count, seen, taken>>

\* epoll finds the pipe readable.
Wake ==
  /\ reader = "wait" /\ pipe > 0
  /\ reader' = "drain"
  /\ UNCHANGED <<queue, pipe, pushed, pushing, limit, count, seen, taken>>

\* A read of pipeReadCallback; when it finds nothing, the reader starts to pop.
Drain ==
  /\ reader = "drain"
  /\ \/ /\ pipe > 0
        /\ pipe' = pipe - Lower(pipe, ReadSize)
        /\ UNCHANGED <<reader, count, seen>>
     \/ /\ pipe = 0
        /\ reader' = "pop" /\ count' = 0 /\ seen' = Len(queue)
        /\ UNCHANGED pipe
  /\ UNCHANGED <<queue, pushed, pushing, limit, taken>>

\* Mutant: the limit is looked at between the pop and the command.
Pop_DropsAtLimit ==
  /\ reader = "pop" /\ queue # <<>>
  /\ queue' = Tail(queue)
  /\ count' = count + 1
  /\ taken' = IF limit > 0 /\ count' >= limit THEN taken
              ELSE Append(taken, Head(queue))
  /\ reader' = IF limit > 0 /\ count' >= limit THEN "wait" ELSE "pop"
  /\ UNCHANGED <<pipe, pushed, pushing, limit, seen>>

\* Mutant: a reader without a limit stops after its first command.
Pop_StopsEarly ==
  /\ reader = "pop" /\ queue # <<>>
  /\ queue' = Tail(queue)
  /\ taken' = Append(taken, Head(queue))
  /\ count' = count + 1
  /\ reader' = IF count' >= limit THEN "wait" ELSE "pop"
  /\ UNCHANGED <<pipe, pushed, pushing, limit, seen>>

\* Mutant: the callback returns only above its limit.
Pop_OneMore ==
  /\ reader = "pop" /\ queue # <<>>
  /\ queue' = Tail(queue)
  /\ taken' = Append(taken, Head(queue))
  /\ count' = count + 1
  /\ reader' = IF limit > 0 /\ count' > limit THEN "wait" ELSE "pop"
  /\ UNCHANGED <<pipe, pushed, pushing, limit, seen>>

\* A command is popped; at the limit the callback returns.
Pop ==
  /\ reader = "pop" /\ queue # <<>>
  /\ queue' = Tail(queue)
  /\ taken' = Append(taken, Head(queue))
  /\ count' = count + 1
  /\ reader' = IF limit > 0 /\ count' >= limit THEN "wait" ELSE "pop"
  /\ UNCHANGED <<pipe, pushed, pushing, limit, seen>>

\* The queue is found empty.
PopNothing ==
  /\ reader = "pop" /\ queue = <<>>
  /\ reader' = "wait"
  /\ UNCHANGED <<queue, pipe, pushed, pushing, limit, count, seen, taken>>

Read == Wake \/ Drain \/ Pop \/ PopNothing

Next == Read \/ \E p \in Pushers : Push(p) \/ Notify(p)

\* Threads run: a push is completed, and the reader's loop goes on.
Fairness == WF_vars(Read) /\ \A p \in Pushers : WF_vars(Notify(p))

Spec == Init /\ [][Next]_vars /\ Fairness

-----------------------------------------------------------------------------
(* Properties *)

\* Type correctness of the queue, its pipe and the reader, which keeps its limit.
TypeOK ==
  /\ queue \in Seq(Commands) /\ taken \in Seq(Commands)
  /\ pipe \in 0..PipeSize
  /\ pushed \in [Pushers -> 0..MaxPushes] /\ pushing \subseteq Pushers
  /\ reader \in {"wait", "drain", "pop"}
  /\ limit \in Limits /\ count \in Nat /\ seen \in Nat
  /\ limit > 0 => count <= limit

\* Nobody is about to wake the reader.
Quiet == pipe = 0 /\ pushing = {}

\* No wake-up is lost: commands stay behind while the reader sleeps and nobody
\* is about to wake it only if a callback found more of them than its limit,
\* and then exactly those beyond the limit stay.  A reader without a limit, the
\* net thread, leaves none.
OnlyBacklogWaits ==
  reader = "wait" /\ Quiet /\ queue # <<>>
    => limit > 0 /\ seen > limit /\ Len(queue) = seen - limit

\* The queue is a channel: what was popped and what waits is what was pushed,
\* in order.
Chan == INSTANCE Channel WITH sent <- taken \o queue, got <- Len(taken)
ImplementsChannel == Chan!Spec

IsTaken(c) == \E i \in DOMAIN taken : taken[i] = c

\* A net thread comes to every command that is pushed to it.
NetThreadTakesAll ==
  \A p \in Pushers, n \in 1..MaxPushes :
    limit = 0 /\ pushed[p] >= n ~> IsTaken(<<p, n>>)

=============================================================================
