# A TLA+ verification of GameTech

GameTech holds two programs: a tank game for browsers that is kept in step by a
*lockstep* (frame synchronisation) server (`src/h5_lockstep_game`), and
**zbluenet** (`src/zbluenet/zbluenet`), a C++ library of multi-threaded,
event-driven TCP servers. This directory models the parts of both that decide
what their users can rely on, checks the models with TLC, and proves the central
properties with TLAPS for every value of the constants.

Paths below start at `src/`. `H5` stands for `src/h5_lockstep_game`, `Z` for
`src/zbluenet/zbluenet/src/zbluenet`.

| Module | What it is |
| --- | --- |
| `LockstepServer` | the lockstep server, and what its messages make each page hold |
| `LockstepServer_proofs` | its theorems |
| `TankReplay` | the pages: how they receive, queue and play frames |
| `TankReplay_proofs` | its theorems |
| `Channel` | abstract: what a queue between two threads promises |
| `MessageQueue` | zbluenet's queue with its wake-up pipe; implements `Channel` |
| `MessageQueue_proofs` | its theorems |
| `NetService` | zbluenet's acceptor, net threads and main loop, joined by channels |
| `NetService_proofs` | its theorems |
| `DynamicBuffer`, `Codec` | zbluenet's buffer and its encoding of messages, as operators |
| `Connection` | one connection of a net thread, byte by byte |
| `Connection_proofs` | its theorems, and those of the buffer and the codec |
| `Timers` | abstract: what timers promise |
| `TimerHeap` | zbluenet's heap of timers and the loop that calls them; implements `Timers` |
| `TimerHeap_proofs` | its theorems |
| `AsyncLog` | the asynchronous log, its queue, thread and semaphore; implements `Channel` |
| `AsyncLog_proofs` | its theorems |
| `SequenceLemmas` | lemmas about sequences, least elements and recursive functions, for the proofs |
| `MC_*` | instances for TLC, with the `.cfg` files |

## 1. Inventory

### The lockstep game

**Server** (`H5/server/src/myserver`). One node.js event loop; every handler runs
to its end. State of `TankServer`: connected clients, the users recorded as ready
(`_readyClient`), the game's status, the commands waiting for the next step, the
step count and the history of frames. Operations: a new connection, login,
an operation from a page, the `end` and `error` events of a socket, and the timer
that broadcasts a frame each step interval. Hard: the order of logins, leaves and
steps of several pages; a user who joins a started game takes another path
through the code than the first two; a socket may report two events; the same
user may be logged in twice. Correct means: the game runs exactly while two users
play; the steps a page holds have no hole and are the same on every page; a new
game starts from nothing; pages show each other's tanks; every player's operation
is in the frame.

**WebSocket layer** (`H5/server/src/libs`): reassembles messages from binary
frames, a heartbeat mark that nothing reads, and the socket's events.

**Pages** (`H5/client/tankclient/src`): `socket.js` delivers messages, `App.js`
handles them, `framemgr.ts` queues frames and plays them in the ticks of a timer
(faster when many wait), `scenemgr.tsx` holds the tanks, `tankBase.tsx` moves
them. Hard: every page cuts a frame into ticks of its own; late pages play the
history first; ENTER and LEAVE change the scene at once while frames wait.
Correct means: the same input gives the same picture; every frame is played for
exactly its time; a page that falls behind catches up.

**Generated code, drawing, bullets**: protobuf messages (generated), canvas
output, and bullets that fly on timers of their own and that nothing reads.

### zbluenet

**Message queue** (`Z/net/message_queue.h`, `Z/concurrent_queue.h`,
`Z/net/self_pipe.cc`): a queue under a mutex plus a pipe that wakes the reader's
epoll. Hard: a push and a callback are several steps each, which interleave; the
pipe may be full; a reader may leave before the queue is empty. Correct means: a
FIFO channel that never lets its reader sleep over commands.

**Acceptor, net threads, main loop** (`Z/server/tcp_service.cc`,
`Z/server/game_service.cc`, `Z/net/net_thread.cc`, `Z/net/epoll_acceptor.cc`,
`Z/net/epoll_reactor.cc`). The acceptor's thread takes a connection, picks the net
thread with the fewest, puts it into that thread's epoll and tables and then
queues `NEW` for the main loop. Net threads queue `MESSAGE` and `CLOSE`; the main
loop keeps `connection_infos_`, calls the application and queues `MESSAGE`,
`CLOSE`, `BROADCAST`, `ENABLE_` and `DISABLE_BROADCAST` for the net threads. Hard:
three kinds of threads hold three views of who is connected; commands cross;
either side may close; attaching may fail. Correct means: the views agree up to
what is queued, the application hears of a connection in order, sockets get what
was addressed to them, and each side learns that the other is gone.

**Reactor and connections** (`Z/net/reactor.cc`, `Z/net/epoller.cc`), **buffer and
codec** (`Z/dynamic_buffer.cc`, `Z/exchange/macro.h`, `Z/protocol/net_protocol.cc`).
A connection has a read buffer, from which packets are cut and decoded, and a write
buffer for what the socket does not take at once. Hard: a packet arrives in any
pieces; errors are found by a read, by epoll, by a send (which reports with a timer)
or by the decoder, and come together; buffers grow by an unsigned difference; a
client may send packets that are too long, unknown or cut. Correct means: bytes are
neither lost nor repeated, messages are decoded as they were encoded, trouble
closes the connection once and is told last, and what is taken to be sent is sent.

**Timers** (`Z/timer_heap.cc`, `Z/net/epoll_service.cc`): a binary heap and a loop that
sleeps until the first timer is due. Hard: callbacks start and stop timers while
the heap is emptied; the clock has nanoseconds and the loop milliseconds. Correct
means: no timer early, none forgotten, the earliest first.

**Asynchronous log** (`Z/logger_async_sink.cc`, `Z/concurrent_queue.h`, `Z/thread.cc`,
`Z/semaphore.cc`, `Z/object_pool.h`): threads push lines into a bounded queue, a thread
writes them. Hard: sleeping pushers, buffers that are used again, and a destructor
that waits for a thread with a semaphore. Correct means: every line once, in order,
before the log is freed; nobody sleeps for ever.

**Shells, demos, vendored code**: start-up, the older select service, address and
socket wrappers, `zblueclient`, `selectserver`, `protobufdemo` with its copy of
protobuf.

`PROJECT.json` lists every component with its status, and the hazards of the code
at their lines.

## 2. The models

### LockstepServer

One action per handler: `Connect`, `Login`, `PushCommand`, `Update` (the step
timer), `Disconnect` and `LateEvent` (the socket's events). The handlers are
synchronous, so an action is a whole handler with everything it calls:
`Disconnect`, for instance, is `onClientExit` (record, status, history, LEAVE
broadcast) followed by `closeSocket`. The names are the code's.

Two variables describe what the server's messages make a page hold: `received`,
the frames sent to it, and `roster`, the tanks that LOGIN, ENTER and LEAVE add and
delete. They are what the page has once everything sent so far is read; how it
plays them is `TankReplay`.

Abstractions. The entries with operation 0 that `stepUpdate` adds for every client
are left out of a frame: they ask a page to do nothing. (What their `clientId`
does on a late page is in `TankReplay`, as `last`.) The step timer may fire at any
time in a started game, which covers every elapsed time. Connection identifiers
are used again once nothing is left of the old connection. Requests answered by an
error code change nothing. Two constants choose the environment: `LateEvents`
(a socket reports a second event after the first was handled) and `OrderlyPages`
(a page logs in once and sends operations afterwards only, as the real page does).
The safety run sets them to the weaker assumption, the runs that exhibit faults to
the stronger one, so that a fault is never the doing of an odd environment.

### TankReplay

The server is reduced to whom it has recorded (`ready`, the code's `_readyClient`),
its `history`, and `log`, the broadcast messages in order; `LockstepServer` is what
justifies this: a page gets every step once, in order. `Started` is the status START,
and a user who logs in then is online and not recorded, as in `onClientReady`. Each
page has a position in the log (`Receive`), a queue of frames and the tanks it shows.
`Login` is the handler of the LOGIN response (own and other tanks, history, the last
entry noted in `loginFastRunningLastFrame`). `Leave` closes a page: the record, the
history and the LEAVE broadcast of `onClientExit`, where `HistoryKept` is its decision
to drop the history when no *recorded* user is left, whoever else is online.
`Update` is one tick of `FrameMgr.Update`: the chunk (the time since the last tick
times the catch-up gear, cut at what is left of the frame), `recvOp` with its
turns, moves, walls and shots, the return to the birthplace, and the end of the
frame. `before`, `played`, `dropped` (where in the log the history was last dropped)
and `since` (what `dropped` was when a page logged in) are history variables: two
pages with the same `since` were given the same frames, by the history or after it.

Abstractions. Time and distance are small integers with the code's formulas; a
tank's speed is one. Bullets are counted, not flown. `getBornRandomePos` always
returns the same place in the code too. Each user has one page, whose connection
ends with one event; several connections of a user and second events are in
`LockstepServer`.

### Channel and MessageQueue

`Channel` is the abstract specification: what is sent, and how much of it has been
taken, in order. `MessageQueue` is the code: a push is the queue's push (`Push`)
and then a byte into the pipe (`Notify`), which a full pipe refuses; the reader
waits in epoll (`Wake`), reads the pipe until it is empty (`Drain`), then pops
(`Pop`, `PopNothing`) until the queue is empty or the limit of the callback is
reached. `limit` is 0 for a net thread and stands for the main loop's 100 when
positive. The refinement maps the channel's `sent` to `taken \o queue` and `got` to
`Len(taken)`.

### NetService

The queues are channels here (a push or a pop is one step), which `MessageQueue`
justifies for all but the wake-up of the main loop (see the findings). The
acceptor attaches a connection in three steps, as the code does, because the net
thread may act between them: `Accept` (choice of the thread, epoll, which may
fail), `Insert` (into the reactor's tables; the connection is live), `Announce`
(`NEW`). `Read` passes one message on, so that reads interleave with everything
else; `FindClosed` is every way in which a net thread finds a connection dead by
reading; `ThreadCommand(t)` is one round of `onNetCommand`; `MainCommand` one of
`processNetCommand`; `App*` are the application's operations.

Any send may fail, that of a message or one of a broadcast to several sockets
(`SendMessage` chooses which). Its connection stays in the reactor's table with the
status PENDING_ERROR (`pendingError`) until a timer of 0 ms closes it (`SendError`) or
something else does before. In between `IsConnected` is false: the commands about it,
`CLOSE` included, are skipped, broadcasts pass it by, and it is still read.

Abstractions. A message exceeds the request limit at any time (the count per
second is left out). Whether a message fits the encoding buffer is chosen with it.
"Given to a socket" is a `Reactor::sendMessage` that returns true; buffers, partial
sends and the reasons why a send fails are in `Connection`. The application uses identifiers only
between the callbacks that tell it of the connection and of its end. Socket ids
are not used again: the code counts 2^31 connections before it could. The race of
the acceptor and a net thread on the unlocked maps of a reactor is memory
corruption, which no state of the model stands for.

### DynamicBuffer, Codec and Connection

`DynamicBuffer` has a record for a buffer and an operator per method. Sizes are
`size_t`: `Growth` computes the unsigned difference modulo `Word`, and with enough
used-up bytes in front a buffer shrinks when it "grows", which TLC reaches. `Codec`
has a writer and a reader for each macro in use and for the login message of the
demo; readers are functions on byte strings that give a value and the rest, or
fail. Integers are not negative.

`Connection` is one connection of one net thread, at the byte. A client writes the
packets of one of several streams (good, padded, unknown, cut, too long) in chunks
of one or many bytes, receives, closes or resets. `Event` is epoll's; `ReadData`,
`ReadAll` and `ReadStops` are the rounds of `onSocketRead`, between which more bytes
may arrive; `Decode` is a round of `onRecvMessage`; `Finish` is what follows, with
epoll's error event. `Send` is the `MESSAGE` command down to the socket: the encoding
that may not fit, the direct send, the rest that is buffered (`SendTaken`) or does
not fit (`SendFull`), the socket that is broken (`SendFails`). `ErrorTimer` closes what
a send found broken, `CloseCommand` is the main loop's.

Abstractions. Commands and the timer run between events, as they do in the loop. The
socket's room for outgoing bytes is a constant; data that arrived before a reset can
still be read. `onSocketWrite` and `sendMessageThenClose` are left out because nothing
reaches them. That the rest is copied from the beginning of the packet
(`reactor.cc:383`) is in the model, and why `OutboundInOrder` speaks of the number of
bytes that wait and not of the bytes.

### Timers and TimerHeap

`Timers` is the abstract specification: a set of timers, of which one that is due and
(unless a stop has disturbed the order) the earliest is called, as often as it was
asked for. `TimerHeap` is the code: `Insert` and `Erase` use the two sifts of the heap
(`Up`, `Down`: recursive functions, by the place of the timer that moves, on heaps),
`Poll`, `Wake` and `BeginCheck` the loop, `Expire`, `Return` and `EndCheck` the rounds of
`checkTimeout`; the application's code, in which timers are started and stopped, runs
before the loop, in events and in timers. The clock has several ticks per
millisecond and moves at any time. `loose` notes that a stop put the heap out of order:
`minHeapErase` moves the last timer to the place of the one erased and then down, never
up, so in a heap of six it may end below a later one (`Disturbs`), and then a timer may
be called late and after a later one. Smaller heaps are safe (theorem `SmallHeaps`).

Assumptions, in `ConstantsAssumption`: no repeating timer has a timeout of 0
(`checkTimeout` would never return), and no timeout exceeds 31 bits of milliseconds
(the loop cuts it to an `int`). The clock does not go back.

### AsyncLog

A step is what happens under one lock. `Log` takes a buffer from the pool and fills
it, `Push` and `Pop` are the bounded queue with its two condition variables (which
also wake up for no reason, `Spurious`), `WriteLine` and `ReturnBuffer` the log thread,
`Destroy`, `Close`, `Wait` and `Awake` the destructor down to the semaphore, and
`Wakeup` and `ClearIsRun` the end of `Thread::onRun`. `is_run_` is not initialised: `Init`
lets the thread start or not (`"never"`). The refinement maps `Channel`'s `sent` to the
lines written and those in the queue. The destructor runs when nobody logs, as the
owner of the log must see to.

## 3. The runs

| Run | Question | Bounds |
| --- | --- | --- |
| `lockstep_safety` | Do status, history, frames and tanks stay consistent? | 3 connections (reused), 3 users, 2 steps, 1 waiting command, late events, disorderly pages |
| `lockstep_lost_op` | Is every player's operation in the step? **No** | 2 pages |
| `replay` | Is every frame played whole, to the same effect when a tank drives on, and does a page catch up? | 2 pages, 2 steps of 2 time units, ticks of 0 and 1 at a gear of 1 or 2, turns and drives, log of 5 |
| `replay_three` | What do pages agree on when one is of an unrecorded user and the history is dropped? | 3 pages, 1 step of 1 time unit, turns, drives and shots, ticks of 0 and 1, log of 7 |
| `replay_same_output` | Do pages with the same input show the same? **No** | the scene of `replay`, ticks of 0 to 2, shots |
| `queue` | Is a wake-up lost, is the queue a channel, does a net thread come to everything? | 2 pushers, 3 pushes each, limits 0, 1, 2, a pipe of 2 bytes read 1 at a time |
| `net` | Do the tables of the threads agree, do sockets get what is theirs? | 2 connections on 2 net threads, 1 message each, 2 operations, any send fails |
| `net_life` | What does the application hear, and do both sides learn of the end? | 1 connection, 3 messages, 3 operations, any send fails |
| `connection` | Are bytes kept, messages decoded, troubles closed? | 4 streams of 1 or 2 packets of 7 to 15 bytes in chunks of 1 or 20, 2 sends, buffers of 2 bytes that grow by 2, up to 16 and 8, a socket of 3 |
| `connection_send_stalls` | Is what is buffered sent? **No** | the same |
| `timers` | Is every timer called, in time and in order? | 6 timers of 2 kinds (now, once; after 1 ms, twice), 1 stop, 2 ticks per ms, a clock of 3 ms |
| `async_log` | Is every line written once before the log is freed, does anybody sleep for ever? | 2 loggers, 3 lines each, a queue of 2 |

Why the bounds are enough. `lockstep_safety`: three users are the least with a
third who joins a started game and two who leave it, two steps the least that can
disagree or leave a hole, and connections are reused, so that games follow one
another. `replay`: a frame of two units can be cut in one, two or (with ticks of no
time) more chunks; the scene is such that one frame of driving does not reach a wall
and two do. `replay_three`: three users are the least with one who is not recorded; a
log of seven has room for two logins, a frame, the third login, two leaves that drop
the history under the third page, and a login after that. `queue`: two pushers can
stand between the two steps of a push at once, three pushes exceed either limit and
overfill the pipe. `net`: two connections on two threads make the choice of a thread,
and every pair of crossing commands of one connection needs two operations at most, a
send that fails before a `CLOSE` included; `net_life` has the longer sequences
(enable, disable, broadcast; a broadcast after a send that failed; three messages).
`connection`: packets of more bytes than a buffer's unit, read in pieces, make it
grow, shrink and be emptied; two packets reach a second one behind a bad or padded
one; two sends are the least of which one waits behind the other, and together they
exceed the write buffer. `timers`: six is the least number of timers with which a stop
disturbs the heap; a clock that ends with a millisecond reaches the second call of a
timer. `async_log`: three lines each fill the queue with both loggers asleep and use
buffers again. Each property is also run against a mutated model (`PROJECT.json`,
`mutants`), a plausible bug in the code, which it must refute.

Where a run sets `CHECK_DEADLOCK FALSE`, the system rests when nobody has anything
to do: the bounds on pushes, messages and operations end every behaviour.

### Fairness

`replay`: weak fairness of `Receive` (a connection delivers what was sent) and of the
ticks that find time passed (`setInterval` fires again and again and the clock moves).
Nothing is assumed of the server or of users. `queue`: weak fairness of the reader's
loop and of the second step of a push: threads run. `net_life`: weak fairness of the
acceptor's steps, of reading, of finding a dead connection, of the timer of a failed
send and of each thread's commands: epoll is level-triggered, so an event that was not
handled comes again, the loop checks its timers after every round, and a net thread
pops until its queue is empty. Nothing is assumed of the main loop: after 100 commands
it leaves its callback with the pipe drained (`tcp_service.cc:172`), and what is
behind them may wait for ever. This is why `GoneOnBothSides` promises the application
its callback or a `CLOSE` in the queue, and not the callback alone. Clients and the
application may do nothing for ever. `connection`: weak fairness of the thread's
handling of events and of its timer, which the loop checks after every round, and of a
client that writes and receives; hanging up, sending and closing are never obliged.
`timers`: weak fairness of the clock, of the loop's own steps and of `epoll_wait`
returning when its time is over; no event need come. `async_log`: weak fairness of the
log thread, of the destructor once begun and of every push: threads run, and mutexes
are granted.

## 4. The proofs

`tlapm` checks every step. Nothing is assumed but the named assumptions of the
modules, which TLC evaluates in every run: `ConstantsAssumption` of each, and for a
connection `BufferAssumption` (sizes fit a `size_t`), `ConnectionAssumption` (the
limits of a buffer leave two units of growth below the end of a `size_t`, and a packet
of the allowed length fits the read buffer) and `PacketAssumption` (what clients
write fits the length field of a packet). Every invariant and action property that
the passing runs check is the statement of a theorem, and so are the refinements of
the two abstract modules (twice for `Channel`).

**LockstepServer_proofs**, for any connections, users, operations and bounds:

- `TypeCorrect`: `TypeOK`.
- `GameCorrect`: the game runs exactly while two users are recorded, the history
  is contiguous up to the current step, and a game without users has no history.
  Inductive invariant `GameInv`: these three with the finiteness of
  `readyClient`, without which counting says nothing.
- `PagesCorrect`: no page misses a step, and a step number is one frame everywhere.
  `NoStepMissed` and `StepAgreement` are not inductive: a connection identifier in
  use again must not inherit frames or a uid, which is `SlotsClean`, and a page
  that joins late is handed the whole history, which is contiguous by `GameInv`
  and hence closed under "next step".
- `RosterCorrect`: every page shows its own tank and those of all recorded users.
- `HistoryKept`: an action property, by cases on the step.

**TankReplay_proofs**, for any users, scene, ticks and log:

- `TypeCorrect`: the types, and that no tank leaves the canvas. A tank that turns may
  stick out by the difference of its length and its width, so the inductive set is
  `PlacedTank` and not the canvas less a tank.
- `PlayedWhole` (`FramesPlayedWhole`): what a page has played is an interval for each
  frame it was given, less those that wait and what is left of the one that runs.
  What it was given are the frames it has read since the history it began with was
  dropped the last time; their count (`CountIn`) is tied to the log message by message,
  and to the length of the history (`LogInv`, `HistoryAppend`).
- `StraightOn` (`StraightFramesAgree`, an action property): `RunningInv` says what a
  frame that runs has done so far to the tanks that were there when it began. It holds
  because to drive for `d` and then for `e` is to drive for `d + e`, also at a wall
  (`DriveTwice`).
- `PagesAgree` (`PagesAgreeOnDirections`): four invariants. `OrderInv`: the history has the
  frames of the log since it was dropped, and what waits on a page are frames it was
  given and has not played, in order. `ShownInv`: the last message about a user says
  whether the page shows it. `LoginsInv`: who has logged in once came before commanding.
  `FacingInv`, the heart: a tank faces the way of its user's last move among the frames
  the page was given, or that move is still to be played. The first three are what keeps
  a late page, which starts with the history, under the fourth. Pages with the same
  `since` have the same last move to go by.

**MessageQueue_proofs**, for any pushers, limits and pipe:

- `TypeCorrect`, and `NoWakeUpLost` (`OnlyBacklogWaits`). The inductive invariant
  adds what a callback has found, popped and left while nobody is about to wake
  the reader (`SeenInv`), why it stopped (`StopInv`) and that it is below its limit
  while it pops (`PopInv`).
- `Implements`: the queue implements `Channel`, a step for a step or a stutter.

**NetService_proofs**, for any connections, net threads, messages and operations:

- `TypeCorrect`. `TypeInv` adds the types of what is queued, that a connection in a
  table has a net thread, that no more is read than was written, and that the
  table of connections is finite, without which the least loaded thread need not exist.
- `TablesAgree` (`TablesMatch`). `TablesInv` follows each connection through the two
  queues: one that is not announced is nowhere (`FreshUnknown`), `NEW` is queued once
  and before `CLOSE` (`AnnouncedOnce`), and where the tables differ the command that
  will make them equal is queued, or the timer of a failed send will (`EndsQueued`): a
  `CLOSE` is taken off a thread's queue without effect only while that timer is set.
- `CallbacksOrdered` (`CallbacksInOrder`). `CallsInv` joins what the application has
  heard to what is still queued for the main loop: the messages that wait are numbered
  on from the last that was heard or lost, and stand between `NEW` and `CLOSE`.
- `Delivered` (`DeliveredAsAddressed`). `DeliveryInv` is the same towards the sockets: what
  was addressed to a connection and not given to its socket is owed by the queue of its
  net thread, where a broadcast counts only between `ENABLE_` and `DISABLE_BROADCAST`.
  This holds as long as `IsConnected` does; after a send that failed, what has been given
  stays a beginning of what was addressed.

**Connection_proofs**, for any packets, chunks, replies and sizes, one joint
invariant `Inv`, since the types of the messages rest on their being the clients':

- From the bytes up: what a reader gives back of what was encoded, and that it fails
  on a beginning of it; that a buffer has room for what it was grown for, also when its
  size wraps; that `recvMessage` takes the first packet whole from a buffer that holds
  the beginning of a stream of packets, or nothing.
- `TypeCorrect`; `NoByteLost` (`BytesKept`) and `MessagesRead` (`MessagesAsWritten`), by
  `ReadInv`; `ToldLast` (`CloseToldLast`), by `ToldInv`: who is gone is not handled;
  `SentInOrder` (`OutboundInOrder`).

**TimerHeap_proofs**, for any timers and clock:

- The sifts: what `Up` and `Down` compute is taken apart with `FixedPoint` (a recursion
  whose measure ends has a solution), and what they keep follows by induction from what
  a swap keeps. On the way only the timer that moves is out of order (`Rising`,
  `Sinking`). `InsertKeeps` and `EraseKeeps`: the heap has its timers, each once, and is
  in order if it was, after an erasure unless `Disturbs`.
- `TypeCorrect`, `SleepsInTime` (`SleepsUntilDue`) and `Implements` (`ImplementsTimers`, step
  by step) from `Inv`: the types, the order of the heap unless `loose`, and the property
  about sleep. The order is needed twice, to call the earliest and to sleep for it.
- `SmallHeaps`, an action property that no run checks: of five timers or less any may
  be stopped, and `loose` stays false.

**AsyncLog_proofs**, for any loggers, capacity and lines:

- `TypeCorrect`: every buffer is in one place (`OnePlace`). It needs who holds a buffer
  (`HandsInv`), that what the destructor pushes is the last to be popped (`EndInv`) and
  where destructor and thread stand at the semaphore (`SemaphoreInv`).
- `NoWakeUpLost` (`NobodyForgotten`): `WakesInv` adds that those who push are finitely many.
- `Freed` (`FreedWhenWritten`): `LinesInv` follows a line from its buffer to the log, once.
- `Implements`: the log implements `Channel`.

**SequenceLemmas**: ends of sequences, what occurs in one and once, the least element of
a set of numbers, induction and recursion stated about sets and functions, and
`FlattenSeq`, with which messages and lines are read off a sequence.

Only model-checked: everything under fairness (`CatchesUp`, `NetThreadTakesAll`,
`GoneOnBothSides`, `TroubleCloses`, `AllPassedOn`, `NoneStaysDue`, `Terminates`), which is
out of the prover's reach, as `ENABLED` is. The properties that the code refutes have
counterexamples only.

## 5. What was found

- `stepUpdate` files every command of a step under a key that is never set: of two
  players who act in one step, one operation is lost (`lockstep_lost_op`).
- What a socket does not take at once is never sent: epoll is not told to report that
  it can be written (`connection_send_stalls`), and the bytes that wait are copied from
  the beginning of the packet instead of from behind what was sent
  (`reactor.cc:383`). `OutboundInOrder` shows that at least nothing overtakes them.
- A frame's operation is applied once per tick, and the first application of a
  move only turns the tank: pages with other ticks end elsewhere
  (`replay_same_output`). `StraightFramesAgree` says where they do agree.

Seen while modelling, and part of the models, without a run of their own:

- A user who joins a started game is not recorded (`tankServer.ts:73`): the account can
  log in again from another page although `socket.js:115` has a message against it,
  and when one of the first two leaves, the game stops with two users in it
  (`src/README.md:32` says that two can play).
- The main loop leaves a callback after 100 commands with its pipe already empty
  (`tcp_service.cc:172`); the rest waits for the next push. `OnlyBacklogWaits` shows
  that this is the only way to sleep over commands.
- `is_run_` of a `Thread` is not initialised (`thread.cc:5`): when it happens to be true,
  no thread is started and the destructor of the log waits for ever. `Terminates` and
  `FreedWhenWritten` hold for a thread that was started. `onRun` writes the flag after
  it has woken the destructor up, in memory that may be freed (`thread.cc:80`).
- A heap of timers may be out of order after a stop (see above); `TcpService::stopTimer`
  looks for a timer in the wrong heap and never finds it (`tcp_service.cc:349`).
- Good packets that arrive together and exceed the read buffer close the connection
  (`reactor.cc:157`), though decoding would have made room.

Not findings against a stated promise, but what the properties had to say to be
true: messages that a net thread reads before `NEW` is queued are dropped (`lost`);
a connection that could not be attached, or was gone before its `NEW`, keeps its
entry in `connection_infos_` (`ghosts`); an application that disconnects while the
peer does, or while the timer of a failed send is set and its `CLOSE` is skipped
(`net_thread.cc:192`), gets its disconnect callback twice (`CallbacksInOrder`); and
when the last recorded user leaves, the page of an unrecorded one keeps what it has
played of the history that is dropped (`tankServer.ts:95`), so that it may face tanks
otherwise than a page that comes later (`PagesAgreeOnDirections` compares pages that
were given the same frames).

## 6. Not modelled

Listed with reasons in `PROJECT.json`: generated and vendored code (nearly all lines
of the repository are protobuf's), drawing, bullets, thin wrappers of system calls,
demonstrations, and the stateless dispatcher of messages. Partly modelled: the
WebSocket layer (its events are, its framing is not), the page's input buffer,
start-up and stop of the TCP service (the net threads are created after the acceptor
has started, `tcp_service.cc:88`, which is an access out of bounds and not a state),
the count of requests per second (a message may exceed it at any time), the select
reactor of the Windows build, and encodings without a user.

## 7. Plan

1. `NetService`: stop, and the count of requests per second; the commands that wait
   when a game of `LockstepServer` stops and become part of the next one.
2. Theorems about what is added.
3. The framing of the WebSocket layer.
