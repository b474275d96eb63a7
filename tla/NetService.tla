----------------------------- MODULE NetService -----------------------------
(***************************************************************************)
(* The server of zbluenet: server/tcp_service.cc, server/game_service.cc,  *)
(* net/net_thread.cc, net/epoll_acceptor.cc and net/epoll_reactor.cc.      *)
(* The acceptor's thread gives each new connection to a net thread; net    *)
(* threads read and write the sockets; the main loop calls the             *)
(* application.  The threads hand each other commands through queues,      *)
(* which are channels (MessageQueue), so that a push or a pop is one step. *)
(*                                                                         *)
(* The application acts in the main thread, at any time, on connections    *)
(* that it has been told of and has not been told are gone.  Socket ids    *)
(* are not used again.                                                     *)
(***************************************************************************)
EXTENDS Integers, Sequences, FiniteSets

CONSTANTS
  Conns,     \* connections
  Threads,   \* net threads, numbered from 1
  NoConn,    \* no connection
  MaxMsgs,   \* bound on the messages of a client
  MaxOps     \* bound on the operations of the application

ASSUME ConstantsAssumption ==
  /\ NoConn \notin Conns
  /\ Threads \subseteq Nat \ {0} /\ Threads # {}
  /\ MaxMsgs \in Nat /\ MaxOps \in Nat

VARIABLES
  peer,         \* the client: "up", "closed", or "broken": a reset, bad data
  written,      \* number of messages each client has written
  home,         \* the net thread of each connection; 0 before it is accepted
  accepting,    \* the connection the acceptor is attaching, or NoConn
  watched,      \* connections in sockets_ and the epoll of their net thread
  connections,  \* connections in connections_ of their net thread's reactor
  pendingError, \* those of them with status PENDING_ERROR, whose timer is set
  read,         \* number of messages the net thread has read
  broadcast,    \* the broadcast_list_ of all net threads
  mainQueue,    \* client_net_command_queue_
  threadQueue,  \* the command_queue_ of each net thread
  infos,        \* connection_infos_
  enabled,      \* connections the application has enabled for broadcasts
  ops,          \* number of operations of the application so far
  calls,        \* history: the callbacks about each connection
  lost,         \* history: messages of a connection queued before its NEW
  ghosts,       \* history: connections that were gone when their NEW was queued
  addressed,    \* history: messages the application addressed to each
  delivered     \* history: messages given to each socket

clientVars == <<peer, written>>
acceptVars == <<home, accepting, lost, ghosts>>
appVars    == <<infos, enabled, ops, calls, addressed>>
vars == <<clientVars, acceptVars, appVars, watched, connections, pendingError,
          read, broadcast, mainQueue, threadQueue, delivered>>

Init ==
  /\ peer = [c \in Conns |-> "up"] /\ written = [c \in Conns |-> 0]
  /\ home = [c \in Conns |-> 0] /\ accepting = NoConn
  /\ lost = [c \in Conns |-> 0] /\ ghosts = {}
  /\ watched = {} /\ connections = {} /\ pendingError = {}
  /\ read = [c \in Conns |-> 0]
  /\ broadcast = {}
  /\ mainQueue = <<>> /\ threadQueue = [t \in Threads |-> <<>>]
  /\ infos = {} /\ enabled = {} /\ ops = 0
  /\ calls = [c \in Conns |-> <<>>]
  /\ addressed = [c \in Conns |-> <<>>]
  /\ delivered = [c \in Conns |-> <<>>]

\* A command to the main loop; n numbers the messages of a connection.
ToMain(type, c, n) == Append(mainQueue, [type |-> type, conn |-> c, n |-> n])

\* A command to a net thread; n is the operation that sends it, and fits tells
\* whether its message fits the buffer that it is encoded in.
ToThread(type, c, n, fits) ==
  [threadQueue EXCEPT
     ![home[c]] = Append(@, [type |-> type, conn |-> c, n |-> n, fits |-> fits])]

-----------------------------------------------------------------------------
(* The clients *)

Write(c) ==
  /\ c \in watched /\ peer[c] = "up" /\ written[c] < MaxMsgs
  /\ written' = [written EXCEPT ![c] = @ + 1]
  /\ UNCHANGED <<peer, acceptVars, appVars, watched, connections, pendingError,
                 read, broadcast, mainQueue, threadQueue, delivered>>

HangUp(c, how) ==
  /\ c \in watched /\ peer[c] = "up"
  /\ peer' = [peer EXCEPT ![c] = how]
  /\ UNCHANGED <<written, acceptVars, appVars, watched, connections, pendingError,
                 read, broadcast, mainQueue, threadQueue, delivered>>

-----------------------------------------------------------------------------
(* The acceptor *)

ConnectionNum(t) == Cardinality({c \in connections : home[c] = t})

\* The first thread with the fewest connections.
LeastLoaded ==
  CHOOSE t \in Threads :
    \A u \in Threads : \/ ConnectionNum(t) < ConnectionNum(u)
                       \/ ConnectionNum(t) = ConnectionNum(u) /\ t <= u

\* A connection is accepted and goes to a thread's epoll, which may fail; the
\* result is not looked at.
Accept(c) ==
  /\ accepting = NoConn /\ home[c] = 0
  /\ home' = [home EXCEPT ![c] = LeastLoaded]
  /\ accepting' = c
  /\ watched' \in {watched, watched \cup {c}}
  /\ UNCHANGED <<clientVars, lost, ghosts, appVars, connections, pendingError,
                 read, broadcast, mainQueue, threadQueue, delivered>>

\* attachSocket makes the connection; from here on the net thread reads it,
Insert(c) ==
  /\ accepting = c /\ c \in watched \ connections
  /\ connections' = connections \cup {c}
  /\ UNCHANGED <<clientVars, acceptVars, appVars, watched, pendingError, read,
                 broadcast, mainQueue, threadQueue, delivered>>

\* and only then the main loop is told of it.
Announce(c) ==
  /\ accepting = c /\ (c \in watched => c \in connections)
  /\ accepting' = NoConn
  /\ mainQueue' = ToMain("NEW", c, 0)
  /\ lost' = [lost EXCEPT ![c] = read[c]]
  /\ ghosts' = IF c \in connections THEN ghosts ELSE ghosts \cup {c}
  /\ UNCHANGED <<clientVars, home, appVars, watched, connections, pendingError,
                 read, broadcast, threadQueue, delivered>>

-----------------------------------------------------------------------------
(* The net threads *)

\* A message is read, decoded and passed on, whatever the status.
Read(c) ==
  /\ c \in connections /\ read[c] < written[c]
  /\ read' = [read EXCEPT ![c] = @ + 1]
  /\ mainQueue' = ToMain("MESSAGE", c, read'[c])
  /\ UNCHANGED <<clientVars, acceptVars, appVars, watched, connections,
                 pendingError, broadcast, threadQueue, delivered>>

\* Mutant: the socket is deleted and its connection stays.
CloseReactorSocket_Half(c) ==
  /\ watched' = watched \ {c}
  /\ pendingError' = pendingError \ {c}
  /\ UNCHANGED connections

\* EpollReactor.closeSocket; a timer that finds no connection does nothing.
CloseReactorSocket(c) ==
  /\ connections' = connections \ {c}
  /\ watched' = watched \ {c}
  /\ pendingError' = pendingError \ {c}

\* Mutant: the reactor's socket is closed, and nobody is told.
CloseSocket_Silent(c) == CloseReactorSocket(c) /\ UNCHANGED mainQueue

\* NetThread.closeSocket: the main loop is told.
CloseSocket(c) ==
  /\ CloseReactorSocket(c)
  /\ mainQueue' = ToMain("CLOSE", c, 0)

\* The net thread finds the connection closed by its peer, once all is read, or
\* an error, bad data or too much of it, when what is unread is lost.
FindClosed(c) ==
  /\ c \in connections
  /\ \/ peer[c] = "closed" /\ read[c] = written[c]
     \/ peer[c] = "broken"
  /\ CloseSocket(c)
  /\ UNCHANGED <<clientVars, acceptVars, appVars, read, broadcast, threadQueue,
                 delivered>>

\* The timer of a failed send is due: onSendMessageError, onError.
SendError(c) ==
  /\ c \in pendingError
  /\ CloseSocket(c)
  /\ UNCHANGED <<clientVars, acceptVars, appVars, read, broadcast, threadQueue,
                 delivered>>

\* Mutant: a connection whose send failed is sent to all the same.
IsConnected_Known(c) == c \in connections

\* Reactor.isConnected: known, and no send of it has failed.
IsConnected(c) == c \in connections \ pendingError

\* Mutant: a broadcast goes to every connection.
Receivers_All(t) == {c \in Conns : IsConnected(c) /\ home[c] = t}

\* Sockets of thread t that get a message which is broadcast.
Receivers(t) == {c \in broadcast : IsConnected(c) /\ home[c] = t}

GiveTo(cs, n) ==
  delivered' = [c \in Conns |-> IF c \in cs THEN Append(delivered[c], n)
                                ELSE delivered[c]]

\* Reactor.sendMessage to sockets that are connected.  Any send may fail, at the
\* socket or for want of buffer: the socket is not given the whole message, and
\* its connection waits for a timer of 0 ms.
SendMessage(cs, n) ==
  \E failing \in SUBSET cs :
    /\ GiveTo(cs \ failing, n)
    /\ pendingError' = pendingError \cup failing

\* A thread's next command: onNetCommand.
ThreadCommand(t) ==
  /\ threadQueue[t] # <<>>
  /\ threadQueue' = [threadQueue EXCEPT ![t] = Tail(@)]
  /\ LET cmd == Head(threadQueue[t])  c == cmd.conn IN
       \/ /\ cmd.type = "BROADCAST"
          /\ SendMessage(IF cmd.fits THEN Receivers(t) ELSE {}, cmd.n)
          /\ UNCHANGED <<connections, watched, mainQueue, broadcast>>
       \/ /\ cmd.type # "BROADCAST" /\ ~IsConnected(c)
          /\ UNCHANGED <<connections, watched, pendingError, mainQueue, broadcast,
                         delivered>>
       \/ /\ cmd.type = "CLOSE" /\ IsConnected(c)
          /\ CloseReactorSocket(c)
          /\ UNCHANGED <<mainQueue, broadcast, delivered>>
       \/ /\ cmd.type = "MESSAGE" /\ IsConnected(c) /\ cmd.fits
          /\ SendMessage({c}, cmd.n)
          /\ UNCHANGED <<connections, watched, mainQueue, broadcast>>
       \/ /\ cmd.type = "MESSAGE" /\ IsConnected(c) /\ ~cmd.fits
          /\ CloseSocket(c)
          /\ UNCHANGED <<broadcast, delivered>>
       \/ /\ cmd.type = "ENABLE_BROADCAST" /\ IsConnected(c)
          /\ broadcast' = broadcast \cup {c}
          /\ UNCHANGED <<connections, watched, pendingError, mainQueue, delivered>>
       \/ /\ cmd.type = "DISABLE_BROADCAST" /\ IsConnected(c)
          /\ broadcast' = broadcast \ {c}
          /\ UNCHANGED <<connections, watched, pendingError, mainQueue, delivered>>
  /\ UNCHANGED <<clientVars, acceptVars, appVars, read>>

-----------------------------------------------------------------------------
(* The main loop and the application *)

Call(c, what, n) ==
  calls' = [calls EXCEPT ![c] = Append(@, [what |-> what, n |-> n])]

\* TcpService.onDisconnect and the application's callback.
OnDisconnect(c) ==
  /\ infos' = infos \ {c}
  /\ enabled' = enabled \ {c}
  /\ Call(c, "disconnect", 0)

\* Mutant: the net thread is not told.
Disconnect_MainOnly(c) == OnDisconnect(c) /\ UNCHANGED threadQueue

\* TcpService.disconnect.
Disconnect(c) ==
  /\ threadQueue' = ToThread("CLOSE", c, 0, TRUE)
  /\ OnDisconnect(c)

\* Mutant: a message of a connection that is not known is handled too.
Handled_Unknown(c) == TRUE

\* onMessage looks the connection up first.
Handled(c) == c \in infos

\* The main loop's next command: processNetCommand.  A message of a connection
\* that is known reaches its handler, or exceeds the limit of requests.
MainCommand ==
  /\ mainQueue # <<>>
  /\ mainQueue' = Tail(mainQueue)
  /\ LET cmd == Head(mainQueue)  c == cmd.conn IN
       \/ /\ cmd.type = "NEW"
          /\ infos' = infos \cup {c}
          /\ Call(c, "connect", 0)
          /\ UNCHANGED <<enabled, threadQueue>>
       \/ /\ cmd.type = "CLOSE"
          /\ OnDisconnect(c)
          /\ UNCHANGED threadQueue
       \/ /\ cmd.type = "MESSAGE" /\ ~Handled(c)
          /\ UNCHANGED <<infos, enabled, calls, threadQueue>>
       \/ /\ cmd.type = "MESSAGE" /\ Handled(c)
          /\ Call(c, "message", cmd.n)
          /\ UNCHANGED <<infos, enabled, threadQueue>>
       \/ /\ cmd.type = "MESSAGE" /\ Handled(c)
          /\ Disconnect(c)
  /\ UNCHANGED <<clientVars, acceptVars, ops, addressed, watched, connections,
                 pendingError, read, broadcast, delivered>>

\* An operation of the application, which is numbered.
Operate ==
  /\ ops < MaxOps /\ ops' = ops + 1
  /\ UNCHANGED <<clientVars, acceptVars, watched, connections, pendingError, read,
                 broadcast, mainQueue, delivered>>

Address(cs, fits) ==
  addressed' = [c \in Conns |-> IF c \in cs /\ fits THEN Append(addressed[c], ops')
                                ELSE addressed[c]]

AppDisconnect(c) ==
  /\ c \in infos /\ Operate
  /\ Disconnect(c)
  /\ UNCHANGED addressed

AppSend(c, fits) ==
  /\ c \in infos /\ Operate
  /\ threadQueue' = ToThread("MESSAGE", c, ops', fits)
  /\ Address({c}, fits)
  /\ UNCHANGED <<infos, enabled, calls>>

AppEnable(c) ==
  /\ c \in infos /\ Operate
  /\ threadQueue' = ToThread("ENABLE_BROADCAST", c, 0, TRUE)
  /\ enabled' = enabled \cup {c}
  /\ UNCHANGED <<infos, calls, addressed>>

AppDisable(c) ==
  /\ c \in infos /\ Operate
  /\ threadQueue' = ToThread("DISABLE_BROADCAST", c, 0, TRUE)
  /\ enabled' = enabled \ {c}
  /\ UNCHANGED <<infos, calls, addressed>>

AppBroadcast(fits) ==
  /\ Operate
  /\ threadQueue' = [t \in Threads |->
       Append(threadQueue[t], [type |-> "BROADCAST", conn |-> NoConn,
                               n |-> ops', fits |-> fits])]
  /\ Address(enabled, fits)
  /\ UNCHANGED <<infos, enabled, calls>>

-----------------------------------------------------------------------------

Next ==
  \/ \E c \in Conns :
       \/ Write(c) \/ \E how \in {"closed", "broken"} : HangUp(c, how)
       \/ Accept(c) \/ Insert(c) \/ Announce(c)
       \/ Read(c) \/ FindClosed(c) \/ SendError(c)
       \/ AppDisconnect(c) \/ AppEnable(c) \/ AppDisable(c)
       \/ \E fits \in BOOLEAN : AppSend(c, fits)
  \/ \E t \in Threads : ThreadCommand(t)
  \/ MainCommand
  \/ \E fits \in BOOLEAN : AppBroadcast(fits)

\* The acceptor and the net threads run: what they have to do, they come to.  A
\* net thread pops until its queue is empty.  The main loop pops 100 commands at
\* most for what it finds in its pipe, and then may wait for another push for
\* ever: nothing is assumed of it, nor of clients and the application.
Fairness ==
  /\ \A c \in Conns : WF_vars(Insert(c) \/ Announce(c)) /\ WF_vars(Read(c))
                      /\ WF_vars(FindClosed(c)) /\ WF_vars(SendError(c))
  /\ \A t \in Threads : WF_vars(ThreadCommand(t))

Spec == Init /\ [][Next]_vars /\ Fairness

-----------------------------------------------------------------------------
(* Properties *)

\* Type correctness of the tables and queues of the threads.
TypeOK ==
  /\ peer \in [Conns -> {"up", "closed", "broken"}]
  /\ written \in [Conns -> 0..MaxMsgs] /\ read \in [Conns -> 0..MaxMsgs]
  /\ home \in [Conns -> Threads \cup {0}] /\ accepting \in Conns \cup {NoConn}
  /\ pendingError \subseteq connections
  /\ connections \subseteq watched /\ watched \subseteq Conns
  /\ broadcast \subseteq Conns /\ enabled \subseteq infos /\ infos \subseteq Conns
  /\ \A c \in Conns : c \in infos \cup watched => home[c] \in Threads
  /\ lost \in [Conns -> 0..MaxMsgs] /\ ghosts \subseteq Conns /\ ops \in 0..MaxOps

Queued(q, type, c) == \E i \in DOMAIN q : q[i].type = type /\ q[i].conn = c

\* The main loop and the net threads agree on who is connected, up to what is
\* in the queues: an entry of connection_infos_ whose connection is gone waits
\* for its CLOSE, unless the connection was gone before it was announced, and a
\* connection without an entry waits for its NEW, for the CLOSE to its thread or,
\* when a send has failed and such a CLOSE may be skipped, for its timer.
TablesMatch ==
  \A c \in Conns :
    home[c] # 0 /\ accepting # c =>
      /\ c \in infos \ connections => c \in ghosts \/ Queued(mainQueue, "CLOSE", c)
      /\ c \in connections \ infos => \/ Queued(mainQueue, "NEW", c)
                                     \/ Queued(threadQueue[home[c]], "CLOSE", c)
                                     \/ c \in pendingError

\* The application hears of a connection in order: connected, its messages one
\* after the other, none left out but those queued before the NEW, then that it
\* is gone, which a connection closed from both sides makes it hear twice.
CallbacksInOrder ==
  \A c \in Conns \ (ghosts \cup {accepting}) :
    \A i \in DOMAIN calls[c] :
      LET call == calls[c][i] IN
        /\ call.what = "connect" <=> i = 1
        /\ call.what = "message" => calls[c][i - 1].what # "disconnect"
                                   /\ call.n = lost[c] + i - 1
        /\ call.what = "disconnect" => Len(calls[c]) <= i + 1

IsPrefixOf(s, t) == Len(s) <= Len(t) /\ s = SubSeq(t, 1, Len(s))

\* A socket is given what the application addressed to its connection, by send
\* or by broadcast, in that order, and all of it once its thread has nothing
\* left to do, while the connection is up and no send to it has failed.
DeliveredAsAddressed ==
  \A c \in Conns :
    /\ IsPrefixOf(delivered[c], addressed[c])
    /\ IsConnected(c) /\ threadQueue[home[c]] = <<>> => delivered[c] = addressed[c]

Told(c) == \E i \in DOMAIN calls[c] : calls[c][i].what = "disconnect"

\* When a client goes or a send to it fails, its socket is closed and the
\* application is told or will be by a CLOSE that is queued, whatever commands
\* cross; and when the application has been told that a connection is gone, its
\* socket is closed, also when the CLOSE to the net thread is skipped.
GoneOnBothSides ==
  \A c \in Conns :
    /\ c \in connections /\ (peer[c] # "up" \/ c \in pendingError)
         ~> c \notin watched /\ (Told(c) \/ Queued(mainQueue, "CLOSE", c))
    /\ Told(c) ~> c \notin connections

=============================================================================
