-------------------------- MODULE NetService_proofs --------------------------
(***************************************************************************)
(* Theorems about the server of zbluenet.                                  *)
(***************************************************************************)
EXTENDS NetService, SequenceLemmas, FiniteSetTheorems

-----------------------------------------------------------------------------
(* Types *)

MainCommands == [type : {"NEW", "CLOSE", "MESSAGE"}, conn : Conns, n : Nat]

ThreadCommands ==
  [type : {"CLOSE", "MESSAGE", "BROADCAST", "ENABLE_BROADCAST", "DISABLE_BROADCAST"},
   conn : Conns \cup {NoConn}, n : Nat, fits : BOOLEAN]

Callbacks == [what : {"connect", "disconnect", "message"}, n : Nat]

QueuesTyped ==
  /\ mainQueue \in Seq(MainCommands)
  /\ threadQueue \in [Threads -> Seq(ThreadCommands)]

HistoryTyped ==
  /\ calls \in [Conns -> Seq(Callbacks)]
  /\ addressed \in [Conns -> Seq(Nat)] /\ delivered \in [Conns -> Seq(Nat)]

\* A command about a connection is queued only when it has a net thread, and to
\* that thread.
HomesKnown ==
  /\ accepting # NoConn => home[accepting] \in Threads
  /\ \A i \in DOMAIN mainQueue : home[mainQueue[i].conn] \in Threads
  /\ \A t \in Threads : \A i \in DOMAIN threadQueue[t] :
       threadQueue[t][i].type # "BROADCAST" =>
         threadQueue[t][i].conn \in Conns /\ home[threadQueue[t][i].conn] = t

\* A net thread reads what was written.
ReadWritten == \A c \in Conns : read[c] <= written[c]

TypeInv ==
  /\ TypeOK /\ QueuesTyped /\ HistoryTyped /\ HomesKnown /\ ReadWritten
  /\ IsFiniteSet(connections)

\* A connection that is accepted goes to one of the net threads.
LEMMA LeastLoadedType ==
  ASSUME TypeInv PROVE LeastLoaded \in Threads
<1> DEFINE Nums == {ConnectionNum(t) : t \in Threads}
<1>1. \A t \in Threads : ConnectionNum(t) \in Nat
  <2>1. ASSUME NEW t \in Threads PROVE IsFiniteSet({c \in connections : home[c] = t})
    BY FS_Subset DEF TypeInv
  <2> QED
    BY <2>1, FS_CardinalityType DEF ConnectionNum
<1>2. Nums \in SUBSET Nat /\ Nums # {}
  BY <1>1, ConstantsAssumption
<1> HIDE DEF Nums
<1>3. PICK n \in Nums : \A m \in Nums : n <= m
  BY <1>2, LeastElement
<1> DEFINE Best == {t \in Threads : ConnectionNum(t) = n}
<1>4. Best \in SUBSET Nat /\ Best # {}
  BY <1>3, ConstantsAssumption DEF Nums
<1> HIDE DEF Best
<1>5. PICK t \in Best : \A u \in Best : t <= u
  BY <1>4, LeastElement
<1>6. \A u \in Threads : \/ ConnectionNum(t) < ConnectionNum(u)
                         \/ ConnectionNum(t) = ConnectionNum(u) /\ t <= u
  <2> TAKE u \in Threads
  <2>1. ConnectionNum(u) \in Nums
    BY DEF Nums
  <2>2. n <= ConnectionNum(u) /\ n \in Nat /\ ConnectionNum(u) \in Nat
    BY <2>1, <1>1, <1>2, <1>3
  <2>3. ConnectionNum(t) = n
    BY <1>5 DEF Best
  <2>4. CASE ConnectionNum(u) = n
    BY <2>3, <2>4, <1>5 DEF Best
  <2> QED
    BY <2>2, <2>3, <2>4
<1>7. t \in Threads
  BY <1>5 DEF Best
<1> QED
  BY <1>6, <1>7 DEF LeastLoaded

\* What a command to the main loop leaves in its queue.
LEMMA ToMainType ==
  ASSUME TypeInv, NEW c \in Conns, home[c] \in Threads, NEW n \in Nat,
         NEW type \in {"NEW", "CLOSE", "MESSAGE"}, mainQueue' = ToMain(type, c, n),
         home' = home
  PROVE  /\ mainQueue' \in Seq(MainCommands)
         /\ \A i \in DOMAIN mainQueue' : home'[mainQueue'[i].conn] \in Threads
<1> DEFINE e == [type |-> type, conn |-> c, n |-> n]
<1>1. e \in MainCommands
  BY DEF MainCommands
<1>2. mainQueue \in Seq(MainCommands) /\ mainQueue' = Append(mainQueue, e)
  BY DEF TypeInv, QueuesTyped, ToMain
<1>3. e.conn = c
  OBVIOUS
<1> HIDE DEF e
<1> QED
  BY <1>1, <1>2, <1>3, Appended DEF TypeInv, HomesKnown

\* What a command to the net thread of a connection leaves in the queues.
LEMMA ToThreadType ==
  ASSUME TypeInv, NEW c \in Conns, home[c] \in Threads, NEW n \in Nat,
         NEW fits \in BOOLEAN,
         NEW type \in {"CLOSE", "MESSAGE", "ENABLE_BROADCAST", "DISABLE_BROADCAST"},
         threadQueue' = ToThread(type, c, n, fits), home' = home
  PROVE  /\ threadQueue' \in [Threads -> Seq(ThreadCommands)]
         /\ \A t \in Threads : \A i \in DOMAIN threadQueue'[t] :
              threadQueue'[t][i].type # "BROADCAST" =>
                threadQueue'[t][i].conn \in Conns /\ home'[threadQueue'[t][i].conn] = t
<1> DEFINE e == [type |-> type, conn |-> c, n |-> n, fits |-> fits]
<1>1. e \in ThreadCommands /\ e.conn = c
  BY DEF ThreadCommands
<1>2. /\ threadQueue \in [Threads -> Seq(ThreadCommands)]
      /\ threadQueue' = [threadQueue EXCEPT ![home[c]] = Append(threadQueue[home[c]], e)]
  BY DEF TypeInv, QueuesTyped, ToThread
<1> HIDE DEF e
<1>3. /\ threadQueue'[home[c]] = Append(threadQueue[home[c]], e)
      /\ \A t \in Threads : t # home[c] => threadQueue'[t] = threadQueue[t]
  BY <1>2
<1>4. threadQueue' \in [Threads -> Seq(ThreadCommands)]
  BY <1>1, <1>2, Appended
<1>5. ASSUME NEW t \in Threads, NEW i \in DOMAIN threadQueue'[t],
             threadQueue'[t][i].type # "BROADCAST"
      PROVE  threadQueue'[t][i].conn \in Conns /\ home'[threadQueue'[t][i].conn] = t
  <2>1. CASE t # home[c]
    BY <2>1, <1>3, <1>5 DEF TypeInv, HomesKnown
  <2>2. CASE t = home[c]
    BY <2>2, <1>1, <1>2, <1>3, <1>5, Appended DEF TypeInv, HomesKnown
  <2> QED
    BY <2>1, <2>2
<1> QED
  BY <1>4, <1>5

\* A reactor that closes a connection leaves watched only what was.
LEMMA CloseSocketType ==
  ASSUME TypeInv, NEW c \in Conns, CloseReactorSocket(c)
  PROVE  /\ connections' \subseteq watched' /\ watched' \subseteq watched
         /\ pendingError' \subseteq connections' /\ IsFiniteSet(connections')
  BY FS_Subset DEF TypeInv, TypeOK, CloseReactorSocket

\* What sockets are given keeps its type.
LEMMA GiveToType ==
  ASSUME TypeInv, NEW cs, NEW n \in Nat, GiveTo(cs, n)
  PROVE  delivered' \in [Conns -> Seq(Nat)]
  BY Appended DEF TypeInv, HistoryTyped, GiveTo

\* What is sent,
LEMMA SendMessageType ==
  ASSUME TypeInv, NEW cs, cs \subseteq connections, NEW n \in Nat, SendMessage(cs, n),
         connections' = connections
  PROVE  delivered' \in [Conns -> Seq(Nat)] /\ pendingError' \subseteq connections'
<1>1. PICK failing \in SUBSET cs :
        GiveTo(cs \ failing, n) /\ pendingError' = pendingError \cup failing
  BY DEF SendMessage
<1>2. delivered' \in [Conns -> Seq(Nat)]
  BY <1>1, GiveToType
<1> QED
  BY <1>1, <1>2 DEF TypeInv, TypeOK

\* what the application hears keep their types,
LEMMA CallType ==
  ASSUME TypeInv, NEW c \in Conns, NEW n \in Nat,
         NEW what \in {"connect", "disconnect", "message"}, Call(c, what, n)
  PROVE  calls' \in [Conns -> Seq(Callbacks)]
<1>1. [what |-> what, n |-> n] \in Callbacks
  BY DEF Callbacks
<1> QED
  BY <1>1, Appended DEF TypeInv, HistoryTyped, Call

\* and what is addressed.
LEMMA AddressType ==
  ASSUME TypeInv, NEW cs, NEW fits, Address(cs, fits), ops' \in Nat
  PROVE  addressed' \in [Conns -> Seq(Nat)]
  BY Appended DEF TypeInv, HistoryTyped, Address

\* A net thread's queue without its first command.
LEMMA ThreadPopType ==
  ASSUME TypeInv, NEW t \in Threads, threadQueue[t] # <<>>, home' = home,
         threadQueue' = [threadQueue EXCEPT ![t] = Tail(@)]
  PROVE  /\ threadQueue' \in [Threads -> Seq(ThreadCommands)]
         /\ \A u \in Threads : \A i \in DOMAIN threadQueue'[u] :
              threadQueue'[u][i].type # "BROADCAST" =>
                threadQueue'[u][i].conn \in Conns /\ home'[threadQueue'[u][i].conn] = u
         /\ Head(threadQueue[t]) \in ThreadCommands
         /\ Head(threadQueue[t]).type # "BROADCAST" =>
              /\ Head(threadQueue[t]).conn \in Conns
              /\ home[Head(threadQueue[t]).conn] = t
<1>1. /\ threadQueue \in [Threads -> Seq(ThreadCommands)]
      /\ threadQueue[t] \in Seq(ThreadCommands)
  BY DEF TypeInv, QueuesTyped
<1>2. /\ threadQueue'[t] = Tail(threadQueue[t])
      /\ \A u \in Threads : u # t => threadQueue'[u] = threadQueue[u]
  BY <1>1
<1>3. threadQueue' \in [Threads -> Seq(ThreadCommands)]
  BY <1>1, Popped
<1>4. ASSUME NEW u \in Threads, NEW i \in DOMAIN threadQueue'[u],
             threadQueue'[u][i].type # "BROADCAST"
      PROVE  threadQueue'[u][i].conn \in Conns /\ home'[threadQueue'[u][i].conn] = u
  <2>1. CASE u # t
    BY <2>1, <1>2, <1>4 DEF TypeInv, HomesKnown
  <2>2. CASE u = t
    BY <2>2, <1>1, <1>2, <1>4, Popped DEF TypeInv, HomesKnown
  <2> QED
    BY <2>1, <2>2
<1>5. /\ Head(threadQueue[t]) = threadQueue[t][1] /\ 1 \in DOMAIN threadQueue[t]
      /\ Head(threadQueue[t]) \in ThreadCommands
  BY <1>1, Popped
<1> QED
  BY <1>3, <1>4, <1>5 DEF TypeInv, HomesKnown

\* Every step keeps the types.
LEMMA TypeStep == TypeInv /\ [Next]_vars => TypeInv'
<1> SUFFICES ASSUME TypeInv, [Next]_vars PROVE TypeInv'
  OBVIOUS
<1> USE ConstantsAssumption
<1>0. 0 \notin Threads
  OBVIOUS
<1>1. ASSUME NEW c \in Conns, Write(c) PROVE TypeInv'
  BY <1>1, SMTT(60) DEF TypeInv, TypeOK, QueuesTyped, HistoryTyped, HomesKnown, ReadWritten,
              Write, acceptVars, appVars
<1>2. ASSUME NEW c \in Conns, NEW how \in {"closed", "broken"}, HangUp(c, how)
      PROVE  TypeInv'
  BY <1>2 DEF TypeInv, TypeOK, QueuesTyped, HistoryTyped, HomesKnown, ReadWritten,
              HangUp, acceptVars, appVars
<1>3. ASSUME NEW c \in Conns, Accept(c) PROVE TypeInv'
  <2>1. LeastLoaded \in Threads
    BY LeastLoadedType
  <2>2. \A d \in Conns : home[d] \in Threads => home'[d] = home[d]
    BY <1>3, <1>0, <2>1 DEF Accept, TypeInv, TypeOK
  <2>3. home' \in [Conns -> Threads \cup {0}] /\ home'[c] = LeastLoaded
    BY <1>3, <2>1 DEF Accept, TypeInv, TypeOK
  <2>4. TypeOK'
    BY <1>3, <2>1, <2>2, <2>3 DEF Accept, TypeInv, TypeOK, clientVars, appVars
  <2>5. \A i \in DOMAIN mainQueue : mainQueue[i].conn \in Conns
    <3>1. \A i \in DOMAIN mainQueue : mainQueue[i] \in MainCommands
      BY DEF TypeInv, QueuesTyped
    <3> QED
      BY <3>1 DEF MainCommands
  <2>6. HomesKnown'
    BY <1>3, <1>0, <2>1, <2>2, <2>3, <2>5 DEF Accept, TypeInv, HomesKnown
  <2> QED
    BY <1>3, <2>4, <2>6
       DEF Accept, TypeInv, QueuesTyped, HistoryTyped, ReadWritten, clientVars, appVars
<1>4. ASSUME NEW c \in Conns, Insert(c) PROVE TypeInv'
  <2>1. IsFiniteSet(connections')
    BY <1>4, FS_AddElement DEF Insert, TypeInv
  <2> QED
    BY <1>4, <2>1, SMTT(60)
       DEF TypeInv, TypeOK, QueuesTyped, HistoryTyped, HomesKnown, ReadWritten,
           Insert, clientVars, acceptVars, appVars
<1>5. ASSUME NEW c \in Conns, Announce(c) PROVE TypeInv'
  <2>1. home[c] \in Threads /\ home' = home
    BY <1>5 DEF Announce, TypeInv, HomesKnown
  <2>2. /\ mainQueue' \in Seq(MainCommands)
        /\ \A i \in DOMAIN mainQueue' : home'[mainQueue'[i].conn] \in Threads
    BY <1>5, <2>1, ToMainType DEF Announce
  <2> QED
    BY <1>5, <2>2, SMTT(60)
       DEF TypeInv, TypeOK, QueuesTyped, HistoryTyped, HomesKnown, ReadWritten,
           Announce, clientVars, appVars
<1>6. ASSUME NEW c \in Conns, Read(c) PROVE TypeInv'
  <2>1. home[c] \in Threads /\ home' = home
    BY <1>6 DEF Read, TypeInv, TypeOK, acceptVars
  <2>2. read'[c] \in Nat /\ mainQueue' = ToMain("MESSAGE", c, read'[c])
    BY <1>6 DEF Read, TypeInv, TypeOK
  <2>3. /\ mainQueue' \in Seq(MainCommands)
        /\ \A i \in DOMAIN mainQueue' : home'[mainQueue'[i].conn] \in Threads
    BY <2>1, <2>2, ToMainType
  <2>4. read' \in [Conns -> 0..MaxMsgs] /\ \A d \in Conns : read'[d] <= written'[d]
    BY <1>6 DEF Read, clientVars, TypeInv, TypeOK, ReadWritten
  <2> QED
    BY <1>6, <2>3, <2>4
       DEF TypeInv, TypeOK, QueuesTyped, HistoryTyped, HomesKnown, ReadWritten,
           Read, clientVars, acceptVars, appVars
<1>7. ASSUME NEW c \in Conns, FindClosed(c) \/ SendError(c) PROVE TypeInv'
  <2>1. home[c] \in Threads /\ home' = home
    BY <1>7 DEF FindClosed, SendError, TypeInv, TypeOK, acceptVars
  <2>2. /\ mainQueue' \in Seq(MainCommands)
        /\ \A i \in DOMAIN mainQueue' : home'[mainQueue'[i].conn] \in Threads
    BY <1>7, <2>1, ToMainType DEF FindClosed, SendError, CloseSocket
  <2>3. /\ connections' \subseteq watched' /\ watched' \subseteq watched
        /\ pendingError' \subseteq connections' /\ IsFiniteSet(connections')
    BY <1>7, CloseSocketType DEF FindClosed, SendError, CloseSocket
  <2>4. UNCHANGED <<clientVars, acceptVars, appVars, read, broadcast, threadQueue, delivered>>
    BY <1>7 DEF FindClosed, SendError
  <2> QED
    BY <2>2, <2>3, <2>4
       DEF TypeInv, TypeOK, QueuesTyped, HistoryTyped, HomesKnown, ReadWritten,
           clientVars, acceptVars, appVars
<1>8. ASSUME NEW t \in Threads, ThreadCommand(t) PROVE TypeInv'
  <2> DEFINE cmd == Head(threadQueue[t])
             c == cmd.conn
  <2>1. /\ home' = home /\ threadQueue[t] # <<>>
        /\ threadQueue' = [threadQueue EXCEPT ![t] = Tail(@)]
    BY <1>8 DEF ThreadCommand, acceptVars
  <2>2. /\ threadQueue' \in [Threads -> Seq(ThreadCommands)]
        /\ \A u \in Threads : \A i \in DOMAIN threadQueue'[u] :
             threadQueue'[u][i].type # "BROADCAST" =>
               threadQueue'[u][i].conn \in Conns /\ home'[threadQueue'[u][i].conn] = u
        /\ cmd \in ThreadCommands
        /\ cmd.type # "BROADCAST" => c \in Conns /\ home[c] = t
    BY <2>1, ThreadPopType
  <2> HIDE DEF cmd
  <2>3. cmd.n \in Nat
    BY <2>2 DEF ThreadCommands
  <2> DEFINE Kept ==
        /\ mainQueue' \in Seq(MainCommands)
        /\ \A i \in DOMAIN mainQueue' : home'[mainQueue'[i].conn] \in Threads
        /\ delivered' \in [Conns -> Seq(Nat)]
        /\ connections' \subseteq watched' /\ watched' \subseteq watched
        /\ pendingError' \subseteq connections'
        /\ IsFiniteSet(connections') /\ broadcast' \subseteq Conns
  <2>4. Kept
    <3> USE DEF cmd
    <3>1. ASSUME NEW cs, cs \subseteq connections, SendMessage(cs, cmd.n),
                 UNCHANGED <<connections, watched, mainQueue, broadcast>>
          PROVE  Kept
      BY <2>1, <2>3, <3>1, SendMessageType DEF TypeInv, TypeOK, QueuesTyped, HomesKnown
    <3>2. CASE /\ UNCHANGED <<connections, watched, pendingError, mainQueue, delivered>>
               /\ broadcast' \subseteq broadcast \cup (connections \cap {c})
      BY <2>1, <3>2 DEF TypeInv, TypeOK, QueuesTyped, HomesKnown, HistoryTyped
    <3>3. CASE /\ c \in Conns /\ CloseReactorSocket(c)
               /\ UNCHANGED <<mainQueue, broadcast, delivered>>
      BY <2>1, <3>3, CloseSocketType
         DEF TypeInv, TypeOK, QueuesTyped, HomesKnown, HistoryTyped
    <3>4. CASE /\ c \in Conns /\ CloseSocket(c) /\ home[c] \in Threads
               /\ UNCHANGED <<broadcast, delivered>>
      BY <2>1, <3>4, CloseSocketType, ToMainType
         DEF TypeInv, TypeOK, HistoryTyped, CloseSocket
    <3> HIDE DEF Kept
    <3> QED
      <4>1. (IF cmd.fits THEN Receivers(t) ELSE {}) \subseteq connections
        BY DEF Receivers, IsConnected
      <4>2. IsConnected(c) => {c} \subseteq connections /\ c \in Conns
        BY DEF IsConnected, TypeInv, TypeOK
      <4> QED
        BY <1>8, <2>2, <3>1, <3>2, <3>3, <3>4, <4>1, <4>2, SMTT(60) DEF ThreadCommand
  <2> QED
    BY <1>8, <2>2, <2>4
       DEF TypeInv, TypeOK, QueuesTyped, HistoryTyped, HomesKnown, ReadWritten,
           ThreadCommand, clientVars, acceptVars, appVars
<1>9. CASE MainCommand
  <2> DEFINE cmd == Head(mainQueue)
             c == cmd.conn
  <2>1. /\ cmd \in MainCommands /\ cmd = mainQueue[1] /\ 1 \in DOMAIN mainQueue
        /\ mainQueue' \in Seq(MainCommands)
        /\ \A i \in DOMAIN mainQueue' : i + 1 \in DOMAIN mainQueue
                                       /\ mainQueue'[i] = mainQueue[i + 1]
    BY <1>9, Popped DEF MainCommand, TypeInv, QueuesTyped
  <2>2. c \in Conns /\ cmd.n \in Nat /\ home[c] \in Threads /\ home' = home
    BY <1>9, <2>1 DEF MainCommand, TypeInv, HomesKnown, MainCommands, acceptVars
  <2> HIDE DEF cmd
  <2>3. /\ \A i \in DOMAIN mainQueue' : home'[mainQueue'[i].conn] \in Threads
        /\ accepting' # NoConn => home'[accepting'] \in Threads
    BY <1>9, <2>1, <2>2 DEF MainCommand, TypeInv, HomesKnown, acceptVars
  <2> DEFINE Kept ==
        /\ threadQueue' \in [Threads -> Seq(ThreadCommands)]
        /\ \A t \in Threads : \A i \in DOMAIN threadQueue'[t] :
             threadQueue'[t][i].type # "BROADCAST" =>
               threadQueue'[t][i].conn \in Conns /\ home'[threadQueue'[t][i].conn] = t
        /\ calls' \in [Conns -> Seq(Callbacks)]
        /\ enabled' \subseteq infos' /\ infos' \subseteq infos \cup {c}
  <2>4. Kept
    <3>1. CASE UNCHANGED threadQueue
      <4>1. /\ threadQueue' \in [Threads -> Seq(ThreadCommands)]
            /\ \A t \in Threads : \A i \in DOMAIN threadQueue'[t] :
                 threadQueue'[t][i].type # "BROADCAST" =>
                   threadQueue'[t][i].conn \in Conns /\ home'[threadQueue'[t][i].conn] = t
        BY <2>2, <3>1 DEF TypeInv, QueuesTyped, HomesKnown
      <4>2. calls' \in [Conns -> Seq(Callbacks)]
        BY <1>9, <2>2, <3>1, CallType
           DEF cmd, MainCommand, TypeInv, HistoryTyped, OnDisconnect, Disconnect
      <4>3. enabled' \subseteq infos' /\ infos' \subseteq infos \cup {c}
        BY <1>9 DEF cmd, MainCommand, TypeInv, TypeOK, OnDisconnect, Disconnect
      <4> QED
        BY <4>1, <4>2, <4>3
    <3>2. CASE Disconnect(c)
      <4>1. /\ threadQueue' = ToThread("CLOSE", c, 0, TRUE)
            /\ Call(c, "disconnect", 0)
            /\ enabled' = enabled \ {c} /\ infos' = infos \ {c}
        BY <3>2 DEF Disconnect, OnDisconnect
      <4> QED
        BY <2>2, <4>1, CallType, ToThreadType DEF TypeInv, TypeOK
    <3> QED
      BY <1>9, <3>1, <3>2 DEF cmd, MainCommand
  <2> QED
    BY <1>9, <2>1, <2>2, <2>3, <2>4, ZenonT(60)
       DEF TypeInv, TypeOK, QueuesTyped, HistoryTyped, HomesKnown, ReadWritten,
           MainCommand, clientVars, acceptVars
<1>10. ASSUME NEW c \in Conns, NEW fits \in BOOLEAN,
              AppDisconnect(c) \/ AppEnable(c) \/ AppDisable(c) \/ AppSend(c, fits)
       PROVE  TypeInv'
  <2>1. home[c] \in Threads /\ home' = home /\ ops' \in 0..MaxOps /\ ops' \in Nat
    <3>1. c \in infos /\ Operate
      BY <1>10 DEF AppDisconnect, AppEnable, AppDisable, AppSend
    <3> QED
      BY <3>1 DEF Operate, TypeInv, TypeOK, acceptVars
  <2>2. /\ threadQueue' \in [Threads -> Seq(ThreadCommands)]
        /\ \A u \in Threads : \A i \in DOMAIN threadQueue'[u] :
             threadQueue'[u][i].type # "BROADCAST" =>
               threadQueue'[u][i].conn \in Conns /\ home'[threadQueue'[u][i].conn] = u
    BY <1>10, <2>1, ToThreadType DEF AppDisconnect, AppEnable, AppDisable, AppSend, Disconnect
  <2>3. addressed' \in [Conns -> Seq(Nat)] /\ calls' \in [Conns -> Seq(Callbacks)]
    BY <1>10, <2>1, AddressType, CallType
       DEF AppDisconnect, AppEnable, AppDisable, AppSend, Disconnect, OnDisconnect,
           TypeInv, HistoryTyped
  <2>4. enabled' \subseteq infos' /\ infos' \subseteq infos
    BY <1>10 DEF AppDisconnect, AppEnable, AppDisable, AppSend, Disconnect, OnDisconnect,
           TypeInv, TypeOK
  <2>5. Operate
    BY <1>10 DEF AppDisconnect, AppEnable, AppDisable, AppSend
  <2> QED
    BY <2>1, <2>2, <2>3, <2>4, <2>5
       DEF TypeInv, TypeOK, QueuesTyped, HistoryTyped, HomesKnown, ReadWritten,
           Operate, clientVars, acceptVars
<1>11. ASSUME NEW fits \in BOOLEAN, AppBroadcast(fits) PROVE TypeInv'
  <2> DEFINE e == [type |-> "BROADCAST", conn |-> NoConn, n |-> ops', fits |-> fits]
  <2>1. ops' \in 0..MaxOps /\ ops' \in Nat
    BY <1>11 DEF AppBroadcast, Operate, TypeInv, TypeOK
  <2>2. e \in ThreadCommands /\ e.type = "BROADCAST"
    BY <2>1 DEF ThreadCommands
  <2>3. threadQueue' = [t \in Threads |-> Append(threadQueue[t], e)]
    BY <1>11 DEF AppBroadcast
  <2> HIDE DEF e
  <2>4. \A t \in Threads : threadQueue'[t] = Append(threadQueue[t], e)
    BY <2>3
  <2>5. threadQueue' \in [Threads -> Seq(ThreadCommands)]
    BY <2>2, <2>3, Appended DEF TypeInv, QueuesTyped
  <2>6. ASSUME NEW t \in Threads, NEW i \in DOMAIN threadQueue'[t],
               threadQueue'[t][i].type # "BROADCAST"
        PROVE  i \in DOMAIN threadQueue[t] /\ threadQueue'[t][i] = threadQueue[t][i]
    <3>1. threadQueue[t] \in Seq(ThreadCommands)
      BY DEF TypeInv, QueuesTyped
    <3>2. threadQueue'[t] = Append(threadQueue[t], e)
      BY <2>4
    <3>3. threadQueue'[t][Len(threadQueue[t]) + 1] = e
      BY <2>2, <3>1, <3>2, Appended
    <3>4. i \in 1..(Len(threadQueue[t]) + 1) /\ i # Len(threadQueue[t]) + 1
      BY <2>2, <2>6, <3>1, <3>2, <3>3, Appended
    <3> QED
      BY <2>2, <3>1, <3>2, <3>4, Appended
  <2>7. addressed' \in [Conns -> Seq(Nat)]
    BY <1>11, <2>1, AddressType DEF AppBroadcast
  <2>8. Operate /\ UNCHANGED <<infos, enabled, calls>>
    BY <1>11 DEF AppBroadcast
  <2>9. TypeOK' /\ ReadWritten' /\ IsFiniteSet(connections')
    BY <2>1, <2>8 DEF TypeInv, TypeOK, ReadWritten, Operate, clientVars, acceptVars
  <2>10. QueuesTyped' /\ HistoryTyped' /\ HomesKnown'
    BY <2>5, <2>6, <2>7, <2>8
       DEF TypeInv, QueuesTyped, HistoryTyped, HomesKnown, Operate, acceptVars
  <2> QED
    BY <2>9, <2>10 DEF TypeInv
<1>12. CASE UNCHANGED vars
  BY <1>12 DEF TypeInv, TypeOK, QueuesTyped, HistoryTyped, HomesKnown, ReadWritten,
               vars, clientVars, acceptVars, appVars
<1> QED
  BY <1>1, <1>2, <1>3, <1>4, <1>5, <1>6, <1>7, <1>8, <1>9, <1>10, <1>11, <1>12 DEF Next

\* Type correctness, for any connections and net threads.
THEOREM TypeInvariant == Spec => []TypeInv
<1>1. Init => TypeInv
  BY ConstantsAssumption, EmptySeq, FS_EmptySet
     DEF Init, TypeInv, TypeOK, QueuesTyped, HistoryTyped, HomesKnown, ReadWritten
<1> QED
  BY <1>1, TypeStep, PTL DEF Spec

\* Type correctness of the tables and queues of the threads.
THEOREM TypeCorrect == Spec => []TypeOK
<1>1. TypeInv => TypeOK
  BY DEF TypeInv
<1> QED
  BY <1>1, TypeInvariant, PTL

-----------------------------------------------------------------------------
(* Commands in queues *)

\* At most one command of a type is queued about a connection.
Once(q, type, c) ==
  \A i, j \in DOMAIN q : q[i].type = type /\ q[i].conn = c
                        /\ q[j].type = type /\ q[j].conn = c => i = j

\* The NEW of a connection is queued before its CLOSE.
NewFirst(q, c) ==
  \A i, j \in DOMAIN q : q[i].type = "NEW" /\ q[i].conn = c
                        /\ q[j].type = "CLOSE" /\ q[j].conn = c => i < j

\* A command about a connection is queued.
Mentions(q, c) == \E i \in DOMAIN q : q[i].conn = c

\* What a queue holds about a connection, after a push
LEMMA QueuedAppend ==
  ASSUME NEW S, NEW q \in Seq(S), NEW e \in S, NEW type, NEW c
  PROVE  /\ Queued(Append(q, e), type, c) <=>
               Queued(q, type, c) \/ (e.type = type /\ e.conn = c)
         /\ Mentions(Append(q, e), c) <=> Mentions(q, c) \/ e.conn = c
         /\ Once(q, type, c) /\ (e.type = type /\ e.conn = c => ~Queued(q, type, c))
              => Once(Append(q, e), type, c)
         /\ NewFirst(q, c) /\ (e.type = "NEW" /\ e.conn = c => ~Queued(q, "CLOSE", c))
              => NewFirst(Append(q, e), c)
<1> DEFINE n == Len(q)
           r == Append(q, e)
<1>1. /\ n \in Nat /\ DOMAIN q = 1..n /\ DOMAIN r = 1..(n + 1)
      /\ \A i \in 1..n : r[i] = q[i]
      /\ r[n + 1] = e
  BY Appended
<1> HIDE DEF n, r
<1>2. \A i \in 1..(n + 1) : i \in 1..n \/ i = n + 1
  BY <1>1
<1>3. n + 1 \in 1..(n + 1) /\ \A i \in 1..n : i \in 1..(n + 1) /\ i < n + 1
  BY <1>1
<1>4. Queued(r, type, c) <=> Queued(q, type, c) \/ (e.type = type /\ e.conn = c)
  BY <1>1, <1>2, <1>3 DEF Queued
<1>5. Mentions(r, c) <=> Mentions(q, c) \/ e.conn = c
  BY <1>1, <1>2, <1>3 DEF Mentions
<1>6. Once(q, type, c) /\ (e.type = type /\ e.conn = c => ~Queued(q, type, c))
        => Once(r, type, c)
  BY <1>1, <1>2 DEF Queued, Once
<1>7. NewFirst(q, c) /\ (e.type = "NEW" /\ e.conn = c => ~Queued(q, "CLOSE", c))
        => NewFirst(r, c)
  BY <1>1, <1>2, <1>3 DEF Queued, NewFirst
<1> QED
  BY <1>4, <1>5, <1>6, <1>7 DEF r

\* and after a pop.
LEMMA QueuedPop ==
  ASSUME NEW S, NEW q \in Seq(S), q # <<>>, NEW type, NEW c
  PROVE  /\ Queued(q, type, c) <=>
               Queued(Tail(q), type, c) \/ (Head(q).type = type /\ Head(q).conn = c)
         /\ Mentions(q, c) <=> Mentions(Tail(q), c) \/ Head(q).conn = c
         /\ Once(q, type, c) =>
              /\ Once(Tail(q), type, c)
              /\ Head(q).type = type /\ Head(q).conn = c => ~Queued(Tail(q), type, c)
         /\ NewFirst(q, c) =>
              /\ NewFirst(Tail(q), c)
              /\ Head(q).type = "CLOSE" /\ Head(q).conn = c => ~Queued(q, "NEW", c)
<1> DEFINE n == Len(q)
           r == Tail(q)
           h == Head(q)
<1>1. /\ n \in Nat /\ n > 0 /\ DOMAIN q = 1..n /\ DOMAIN r = 1..(n - 1)
      /\ \A i \in 1..(n - 1) : r[i] = q[i + 1]
      /\ h = q[1]
  BY Popped
<1> HIDE DEF n, r, h
<1>2. \A i \in 1..n : i = 1 \/ (i - 1 \in 1..(n - 1) /\ q[i] = r[i - 1])
  BY <1>1
<1>3. 1 \in 1..n /\ \A i \in 1..(n - 1) : i + 1 \in 1..n /\ i + 1 # 1
  BY <1>1
<1>4. Queued(q, type, c) <=> Queued(r, type, c) \/ (h.type = type /\ h.conn = c)
  <2>1. ASSUME Queued(q, type, c) PROVE Queued(r, type, c) \/ (h.type = type /\ h.conn = c)
    <3>1. PICK i \in 1..n : q[i].type = type /\ q[i].conn = c
      BY <1>1, <2>1 DEF Queued
    <3> QED
      BY <1>1, <1>2, <3>1 DEF Queued
  <2>2. ASSUME Queued(r, type, c) PROVE Queued(q, type, c)
    BY <1>1, <1>3, <2>2 DEF Queued
  <2> QED
    BY <1>1, <1>3, <2>1, <2>2 DEF Queued
<1>5. Mentions(q, c) <=> Mentions(r, c) \/ h.conn = c
  <2>1. ASSUME Mentions(q, c) PROVE Mentions(r, c) \/ h.conn = c
    <3>1. PICK i \in 1..n : q[i].conn = c
      BY <1>1, <2>1 DEF Mentions
    <3> QED
      BY <1>1, <1>2, <3>1 DEF Mentions
  <2>2. ASSUME Mentions(r, c) PROVE Mentions(q, c)
    BY <1>1, <1>3, <2>2 DEF Mentions
  <2> QED
    BY <1>1, <1>3, <2>1, <2>2 DEF Mentions
<1>6. ASSUME Once(q, type, c)
      PROVE  /\ Once(r, type, c)
             /\ h.type = type /\ h.conn = c => ~Queued(r, type, c)
  <2>1. Once(r, type, c)
    BY <1>1, <1>3, <1>6, SMTT(60) DEF Once
  <2>2. h.type = type /\ h.conn = c => ~Queued(r, type, c)
    BY <1>1, <1>3, <1>6 DEF Once, Queued
  <2> QED
    BY <2>1, <2>2
<1>7. ASSUME NewFirst(q, c)
      PROVE  /\ NewFirst(r, c)
             /\ h.type = "CLOSE" /\ h.conn = c => ~Queued(q, "NEW", c)
  <2>1. NewFirst(r, c)
    BY <1>1, <1>3, <1>7, SMTT(60) DEF NewFirst
  <2>2. h.type = "CLOSE" /\ h.conn = c => ~Queued(q, "NEW", c)
    BY <1>1, <1>3, <1>7 DEF NewFirst, Queued
  <2> QED
    BY <2>1, <2>2
<1> QED
  BY <1>4, <1>5, <1>6, <1>7 DEF r, h

\* The main loop's queue after a push: what is queued about connection d.
LEMMA MainPushed ==
  ASSUME TypeInv, NEW c \in Conns, NEW n \in Nat, NEW d \in Conns,
         NEW type \in {"NEW", "CLOSE", "MESSAGE"}, mainQueue' = ToMain(type, c, n)
  PROVE  /\ \A k \in {"NEW", "CLOSE"} :
              /\ Queued(mainQueue', k, d) <=> Queued(mainQueue, k, d) \/ (k = type /\ d = c)
              /\ Once(mainQueue, k, d) /\ (k = type /\ d = c => ~Queued(mainQueue, k, d))
                   => Once(mainQueue', k, d)
         /\ NewFirst(mainQueue, d)
              /\ (type = "NEW" /\ d = c => ~Queued(mainQueue, "CLOSE", d))
                   => NewFirst(mainQueue', d)
<1> DEFINE e == [type |-> type, conn |-> c, n |-> n]
<1>1. /\ e \in MainCommands /\ mainQueue \in Seq(MainCommands)
      /\ mainQueue' = Append(mainQueue, e) /\ e.type = type /\ e.conn = c
  BY DEF MainCommands, TypeInv, QueuesTyped, ToMain
<1> HIDE DEF e
<1> QED
  BY <1>1, QueuedAppend

\* The same after a pop.
LEMMA MainPopped ==
  ASSUME TypeInv, mainQueue # <<>>, mainQueue' = Tail(mainQueue), NEW d \in Conns
  PROVE  /\ Head(mainQueue) \in MainCommands
         /\ \A k \in {"NEW", "CLOSE"} :
              /\ Queued(mainQueue, k, d) <=>
                   \/ Queued(mainQueue', k, d)
                   \/ Head(mainQueue).type = k /\ Head(mainQueue).conn = d
              /\ Once(mainQueue, k, d) =>
                   /\ Once(mainQueue', k, d)
                   /\ Head(mainQueue).type = k /\ Head(mainQueue).conn = d
                        => ~Queued(mainQueue', k, d)
         /\ NewFirst(mainQueue, d) =>
              /\ NewFirst(mainQueue', d)
              /\ Head(mainQueue).type = "CLOSE" /\ Head(mainQueue).conn = d
                   => ~Queued(mainQueue, "NEW", d)
<1>1. mainQueue \in Seq(MainCommands)
  BY DEF TypeInv, QueuesTyped
<1> QED
  BY <1>1, QueuedPop, Popped

\* The queues of the net threads after a push to the thread of connection c.
LEMMA ThreadPushed ==
  ASSUME TypeInv, NEW c \in Conns, home[c] \in Threads, NEW n \in Nat, NEW fits \in BOOLEAN,
         NEW type \in {"CLOSE", "MESSAGE", "ENABLE_BROADCAST", "DISABLE_BROADCAST"},
         threadQueue' = ToThread(type, c, n, fits), NEW d \in Conns, NEW t \in Threads
  PROVE  /\ Queued(threadQueue'[t], "CLOSE", d) <=>
              \/ Queued(threadQueue[t], "CLOSE", d)
              \/ type = "CLOSE" /\ d = c /\ t = home[c]
         /\ Mentions(threadQueue'[t], d) <=>
              Mentions(threadQueue[t], d) \/ (d = c /\ t = home[c])
<1> DEFINE e == [type |-> type, conn |-> c, n |-> n, fits |-> fits]
<1>1. e \in ThreadCommands /\ e.conn = c /\ e.type = type
  BY DEF ThreadCommands
<1>2. /\ threadQueue \in [Threads -> Seq(ThreadCommands)]
      /\ threadQueue' = [threadQueue EXCEPT ![home[c]] = Append(threadQueue[home[c]], e)]
  BY DEF TypeInv, QueuesTyped, ToThread
<1> HIDE DEF e
<1>3. /\ threadQueue'[home[c]] = Append(threadQueue[home[c]], e)
      /\ t # home[c] => threadQueue'[t] = threadQueue[t]
  BY <1>2
<1>4. CASE t # home[c]
  BY <1>3, <1>4
<1>5. CASE t = home[c]
  <2>1. threadQueue[t] \in Seq(ThreadCommands) /\ threadQueue'[t] = Append(threadQueue[t], e)
    BY <1>2, <1>3, <1>5
  <2>2. Queued(Append(threadQueue[t], e), "CLOSE", d) <=>
          Queued(threadQueue[t], "CLOSE", d) \/ (e.type = "CLOSE" /\ e.conn = d)
    BY <1>1, <2>1, QueuedAppend
  <2>3. Mentions(Append(threadQueue[t], e), d) <=> Mentions(threadQueue[t], d) \/ e.conn = d
    BY <1>1, <2>1, QueuedAppend, ZenonT(60)
  <2> QED
    BY <1>1, <1>5, <2>1, <2>2, <2>3
<1> QED
  BY <1>4, <1>5

\* After a pop by thread t.
LEMMA ThreadPopped ==
  ASSUME TypeInv, NEW t \in Threads, threadQueue[t] # <<>>,
         threadQueue' = [threadQueue EXCEPT ![t] = Tail(@)],
         NEW d \in Conns, NEW u \in Threads
  PROVE  /\ Queued(threadQueue[u], "CLOSE", d) <=>
              \/ Queued(threadQueue'[u], "CLOSE", d)
              \/ /\ u = t /\ Head(threadQueue[t]).type = "CLOSE"
                 /\ Head(threadQueue[t]).conn = d
         /\ Mentions(threadQueue[u], d) <=>
              \/ Mentions(threadQueue'[u], d)
              \/ u = t /\ Head(threadQueue[t]).conn = d
<1>1. /\ threadQueue \in [Threads -> Seq(ThreadCommands)]
      /\ threadQueue[t] \in Seq(ThreadCommands)
  BY DEF TypeInv, QueuesTyped
<1>2. threadQueue'[t] = Tail(threadQueue[t]) /\ (u # t => threadQueue'[u] = threadQueue[u])
  BY <1>1
<1>3. CASE u # t
  BY <1>2, <1>3
<1>4. CASE u = t
  BY <1>1, <1>2, <1>4, QueuedPop, ZenonT(60)
<1> QED
  BY <1>3, <1>4

\* After a broadcast is pushed to all of them.
LEMMA ThreadsPushed ==
  ASSUME TypeInv, NEW n \in Nat, NEW fits \in BOOLEAN,
         threadQueue' = [t \in Threads |->
           Append(threadQueue[t], [type |-> "BROADCAST", conn |-> NoConn,
                                   n |-> n, fits |-> fits])],
         NEW d \in Conns, NEW t \in Threads
  PROVE  /\ Queued(threadQueue'[t], "CLOSE", d) <=> Queued(threadQueue[t], "CLOSE", d)
         /\ Mentions(threadQueue'[t], d) <=> Mentions(threadQueue[t], d)
<1> DEFINE e == [type |-> "BROADCAST", conn |-> NoConn, n |-> n, fits |-> fits]
<1>1. e \in ThreadCommands /\ e.conn # d /\ e.type # "CLOSE"
  BY ConstantsAssumption DEF ThreadCommands
<1>2. threadQueue[t] \in Seq(ThreadCommands) /\ threadQueue'[t] = Append(threadQueue[t], e)
  BY DEF TypeInv, QueuesTyped
<1> HIDE DEF e
<1>3. Queued(Append(threadQueue[t], e), "CLOSE", d) <=>
        Queued(threadQueue[t], "CLOSE", d) \/ (e.type = "CLOSE" /\ e.conn = d)
  BY <1>1, <1>2, QueuedAppend
<1>4. Mentions(Append(threadQueue[t], e), d) <=> Mentions(threadQueue[t], d) \/ e.conn = d
  BY <1>1, <1>2, QueuedAppend
<1> QED
  BY <1>1, <1>2, <1>3, <1>4

-----------------------------------------------------------------------------
(* The tables of the main loop and of the net threads *)

\* The acceptor has not told the main loop of the connection.
Fresh(c) == home[c] = 0 \/ accepting = c

\* The application has not heard of a connection that is fresh.
FreshUnknown(c) ==
  /\ home[c] = 0 => c \notin watched
  /\ Fresh(c) => /\ c \notin infos \cup ghosts \cup broadcast
                 /\ ~Queued(mainQueue, "NEW", c)
                 /\ \A t \in Threads : ~Mentions(threadQueue[t], c)

\* A net thread announces the end of a connection once, and a connection is
\* announced once; in that order, unless it is a ghost.
AnnouncedOnce(c) ==
  /\ Queued(mainQueue, "CLOSE", c) => c \notin watched
  /\ Queued(mainQueue, "NEW", c) => c \notin infos
  /\ Once(mainQueue, "CLOSE", c) /\ Once(mainQueue, "NEW", c)
  /\ c \notin ghosts => NewFirst(mainQueue, c)

\* What one side knows and the other does not is queued, or the send that has
\* failed waits for its timer.
EndsQueued(c) ==
  /\ ~Fresh(c) /\ c \notin ghosts \cup connections
       /\ (c \in infos \/ Queued(mainQueue, "NEW", c)) => Queued(mainQueue, "CLOSE", c)
  /\ ~Fresh(c) /\ c \in connections \ infos =>
       \/ Queued(mainQueue, "NEW", c) \/ Queued(threadQueue[home[c]], "CLOSE", c)
       \/ c \in pendingError
  /\ \A t \in Threads : Queued(threadQueue[t], "CLOSE", c) =>
       c \notin infos /\ ~Queued(mainQueue, "NEW", c)

TablesInv == \A c \in Conns : FreshUnknown(c) /\ AnnouncedOnce(c) /\ EndsQueued(c)

\* Every step keeps the tables in agreement, up to what is queued.
LEMMA TablesStep == TypeInv /\ TablesInv /\ [Next]_vars => TablesInv'
<1> SUFFICES ASSUME TypeInv, TablesInv, [Next]_vars, NEW d \in Conns
             PROVE  (FreshUnknown(d) /\ AnnouncedOnce(d) /\ EndsQueued(d))'
  BY DEF TablesInv
<1> DEFINE Kept == (FreshUnknown(d) /\ AnnouncedOnce(d) /\ EndsQueued(d))'
<1> USE ConstantsAssumption
<1>0. /\ FreshUnknown(d) /\ AnnouncedOnce(d) /\ EndsQueued(d) /\ 0 \notin Threads
      /\ connections \subseteq watched /\ pendingError \subseteq connections
      /\ d \in connections => home[d] \in Threads
      /\ \A t \in Threads : Queued(threadQueue[t], "CLOSE", d) => Mentions(threadQueue[t], d)
  BY DEF TablesInv, TypeInv, TypeOK, Queued, Mentions
<1>1. ASSUME UNCHANGED <<home, accepting, ghosts, watched, connections, pendingError, infos,
                         mainQueue, threadQueue, broadcast>>
      PROVE  Kept
  BY <1>0, <1>1 DEF FreshUnknown, AnnouncedOnce, EndsQueued, Fresh
<1>3. ASSUME NEW c \in Conns, Accept(c) PROVE Kept
  <2>1. LeastLoaded \in Threads
    BY LeastLoadedType
  <2>2. /\ home'[c] # 0 /\ home[c] = 0 /\ accepting = NoConn /\ accepting' = c
        /\ d # c => home'[d] = home[d] /\ (d \in watched' <=> d \in watched)
        /\ UNCHANGED <<ghosts, connections, pendingError, infos, mainQueue, threadQueue,
                       broadcast>>
    BY <1>3, <1>0, <2>1 DEF Accept, TypeInv, TypeOK, appVars
  <2>3. Queued(mainQueue, "CLOSE", d) => d # c
    BY <1>0, <2>2 DEF TypeInv, HomesKnown, Queued
  <2> QED
    BY <1>0, <2>2, <2>3 DEF FreshUnknown, AnnouncedOnce, EndsQueued, Fresh
<1>4. ASSUME NEW c \in Conns, Insert(c) PROVE Kept
  BY <1>0, <1>4
     DEF FreshUnknown, AnnouncedOnce, EndsQueued, Fresh, Insert, acceptVars, appVars
<1>5. ASSUME NEW c \in Conns, Announce(c) PROVE Kept
  <2>1. /\ accepting = c /\ accepting' = NoConn /\ home[c] \in Threads
        /\ mainQueue' = ToMain("NEW", c, 0)
        /\ ghosts' = IF c \in connections THEN ghosts ELSE ghosts \cup {c}
        /\ UNCHANGED <<home, infos, watched, connections, pendingError, broadcast, threadQueue>>
    BY <1>5 DEF Announce, appVars, TypeInv, HomesKnown
  <2>2. /\ Queued(mainQueue', "NEW", d) <=> Queued(mainQueue, "NEW", d) \/ d = c
        /\ Queued(mainQueue', "CLOSE", d) <=> Queued(mainQueue, "CLOSE", d)
        /\ Once(mainQueue, "CLOSE", d) => Once(mainQueue', "CLOSE", d)
        /\ Once(mainQueue, "NEW", d) /\ (d = c => ~Queued(mainQueue, "NEW", d))
             => Once(mainQueue', "NEW", d)
        /\ NewFirst(mainQueue, d) /\ (d = c => ~Queued(mainQueue, "CLOSE", d))
             => NewFirst(mainQueue', d)
    BY <2>1, MainPushed
  <2>3. CASE d = c
    BY <1>0, <2>1, <2>2, <2>3 DEF FreshUnknown, AnnouncedOnce, EndsQueued, Fresh
  <2>4. CASE d # c
    BY <1>0, <2>1, <2>2, <2>4 DEF FreshUnknown, AnnouncedOnce, EndsQueued, Fresh
  <2> QED
    BY <2>3, <2>4
<1>6. ASSUME NEW c \in Conns, Read(c) PROVE Kept
  <2>1. read'[c] \in Nat /\ mainQueue' = ToMain("MESSAGE", c, read'[c])
    BY <1>6 DEF Read, TypeInv, TypeOK
  <2> QED
    BY <1>0, <1>6, <2>1, MainPushed
       DEF FreshUnknown, AnnouncedOnce, EndsQueued, Fresh, Read, acceptVars, appVars
<1>7. ASSUME NEW c \in Conns, FindClosed(c) \/ SendError(c) PROVE Kept
  BY <1>0, <1>7, MainPushed
     DEF FreshUnknown, AnnouncedOnce, EndsQueued, Fresh, FindClosed, SendError, CloseSocket,
         CloseReactorSocket, acceptVars, appVars, TypeInv, TypeOK
<1>8. ASSUME NEW t \in Threads, ThreadCommand(t) PROVE Kept
  <2> DEFINE cmd == Head(threadQueue[t])
  <2>1. /\ UNCHANGED <<home, accepting, ghosts, infos>>
        /\ threadQueue[t] # <<>> /\ threadQueue' = [threadQueue EXCEPT ![t] = Tail(@)]
    BY <1>8 DEF ThreadCommand, acceptVars, appVars
  <2>2. /\ cmd \in ThreadCommands
        /\ cmd.type # "BROADCAST" => cmd.conn \in Conns /\ home[cmd.conn] = t
    BY <2>1, ThreadPopType
  <2>3. \A u \in Threads :
          /\ Queued(threadQueue[u], "CLOSE", d) <=>
               \/ Queued(threadQueue'[u], "CLOSE", d)
               \/ u = t /\ cmd.type = "CLOSE" /\ cmd.conn = d
          /\ Mentions(threadQueue[u], d) <=>
               Mentions(threadQueue'[u], d) \/ (u = t /\ cmd.conn = d)
    BY <2>1, ThreadPopped
  <2> HIDE DEF cmd
  <2>4. CASE /\ UNCHANGED <<connections, watched, mainQueue>>
             /\ cmd.type = "CLOSE" => ~IsConnected(cmd.conn)
             /\ pendingError \subseteq pendingError'
             /\ broadcast' \subseteq broadcast \cup {cmd.conn}
    BY <1>0, <2>1, <2>2, <2>3, <2>4
       DEF FreshUnknown, AnnouncedOnce, EndsQueued, Fresh, IsConnected
  <2>5. CASE /\ cmd.type = "CLOSE" /\ CloseReactorSocket(cmd.conn)
             /\ UNCHANGED <<mainQueue, broadcast>>
    BY <1>0, <2>1, <2>2, <2>3, <2>5
       DEF FreshUnknown, AnnouncedOnce, EndsQueued, Fresh, CloseReactorSocket
  <2>6. CASE /\ cmd.type = "MESSAGE" /\ IsConnected(cmd.conn) /\ CloseSocket(cmd.conn)
             /\ UNCHANGED broadcast
    BY <1>0, <2>1, <2>2, <2>3, <2>6, MainPushed, SMTT(60)
       DEF FreshUnknown, AnnouncedOnce, EndsQueued, Fresh, CloseReactorSocket, CloseSocket,
           IsConnected, TypeInv, TypeOK
  <2> HIDE DEF Kept
  <2>7. ASSUME NEW cs, NEW n, SendMessage(cs, n) PROVE pendingError \subseteq pendingError'
    BY <2>7 DEF SendMessage
  <2> QED
    BY <1>8, <2>4, <2>5, <2>6, <2>7 DEF ThreadCommand, cmd
<1>9. ASSUME MainCommand PROVE Kept
  <2> DEFINE cmd == Head(mainQueue)
             c == cmd.conn
  <2>1. /\ UNCHANGED <<home, accepting, ghosts, watched, connections, pendingError, broadcast>>
        /\ mainQueue # <<>> /\ mainQueue' = Tail(mainQueue)
    BY <1>9 DEF MainCommand, acceptVars
  <2>2. /\ cmd \in MainCommands
        /\ \A k \in {"NEW", "CLOSE"} :
             /\ Queued(mainQueue, k, d) <=>
                  Queued(mainQueue', k, d) \/ (cmd.type = k /\ c = d)
             /\ Once(mainQueue, k, d) =>
                  /\ Once(mainQueue', k, d)
                  /\ cmd.type = k /\ c = d => ~Queued(mainQueue', k, d)
        /\ NewFirst(mainQueue, d) =>
             /\ NewFirst(mainQueue', d)
             /\ cmd.type = "CLOSE" /\ c = d => ~Queued(mainQueue, "NEW", d)
    BY <2>1, MainPopped
  <2>3. c \in Conns
    BY <2>2 DEF MainCommands
  <2> HIDE DEF cmd
  <2>4. CASE /\ cmd.type = "NEW" /\ infos' = infos \cup {c} /\ UNCHANGED threadQueue
    BY <1>0, <2>1, <2>2, <2>3, <2>4 DEF FreshUnknown, AnnouncedOnce, EndsQueued, Fresh
  <2>5. CASE /\ cmd.type = "CLOSE" /\ infos' = infos \ {c} /\ UNCHANGED threadQueue
    BY <1>0, <2>1, <2>2, <2>3, <2>5
       DEF FreshUnknown, AnnouncedOnce, EndsQueued, Fresh, TypeInv, TypeOK
  <2>6. CASE cmd.type = "MESSAGE" /\ UNCHANGED <<infos, threadQueue>>
    BY <1>0, <2>1, <2>2, <2>3, <2>6 DEF FreshUnknown, AnnouncedOnce, EndsQueued, Fresh
  <2>7. CASE cmd.type = "MESSAGE" /\ c \in infos /\ Disconnect(c)
    <3>1. /\ infos' = infos \ {c} /\ threadQueue' = ToThread("CLOSE", c, 0, TRUE)
          /\ home[c] \in Threads
      BY <2>7 DEF Disconnect, OnDisconnect, TypeInv, TypeOK
    <3>2. \A t \in Threads :
            /\ Queued(threadQueue'[t], "CLOSE", d) <=>
                 Queued(threadQueue[t], "CLOSE", d) \/ (d = c /\ t = home[c])
            /\ Mentions(threadQueue'[t], d) <=>
                 Mentions(threadQueue[t], d) \/ (d = c /\ t = home[c])
      BY <2>3, <3>1, ThreadPushed, ZenonT(60)
    <3> QED
      BY <1>0, <2>1, <2>2, <2>3, <2>7, <3>1, <3>2
         DEF FreshUnknown, AnnouncedOnce, EndsQueued, Fresh
  <2> HIDE DEF Kept
  <2> QED
    BY <1>9, <2>4, <2>5, <2>6, <2>7 DEF MainCommand, cmd, OnDisconnect, Handled
<1>10. ASSUME NEW c \in Conns,
              \/ AppDisconnect(c) \/ AppEnable(c) \/ AppDisable(c)
              \/ \E fits \in BOOLEAN : AppSend(c, fits)
       PROVE  Kept
  <2>1. /\ c \in infos /\ home[c] \in Threads /\ ops' \in Nat
        /\ UNCHANGED <<home, accepting, ghosts, watched, connections, pendingError, mainQueue,
                       broadcast>>
    <3>1. c \in infos /\ Operate
      BY <1>10 DEF AppDisconnect, AppEnable, AppDisable, AppSend
    <3> QED
      BY <3>1 DEF Operate, acceptVars, TypeInv, TypeOK
  <2>2. ASSUME AppDisconnect(c) PROVE Kept
    <3>1. infos' = infos \ {c} /\ threadQueue' = ToThread("CLOSE", c, 0, TRUE)
      BY <2>2 DEF AppDisconnect, Disconnect, OnDisconnect
    <3>2. \A t \in Threads :
            /\ Queued(threadQueue'[t], "CLOSE", d) <=>
                 Queued(threadQueue[t], "CLOSE", d) \/ (d = c /\ t = home[c])
            /\ Mentions(threadQueue'[t], d) <=>
                 Mentions(threadQueue[t], d) \/ (d = c /\ t = home[c])
      BY <2>1, <3>1, ThreadPushed, ZenonT(60)
    <3> QED
      BY <1>0, <2>1, <3>1, <3>2 DEF FreshUnknown, AnnouncedOnce, EndsQueued, Fresh
  <2>3. ASSUME AppEnable(c) \/ AppDisable(c) \/ \E fits \in BOOLEAN : AppSend(c, fits)
        PROVE  Kept
    <3>1. /\ infos' = infos
          /\ \E type \in {"MESSAGE", "ENABLE_BROADCAST", "DISABLE_BROADCAST"}, n \in Nat,
               b \in BOOLEAN : threadQueue' = ToThread(type, c, n, b)
      BY <2>1, <2>3 DEF AppEnable, AppDisable, AppSend
    <3>2. \A t \in Threads :
            /\ Queued(threadQueue'[t], "CLOSE", d) <=> Queued(threadQueue[t], "CLOSE", d)
            /\ Mentions(threadQueue'[t], d) <=>
                 Mentions(threadQueue[t], d) \/ (d = c /\ t = home[c])
      BY <2>1, <3>1, ThreadPushed
    <3> QED
      BY <1>0, <2>1, <3>1, <3>2 DEF FreshUnknown, AnnouncedOnce, EndsQueued, Fresh
  <2> QED
    BY <1>10, <2>2, <2>3
<1>11. ASSUME NEW fits \in BOOLEAN, AppBroadcast(fits) PROVE Kept
  <2>1. /\ UNCHANGED <<home, accepting, ghosts, watched, connections, pendingError, mainQueue,
                       broadcast, infos>>
        /\ ops' \in Nat
    BY <1>11 DEF AppBroadcast, Operate, acceptVars, TypeInv, TypeOK
  <2>2. \A t \in Threads :
          /\ Queued(threadQueue'[t], "CLOSE", d) <=> Queued(threadQueue[t], "CLOSE", d)
          /\ Mentions(threadQueue'[t], d) <=> Mentions(threadQueue[t], d)
    BY <1>11, <2>1, ThreadsPushed DEF AppBroadcast
  <2> QED
    BY <1>0, <2>1, <2>2 DEF FreshUnknown, AnnouncedOnce, EndsQueued, Fresh, TypeInv, TypeOK
<1>12. ASSUME NEW c \in Conns, Write(c) \/ \E how \in {"closed", "broken"} : HangUp(c, how)
       PROVE  Kept
  BY <1>1, <1>12 DEF acceptVars, appVars, Write, HangUp
<1>13. CASE UNCHANGED vars
  BY <1>1, <1>13 DEF vars, acceptVars, appVars
<1> QED
  BY <1>3, <1>4, <1>5, <1>6, <1>7, <1>8, <1>9, <1>10, <1>11, <1>12, <1>13 DEF Next, Kept

\* They agree at the start.
LEMMA TablesInit == Init => TablesInv
  BY ConstantsAssumption
     DEF Init, TablesInv, FreshUnknown, AnnouncedOnce, EndsQueued, Fresh, Queued, Mentions,
         Once, NewFirst

\* The tables of the main loop and of the net threads agree on who is connected,
\* up to what is queued, for any number of connections and net threads.
THEOREM TablesAgree == Spec => []TablesMatch
<1>1. Init => TablesInv
  BY TablesInit
<1>2. TypeInv /\ TablesInv => TablesMatch
  BY DEF TablesInv, EndsQueued, Fresh, TablesMatch
<1> QED
  BY <1>1, <1>2, TypeInvariant, TablesStep, PTL DEF Spec

-----------------------------------------------------------------------------
(* The callbacks about a connection *)

MessageAt(q, i, c) == q[i].type = "MESSAGE" /\ q[i].conn = c

\* The messages of a connection are queued in order, the last of them high.
Ascending(q, c, high) ==
  /\ \A i, j \in DOMAIN q :
       MessageAt(q, i, c) /\ MessageAt(q, j, c) /\ i < j => q[i].n < q[j].n
  /\ \A i \in DOMAIN q : MessageAt(q, i, c) => q[i].n <= high

\* Those behind a place of the queue are all the messages from low to high.
Holds(q, c, from, low, high) ==
  /\ \A i \in DOMAIN q : i > from /\ MessageAt(q, i, c) => q[i].n >= low
  /\ \A k \in low..high : \E i \in DOMAIN q :
       i > from /\ MessageAt(q, i, c) /\ q[i].n = k

\* Messages waiting for the main loop, after a push
LEMMA HoldsAppend ==
  ASSUME NEW q \in Seq(MainCommands), NEW e \in MainCommands, NEW c,
         NEW low \in Nat, NEW high \in Nat, NEW from \in 0..Len(q),
         Ascending(q, c, high)
  PROVE  /\ ~(e.type = "MESSAGE" /\ e.conn = c) =>
              /\ Ascending(Append(q, e), c, high)
              /\ Holds(q, c, from, low, high) => Holds(Append(q, e), c, from, low, high)
         /\ e.type = "MESSAGE" /\ e.conn = c /\ e.n = high + 1 =>
              /\ Ascending(Append(q, e), c, high + 1)
              /\ low <= high + 1 /\ Holds(q, c, from, low, high)
                   => Holds(Append(q, e), c, from, low, high + 1)
<1> DEFINE n == Len(q)
           r == Append(q, e)
<1>1. /\ n \in Nat /\ DOMAIN q = 1..n /\ DOMAIN r = 1..(n + 1)
      /\ \A i \in 1..n : r[i] = q[i]
      /\ r[n + 1] = e
  BY Appended
<1>2. e.n \in Nat /\ \A i \in 1..n : q[i].n \in Nat
  <2>1. \A i \in 1..n : q[i] \in MainCommands
    BY <1>1
  <2> QED
    BY <2>1 DEF MainCommands
<1>3. from <= n /\ from \in Nat
  OBVIOUS
<1> HIDE DEF n, r
<1>4. \A i \in 1..(n + 1) : i \in 1..n \/ i = n + 1
  BY <1>1
<1>5. n + 1 \in 1..(n + 1) /\ \A i \in 1..n : i \in 1..(n + 1) /\ i < n + 1
  BY <1>1
<1>6. ASSUME ~(e.type = "MESSAGE" /\ e.conn = c)
      PROVE  /\ Ascending(r, c, high)
             /\ Holds(q, c, from, low, high) => Holds(r, c, from, low, high)
  <2>1. Ascending(r, c, high)
    BY <1>1, <1>2, <1>4, <1>5, <1>6 DEF Ascending, MessageAt
  <2>2. Holds(q, c, from, low, high) => Holds(r, c, from, low, high)
    BY <1>1, <1>2, <1>4, <1>5, <1>6 DEF Holds, MessageAt
  <2> QED
    BY <2>1, <2>2
<1>7. ASSUME e.type = "MESSAGE", e.conn = c, e.n = high + 1
      PROVE  /\ Ascending(r, c, high + 1)
             /\ low <= high + 1 /\ Holds(q, c, from, low, high)
                  => Holds(r, c, from, low, high + 1)
  <2>1. Ascending(r, c, high + 1)
    <3>1. \A i \in 1..n : MessageAt(r, i, c) => MessageAt(q, i, c) /\ r[i].n = q[i].n
      BY <1>1 DEF MessageAt
    <3>2. \A i \in 1..n : MessageAt(r, i, c) => r[i].n <= high /\ r[i].n \in Nat
      BY <1>1, <1>2, <3>1 DEF Ascending
    <3>3. r[n + 1].n = high + 1
      BY <1>1, <1>7
    <3>4. ASSUME NEW i \in 1..(n + 1), NEW j \in 1..(n + 1), MessageAt(r, i, c),
                 MessageAt(r, j, c), i < j
          PROVE  r[i].n < r[j].n
      <4>1. i \in 1..n
        BY <1>1, <3>4
      <4>2. CASE j = n + 1
        BY <3>2, <3>3, <3>4, <4>1, <4>2
      <4>3. CASE j \in 1..n
        BY <1>1, <3>1, <3>4, <4>1, <4>3 DEF Ascending
      <4> QED
        BY <1>4, <4>2, <4>3
    <3>5. \A i \in 1..(n + 1) : MessageAt(r, i, c) => r[i].n <= high + 1
      BY <1>4, <3>2, <3>3
    <3> QED
      BY <1>1, <3>4, <3>5 DEF Ascending
  <2>2. ASSUME low <= high + 1, Holds(q, c, from, low, high)
        PROVE  Holds(r, c, from, low, high + 1)
    <3>1. \A i \in 1..(n + 1) : i > from /\ MessageAt(r, i, c) => r[i].n >= low
      BY <1>1, <1>2, <1>4, <1>5, <1>7, <2>2 DEF Holds, MessageAt
    <3>2. ASSUME NEW k \in low..(high + 1)
          PROVE  \E i \in 1..(n + 1) : i > from /\ MessageAt(r, i, c) /\ r[i].n = k
      <4>1. CASE k = high + 1
        BY <1>1, <1>3, <1>5, <1>7, <4>1 DEF MessageAt
      <4>2. CASE k # high + 1
        <5>1. k \in low..high
          BY <4>2
        <5>2. PICK i \in 1..n : i > from /\ MessageAt(q, i, c) /\ q[i].n = k
          BY <1>1, <2>2, <5>1 DEF Holds
        <5> QED
          BY <1>1, <1>5, <5>2 DEF MessageAt
      <4> QED
        BY <4>1, <4>2
    <3> QED
      BY <1>1, <3>1, <3>2 DEF Holds
  <2> QED
    BY <2>1, <2>2
<1> QED
  BY <1>6, <1>7 DEF r

\* and after a pop.
LEMMA HoldsPop ==
  ASSUME NEW q \in Seq(MainCommands), q # <<>>, NEW c,
         NEW low \in Nat, NEW high \in Nat, NEW from \in Nat,
         Ascending(q, c, high)
  PROVE  /\ Ascending(Tail(q), c, high)
         /\ from > 0 /\ Holds(q, c, from, low, high) => Holds(Tail(q), c, from - 1, low, high)
         /\ ~MessageAt(q, 1, c) /\ Holds(q, c, 0, low, high) => Holds(Tail(q), c, 0, low, high)
         /\ MessageAt(q, 1, c) /\ Holds(q, c, 0, low, high) =>
              q[1].n = low /\ low <= high /\ Holds(Tail(q), c, 0, low + 1, high)
<1> DEFINE n == Len(q)
           r == Tail(q)
<1>1. /\ n \in Nat /\ n > 0 /\ DOMAIN q = 1..n /\ DOMAIN r = 1..(n - 1)
      /\ \A i \in 1..(n - 1) : r[i] = q[i + 1]
  BY Popped
<1>2. \A i \in 1..n : q[i].n \in Nat
  <2>1. \A i \in 1..n : q[i] \in MainCommands
    BY <1>1
  <2> QED
    BY <2>1 DEF MainCommands
<1> HIDE DEF n, r
<1>3. \A i \in 1..n : i = 1 \/ (i - 1 \in 1..(n - 1) /\ r[i - 1] = q[i])
  BY <1>1
<1>4. 1 \in 1..n /\ \A i \in 1..(n - 1) : i + 1 \in 1..n /\ i + 1 > 1 /\ r[i] = q[i + 1]
  BY <1>1
<1>5. \A i \in 1..(n - 1) : MessageAt(r, i, c) => MessageAt(q, i + 1, c) /\ r[i].n = q[i + 1].n
  BY <1>4 DEF MessageAt
<1>6. \A i \in 1..n : i > 1 /\ MessageAt(q, i, c) =>
        i - 1 \in 1..(n - 1) /\ MessageAt(r, i - 1, c) /\ r[i - 1].n = q[i].n
  BY <1>3 DEF MessageAt
<1>7. Ascending(r, c, high)
  <2>1. ASSUME NEW i \in 1..(n - 1), NEW j \in 1..(n - 1), MessageAt(r, i, c),
               MessageAt(r, j, c), i < j
        PROVE  r[i].n < r[j].n
    <3>1. i + 1 \in 1..n /\ j + 1 \in 1..n /\ i + 1 < j + 1
      BY <1>1, <2>1
    <3> QED
      BY <1>1, <1>5, <2>1, <3>1 DEF Ascending
  <2>2. \A i \in 1..(n - 1) : MessageAt(r, i, c) => r[i].n <= high
    BY <1>1, <1>4, <1>5 DEF Ascending
  <2> QED
    BY <1>1, <2>1, <2>2 DEF Ascending
\* What is queued behind place f is queued behind place g of the rest.
<1> DEFINE
      Shifts(f, g, m) ==
        /\ \A i \in 1..(n - 1) : i > g /\ MessageAt(r, i, c) => q[i + 1].n >= m
        /\ \A i \in 1..n : i > f /\ MessageAt(q, i, c) /\ q[i].n >= m => i > 1 /\ i - 1 > g
        /\ \A k \in m..high : \E i \in 1..n : i > f /\ MessageAt(q, i, c) /\ q[i].n = k
<1>8. ASSUME NEW f \in Nat, NEW g \in Nat, NEW m \in Nat, Shifts(f, g, m)
      PROVE  Holds(r, c, g, m, high)
  <2>1. \A i \in 1..(n - 1) : i > g /\ MessageAt(r, i, c) => r[i].n >= m
    BY <1>5, <1>8
  <2>2. ASSUME NEW k \in m..high
        PROVE  \E i \in 1..(n - 1) : i > g /\ MessageAt(r, i, c) /\ r[i].n = k
    <3>1. PICK i \in 1..n : i > f /\ MessageAt(q, i, c) /\ q[i].n = k
      BY <1>8
    <3>2. i > 1 /\ i - 1 > g
      BY <1>8, <3>1
    <3> QED
      BY <1>6, <3>1, <3>2
  <2> QED
    BY <1>1, <2>1, <2>2 DEF Holds
<1>9. ASSUME from > 0, Holds(q, c, from, low, high) PROVE Holds(r, c, from - 1, low, high)
  <2>1. from - 1 \in Nat
    BY <1>9
  <2>2. ASSUME NEW i \in 1..(n - 1), i > from - 1, MessageAt(r, i, c)
        PROVE  q[i + 1].n >= low
    <3>1. i + 1 \in DOMAIN q /\ i + 1 > from /\ MessageAt(q, i + 1, c)
      BY <1>1, <1>4, <1>5, <2>2
    <3> QED
      BY <1>9, <3>1 DEF Holds
  <2>3. \A i \in 1..n : i > from => i > 1 /\ i - 1 > from - 1
    BY <1>9
  <2>4. Shifts(from, from - 1, low)
    BY <1>1, <1>9, <2>2, <2>3 DEF Holds
  <2> HIDE DEF Shifts
  <2> QED
    BY <1>8, <2>1, <2>4
<1>10. ASSUME ~MessageAt(q, 1, c), Holds(q, c, 0, low, high) PROVE Holds(r, c, 0, low, high)
  <2>1. ASSUME NEW i \in 1..(n - 1), MessageAt(r, i, c) PROVE q[i + 1].n >= low
    <3>1. i + 1 \in DOMAIN q /\ i + 1 > 0 /\ MessageAt(q, i + 1, c)
      BY <1>1, <1>4, <1>5, <2>1
    <3> QED
      BY <1>10, <3>1 DEF Holds
  <2>2. \A i \in 1..n : MessageAt(q, i, c) => i > 1 /\ i - 1 > 0
    BY <1>10
  <2>3. Shifts(0, 0, low)
    BY <1>1, <1>10, <2>1, <2>2 DEF Holds
  <2> HIDE DEF Shifts
  <2> QED
    BY <1>8, <2>3
<1>11. ASSUME MessageAt(q, 1, c), Holds(q, c, 0, low, high)
       PROVE  q[1].n = low /\ low <= high /\ Holds(r, c, 0, low + 1, high)
  <2>1. q[1].n >= low /\ q[1].n <= high /\ q[1].n \in Nat
    BY <1>1, <1>2, <1>4, <1>11 DEF Holds, Ascending
  <2>2. PICK i \in 1..n : MessageAt(q, i, c) /\ q[i].n = low
    <3>1. low \in low..high
      BY <2>1
    <3> QED
      BY <1>1, <1>11, <3>1 DEF Holds
  <2>3. i = 1
    BY <1>1, <1>4, <1>11, <2>1, <2>2, SMTT(60) DEF Ascending
  <2>4. \A j \in 1..n : j > 1 /\ MessageAt(q, j, c) => q[j].n > low
    BY <1>1, <1>4, <1>11, <2>2, <2>3 DEF Ascending
  <2>5. \A j \in 1..(n - 1) : MessageAt(r, j, c) => q[j + 1].n >= low + 1
    BY <1>2, <1>4, <1>5, <2>4
  <2>6. \A j \in 1..n : MessageAt(q, j, c) /\ q[j].n >= low + 1 => j > 1 /\ j - 1 > 0
    BY <2>2, <2>3
  <2>7. ASSUME NEW k \in (low + 1)..high
        PROVE  \E j \in 1..n : j > 0 /\ MessageAt(q, j, c) /\ q[j].n = k
    <3>1. k \in low..high
      OBVIOUS
    <3> QED
      BY <1>1, <1>11, <3>1 DEF Holds
  <2>8. Shifts(0, 0, low + 1)
    BY <2>5, <2>6, <2>7
  <2> HIDE DEF Shifts
  <2>9. Holds(r, c, 0, low + 1, high)
    BY <1>8, <2>8
  <2> QED
    BY <2>1, <2>2, <2>3, <2>9
<1> QED
  BY <1>1, <1>7, <1>9, <1>10, <1>11 DEF r

\* What the application hears of a connection before which lost_ messages were
\* queued.
Ordered(s, l) ==
  \A i \in DOMAIN s :
    /\ s[i].what = "connect" <=> i = 1
    /\ s[i].what = "message" => s[i - 1].what # "disconnect" /\ s[i].n = l + i - 1
    /\ s[i].what = "disconnect" => Len(s) <= i + 1

NoEnd(s)   == \A i \in DOMAIN s : s[i].what # "disconnect"
EndLast(s) == \A i \in DOMAIN s : s[i].what = "disconnect" => i = Len(s)

\* The callbacks about a connection, after one more.
LEMMA OrderedAppend ==
  ASSUME NEW s \in Seq(Callbacks), NEW call \in Callbacks, NEW l \in Nat, Ordered(s, l)
  PROVE  /\ Append(s, call) # <<>> /\ Len(Append(s, call)) = Len(s) + 1 /\ Len(s) \in Nat
         /\ call.what = "connect" /\ s = <<>> =>
              Ordered(Append(s, call), l) /\ NoEnd(Append(s, call))
         /\ call.what = "message" /\ s # <<>> /\ NoEnd(s) /\ call.n = l + Len(s) =>
              Ordered(Append(s, call), l) /\ NoEnd(Append(s, call))
         /\ call.what = "disconnect" /\ s # <<>> =>
              /\ EndLast(s) => Ordered(Append(s, call), l)
              /\ NoEnd(s) => Ordered(Append(s, call), l) /\ EndLast(Append(s, call))
<1> DEFINE n == Len(s)
           r == Append(s, call)
<1>1. /\ n \in Nat /\ DOMAIN s = 1..n /\ DOMAIN r = 1..(n + 1) /\ Len(r) = n + 1
      /\ \A i \in 1..n : r[i] = s[i]
      /\ r[n + 1] = call /\ r # <<>>
  BY Appended, EmptySeq
<1>2. s # <<>> <=> n > 0
  BY <1>1, EmptySeq
<1> HIDE DEF n, r
<1>3. \A i \in 1..(n + 1) : i \in 1..n \/ i = n + 1
  BY <1>1
<1>4. \A i \in 1..n : i # 1 => r[i - 1] = s[i - 1] /\ s[i].what # "connect"
  BY <1>1 DEF Ordered
<1>5. ASSUME call.what = "connect", n = 0 PROVE Ordered(r, l) /\ NoEnd(r)
  BY <1>1, <1>3, <1>5 DEF Ordered, NoEnd
<1>6. ASSUME call.what = "message", n > 0, NoEnd(s), call.n = l + n
      PROVE  Ordered(r, l) /\ NoEnd(r)
  <2>1. NoEnd(r)
    BY <1>1, <1>3, <1>6 DEF NoEnd
  <2>2. ASSUME NEW i \in 1..(n + 1)
        PROVE  /\ r[i].what = "connect" <=> i = 1
               /\ r[i].what = "message" => r[i - 1].what # "disconnect" /\ r[i].n = l + i - 1
               /\ r[i].what = "disconnect" => Len(r) <= i + 1
    <3>1. CASE i = n + 1
      <4>1. n \in 1..n /\ r[n] = s[n]
        BY <1>1, <1>6
      <4> QED
        BY <1>1, <1>6, <3>1, <4>1 DEF NoEnd
    <3>2. CASE i \in 1..n
      <4>1. r[i] = s[i] /\ (i # 1 => r[i - 1] = s[i - 1])
        BY <1>1, <1>4, <3>2
      <4>2. /\ s[i].what = "connect" <=> i = 1
            /\ s[i].what = "message" => s[i - 1].what # "disconnect" /\ s[i].n = l + i - 1
            /\ s[i].what # "disconnect"
        BY <1>1, <1>6, <3>2 DEF Ordered, NoEnd
      <4>3. s[i].what = "message" => i # 1
        BY <4>2
      <4> QED
        BY <4>1, <4>2, <4>3
    <3> QED
      BY <1>3, <3>1, <3>2
  <2> QED
    BY <1>1, <2>1, <2>2 DEF Ordered
<1>7. ASSUME call.what = "disconnect", n > 0, EndLast(s) PROVE Ordered(r, l)
  <2>1. ASSUME NEW i \in 1..(n + 1)
        PROVE  /\ r[i].what = "connect" <=> i = 1
               /\ r[i].what = "message" => r[i - 1].what # "disconnect" /\ r[i].n = l + i - 1
               /\ r[i].what = "disconnect" => Len(r) <= i + 1
    <3>1. CASE i = n + 1
      BY <1>1, <1>7, <3>1
    <3>2. CASE i \in 1..n
      <4>1. r[i] = s[i] /\ (i # 1 => r[i - 1] = s[i - 1])
        BY <1>1, <1>4, <3>2
      <4>2. s[i].what = "disconnect" => i = n
        BY <1>1, <1>7, <3>2 DEF EndLast, n
      <4>3. /\ s[i].what = "connect" <=> i = 1
            /\ s[i].what = "message" => s[i - 1].what # "disconnect" /\ s[i].n = l + i - 1
        BY <1>1, <3>2 DEF Ordered
      <4>4. s[i].what = "message" => i # 1
        BY <4>3
      <4> QED
        BY <1>1, <4>1, <4>2, <4>3, <4>4
    <3> QED
      BY <1>3, <3>1, <3>2
  <2> QED
    BY <1>1, <2>1 DEF Ordered
<1>8. ASSUME call.what = "disconnect", n > 0, NoEnd(s) PROVE Ordered(r, l) /\ EndLast(r)
  <2>1. EndLast(s)
    BY <1>8 DEF NoEnd, EndLast
  <2>2. EndLast(r)
    BY <1>1, <1>3, <1>8 DEF NoEnd, EndLast
  <2> QED
    BY <1>7, <1>8, <2>1, <2>2
<1>9. n = 0 <=> s = <<>>
  BY <1>1, <1>2
<1> QED
  BY <1>1, <1>2, <1>9, <1>5, <1>6, <1>7, <1>8 DEF r, n

\* The application has heard of a connection when its NEW is gone from the queue;
\* of one that is fresh it may hear the end, when that comes first.
HeardOf(c) ==
  /\ home[c] = 0 \/ (Fresh(c) /\ c \in watched) => calls[c] = <<>>
  /\ c \notin ghosts =>
       /\ Queued(mainQueue, "NEW", c) => calls[c] = <<>>
       /\ ~Fresh(c) /\ calls[c] = <<>> => Queued(mainQueue, "NEW", c)

\* It has heard what is right, and more can come.
HeardRight(c) ==
  ~Fresh(c) /\ c \notin ghosts =>
    /\ Ordered(calls[c], lost[c])
    /\ c \in infos => calls[c] # <<>> /\ NoEnd(calls[c])
    /\ c \in connections \/ Queued(mainQueue, "CLOSE", c) => EndLast(calls[c])

\* The messages that it has not heard are queued, behind the NEW.
HeldBehindNew(c) ==
  \A j \in DOMAIN mainQueue : mainQueue[j].type = "NEW" /\ mainQueue[j].conn = c =>
    lost[c] <= read[c] /\ Holds(mainQueue, c, j, lost[c] + 1, read[c])

ToBeHeard(c) ==
  /\ Ascending(mainQueue, c, read[c])
  /\ HeldBehindNew(c)
  /\ c \in infos /\ c \notin ghosts =>
       /\ lost[c] + Len(calls[c]) <= read[c] + 1
       /\ Holds(mainQueue, c, 0, lost[c] + Len(calls[c]), read[c])

CallsInv == \A c \in Conns : HeardOf(c) /\ HeardRight(c) /\ ToBeHeard(c)

\* What is held stays held when the main loop takes a command,
LEMMA HeldPop ==
  ASSUME TypeInv, NEW d \in Conns, Ascending(mainQueue, d, read[d]), HeldBehindNew(d),
         mainQueue # <<>>, mainQueue' = Tail(mainQueue), UNCHANGED <<read, lost>>
  PROVE  /\ Ascending(mainQueue', d, read'[d]) /\ HeldBehindNew(d)'
         /\ Head(mainQueue).type = "NEW" /\ Head(mainQueue).conn = d =>
              lost[d] <= read[d] /\ Holds(mainQueue', d, 0, lost[d] + 1, read[d])
<1>1. /\ mainQueue \in Seq(MainCommands) /\ read[d] \in Nat /\ lost[d] + 1 \in Nat
      /\ lost[d] \in Nat
  BY DEF TypeInv, TypeOK, QueuesTyped
<1>2. /\ Len(mainQueue) \in Nat /\ DOMAIN mainQueue = 1..Len(mainQueue)
      /\ DOMAIN Tail(mainQueue) = 1..(Len(mainQueue) - 1) /\ Len(mainQueue) > 0
      /\ \A i \in 1..(Len(mainQueue) - 1) : Tail(mainQueue)[i] = mainQueue[i + 1]
      /\ Head(mainQueue) = mainQueue[1]
  BY <1>1, Popped
<1>3. Ascending(mainQueue', d, read'[d])
  BY <1>1, HoldsPop
<1>4. ASSUME NEW j \in DOMAIN mainQueue, mainQueue[j].type = "NEW", mainQueue[j].conn = d
      PROVE  lost[d] <= read[d] /\ Holds(mainQueue', d, j - 1, lost[d] + 1, read[d])
  <2>1. lost[d] <= read[d] /\ Holds(mainQueue, d, j, lost[d] + 1, read[d])
    BY <1>4 DEF HeldBehindNew
  <2>2. j \in Nat /\ j > 0
    BY <1>2
  <2> QED
    BY <1>1, <2>1, <2>2, HoldsPop
<1>5. ASSUME NEW j \in DOMAIN mainQueue', mainQueue'[j].type = "NEW", mainQueue'[j].conn = d
      PROVE  lost[d] <= read[d] /\ Holds(mainQueue', d, j, lost[d] + 1, read[d])
  <2>1. /\ j + 1 \in DOMAIN mainQueue /\ mainQueue'[j] = mainQueue[j + 1]
        /\ (j + 1) - 1 = j
    BY <1>2
  <2> QED
    BY <1>4, <1>5, <2>1
<1>6. HeldBehindNew(d)'
  BY <1>5 DEF HeldBehindNew
<1>7. 1 \in DOMAIN mainQueue /\ 1 - 1 = 0
  BY <1>2
<1> QED
  BY <1>2, <1>3, <1>4, <1>6, <1>7

\* and when a message is read or a connection closed.
LEMMA HeldPush ==
  ASSUME TypeInv, NEW d \in Conns, Ascending(mainQueue, d, read[d]), HeldBehindNew(d),
         NEW c \in Conns, NEW n \in Nat, NEW type \in {"CLOSE", "MESSAGE"},
         mainQueue' = ToMain(type, c, n), lost' = lost,
         type = "MESSAGE" /\ d = c => n = read[d] + 1 /\ read'[d] = read[d] + 1,
         type # "MESSAGE" \/ d # c => read'[d] = read[d]
  PROVE  /\ Ascending(mainQueue', d, read'[d]) /\ HeldBehindNew(d)'
         /\ \A low \in Nat : low <= read[d] + 1 /\ Holds(mainQueue, d, 0, low, read[d])
              => Holds(mainQueue', d, 0, low, read'[d])
<1> DEFINE e == [type |-> type, conn |-> c, n |-> n]
<1>1. /\ mainQueue \in Seq(MainCommands) /\ read[d] \in Nat /\ lost[d] + 1 \in Nat
      /\ lost[d] \in Nat /\ mainQueue' = Append(mainQueue, e) /\ e \in MainCommands
      /\ e.type = type /\ e.conn = c /\ e.n = n
  BY DEF TypeInv, TypeOK, QueuesTyped, MainCommands, ToMain
<1> HIDE DEF e
<1>2. /\ Len(mainQueue) \in Nat /\ DOMAIN mainQueue = 1..Len(mainQueue)
      /\ DOMAIN mainQueue' = 1..(Len(mainQueue) + 1)
      /\ \A i \in 1..Len(mainQueue) : mainQueue'[i] = mainQueue[i]
      /\ mainQueue'[Len(mainQueue) + 1] = e
  BY <1>1, Appended
<1>3. ASSUME NEW low \in Nat, NEW from \in 0..Len(mainQueue)
      PROVE  /\ Ascending(mainQueue', d, read'[d])
             /\ low <= read[d] + 1 /\ Holds(mainQueue, d, from, low, read[d])
                  => Holds(mainQueue', d, from, low, read'[d])
  <2>1. CASE type = "MESSAGE" /\ d = c
    <3>1. e.type = "MESSAGE" /\ e.conn = d /\ e.n = read[d] + 1 /\ read'[d] = read[d] + 1
      BY <1>1, <2>1
    <3> HIDE DEF TypeInv
    <3>2. /\ Ascending(Append(mainQueue, e), d, read[d] + 1)
          /\ low <= read[d] + 1 /\ Holds(mainQueue, d, from, low, read[d])
               => Holds(Append(mainQueue, e), d, from, low, read[d] + 1)
      BY <1>1, <3>1, HoldsAppend
    <3> QED
      BY <1>1, <3>1, <3>2
  <2>2. CASE ~(type = "MESSAGE" /\ d = c)
    BY <1>1, <2>2, HoldsAppend
  <2> QED
    BY <2>1, <2>2
<1>4. 0 \in 0..Len(mainQueue)
  BY <1>2
<1>5. ASSUME NEW j \in DOMAIN mainQueue', mainQueue'[j].type = "NEW", mainQueue'[j].conn = d
      PROVE  lost[d] <= read'[d] /\ Holds(mainQueue', d, j, lost[d] + 1, read'[d])
  <2>1. j \in DOMAIN mainQueue /\ mainQueue'[j] = mainQueue[j] /\ j \in 0..Len(mainQueue)
    BY <1>1, <1>2, <1>5
  <2>2. lost[d] <= read[d] /\ Holds(mainQueue, d, j, lost[d] + 1, read[d])
    BY <1>5, <2>1 DEF HeldBehindNew
  <2>3. lost[d] + 1 <= read[d] + 1 /\ lost[d] <= read'[d]
    BY <1>1, <2>2
  <2> QED
    BY <1>1, <1>3, <2>1, <2>2, <2>3
<1>6. HeldBehindNew(d)'
  BY <1>5 DEF HeldBehindNew
<1> QED
  BY <1>3, <1>4, <1>6

\* A step that leaves the main loop's queue and the callbacks alone.
LEMMA CallsKept ==
  ASSUME CallsInv, NEW d \in Conns,
         UNCHANGED <<home, accepting, ghosts, lost, read, mainQueue>>,
         calls'[d] = calls[d], infos' = infos,
         connections' \subseteq connections, watched' \subseteq watched
  PROVE  (HeardOf(d) /\ HeardRight(d) /\ ToBeHeard(d))'
  BY DEF CallsInv, HeardOf, HeardRight, ToBeHeard, HeldBehindNew, Fresh

\* The counters of a connection are numbers.
LEMMA HeardNumber ==
  ASSUME TypeInv, NEW d \in Conns
  PROVE  read[d] \in Nat /\ lost[d] \in Nat /\ lost[d] + Len(calls[d]) \in Nat
<1>1. read[d] \in Nat /\ lost[d] \in Nat /\ calls[d] \in Seq(Callbacks)
  BY DEF TypeInv, TypeOK, HistoryTyped
<1>2. Len(calls[d]) \in Nat
  BY <1>1, LenProperties
<1> QED
  BY <1>1, <1>2

\* What is appended to the callbacks.
LEMMA CallAppends ==
  ASSUME TypeInv, NEW c \in Conns, NEW what \in {"connect", "disconnect", "message"},
         NEW n \in Nat, Call(c, what, n), NEW d \in Conns
  PROVE  /\ d # c => calls'[d] = calls[d]
         /\ calls'[c] = Append(calls[c], [what |-> what, n |-> n])
         /\ [what |-> what, n |-> n] \in Callbacks /\ calls[c] \in Seq(Callbacks)
  BY DEF TypeInv, HistoryTyped, Call, Callbacks

\* The application is told the end of a connection that it was told of.
LEMMA CallsEnd ==
  ASSUME TypeInv, TablesInv, CallsInv, NEW d \in Conns, NEW c \in Conns, c \in infos,
         UNCHANGED <<home, accepting, ghosts, lost, read, connections, watched>>,
         OnDisconnect(c),
         \/ mainQueue' = mainQueue
         \/ mainQueue # <<>> /\ mainQueue' = Tail(mainQueue)
            /\ Head(mainQueue).type = "MESSAGE" /\ Head(mainQueue).conn = c
  PROVE  (HeardOf(d) /\ HeardRight(d) /\ ToBeHeard(d))'
<1> DEFINE e == [what |-> "disconnect", n |-> 0]
<1>1. /\ d # c => calls'[d] = calls[d]
      /\ calls'[c] = Append(calls[c], e) /\ e \in Callbacks /\ calls[c] \in Seq(Callbacks)
      /\ e.what = "disconnect"
  BY CallAppends DEF OnDisconnect
<1> HIDE DEF e
<1>2. infos' = infos \ {c}
  BY DEF OnDisconnect
<1>3. HeardOf(d) /\ HeardRight(d) /\ ToBeHeard(d) /\ FreshUnknown(d) /\ AnnouncedOnce(d)
  BY DEF CallsInv, TablesInv
<1>4. /\ \A k \in {"NEW", "CLOSE"} : Queued(mainQueue', k, d) <=> Queued(mainQueue, k, d)
      /\ Ascending(mainQueue', d, read'[d]) /\ HeldBehindNew(d)'
  <2>1. CASE mainQueue' = mainQueue
    BY <1>3, <2>1 DEF ToBeHeard, HeldBehindNew
  <2>2. CASE mainQueue' # mainQueue
    BY <1>3, <2>2, MainPopped, HeldPop DEF ToBeHeard
  <2> QED
    BY <2>1, <2>2
<1>5. CASE d = c
  <2>1. ~Fresh(d) /\ ~Queued(mainQueue, "NEW", d)
    BY <1>3, <1>5 DEF FreshUnknown, AnnouncedOnce
  <2>2. lost[d] \in Nat
    BY DEF TypeInv, TypeOK
  <2>3. calls'[d] # <<>>
    BY <1>1, <1>5, EmptySeq, Appended
  <2>4. d \notin ghosts => Ordered(calls'[d], lost[d]) /\ EndLast(calls'[d])
    BY <1>1, <1>3, <1>5, <2>1, <2>2, OrderedAppend DEF HeardRight
  <2>5. (~Fresh(d) <=> ~Fresh(d)') /\ home[d] # 0
    BY <2>1 DEF Fresh
  <2>6. HeardOf(d)'
    BY <1>4, <2>1, <2>3, <2>5 DEF HeardOf, Fresh
  <2>7. HeardRight(d)'
    BY <1>2, <1>4, <1>5, <2>4 DEF HeardRight, Fresh
  <2> QED
    BY <1>2, <1>4, <1>5, <2>6, <2>7 DEF ToBeHeard
<1>6. CASE d # c
  <2>1. (HeardOf(d) /\ HeardRight(d))'
    BY <1>1, <1>2, <1>3, <1>4, <1>6 DEF HeardOf, HeardRight, Fresh
  <2>2. ASSUME d \in infos', d \notin ghosts'
        PROVE  Holds(mainQueue', d, 0, lost[d] + Len(calls[d]), read[d])
    <3>1. /\ Holds(mainQueue, d, 0, lost[d] + Len(calls[d]), read[d])
          /\ Ascending(mainQueue, d, read[d])
      BY <1>2, <1>3, <2>2 DEF ToBeHeard
    <3>2. CASE mainQueue' = mainQueue
      BY <3>1, <3>2
    <3>3. CASE mainQueue' # mainQueue
      <4>1. /\ mainQueue \in Seq(MainCommands) /\ mainQueue # <<>>
            /\ mainQueue' = Tail(mainQueue) /\ ~MessageAt(mainQueue, 1, d)
        BY <1>6, <3>3, Popped DEF TypeInv, QueuesTyped, MessageAt
      <4>2. read[d] \in Nat /\ lost[d] + Len(calls[d]) \in Nat
        BY HeardNumber
      <4> QED
        BY <3>1, <4>1, <4>2, HoldsPop
    <3> QED
      BY <3>2, <3>3
  <2>3. ToBeHeard(d)'
    BY <1>1, <1>2, <1>3, <1>4, <1>6, <2>2 DEF ToBeHeard
  <2> QED
    BY <2>1, <2>3
<1> QED
  BY <1>5, <1>6

\* A net thread closes a connection and tells the main loop.
LEMMA CallsClose ==
  ASSUME TypeInv, TablesInv, CallsInv, NEW d \in Conns, NEW c \in Conns, CloseSocket(c),
         c \in connections,
         UNCHANGED <<home, accepting, ghosts, lost, read, calls, infos>>
  PROVE  (HeardOf(d) /\ HeardRight(d) /\ ToBeHeard(d))'
<1>1. /\ mainQueue' = ToMain("CLOSE", c, 0)
      /\ connections' = connections \ {c} /\ watched' = watched \ {c}
  BY DEF CloseSocket, CloseReactorSocket
<1>2. HeardOf(d) /\ HeardRight(d) /\ ToBeHeard(d)
  BY DEF CallsInv
<1>3. /\ Queued(mainQueue', "NEW", d) <=> Queued(mainQueue, "NEW", d)
      /\ Queued(mainQueue', "CLOSE", d) <=> Queued(mainQueue, "CLOSE", d) \/ d = c
  BY <1>1, MainPushed
<1>4. /\ Ascending(mainQueue', d, read'[d]) /\ HeldBehindNew(d)'
      /\ \A low \in Nat : low <= read[d] + 1 /\ Holds(mainQueue, d, 0, low, read[d])
           => Holds(mainQueue', d, 0, low, read'[d])
  BY <1>1, <1>2, HeldPush DEF ToBeHeard
<1>5. lost[d] + Len(calls[d]) \in Nat
  BY HeardNumber
<1>6. HeardOf(d)' /\ HeardRight(d)'
  BY <1>1, <1>2, <1>3 DEF HeardOf, HeardRight, Fresh
<1> QED
  BY <1>2, <1>4, <1>5, <1>6 DEF ToBeHeard

\* What the main loop's next command makes the application hear.
LEMMA CallsMain ==
  ASSUME TypeInv, TablesInv, CallsInv, MainCommand, NEW d \in Conns
  PROVE  (HeardOf(d) /\ HeardRight(d) /\ ToBeHeard(d))'
<1> DEFINE cmd == Head(mainQueue)
           c == cmd.conn
           Kept == (HeardOf(d) /\ HeardRight(d) /\ ToBeHeard(d))'
<1>1. /\ UNCHANGED <<home, accepting, ghosts, lost, read, connections, watched>>
      /\ mainQueue # <<>> /\ mainQueue' = Tail(mainQueue)
  BY DEF MainCommand, acceptVars
<1>2. /\ mainQueue \in Seq(MainCommands) /\ cmd \in MainCommands /\ cmd = mainQueue[1]
      /\ 1 \in DOMAIN mainQueue
  BY <1>1, Popped DEF TypeInv, QueuesTyped
<1>3. c \in Conns /\ cmd.n \in Nat
  BY <1>2 DEF MainCommands
<1>4. /\ HeardOf(d) /\ HeardRight(d) /\ ToBeHeard(d)
      /\ FreshUnknown(d) /\ AnnouncedOnce(d) /\ EndsQueued(d)
  BY DEF CallsInv, TablesInv
<1>5. /\ \A k \in {"NEW", "CLOSE"} :
           /\ Queued(mainQueue, k, d) <=> Queued(mainQueue', k, d) \/ (cmd.type = k /\ c = d)
           /\ cmd.type = k /\ c = d => ~Queued(mainQueue', k, d)
      /\ d \notin ghosts /\ cmd.type = "CLOSE" /\ c = d => ~Queued(mainQueue, "NEW", d)
  BY <1>1, <1>4, MainPopped DEF AnnouncedOnce
<1>6. /\ Ascending(mainQueue', d, read'[d]) /\ HeldBehindNew(d)'
      /\ cmd.type = "NEW" /\ c = d =>
           lost[d] <= read[d] /\ Holds(mainQueue', d, 0, lost[d] + 1, read[d])
  BY <1>1, <1>4, HeldPop DEF ToBeHeard
<1>7. read[d] \in Nat /\ lost[d] \in Nat /\ lost[d] + Len(calls[d]) \in Nat
  BY HeardNumber
<1>8. /\ MessageAt(mainQueue, 1, d) <=> cmd.type = "MESSAGE" /\ c = d
  BY <1>2 DEF MessageAt
<1> HIDE DEF cmd
\* Another connection, or a message of one that is not known.
<1>9. ASSUME c # d \/ (cmd.type = "MESSAGE" /\ d \notin infos),
             calls'[d] = calls[d], d \in infos' <=> d \in infos
      PROVE  Kept
  <2>1. \A k \in {"NEW", "CLOSE"} : Queued(mainQueue', k, d) <=> Queued(mainQueue, k, d)
    BY <1>5, <1>9
  <2>2. d \in infos /\ d \notin ghosts
          => Holds(mainQueue', d, 0, lost[d] + Len(calls[d]), read[d])
    BY <1>1, <1>2, <1>4, <1>7, <1>8, <1>9, HoldsPop DEF ToBeHeard
  <2>3. (HeardOf(d) /\ HeardRight(d))'
    BY <1>1, <1>4, <1>9, <2>1 DEF HeardOf, HeardRight, Fresh
  <2> QED
    BY <1>1, <1>4, <1>6, <1>9, <2>2, <2>3 DEF ToBeHeard
<1>10. ASSUME cmd.type = "NEW", infos' = infos \cup {c}, Call(c, "connect", 0) PROVE Kept
  <2> DEFINE e == [what |-> "connect", n |-> 0]
  <2>1. /\ d # c => calls'[d] = calls[d]
        /\ calls'[c] = Append(calls[c], e) /\ e \in Callbacks /\ calls[c] \in Seq(Callbacks)
        /\ e.what = "connect"
    BY <1>3, <1>10, CallAppends
  <2> HIDE DEF e
  <2>2. CASE d # c
    BY <1>9, <1>10, <2>1, <2>2
  <2>3. CASE d = c
    <3>1. Queued(mainQueue, "NEW", d) /\ ~Queued(mainQueue', "NEW", d) /\ ~Fresh(d)
      BY <1>4, <1>5, <1>10, <2>3 DEF FreshUnknown
    <3>2. /\ calls'[d] # <<>>
          /\ d \notin ghosts =>
               /\ Ordered(calls'[d], lost[d]) /\ NoEnd(calls'[d])
               /\ calls[d] = <<>> /\ Len(calls'[d]) = 1
      <4>1. Append(calls[d], e) # <<>> /\ Len(Append(calls[d], e)) = Len(calls[d]) + 1
        BY <2>1, <2>3, Appended, EmptySeq
      <4>2. d \notin ghosts => calls[d] = <<>> /\ Ordered(calls[d], lost[d])
        BY <1>4, <3>1 DEF HeardOf, HeardRight
      <4>3. d \notin ghosts => Ordered(Append(calls[d], e), lost[d]) /\ NoEnd(Append(calls[d], e))
        BY <1>7, <2>1, <2>3, <4>2, OrderedAppend
      <4>4. calls[d] = <<>> => Len(calls[d]) = 0
        BY EmptySeq
      <4>5. calls'[d] = Append(calls[d], e)
        BY <2>1, <2>3
      <4>6. calls[d] = <<>> => Len(calls'[d]) = 1
        BY <4>1, <4>4, <4>5
      <4> QED
        BY <4>1, <4>2, <4>3, <4>5, <4>6
    <3>3. ~Fresh(d)' /\ home[d] # 0
      BY <1>1, <3>1 DEF Fresh
    <3>4. HeardOf(d)'
      BY <1>1, <3>1, <3>2, <3>3 DEF HeardOf
    <3>5. HeardRight(d)'
      BY <1>1, <3>2, <3>3 DEF HeardRight, NoEnd, EndLast
    <3>6. d \notin ghosts =>
            /\ lost[d] + Len(calls'[d]) <= read[d] + 1
            /\ Holds(mainQueue', d, 0, lost[d] + Len(calls'[d]), read[d])
      <4>1. lost[d] <= read[d] /\ Holds(mainQueue', d, 0, lost[d] + 1, read[d])
        BY <1>6, <1>10, <2>3
      <4>2. d \notin ghosts => lost[d] + Len(calls'[d]) = lost[d] + 1
        BY <3>2
      <4>3. lost[d] + 1 <= read[d] + 1
        BY <1>7, <4>1
      <4> QED
        BY <4>1, <4>2, <4>3
    <3> QED
      BY <1>1, <1>6, <3>4, <3>5, <3>6 DEF ToBeHeard
  <2> QED
    BY <2>2, <2>3
<1>11. ASSUME cmd.type = "CLOSE", OnDisconnect(c) PROVE Kept
  <2> DEFINE e == [what |-> "disconnect", n |-> 0]
  <2>1. /\ d # c => calls'[d] = calls[d]
        /\ calls'[c] = Append(calls[c], e) /\ e \in Callbacks /\ calls[c] \in Seq(Callbacks)
        /\ e.what = "disconnect" /\ infos' = infos \ {c}
    BY <1>3, <1>11, CallAppends DEF OnDisconnect
  <2> HIDE DEF e
  <2>2. CASE d # c
    BY <1>9, <1>11, <2>1, <2>2
  <2>3. CASE d = c
    <3>1. /\ Queued(mainQueue, "CLOSE", d) /\ ~Queued(mainQueue', "CLOSE", d)
          /\ d \notin watched /\ d \notin connections
          /\ d \notin ghosts => ~Queued(mainQueue, "NEW", d) /\ ~Queued(mainQueue', "NEW", d)
      BY <1>4, <1>5, <1>11, <2>3 DEF AnnouncedOnce, TypeInv, TypeOK
    <3>2. home[d] # 0
      BY <3>1, ConstantsAssumption DEF Queued, TypeInv, HomesKnown
    <3>3. calls'[d] # <<>>
      BY <2>1, <2>3, Appended, EmptySeq
    <3>4. HeardOf(d)'
      BY <1>1, <3>1, <3>2, <3>3 DEF HeardOf, Fresh
    <3>5. ASSUME ~Fresh(d), d \notin ghosts PROVE Ordered(calls'[d], lost[d])
      <4>1. calls[d] # <<>> /\ Ordered(calls[d], lost[d]) /\ EndLast(calls[d])
        BY <1>4, <3>1, <3>5 DEF HeardOf, HeardRight
      <4> QED
        BY <1>7, <2>1, <2>3, <4>1, OrderedAppend
    <3>6. HeardRight(d)'
      BY <1>1, <2>1, <2>3, <3>1, <3>5 DEF HeardRight, Fresh
    <3> QED
      BY <1>1, <1>6, <2>1, <2>3, <3>4, <3>6 DEF ToBeHeard
  <2> QED
    BY <2>2, <2>3
<1>12. ASSUME cmd.type = "MESSAGE", c \notin infos, UNCHANGED <<infos, calls>> PROVE Kept
  BY <1>9, <1>12
<1>13. ASSUME cmd.type = "MESSAGE", c \in infos, infos' = infos, Call(c, "message", cmd.n)
       PROVE  Kept
  <2> DEFINE e == [what |-> "message", n |-> cmd.n]
  <2>1. /\ d # c => calls'[d] = calls[d]
        /\ calls'[c] = Append(calls[c], e) /\ e \in Callbacks /\ calls[c] \in Seq(Callbacks)
        /\ e.what = "message" /\ e.n = cmd.n
    BY <1>3, <1>13, CallAppends
  <2> HIDE DEF e
  <2>2. CASE d # c
    BY <1>9, <1>13, <2>1, <2>2
  <2>3. CASE d = c
    <3>1. ~Fresh(d) /\ ~Queued(mainQueue, "NEW", d) /\ ~Queued(mainQueue', "NEW", d)
      BY <1>4, <1>5, <1>13, <2>3 DEF FreshUnknown, AnnouncedOnce
    <3>2. /\ calls'[d] # <<>> /\ Len(calls'[d]) = Len(calls[d]) + 1 /\ Len(calls[d]) \in Nat
      BY <2>1, <2>3, Appended, EmptySeq
    <3>3. ASSUME d \notin ghosts
          PROVE  /\ Ordered(calls'[d], lost[d]) /\ NoEnd(calls'[d])
                 /\ lost[d] + Len(calls'[d]) <= read[d] + 1
                 /\ Holds(mainQueue', d, 0, lost[d] + Len(calls'[d]), read[d])
      <4> DEFINE low == lost[d] + Len(calls[d])
      <4>1. /\ calls[d] # <<>> /\ NoEnd(calls[d]) /\ Ordered(calls[d], lost[d])
            /\ Holds(mainQueue, d, 0, low, read[d]) /\ Ascending(mainQueue, d, read[d])
        BY <1>4, <1>13, <2>3, <3>1, <3>3 DEF HeardRight, ToBeHeard
      <4>2. low \in Nat /\ MessageAt(mainQueue, 1, d)
        BY <1>7, <1>8, <1>13, <2>3
      <4> HIDE DEF low
      <4>3. /\ mainQueue[1].n = low /\ low <= read[d]
            /\ Holds(Tail(mainQueue), d, 0, low + 1, read[d])
        BY <1>1, <1>2, <1>7, <4>1, <4>2, HoldsPop
      <4>4. e.n = lost[d] + Len(calls[d])
        BY <1>2, <2>1, <4>3 DEF low
      <4>5. Ordered(calls'[d], lost[d]) /\ NoEnd(calls'[d])
        BY <1>7, <2>1, <2>3, <4>1, <4>4, OrderedAppend
      <4>6. lost[d] + Len(calls'[d]) = low + 1
        BY <1>7, <3>2 DEF low
      <4> QED
        BY <1>1, <1>7, <4>2, <4>3, <4>5, <4>6
    <3>4. HeardOf(d)'
      BY <1>1, <1>4, <3>1, <3>2 DEF HeardOf, Fresh
    <3>5. HeardRight(d)'
      BY <1>1, <1>13, <3>2, <3>3 DEF HeardRight, NoEnd, EndLast
    <3> QED
      BY <1>1, <1>6, <3>3, <3>4, <3>5 DEF ToBeHeard
  <2> QED
    BY <2>2, <2>3
<1>14. ASSUME cmd.type = "MESSAGE", c \in infos, OnDisconnect(c) PROVE Kept
  BY <1>1, <1>3, <1>14, CallsEnd DEF cmd
<1> HIDE DEF Kept
<1>15. Kept
  BY <1>10, <1>11, <1>12, <1>13, <1>14 DEF MainCommand, cmd, Disconnect, Handled, OnDisconnect
<1> QED
  BY <1>15 DEF Kept

\* Every step keeps the callbacks in order.
LEMMA CallsStep ==
  TypeInv /\ TablesInv /\ CallsInv /\ [Next]_vars => CallsInv'
<1> SUFFICES ASSUME TypeInv, TablesInv, CallsInv, [Next]_vars, NEW d \in Conns
             PROVE  (HeardOf(d) /\ HeardRight(d) /\ ToBeHeard(d))'
  BY DEF CallsInv
<1> DEFINE Kept == (HeardOf(d) /\ HeardRight(d) /\ ToBeHeard(d))'
<1>1. /\ HeardOf(d) /\ HeardRight(d) /\ ToBeHeard(d)
      /\ FreshUnknown(d) /\ AnnouncedOnce(d) /\ EndsQueued(d)
      /\ connections \subseteq watched
  BY DEF CallsInv, TablesInv, TypeInv, TypeOK
<1>2. read[d] \in Nat /\ lost[d] \in Nat /\ lost[d] + Len(calls[d]) \in Nat
  BY HeardNumber
<1>3. ASSUME UNCHANGED <<home, accepting, ghosts, lost, read, mainQueue, calls, infos>>,
             connections' \subseteq connections, watched' \subseteq watched
      PROVE  Kept
  BY <1>3, CallsKept
<1>4. ASSUME NEW c \in Conns, Accept(c) PROVE Kept
  <2>1. /\ LeastLoaded \in Threads /\ 0 \notin Threads
        /\ home' = [home EXCEPT ![c] = LeastLoaded]
        /\ accepting = NoConn /\ accepting' = c /\ home[c] = 0
        /\ d # c => (d \in watched' <=> d \in watched)
        /\ UNCHANGED <<lost, ghosts, infos, calls, connections, read, mainQueue>>
    BY <1>4, LeastLoadedType, ConstantsAssumption DEF Accept, appVars
  <2>2. home' \in [Conns -> Threads \cup {0}] /\ home'[c] # 0 /\ (d # c => home'[d] = home[d])
    BY <2>1 DEF TypeInv, TypeOK
  <2> QED
    BY <1>1, <2>1, <2>2, ConstantsAssumption
       DEF HeardOf, HeardRight, ToBeHeard, HeldBehindNew, Fresh
<1>5. ASSUME NEW c \in Conns, Insert(c) PROVE Kept
  BY <1>1, <1>5
     DEF HeardOf, HeardRight, ToBeHeard, HeldBehindNew, Fresh, Insert, acceptVars, appVars
<1>6. ASSUME NEW c \in Conns, Announce(c) PROVE Kept
  <2>1. /\ accepting = c /\ accepting' = NoConn /\ home[c] \in Threads /\ 0 \notin Threads
        /\ mainQueue' = ToMain("NEW", c, 0) /\ lost' = [lost EXCEPT ![c] = read[c]]
        /\ ghosts' = IF c \in connections THEN ghosts ELSE ghosts \cup {c}
        /\ UNCHANGED <<home, infos, calls, watched, connections, read>>
    BY <1>6, ConstantsAssumption DEF Announce, appVars, TypeInv, HomesKnown
  <2>2. /\ Queued(mainQueue', "NEW", d) <=> Queued(mainQueue, "NEW", d) \/ d = c
        /\ Queued(mainQueue', "CLOSE", d) <=> Queued(mainQueue, "CLOSE", d)
    BY <2>1, MainPushed
  <2>3. lost'[d] = IF d = c THEN read[d] ELSE lost[d]
    BY <2>1 DEF TypeInv, TypeOK
  <2>4. HeardOf(d)'
    BY <1>1, <2>1, <2>2, ConstantsAssumption DEF HeardOf, FreshUnknown, Fresh
  <2>5. HeardRight(d)'
    <3>1. CASE d = c
      <4>1. d \notin ghosts' => calls[d] = <<>> /\ d \notin infos
        BY <1>1, <2>1, <3>1 DEF HeardOf, FreshUnknown, Fresh
      <4>2. Ordered(<<>>, lost'[d]) /\ EndLast(<<>>)
        BY DEF Ordered, EndLast
      <4> QED
        BY <2>1, <4>1, <4>2 DEF HeardRight
    <3>2. CASE d # c
      BY <1>1, <2>1, <2>2, <2>3, <3>2 DEF HeardRight, Fresh
    <3> QED
      BY <3>1, <3>2
  <2> DEFINE e == [type |-> "NEW", conn |-> c, n |-> 0]
  <2>6. /\ mainQueue \in Seq(MainCommands) /\ e \in MainCommands
        /\ mainQueue' = Append(mainQueue, e) /\ e.type = "NEW" /\ e.conn = c
    BY <2>1 DEF TypeInv, QueuesTyped, MainCommands, ToMain
  <2> HIDE DEF e
  <2>7. /\ Len(mainQueue) \in Nat /\ DOMAIN mainQueue = 1..Len(mainQueue)
        /\ DOMAIN mainQueue' = 1..(Len(mainQueue) + 1)
        /\ \A i \in 1..Len(mainQueue) : mainQueue'[i] = mainQueue[i]
        /\ mainQueue'[Len(mainQueue) + 1] = e
    BY <2>6, Appended
  <2>8. ASSUME NEW low \in Nat, NEW from \in 0..Len(mainQueue)
        PROVE  /\ Ascending(mainQueue', d, read[d])
               /\ Holds(mainQueue, d, from, low, read[d])
                    => Holds(mainQueue', d, from, low, read[d])
    <3>1. Ascending(mainQueue, d, read[d]) /\ e.type # "MESSAGE"
      BY <1>1, <2>6 DEF ToBeHeard
    <3> QED
      BY <1>2, <2>6, <3>1, HoldsAppend
  <2>9. 0 \in 0..Len(mainQueue)
    BY <2>7
  <2>10. ASSUME NEW j \in DOMAIN mainQueue', mainQueue'[j].type = "NEW",
                mainQueue'[j].conn = d
         PROVE  lost'[d] <= read[d] /\ Holds(mainQueue', d, j, lost'[d] + 1, read[d])
    <3>1. CASE j = Len(mainQueue) + 1
      <4>1. d = c /\ lost'[d] = read[d]
        BY <2>3, <2>6, <2>7, <2>10, <3>1
      <4>2. Holds(mainQueue', d, j, read[d] + 1, read[d])
        BY <1>2, <2>7, <3>1 DEF Holds
      <4> QED
        BY <1>2, <4>1, <4>2
    <3>2. CASE j \in DOMAIN mainQueue
      <4>1. /\ mainQueue[j].type = "NEW" /\ mainQueue[j].conn = d /\ j \in 0..Len(mainQueue)
        BY <2>7, <2>10, <3>2
      <4>2. Queued(mainQueue, "NEW", d)
        BY <3>2, <4>1 DEF Queued
      <4>3. d # c /\ lost'[d] = lost[d]
        BY <1>1, <2>1, <2>3, <4>2 DEF FreshUnknown, Fresh
      <4>4. lost[d] <= read[d] /\ Holds(mainQueue, d, j, lost[d] + 1, read[d])
        BY <1>1, <3>2, <4>1 DEF ToBeHeard, HeldBehindNew
      <4>5. lost[d] + 1 \in Nat
        BY <1>2
      <4> QED
        BY <2>8, <4>1, <4>3, <4>4, <4>5
    <3> QED
      BY <2>7, <3>1, <3>2
  <2>11. HeldBehindNew(d)'
    BY <2>1, <2>10 DEF HeldBehindNew
  <2>12. ASSUME d \in infos, d \notin ghosts'
         PROVE  /\ lost'[d] + Len(calls[d]) <= read[d] + 1
                /\ Holds(mainQueue', d, 0, lost'[d] + Len(calls[d]), read[d])
    <3>1. d # c /\ d \notin ghosts /\ lost'[d] = lost[d]
      BY <1>1, <2>1, <2>3, <2>12 DEF FreshUnknown, Fresh
    <3> QED
      BY <1>1, <1>2, <2>8, <2>9, <2>12, <3>1 DEF ToBeHeard
  <2> QED
    BY <2>1, <2>4, <2>5, <2>8, <2>9, <2>11, <2>12 DEF ToBeHeard
<1>7. ASSUME NEW c \in Conns, Read(c) PROVE Kept
  <2>1. /\ read' = [read EXCEPT ![c] = @ + 1] /\ mainQueue' = ToMain("MESSAGE", c, read'[c])
        /\ c \in connections
        /\ UNCHANGED <<home, accepting, ghosts, lost, infos, calls, watched, connections>>
    BY <1>7 DEF Read, acceptVars, appVars
  <2>2. /\ d = c => read'[c] = read[d] + 1 /\ read'[d] = read[d] + 1
        /\ d # c => read'[d] = read[d]
        /\ read'[c] \in Nat
    BY <2>1 DEF TypeInv, TypeOK
  <2>3. \A k \in {"NEW", "CLOSE"} : Queued(mainQueue', k, d) <=> Queued(mainQueue, k, d)
    BY <2>1, <2>2, MainPushed
  <2>4. /\ Ascending(mainQueue', d, read'[d]) /\ HeldBehindNew(d)'
        /\ \A low \in Nat : low <= read[d] + 1 /\ Holds(mainQueue, d, 0, low, read[d])
             => Holds(mainQueue', d, 0, low, read'[d])
    BY <1>1, <2>1, <2>2, HeldPush DEF ToBeHeard
  <2>5. (HeardOf(d) /\ HeardRight(d))'
    BY <1>1, <2>1, <2>3 DEF HeardOf, HeardRight, Fresh
  <2>6. read[d] + 1 <= read'[d] + 1
    BY <1>2, <2>2
  <2>7. d \in infos /\ d \notin ghosts => lost[d] + Len(calls[d]) <= read'[d] + 1
    BY <1>1, <1>2, <2>2 DEF ToBeHeard
  <2> QED
    BY <1>1, <1>2, <2>1, <2>4, <2>5, <2>7 DEF ToBeHeard
<1>8. ASSUME NEW c \in Conns, FindClosed(c) \/ SendError(c) PROVE Kept
  <2>1. c \in connections
    BY <1>8 DEF FindClosed, SendError, TypeInv, TypeOK
  <2> QED
    BY <1>8, <2>1, CallsClose DEF FindClosed, SendError, acceptVars, appVars
<1>9. ASSUME NEW t \in Threads, ThreadCommand(t) PROVE Kept
  <2> DEFINE cmd == Head(threadQueue[t])
  <2>1. /\ cmd \in ThreadCommands
        /\ cmd.type # "BROADCAST" => cmd.conn \in Conns
    BY <1>9, ThreadPopType DEF ThreadCommand, acceptVars
  <2>2. UNCHANGED <<home, accepting, ghosts, lost, read, calls, infos>>
    BY <1>9 DEF ThreadCommand, acceptVars, appVars
  <2> HIDE DEF cmd
  <2>3. CASE UNCHANGED <<connections, watched, mainQueue>>
    BY <1>3, <2>2, <2>3
  <2>4. CASE CloseReactorSocket(cmd.conn) /\ UNCHANGED mainQueue
    BY <1>3, <2>2, <2>4 DEF CloseReactorSocket
  <2>5. CASE CloseSocket(cmd.conn) /\ cmd.type = "MESSAGE" /\ cmd.conn \in connections
    BY <2>1, <2>2, <2>5, CallsClose
  <2> QED
    BY <1>9, <2>3, <2>4, <2>5 DEF ThreadCommand, IsConnected, cmd
<1>10. ASSUME MainCommand PROVE Kept
  BY <1>10, CallsMain
<1>11. ASSUME NEW c \in Conns, AppDisconnect(c) PROVE Kept
  BY <1>11, CallsEnd DEF AppDisconnect, Disconnect, Operate, acceptVars
<1>12. ASSUME NEW c \in Conns,
              \/ Write(c) \/ \E how \in {"closed", "broken"} : HangUp(c, how)
              \/ AppEnable(c) \/ AppDisable(c) \/ \E fits \in BOOLEAN : AppSend(c, fits)
       PROVE  Kept
  BY <1>3, <1>12
     DEF Write, HangUp, AppEnable, AppDisable, AppSend, Operate, acceptVars, appVars
<1>13. CASE UNCHANGED vars \/ \E fits \in BOOLEAN : AppBroadcast(fits)
  BY <1>3, <1>13 DEF vars, AppBroadcast, Operate, acceptVars, appVars
<1> QED
  BY <1>4, <1>5, <1>6, <1>7, <1>8, <1>9, <1>10, <1>11, <1>12, <1>13 DEF Next

\* The application hears of every connection in order, for any connections, net
\* threads and messages.
THEOREM CallbacksOrdered == Spec => []CallbacksInOrder
<1>1. Init => CallsInv
  BY DEF Init, CallsInv, HeardOf, HeardRight, ToBeHeard, HeldBehindNew, Ascending, MessageAt,
         Fresh, Queued
<1>2. TypeInv /\ CallsInv => CallbacksInOrder
  <2> SUFFICES ASSUME TypeInv, CallsInv, NEW c \in Conns \ (ghosts \cup {accepting}),
                      NEW i \in DOMAIN calls[c]
               PROVE  /\ calls[c][i].what = "connect" <=> i = 1
                      /\ calls[c][i].what = "message" =>
                           calls[c][i - 1].what # "disconnect" /\ calls[c][i].n = lost[c] + i - 1
                      /\ calls[c][i].what = "disconnect" => Len(calls[c]) <= i + 1
    BY DEF CallbacksInOrder
  <2>1. CASE Fresh(c)
    BY <2>1 DEF CallsInv, HeardOf, Fresh
  <2>2. CASE ~Fresh(c)
    BY <2>2 DEF CallsInv, HeardRight, Ordered
  <2> QED
    BY <2>1, <2>2
<1>3. Init => TablesInv
  BY TablesInit
<1> QED
  BY <1>1, <1>2, <1>3, TypeInvariant, TablesStep, CallsStep, PTL DEF Spec

-----------------------------------------------------------------------------
(* What the application addresses to a connection *)

OnAt(q, c, k)  == q[k].type = "ENABLE_BROADCAST" /\ q[k].conn = c
OffAt(q, c, k) == q[k].type \in {"DISABLE_BROADCAST", "CLOSE"} /\ q[k].conn = c

\* Whether connection c is in the thread's broadcast list, which is B now, when
\* the thread comes to place i of its queue.
On(q, c, B, i) ==
  \/ c \in B /\ \A k \in 1..(i - 1) : ~OffAt(q, c, k)
  \/ \E j \in 1..(i - 1) : OnAt(q, c, j) /\ \A k \in (j + 1)..(i - 1) : ~OffAt(q, c, k)

\* Whether the command at place i will give the connection a message.
Due(q, c, B, i) ==
  /\ q[i].fits
  /\ \/ q[i].type = "MESSAGE" /\ q[i].conn = c
     \/ q[i].type = "BROADCAST" /\ On(q, c, B, i)

IsMessage(cmd) == cmd.type \in {"MESSAGE", "BROADCAST"}

\* Messages are queued in the order of the operations that sent them.
Numbered(q, m) ==
  /\ \A i \in DOMAIN q : IsMessage(q[i]) => q[i].n <= m
  /\ \A i, j \in DOMAIN q : IsMessage(q[i]) /\ IsMessage(q[j]) /\ i < j => q[i].n < q[j].n

Rising(a, m) ==
  /\ \A k \in DOMAIN a : a[k] <= m
  /\ \A k, l \in DOMAIN a : k < l => a[k] < a[l]

\* What is due is what is in a from place d on.
Owed(q, c, B, a, d) ==
  /\ \A i \in DOMAIN q : Due(q, c, B, i) => \E k \in (d + 1)..Len(a) : a[k] = q[i].n
  /\ \A k \in (d + 1)..Len(a) : \E i \in DOMAIN q : Due(q, c, B, i) /\ q[i].n = a[k]

\* One more command changes nothing for those before it.
LEMMA DueAppend ==
  ASSUME NEW q \in Seq(ThreadCommands), NEW e \in ThreadCommands, NEW c, NEW B
  PROVE  /\ \A i \in 1..Len(q) : Due(Append(q, e), c, B, i) <=> Due(q, c, B, i)
         /\ Due(Append(q, e), c, B, Len(q) + 1) <=>
              /\ e.fits
              /\ \/ e.type = "MESSAGE" /\ e.conn = c
                 \/ e.type = "BROADCAST" /\ On(q, c, B, Len(q) + 1)
         /\ On(Append(q, e), c, B, Len(q) + 2) <=>
              \/ e.type = "ENABLE_BROADCAST" /\ e.conn = c
              \/ /\ ~(e.type \in {"DISABLE_BROADCAST", "CLOSE"} /\ e.conn = c)
                 /\ On(q, c, B, Len(q) + 1)
<1> DEFINE n == Len(q)
           r == Append(q, e)
<1>1. /\ n \in Nat /\ \A i \in 1..n : r[i] = q[i]
      /\ r[n + 1] = e
  BY Appended
<1> HIDE DEF n, r
<1>2. \A k \in 1..n : (OnAt(r, c, k) <=> OnAt(q, c, k)) /\ (OffAt(r, c, k) <=> OffAt(q, c, k))
  BY <1>1 DEF OnAt, OffAt
<1>3. ASSUME NEW i \in 1..(n + 1) PROVE On(r, c, B, i) <=> On(q, c, B, i)
  <2>1. \A k \in 1..(i - 1) : k \in 1..n
    BY <1>1
  <2>2. \A j \in 1..(i - 1) : \A k \in (j + 1)..(i - 1) : k \in 1..n
    BY <1>1
  <2> QED
    BY <1>2, <2>1, <2>2 DEF On
<1>4. \A i \in 1..n : Due(r, c, B, i) <=> Due(q, c, B, i)
  <2>1. \A i \in 1..n : i \in 1..(n + 1)
    BY <1>1
  <2> QED
    BY <1>1, <1>3, <2>1 DEF Due
<1>5. n + 1 \in 1..(n + 1) /\ (n + 2) - 1 = n + 1 /\ (n + 1) - 1 = n
  BY <1>1
<1>6. Due(r, c, B, n + 1) <=> /\ e.fits
                              /\ \/ e.type = "MESSAGE" /\ e.conn = c
                                 \/ e.type = "BROADCAST" /\ On(q, c, B, n + 1)
  BY <1>1, <1>3, <1>5 DEF Due
<1>7. /\ OnAt(r, c, n + 1) <=> e.type = "ENABLE_BROADCAST" /\ e.conn = c
      /\ OffAt(r, c, n + 1) <=> e.type \in {"DISABLE_BROADCAST", "CLOSE"} /\ e.conn = c
      /\ ~(OnAt(r, c, n + 1) /\ OffAt(r, c, n + 1))
  BY <1>1 DEF OnAt, OffAt
<1>8. On(r, c, B, n + 2) <=> OnAt(r, c, n + 1) \/ (~OffAt(r, c, n + 1) /\ On(q, c, B, n + 1))
  <2>1. On(r, c, B, n + 1) <=> On(q, c, B, n + 1)
    BY <1>3, <1>5
  <2>2. On(r, c, B, n + 1) <=>
          \/ c \in B /\ \A k \in 1..n : ~OffAt(r, c, k)
          \/ \E j \in 1..n : OnAt(r, c, j) /\ \A k \in (j + 1)..n : ~OffAt(r, c, k)
    BY <1>5 DEF On
  <2>3. On(r, c, B, n + 2) <=>
          \/ c \in B /\ \A k \in 1..(n + 1) : ~OffAt(r, c, k)
          \/ \E j \in 1..(n + 1) : OnAt(r, c, j) /\ \A k \in (j + 1)..(n + 1) : ~OffAt(r, c, k)
    BY <1>5 DEF On
  <2>4. \A k \in 1..(n + 1) : k \in 1..n \/ k = n + 1
    BY <1>1
  <2>5. \A k \in 1..n : k \in 1..(n + 1) /\ n + 1 \in (k + 1)..(n + 1)
    BY <1>1
  <2>6. \A j \in 1..n : \A k \in (j + 1)..n : k \in (j + 1)..(n + 1)
    BY <1>1
  <2>7. \A j \in 1..n : \A k \in (j + 1)..(n + 1) : k \in (j + 1)..n \/ k = n + 1
    BY <1>1
  <2>8. \A k \in (n + 1 + 1)..(n + 1) : FALSE
    BY <1>1
  <2>9. ASSUME On(r, c, B, n + 2), ~OnAt(r, c, n + 1)
        PROVE  ~OffAt(r, c, n + 1) /\ On(r, c, B, n + 1)
    BY <1>5, <2>2, <2>3, <2>4, <2>5, <2>6, <2>9
  <2>10. ASSUME OnAt(r, c, n + 1) PROVE On(r, c, B, n + 2)
    BY <1>5, <2>3, <2>8, <2>10
  <2>11. ASSUME ~OffAt(r, c, n + 1), On(r, c, B, n + 1) PROVE On(r, c, B, n + 2)
    BY <1>5, <2>2, <2>3, <2>4, <2>5, <2>7, <2>11
  <2> QED
    BY <2>1, <2>9, <2>10, <2>11
<1> QED
  BY <1>4, <1>6, <1>7, <1>8 DEF r, n

\* Without the first command, which may have changed the list.
LEMMA DuePop ==
  ASSUME NEW q \in Seq(ThreadCommands), q # <<>>, NEW c, NEW B, NEW D,
         c \in D <=> OnAt(q, c, 1) \/ (c \in B /\ ~OffAt(q, c, 1))
  PROVE  /\ \A i \in 1..(Len(q) - 1) : Due(Tail(q), c, D, i) <=> Due(q, c, B, i + 1)
         /\ On(Tail(q), c, D, Len(q)) <=> On(q, c, B, Len(q) + 1)
<1> DEFINE n == Len(q)
           r == Tail(q)
<1>1. n \in Nat /\ n > 0 /\ \A i \in 1..(n - 1) : r[i] = q[i + 1]
  BY Popped
<1> HIDE DEF n, r
<1>2. \A k \in 1..(n - 1) : /\ (OnAt(r, c, k) <=> OnAt(q, c, k + 1))
                             /\ (OffAt(r, c, k) <=> OffAt(q, c, k + 1))
  BY <1>1 DEF OnAt, OffAt
<1>3. ASSUME NEW i \in 1..n PROVE On(r, c, D, i) <=> On(q, c, B, i + 1)
  <2>1. (i + 1) - 1 = i /\ i \in Nat /\ i > 0 /\ i <= n
    BY <1>1
  <2>2. On(q, c, B, i + 1) <=>
          \/ c \in B /\ \A k \in 1..i : ~OffAt(q, c, k)
          \/ \E j \in 1..i : OnAt(q, c, j) /\ \A k \in (j + 1)..i : ~OffAt(q, c, k)
    BY <2>1 DEF On
  <2>3. \A k \in 1..(i - 1) : k \in 1..(n - 1) /\ k + 1 \in 1..i /\ k + 1 # 1
    BY <1>1, <2>1
  <2>4. \A k \in 1..i : k = 1 \/ (k - 1 \in 1..(i - 1) /\ k = (k - 1) + 1)
    BY <2>1
  <2>5. \A j \in 1..(i - 1) : \A k \in (j + 1)..(i - 1) :
          k \in 1..(i - 1) /\ k + 1 \in ((j + 1) + 1)..i
    BY <1>1, <2>1
  <2>6. \A j \in 1..(i - 1) : \A k \in ((j + 1) + 1)..i :
          k - 1 \in (j + 1)..(i - 1) /\ k - 1 \in 1..(i - 1) /\ k = (k - 1) + 1
    BY <1>1, <2>1
  <2>7. /\ \A k \in 2..i : k \in 1..i /\ k # 1
        /\ \A k \in 1..i : k = 1 \/ k \in 2..i
        /\ 1 \in 1..i /\ 1 + 1 = 2
    BY <2>1
  <2>8. (\A k \in 1..(i - 1) : ~OffAt(r, c, k)) <=> (\A k \in 2..i : ~OffAt(q, c, k))
    <3>1. ASSUME \A k \in 1..(i - 1) : ~OffAt(r, c, k), NEW k \in 2..i PROVE ~OffAt(q, c, k)
      <4>1. k - 1 \in 1..(i - 1) /\ k = (k - 1) + 1
        BY <2>4, <2>7
      <4> QED
        BY <1>2, <2>3, <3>1, <4>1
    <3>2. ASSUME \A k \in 2..i : ~OffAt(q, c, k), NEW k \in 1..(i - 1) PROVE ~OffAt(r, c, k)
      <4>1. k + 1 \in 2..i /\ k \in 1..(n - 1)
        BY <2>3, <2>7
      <4> QED
        BY <1>2, <3>2, <4>1
    <3> QED
      BY <3>1, <3>2
  <2>9. ASSUME On(r, c, D, i) PROVE On(q, c, B, i + 1)
    <3>1. CASE c \in D /\ \A k \in 1..(i - 1) : ~OffAt(r, c, k)
      BY <2>2, <2>7, <2>8, <3>1
    <3>2. ASSUME NEW j \in 1..(i - 1), OnAt(r, c, j),
                 \A k \in (j + 1)..(i - 1) : ~OffAt(r, c, k)
          PROVE  On(q, c, B, i + 1)
      <4>1. j + 1 \in 1..i /\ OnAt(q, c, j + 1)
        BY <1>2, <2>3, <3>2
      <4>2. ASSUME NEW k \in ((j + 1) + 1)..i PROVE ~OffAt(q, c, k)
        <5>1. k - 1 \in (j + 1)..(i - 1) /\ k - 1 \in 1..(n - 1) /\ k = (k - 1) + 1
          BY <2>3, <2>6
        <5> QED
          BY <1>2, <3>2, <5>1
      <4> QED
        BY <2>2, <4>1, <4>2
    <3> QED
      BY <2>9, <3>1, <3>2 DEF On
  <2>10. ASSUME On(q, c, B, i + 1) PROVE On(r, c, D, i)
    <3>1. CASE c \in B /\ \A k \in 1..i : ~OffAt(q, c, k)
      BY <2>7, <2>8, <3>1 DEF On
    <3>2. ASSUME NEW j \in 1..i, OnAt(q, c, j), \A k \in (j + 1)..i : ~OffAt(q, c, k)
          PROVE  On(r, c, D, i)
      <4>1. CASE j = 1
        BY <2>7, <2>8, <3>2, <4>1 DEF On
      <4>2. CASE j # 1
        <5>1. j - 1 \in 1..(i - 1) /\ j = (j - 1) + 1
          BY <2>4, <4>2
        <5>2. OnAt(r, c, j - 1)
          BY <1>2, <2>3, <3>2, <5>1
        <5>3. ASSUME NEW k \in ((j - 1) + 1)..(i - 1) PROVE ~OffAt(r, c, k)
          <6>1. k \in 1..(n - 1) /\ k + 1 \in (j + 1)..i
            BY <2>3, <2>5, <5>1
          <6> QED
            BY <1>2, <3>2, <6>1
        <5> QED
          BY <5>1, <5>2, <5>3 DEF On
      <4> QED
        BY <4>1, <4>2
    <3> QED
      BY <2>2, <2>10, <3>1, <3>2
  <2> QED
    BY <2>9, <2>10
<1>4. \A i \in 1..(n - 1) : Due(r, c, D, i) <=> Due(q, c, B, i + 1)
  <2>1. \A i \in 1..(n - 1) : i \in 1..n /\ r[i] = q[i + 1]
    BY <1>1
  <2> QED
    BY <1>3, <2>1 DEF Due
<1>5. n \in 1..n
  BY <1>1
<1> QED
  BY <1>3, <1>4, <1>5 DEF r, n

\* The numbers of the messages in a queue rise, after a push
LEMMA NumberedAppend ==
  ASSUME NEW q \in Seq(ThreadCommands), NEW e \in ThreadCommands, NEW m \in Nat,
         Numbered(q, m)
  PROVE  /\ ~IsMessage(e) => Numbered(Append(q, e), m)
         /\ Numbered(q, m + 1)
         /\ IsMessage(e) /\ e.n = m + 1 => Numbered(Append(q, e), m + 1)
<1> DEFINE n == Len(q)
           r == Append(q, e)
<1>1. /\ n \in Nat /\ DOMAIN q = 1..n /\ DOMAIN r = 1..(n + 1)
      /\ \A i \in 1..n : r[i] = q[i]
      /\ r[n + 1] = e
  BY Appended
<1>2. \A i \in 1..n : q[i].n \in Nat
  <2>1. \A i \in 1..n : q[i] \in ThreadCommands
    BY <1>1
  <2> QED
    BY <2>1 DEF ThreadCommands
<1> HIDE DEF n, r
<1>3. \A i \in 1..(n + 1) : i \in 1..n \/ i = n + 1
  BY <1>1
<1>4. \A i \in 1..n : IsMessage(q[i]) => q[i].n <= m /\ q[i].n <= m + 1 /\ q[i].n < m + 1
  BY <1>1, <1>2 DEF Numbered
<1>5. \A i, j \in 1..n : IsMessage(q[i]) /\ IsMessage(q[j]) /\ i < j => q[i].n < q[j].n
  BY <1>1 DEF Numbered
<1>6. \A j \in 1..(n + 1) : ~(n + 1 < j)
  BY <1>1
<1>7. ~IsMessage(e) => Numbered(r, m)
  BY <1>1, <1>3, <1>4, <1>5 DEF Numbered
<1>8. Numbered(q, m + 1)
  BY <1>1, <1>4, <1>5 DEF Numbered
<1>9. IsMessage(e) /\ e.n = m + 1 => Numbered(r, m + 1)
  BY <1>1, <1>3, <1>4, <1>5, <1>6 DEF Numbered
<1> QED
  BY <1>7, <1>8, <1>9 DEF r

\* and after a pop;
LEMMA NumberedPop ==
  ASSUME NEW q \in Seq(ThreadCommands), q # <<>>, NEW m \in Nat, Numbered(q, m)
  PROVE  Numbered(Tail(q), m)
<1> DEFINE n == Len(q)
           r == Tail(q)
<1>1. /\ n \in Nat /\ n > 0 /\ DOMAIN q = 1..n /\ DOMAIN r = 1..(n - 1)
      /\ \A i \in 1..(n - 1) : r[i] = q[i + 1]
  BY Popped
<1> HIDE DEF n, r
<1>2. \A i \in 1..(n - 1) : i + 1 \in 1..n /\ r[i] = q[i + 1]
  BY <1>1
<1>3. \A i, j \in 1..(n - 1) : i < j => i + 1 < j + 1
  BY <1>1
<1>4. Numbered(r, m)
  BY <1>1, <1>2, <1>3 DEF Numbered
<1> QED
  BY <1>4 DEF r

\* so do those of the messages that are addressed.
LEMMA RisingAppend ==
  ASSUME NEW a \in Seq(Nat), NEW m \in Nat, Rising(a, m)
  PROVE  Rising(a, m + 1) /\ Rising(Append(a, m + 1), m + 1)
<1> DEFINE n == Len(a)
           r == Append(a, m + 1)
<1>1. /\ n \in Nat /\ DOMAIN a = 1..n /\ DOMAIN r = 1..(n + 1)
      /\ \A i \in 1..n : r[i] = a[i] /\ a[i] \in Nat
      /\ r[n + 1] = m + 1
  BY Appended
<1> HIDE DEF n, r
<1>2. \A i \in 1..(n + 1) : i \in 1..n \/ i = n + 1
  BY <1>1
<1>3. \A i \in 1..n : a[i] <= m /\ a[i] <= m + 1 /\ a[i] < m + 1
  BY <1>1, SMTT(60) DEF Rising
<1>4. \A k, l \in 1..n : k < l => a[k] < a[l]
  BY <1>1 DEF Rising
<1>5. \A j \in 1..(n + 1) : ~(n + 1 < j)
  BY <1>1
<1>6. Rising(a, m + 1)
  BY <1>1, <1>3, <1>4 DEF Rising
<1>7. Rising(r, m + 1)
  <2>1. \A k \in 1..(n + 1) : r[k] <= m + 1
    BY <1>1, <1>2, <1>3
  <2>2. ASSUME NEW k \in 1..(n + 1), NEW l \in 1..(n + 1), k < l PROVE r[k] < r[l]
    <3>1. k \in 1..n
      BY <1>2, <1>5, <2>2
    <3>2. CASE l = n + 1
      BY <1>1, <1>3, <3>1, <3>2
    <3>3. CASE l \in 1..n
      BY <1>1, <1>4, <2>2, <3>1, <3>3
    <3> QED
      BY <1>2, <3>2, <3>3
  <2> QED
    BY <1>1, <2>1, <2>2 DEF Rising
<1> QED
  BY <1>6, <1>7 DEF r

\* A command that gives nothing is queued, or one that gives what is addressed.
LEMMA OwedAppend ==
  ASSUME NEW q \in Seq(ThreadCommands), NEW e \in ThreadCommands, NEW c, NEW B,
         NEW a \in Seq(Nat), NEW d \in 0..Len(a), Owed(q, c, B, a, d)
  PROVE  /\ ~Due(Append(q, e), c, B, Len(q) + 1) => Owed(Append(q, e), c, B, a, d)
         /\ Due(Append(q, e), c, B, Len(q) + 1)
              => Owed(Append(q, e), c, B, Append(a, e.n), d)
<1> DEFINE n == Len(q)
           r == Append(q, e)
           x == e.n
           b == Append(a, x)
           l == Len(a)
<1>1. /\ n \in Nat /\ DOMAIN q = 1..n /\ DOMAIN r = 1..(n + 1)
      /\ \A i \in 1..n : r[i] = q[i]
      /\ r[n + 1] = e
      /\ \A i \in 1..n : Due(r, c, B, i) <=> Due(q, c, B, i)
  <2>1. \A i \in 1..n : Due(r, c, B, i) <=> Due(q, c, B, i)
    BY DueAppend
  <2> QED
    BY <2>1, Appended
<1>2. x \in Nat
  BY DEF ThreadCommands
<1> HIDE DEF x
<1>3. /\ l \in Nat /\ Len(b) = l + 1 /\ b[l + 1] = x /\ \A k \in 1..l : b[k] = a[k]
      /\ d \in 0..l
  BY <1>2, Appended
<1>4. r[n + 1].n = x
  BY <1>1 DEF x
<1>5. /\ \A i \in 1..n : Due(q, c, B, i) => \E k \in (d + 1)..l : a[k] = q[i].n
      /\ \A k \in (d + 1)..l : \E i \in 1..n : Due(q, c, B, i) /\ q[i].n = a[k]
  BY <1>1 DEF Owed
<1> HIDE DEF n, r, b, l
<1>6. \A i \in 1..(n + 1) : i \in 1..n \/ i = n + 1
  BY <1>1
<1>7. n + 1 \in 1..(n + 1) /\ \A i \in 1..n : i \in 1..(n + 1)
  BY <1>1
<1>8. ASSUME ~Due(r, c, B, n + 1) PROVE Owed(r, c, B, a, d)
  BY <1>1, <1>5, <1>6, <1>7, <1>8, ZenonT(60) DEF Owed, l
<1>9. ASSUME Due(r, c, B, n + 1) PROVE Owed(r, c, B, b, d)
  <2>1. /\ l + 1 \in (d + 1)..(l + 1)
        /\ \A k \in (d + 1)..l : k \in (d + 1)..(l + 1) /\ k \in 1..l
        /\ \A k \in (d + 1)..(l + 1) : k = l + 1 \/ k \in (d + 1)..l
    BY <1>3
  <2>2. ASSUME NEW i \in 1..(n + 1), Due(r, c, B, i)
        PROVE  \E k \in (d + 1)..(l + 1) : b[k] = r[i].n
    <3>1. CASE i = n + 1
      BY <1>3, <1>4, <2>1, <3>1
    <3>2. CASE i \in 1..n
      <4>1. PICK k \in (d + 1)..l : a[k] = q[i].n
        BY <1>1, <1>5, <2>2, <3>2
      <4> QED
        BY <1>1, <1>3, <2>1, <3>2, <4>1
    <3> QED
      BY <1>6, <3>1, <3>2
  <2>3. ASSUME NEW k \in (d + 1)..(l + 1)
        PROVE  \E i \in 1..(n + 1) : Due(r, c, B, i) /\ r[i].n = b[k]
    <3>1. CASE k = l + 1
      BY <1>3, <1>4, <1>7, <1>9, <3>1
    <3>2. CASE k \in (d + 1)..l
      <4>1. PICK i \in 1..n : Due(q, c, B, i) /\ q[i].n = a[k]
        BY <1>5, <3>2
      <4> QED
        BY <1>1, <1>3, <1>7, <2>1, <3>2, <4>1
    <3> QED
      BY <2>1, <3>1, <3>2
  <2> QED
    BY <1>1, <1>3, <2>2, <2>3 DEF Owed
<1> QED
  BY <1>8, <1>9 DEF r, n, b, x

\* The first command gives nothing, or what is to be delivered next.
LEMMA OwedPop ==
  ASSUME NEW q \in Seq(ThreadCommands), q # <<>>, NEW c, NEW B, NEW D,
         c \in D <=> OnAt(q, c, 1) \/ (c \in B /\ ~OffAt(q, c, 1)),
         NEW m \in Nat, Numbered(q, m), NEW a \in Seq(Nat), Rising(a, m),
         NEW d \in 0..Len(a), Owed(q, c, B, a, d)
  PROVE  /\ ~Due(q, c, B, 1) => Owed(Tail(q), c, D, a, d)
         /\ Due(q, c, B, 1) => /\ d + 1 \in 1..Len(a) /\ a[d + 1] = q[1].n
                               /\ Owed(Tail(q), c, D, a, d + 1)
<1> DEFINE n == Len(q)
           r == Tail(q)
           l == Len(a)
<1>1. /\ n \in Nat /\ n > 0 /\ DOMAIN q = 1..n /\ DOMAIN r = 1..(n - 1)
      /\ \A i \in 1..(n - 1) : r[i] = q[i + 1]
      /\ \A i \in 1..(n - 1) : Due(r, c, D, i) <=> Due(q, c, B, i + 1)
  BY Popped, DuePop
<1>2. /\ l \in Nat /\ DOMAIN a = 1..l /\ d \in 0..l /\ \A k \in 1..l : a[k] \in Nat
  OBVIOUS
<1>3. /\ \A i \in 1..n : Due(q, c, B, i) => \E k \in (d + 1)..l : a[k] = q[i].n
      /\ \A k \in (d + 1)..l : \E i \in 1..n : Due(q, c, B, i) /\ q[i].n = a[k]
  BY <1>1 DEF Owed
<1>4. \A i \in 1..n : q[i].n \in Nat
  <2>1. \A i \in 1..n : q[i] \in ThreadCommands
    BY <1>1
  <2> QED
    BY <2>1 DEF ThreadCommands
<1> HIDE DEF n, r, l
<1>5. /\ \A i \in 1..(n - 1) : i + 1 \in 1..n
      /\ \A i \in 1..n : i = 1 \/ (i - 1 \in 1..(n - 1) /\ i = (i - 1) + 1 /\ 1 < i)
      /\ 1 \in 1..n
  BY <1>1
<1>6. ASSUME ~Due(q, c, B, 1) PROVE Owed(r, c, D, a, d)
  <2>1. ASSUME NEW i \in 1..(n - 1), Due(r, c, D, i) PROVE \E k \in (d + 1)..l : a[k] = r[i].n
    <3>1. i + 1 \in 1..n /\ Due(q, c, B, i + 1) /\ r[i] = q[i + 1]
      BY <1>1, <1>5, <2>1
    <3> QED
      BY <1>3, <3>1, SMTT(60)
  <2>2. ASSUME NEW k \in (d + 1)..l
        PROVE  \E i \in 1..(n - 1) : Due(r, c, D, i) /\ r[i].n = a[k]
    <3>1. PICK i \in 1..n : Due(q, c, B, i) /\ q[i].n = a[k]
      BY <1>3
    <3>2. i - 1 \in 1..(n - 1) /\ i = (i - 1) + 1
      BY <1>5, <1>6, <3>1
    <3>3. Due(r, c, D, i - 1) /\ r[i - 1].n = a[k]
      BY <1>1, <3>1, <3>2
    <3> QED
      BY <3>2, <3>3
  <2> QED
    BY <1>1, <2>1, <2>2 DEF Owed, l
<1>7. \A i \in 1..n : Due(q, c, B, i) => IsMessage(q[i])
  BY DEF Due, IsMessage
<1>8. ASSUME Due(q, c, B, 1)
      PROVE  d + 1 \in 1..l /\ a[d + 1] = q[1].n /\ Owed(r, c, D, a, d + 1)
  <2>1. PICK k \in (d + 1)..l : a[k] = q[1].n
    BY <1>3, <1>5, <1>8
  <2>2. d + 1 \in (d + 1)..l /\ d + 1 \in 1..l /\ k \in 1..l /\ d + 1 <= k
    BY <1>2, <2>1
  <2>3. PICK i \in 1..n : Due(q, c, B, i) /\ q[i].n = a[d + 1]
    BY <1>3, <2>2
  <2>4. i = 1
    <3>1. i # 1 => q[1].n < q[i].n
      BY <1>1, <1>5, <1>7, <1>8, <2>3 DEF Numbered
    <3>2. a[d + 1] <= a[k]
      <4>1. CASE k = d + 1
        BY <1>2, <2>2, <4>1
      <4>2. CASE k # d + 1
        <5>1. d + 1 \in DOMAIN a /\ k \in DOMAIN a /\ d + 1 < k
          BY <1>2, <2>2, <4>2
        <5>2. a[d + 1] < a[k]
          BY <5>1 DEF Rising
        <5> QED
          BY <1>2, <2>2, <5>2
      <4> QED
        BY <4>1, <4>2
    <3> QED
      BY <1>2, <1>4, <1>5, <2>1, <2>2, <2>3, <3>1, <3>2, SMTT(60)
  <2>5. a[d + 1] = q[1].n
    BY <2>3, <2>4
  <2>6. /\ (d + 1) + 1 \in Nat
        /\ \A j \in ((d + 1) + 1)..l : j \in (d + 1)..l /\ j \in 1..l /\ d + 1 < j
    BY <1>2
  <2>7. \A j \in (d + 1)..l : j = d + 1 \/ j \in ((d + 1) + 1)..l
    BY <1>2
  <2>8. ASSUME NEW j \in 1..(n - 1), Due(r, c, D, j)
        PROVE  \E g \in ((d + 1) + 1)..l : a[g] = r[j].n
    <3>1. j + 1 \in 1..n /\ Due(q, c, B, j + 1) /\ r[j] = q[j + 1] /\ 1 < j + 1
      BY <1>1, <1>5, <2>8
    <3>2. PICK g \in (d + 1)..l : a[g] = q[j + 1].n
      BY <1>3, <3>1
    <3>3. q[1].n < q[j + 1].n
      BY <1>1, <1>5, <1>7, <1>8, <3>1 DEF Numbered
    <3>4. g # d + 1
      BY <1>4, <1>5, <2>5, <3>1, <3>2, <3>3, SMTT(60)
    <3> QED
      BY <2>7, <3>1, <3>2, <3>4
  <2>9. ASSUME NEW g \in ((d + 1) + 1)..l
        PROVE  \E j \in 1..(n - 1) : Due(r, c, D, j) /\ r[j].n = a[g]
    <3>1. PICK j \in 1..n : Due(q, c, B, j) /\ q[j].n = a[g]
      BY <1>3, <2>6
    <3>2. a[d + 1] < a[g]
      BY <1>2, <2>2, <2>6 DEF Rising
    <3>3. j # 1
      BY <1>2, <2>2, <2>5, <2>6, <3>1, <3>2
    <3>4. j - 1 \in 1..(n - 1) /\ j = (j - 1) + 1
      BY <1>5, <3>3
    <3>5. Due(r, c, D, j - 1) /\ r[j - 1].n = a[g]
      BY <1>1, <3>1, <3>4
    <3> QED
      BY <3>4, <3>5
  <2>10. Owed(r, c, D, a, d + 1)
    BY <1>1, <2>8, <2>9 DEF Owed, l
  <2> QED
    BY <2>2, <2>5, <2>10
<1> QED
  BY <1>6, <1>8 DEF r, l

\* What is delivered is what was addressed first.
DeliveredFirst(c) ==
  /\ Rising(addressed[c], ops)
  /\ Len(delivered[c]) <= Len(addressed[c])
  /\ \A k \in 1..Len(delivered[c]) : delivered[c][k] = addressed[c][k]
  /\ Fresh(c) => addressed[c] = <<>>

\* The thread of a connection will know of its broadcasts what the application
\* knows, and will deliver the rest.
RestQueued(c) ==
  IsConnected(c) =>
    LET q == threadQueue[home[c]] IN
      /\ c \in enabled <=> On(q, c, broadcast, Len(q) + 1)
      /\ Owed(q, c, broadcast, addressed[c], Len(delivered[c]))

DeliveryInv ==
  /\ \A t \in Threads : Numbered(threadQueue[t], ops)
  /\ \A c \in Conns : DeliveredFirst(c) /\ RestQueued(c)

\* The types that the steps below need.
LEMMA DeliveryTypes ==
  ASSUME TypeInv, DeliveryInv, NEW d \in Conns
  PROVE  /\ addressed[d] \in Seq(Nat) /\ delivered[d] \in Seq(Nat) /\ ops \in Nat
         /\ Len(addressed[d]) \in Nat /\ Len(delivered[d]) \in Nat
         /\ Len(delivered[d]) \in 0..Len(addressed[d])
         /\ IsConnected(d) => /\ home[d] \in Threads
                              /\ threadQueue[home[d]] \in Seq(ThreadCommands)
                              /\ Len(threadQueue[home[d]]) \in Nat
<1>1. /\ addressed[d] \in Seq(Nat) /\ delivered[d] \in Seq(Nat) /\ ops \in Nat
      /\ IsConnected(d) => home[d] \in Threads
      /\ \A t \in Threads : threadQueue[t] \in Seq(ThreadCommands)
  BY DEF TypeInv, TypeOK, HistoryTyped, QueuesTyped, IsConnected
<1>2. Len(addressed[d]) \in Nat /\ Len(delivered[d]) \in Nat
  BY <1>1, LenProperties
<1>3. Len(delivered[d]) <= Len(addressed[d])
  BY DEF DeliveryInv, DeliveredFirst
<1>4. IsConnected(d) => Len(threadQueue[home[d]]) \in Nat
  BY <1>1, LenProperties
<1> QED
  BY <1>1, <1>2, <1>3, <1>4

\* A step that neither addresses nor delivers.
LEMMA DeliveryKept ==
  ASSUME DeliveryInv, NEW d \in Conns,
         UNCHANGED <<ops, addressed, delivered, threadQueue, broadcast>>,
         Fresh(d)' => Fresh(d),
         IsConnected(d)' => /\ IsConnected(d) /\ home'[d] = home[d]
                           /\ (d \in enabled' <=> d \in enabled)
  PROVE  /\ (DeliveredFirst(d) /\ RestQueued(d))'
         /\ (\A t \in Threads : Numbered(threadQueue[t], ops))'
<1>1. DeliveredFirst(d)'
  BY DEF DeliveryInv, DeliveredFirst
<1>2. RestQueued(d)'
  BY DEF DeliveryInv, RestQueued
<1>3. (\A t \in Threads : Numbered(threadQueue[t], ops))'
  BY DEF DeliveryInv
<1> QED
  BY <1>1, <1>2, <1>3

\* An operation of the application, about connection d.
LEMMA DeliveryOperated ==
  ASSUME TypeInv, DeliveryInv, NEW d \in Conns, ops' = ops + 1,
         UNCHANGED <<home, accepting, delivered>>,
         \/ addressed'[d] = addressed[d]
         \/ addressed'[d] = Append(addressed[d], ops + 1) /\ ~Fresh(d)
  PROVE  DeliveredFirst(d)'
<1>1. /\ addressed[d] \in Seq(Nat) /\ delivered[d] \in Seq(Nat) /\ ops \in Nat
      /\ Len(addressed[d]) \in Nat /\ Len(delivered[d]) \in 0..Len(addressed[d])
  BY DeliveryTypes
<1>2. Rising(addressed[d], ops) /\ DeliveredFirst(d)
  BY DEF DeliveryInv, DeliveredFirst
<1>3. Rising(addressed[d], ops + 1) /\ Rising(Append(addressed[d], ops + 1), ops + 1)
  BY <1>1, <1>2, RisingAppend
<1>4. CASE addressed'[d] = addressed[d]
  BY <1>2, <1>3, <1>4 DEF DeliveredFirst, Fresh
<1>5. CASE addressed'[d] = Append(addressed[d], ops + 1) /\ ~Fresh(d)
  <2>1. /\ Len(addressed'[d]) = Len(addressed[d]) + 1
        /\ \A k \in 1..Len(addressed[d]) : addressed'[d][k] = addressed[d][k]
    BY <1>1, <1>5, Appended
  <2>2. \A k \in 1..Len(delivered[d]) : k \in 1..Len(addressed[d])
    BY <1>1
  <2>3. Len(delivered[d]) <= Len(addressed[d]) + 1
    BY <1>1
  <2> QED
    BY <1>2, <1>3, <1>5, <2>1, <2>2, <2>3 DEF DeliveredFirst, Fresh
<1> QED
  BY <1>4, <1>5

\* A command is queued for the thread of connection d.
LEMMA RestPush ==
  ASSUME TypeInv, DeliveryInv, NEW d \in Conns, NEW e \in ThreadCommands,
         UNCHANGED <<home, connections, pendingError, broadcast, delivered>>,
         IsConnected(d) => threadQueue'[home[d]] = Append(threadQueue[home[d]], e),
         addressed'[d] = IF e.fits /\ \/ e.type = "MESSAGE" /\ e.conn = d
                                      \/ e.type = "BROADCAST" /\ d \in enabled
                         THEN Append(addressed[d], e.n) ELSE addressed[d],
         d \in enabled' <=>
           \/ e.type = "ENABLE_BROADCAST" /\ e.conn = d
           \/ /\ ~(e.type \in {"DISABLE_BROADCAST", "CLOSE"} /\ e.conn = d)
              /\ d \in enabled
  PROVE  RestQueued(d)'
<1> SUFFICES ASSUME IsConnected(d)
             PROVE  RestQueued(d)'
  BY DEF RestQueued, IsConnected
<1> DEFINE q == threadQueue[home[d]]
           n == Len(q)
           k == Len(delivered[d])
<1>1. /\ addressed[d] \in Seq(Nat) /\ k \in 0..Len(addressed[d])
      /\ q \in Seq(ThreadCommands) /\ n \in Nat
  BY DeliveryTypes
<1>2. /\ d \in enabled <=> On(q, d, broadcast, n + 1)
      /\ Owed(q, d, broadcast, addressed[d], k)
  BY DEF DeliveryInv, RestQueued
<1>3. threadQueue'[home'[d]] = Append(q, e) /\ Len(Append(q, e)) + 1 = n + 2
  BY <1>1, Appended
<1> HIDE DEF q, n, k
<1>4. /\ Due(Append(q, e), d, broadcast, n + 1) <=>
           /\ e.fits
           /\ \/ e.type = "MESSAGE" /\ e.conn = d
              \/ e.type = "BROADCAST" /\ On(q, d, broadcast, n + 1)
      /\ On(Append(q, e), d, broadcast, n + 2) <=>
           \/ e.type = "ENABLE_BROADCAST" /\ e.conn = d
           \/ /\ ~(e.type \in {"DISABLE_BROADCAST", "CLOSE"} /\ e.conn = d)
              /\ On(q, d, broadcast, n + 1)
  BY <1>1, DueAppend DEF n
<1>5. /\ ~Due(Append(q, e), d, broadcast, n + 1)
           => Owed(Append(q, e), d, broadcast, addressed[d], k)
      /\ Due(Append(q, e), d, broadcast, n + 1)
           => Owed(Append(q, e), d, broadcast, Append(addressed[d], e.n), k)
  BY <1>1, <1>2, OwedAppend DEF n
<1>6. d \in enabled' <=> On(Append(q, e), d, broadcast, n + 2)
  BY <1>2, <1>4
<1>7. Owed(Append(q, e), d, broadcast, addressed'[d], k)
  BY <1>2, <1>4, <1>5
<1> QED
  BY <1>3, <1>6, <1>7 DEF RestQueued, k

\* Only whether the connection itself is in the list matters.
LEMMA ListSame ==
  ASSUME NEW q, NEW c, NEW B, NEW D, c \in B <=> c \in D, NEW a, NEW d
  PROVE  /\ \A i : On(q, c, B, i) <=> On(q, c, D, i)
         /\ Owed(q, c, B, a, d) <=> Owed(q, c, D, a, d)
<1>1. \A i : On(q, c, B, i) <=> On(q, c, D, i)
  BY DEF On
<1>2. \A i : Due(q, c, B, i) <=> Due(q, c, D, i)
  BY <1>1 DEF Due
<1> QED
  BY <1>1, <1>2 DEF Owed

\* What a net thread's command does to connection d.
LEMMA CommandGives ==
  ASSUME TypeInv, NEW t \in Threads, ThreadCommand(t), NEW d \in Conns
  PROVE  /\ IsConnected(d)' => IsConnected(d)
         /\ IsConnected(d)' /\ home[d] = t =>
              LET q == threadQueue[t] IN
                /\ d \in broadcast' <=> OnAt(q, d, 1) \/ (d \in broadcast /\ ~OffAt(q, d, 1))
                /\ delivered'[d] = IF Due(q, d, broadcast, 1)
                                   THEN Append(delivered[d], q[1].n) ELSE delivered[d]
         /\ ~(IsConnected(d)' /\ home[d] = t) =>
              /\ delivered'[d] = delivered[d]
              /\ IsConnected(d)' => (d \in broadcast' <=> d \in broadcast)
<1> DEFINE q == threadQueue[t]
           cmd == Head(q)
           c == cmd.conn
<1>1. /\ cmd \in ThreadCommands
      /\ cmd.type # "BROADCAST" => c \in Conns /\ home[c] = t
  BY ThreadPopType DEF ThreadCommand, acceptVars
<1>2. q \in Seq(ThreadCommands) /\ q # <<>> /\ cmd = q[1]
  BY Popped DEF ThreadCommand, TypeInv, QueuesTyped
<1>3. On(q, d, broadcast, 1) <=> d \in broadcast
  BY DEF On
<1>4. /\ Due(q, d, broadcast, 1) <=>
           /\ cmd.fits
           /\ \/ cmd.type = "MESSAGE" /\ c = d
              \/ cmd.type = "BROADCAST" /\ d \in broadcast
      /\ OnAt(q, d, 1) <=> cmd.type = "ENABLE_BROADCAST" /\ c = d
      /\ OffAt(q, d, 1) <=> cmd.type \in {"DISABLE_BROADCAST", "CLOSE"} /\ c = d
  BY <1>2, <1>3 DEF Due, OnAt, OffAt
<1>5. ASSUME NEW cs, SendMessage(cs, cmd.n), UNCHANGED connections,
             d \in cs => IsConnected(d)
      PROVE  /\ IsConnected(d)' => IsConnected(d)
             /\ delivered'[d] = IF IsConnected(d)' /\ d \in cs
                                THEN Append(delivered[d], cmd.n) ELSE delivered[d]
  <2>1. PICK failing \in SUBSET cs :
          GiveTo(cs \ failing, cmd.n) /\ pendingError' = pendingError \cup failing
    BY <1>5 DEF SendMessage
  <2>2. delivered'[d] = IF d \in cs \ failing THEN Append(delivered[d], cmd.n)
                        ELSE delivered[d]
    BY <2>1 DEF GiveTo
  <2> QED
    BY <1>5, <2>1, <2>2 DEF IsConnected
<1>6. cmd.fits \in BOOLEAN /\ cmd.type \in {"CLOSE", "MESSAGE", "BROADCAST", "ENABLE_BROADCAST",
                                          "DISABLE_BROADCAST"}
  BY <1>1 DEF ThreadCommands
<1> HIDE DEF q, cmd
<1> DEFINE
      Gives ==
        /\ IsConnected(d)' => IsConnected(d)
        /\ IsConnected(d)' /\ home[d] = t =>
             /\ d \in broadcast' <=> OnAt(q, d, 1) \/ (d \in broadcast /\ ~OffAt(q, d, 1))
             /\ delivered'[d] = IF Due(q, d, broadcast, 1)
                                THEN Append(delivered[d], cmd.n) ELSE delivered[d]
        /\ ~(IsConnected(d)' /\ home[d] = t) =>
             /\ delivered'[d] = delivered[d]
             /\ IsConnected(d)' => (d \in broadcast' <=> d \in broadcast)
<1>7. ASSUME cmd.type = "BROADCAST",
             SendMessage(IF cmd.fits THEN Receivers(t) ELSE {}, cmd.n),
             UNCHANGED <<connections, watched, mainQueue, broadcast>>
      PROVE  Gives
  <2>1. d \in (IF cmd.fits THEN Receivers(t) ELSE {}) <=>
          cmd.fits /\ d \in broadcast /\ IsConnected(d) /\ home[d] = t
    BY <1>6 DEF Receivers
  <2> QED
    BY <1>4, <1>5, <1>7, <2>1
<1>8. ASSUME cmd.type # "BROADCAST", ~IsConnected(c),
             UNCHANGED <<connections, watched, pendingError, mainQueue, broadcast, delivered>>
      PROVE  Gives
  BY <1>4, <1>8 DEF IsConnected
<1>9. ASSUME cmd.type = "CLOSE", IsConnected(c), CloseReactorSocket(c),
             UNCHANGED <<mainQueue, broadcast, delivered>>
      PROVE  Gives
  BY <1>4, <1>9 DEF CloseReactorSocket, IsConnected
<1>10. ASSUME cmd.type = "MESSAGE", IsConnected(c), cmd.fits, SendMessage({c}, cmd.n),
              UNCHANGED <<connections, watched, mainQueue, broadcast>>
       PROVE  Gives
  <2>1. /\ IsConnected(d)' => IsConnected(d)
        /\ delivered'[d] = IF IsConnected(d)' /\ d = c THEN Append(delivered[d], cmd.n)
                           ELSE delivered[d]
    BY <1>5, <1>10
  <2> QED
    BY <1>1, <1>4, <1>10, <2>1
<1>11. ASSUME cmd.type = "MESSAGE", IsConnected(c), ~cmd.fits, CloseSocket(c),
              UNCHANGED <<broadcast, delivered>>
       PROVE  Gives
  BY <1>1, <1>4, <1>11 DEF CloseSocket, CloseReactorSocket, IsConnected
<1>12. ASSUME cmd.type = "ENABLE_BROADCAST", IsConnected(c),
              broadcast' = broadcast \cup {c},
              UNCHANGED <<connections, watched, pendingError, mainQueue, delivered>>
       PROVE  Gives
  BY <1>1, <1>4, <1>12 DEF IsConnected
<1>13. ASSUME cmd.type = "DISABLE_BROADCAST", IsConnected(c),
              broadcast' = broadcast \ {c},
              UNCHANGED <<connections, watched, pendingError, mainQueue, delivered>>
       PROVE  Gives
  BY <1>1, <1>4, <1>13 DEF IsConnected
<1> HIDE DEF Gives
<1>14. Gives
  BY <1>7, <1>8, <1>9, <1>10, <1>11, <1>12, <1>13 DEF ThreadCommand, cmd, q
<1> QED
  BY <1>2, <1>14 DEF Gives, q

\* A step of a net thread delivers what is due.
LEMMA DeliveryThread ==
  ASSUME TypeInv, DeliveryInv, NEW t \in Threads, ThreadCommand(t), NEW d \in Conns
  PROVE  (DeliveredFirst(d) /\ RestQueued(d))'
<1> DEFINE q == threadQueue[t]
           k == Len(delivered[d])
<1>1. /\ UNCHANGED <<home, accepting, ops, addressed, enabled>>
      /\ threadQueue' = [threadQueue EXCEPT ![t] = Tail(@)] /\ q # <<>>
  BY DEF ThreadCommand, acceptVars, appVars
<1>2. /\ addressed[d] \in Seq(Nat) /\ delivered[d] \in Seq(Nat) /\ ops \in Nat
      /\ k \in 0..Len(addressed[d]) /\ k \in Nat /\ Len(addressed[d]) \in Nat
  BY DeliveryTypes
<1>3. /\ q \in Seq(ThreadCommands) /\ threadQueue'[t] = Tail(q)
      /\ \A u \in Threads : u # t => threadQueue'[u] = threadQueue[u]
      /\ Len(q) \in Nat /\ Len(Tail(q)) = Len(q) - 1 /\ q[1] \in ThreadCommands
  <2>1. threadQueue \in [Threads -> Seq(ThreadCommands)]
    BY DEF TypeInv, QueuesTyped
  <2> QED
    BY <1>1, <2>1, Popped
<1>4. /\ DeliveredFirst(d) /\ Rising(addressed[d], ops) /\ RestQueued(d) /\ Numbered(q, ops)
  BY DEF DeliveryInv, DeliveredFirst
<1>5. /\ IsConnected(d)' => IsConnected(d)
      /\ IsConnected(d)' /\ home[d] = t =>
           /\ d \in broadcast' <=> OnAt(q, d, 1) \/ (d \in broadcast /\ ~OffAt(q, d, 1))
           /\ delivered'[d] = IF Due(q, d, broadcast, 1)
                              THEN Append(delivered[d], q[1].n) ELSE delivered[d]
      /\ ~(IsConnected(d)' /\ home[d] = t) =>
           /\ delivered'[d] = delivered[d]
           /\ IsConnected(d)' => (d \in broadcast' <=> d \in broadcast)
  BY CommandGives
<1> HIDE DEF q, k
<1>6. CASE ~(IsConnected(d)' /\ home[d] = t)
  <2>1. DeliveredFirst(d)'
    BY <1>1, <1>4, <1>5, <1>6 DEF DeliveredFirst, Fresh
  <2>2. ASSUME IsConnected(d)' PROVE RestQueued(d)'
    <3>1. home[d] \in Threads /\ home[d] # t /\ home' = home
      BY <1>1, <1>5, <1>6, <2>2 DEF TypeInv, TypeOK, IsConnected
    <3>2. threadQueue'[home[d]] = threadQueue[home[d]]
      BY <1>3, <3>1
    <3>3. /\ \A i : On(threadQueue[home[d]], d, broadcast, i)
                    <=> On(threadQueue[home[d]], d, broadcast', i)
          /\ Owed(threadQueue[home[d]], d, broadcast, addressed[d], k)
               <=> Owed(threadQueue[home[d]], d, broadcast', addressed[d], k)
      BY <1>5, <1>6, <2>2, ListSame
    <3>4. Len(delivered'[d]) = k
      BY <1>5, <1>6 DEF k
    <3>5. /\ d \in enabled <=> On(threadQueue[home[d]], d, broadcast, Len(threadQueue[home[d]]) + 1)
          /\ Owed(threadQueue[home[d]], d, broadcast, addressed[d], k)
      BY <1>4, <1>5, <2>2 DEF RestQueued, k
    <3> QED
      BY <1>1, <3>1, <3>2, <3>3, <3>4, <3>5 DEF RestQueued
  <2>3. RestQueued(d)'
    BY <2>2 DEF RestQueued
  <2> QED
    BY <2>1, <2>3
<1>7. CASE IsConnected(d)' /\ home[d] = t
  <2>1. /\ d \in enabled <=> On(q, d, broadcast, Len(q) + 1)
        /\ Owed(q, d, broadcast, addressed[d], k)
    BY <1>4, <1>5, <1>7 DEF RestQueued, q, k
  <2>2. d \in broadcast' <=> OnAt(q, d, 1) \/ (d \in broadcast /\ ~OffAt(q, d, 1))
    BY <1>5, <1>7
  <2>3. On(Tail(q), d, broadcast', Len(q)) <=> On(q, d, broadcast, Len(q) + 1)
    BY <1>1, <1>3, <2>2, DuePop
  <2>4. /\ ~Due(q, d, broadcast, 1) => Owed(Tail(q), d, broadcast', addressed[d], k)
        /\ Due(q, d, broadcast, 1) =>
             /\ k + 1 \in 1..Len(addressed[d]) /\ addressed[d][k + 1] = q[1].n
             /\ Owed(Tail(q), d, broadcast', addressed[d], k + 1)
    BY <1>1, <1>2, <1>3, <1>4, <2>1, <2>2, OwedPop
  <2>5. On(Tail(q), d, broadcast', Len(Tail(q)) + 1) <=> d \in enabled
    <3>1. Len(Tail(q)) + 1 = Len(q)
      BY <1>3
    <3> QED
      BY <2>1, <2>3, <3>1
  <2>6. CASE ~Due(q, d, broadcast, 1)
    <3>1. delivered'[d] = delivered[d]
      BY <1>5, <1>7, <2>6
    <3>2. DeliveredFirst(d)'
      BY <1>1, <1>4, <3>1 DEF DeliveredFirst, Fresh
    <3>3. RestQueued(d)'
      BY <1>1, <1>3, <1>7, <2>4, <2>5, <2>6, <3>1 DEF RestQueued, k
    <3> QED
      BY <3>2, <3>3
  <2>7. CASE Due(q, d, broadcast, 1)
    <3>1. delivered'[d] = Append(delivered[d], q[1].n) /\ q[1].n \in Nat
      BY <1>3, <1>5, <1>7, <2>7 DEF ThreadCommands
    <3>2. /\ Len(delivered'[d]) = k + 1 /\ delivered'[d][k + 1] = q[1].n
          /\ \A i \in 1..k : delivered'[d][i] = delivered[d][i]
      BY <1>2, <3>1, Appended DEF k
    <3>3. k + 1 <= Len(addressed[d]) /\ \A i \in 1..(k + 1) : i \in 1..k \/ i = k + 1
      BY <1>2, <2>4, <2>7
    <3>4. DeliveredFirst(d)'
      BY <1>1, <1>4, <2>4, <2>7, <3>2, <3>3 DEF DeliveredFirst, Fresh, k
    <3>5. RestQueued(d)'
      BY <1>1, <1>3, <1>7, <2>4, <2>5, <2>7, <3>2 DEF RestQueued
    <3> QED
      BY <3>4, <3>5
  <2> QED
    BY <2>6, <2>7
<1> QED
  BY <1>6, <1>7

\* A command is queued for the thread of connection c.
LEMMA DeliveryPushed ==
  ASSUME TypeInv, DeliveryInv, NEW c \in Conns, NEW n \in Nat, NEW fits \in BOOLEAN,
         NEW type \in {"CLOSE", "MESSAGE", "ENABLE_BROADCAST", "DISABLE_BROADCAST"},
         home[c] \in Threads, NEW d \in Conns,
         threadQueue' = ToThread(type, c, n, fits),
         UNCHANGED <<home, connections, pendingError, broadcast, delivered>>,
         addressed'[d] = IF fits /\ type = "MESSAGE" /\ c = d
                         THEN Append(addressed[d], n) ELSE addressed[d],
         d \in enabled' <=>
           \/ type = "ENABLE_BROADCAST" /\ c = d
           \/ ~(type \in {"DISABLE_BROADCAST", "CLOSE"} /\ c = d) /\ d \in enabled
  PROVE  RestQueued(d)'
<1> DEFINE e == [type |-> type, conn |-> c, n |-> n, fits |-> fits]
<1>1. /\ e \in ThreadCommands /\ e.type = type /\ e.conn = c /\ e.n = n /\ e.fits = fits
  BY DEF ThreadCommands
<1>2. threadQueue' = [threadQueue EXCEPT ![home[c]] = Append(threadQueue[home[c]], e)]
  BY DEF ToThread
<1> HIDE DEF e
<1>3. /\ threadQueue'[home[c]] = Append(threadQueue[home[c]], e)
      /\ \A t \in Threads : t # home[c] => threadQueue'[t] = threadQueue[t]
  BY <1>2 DEF TypeInv, QueuesTyped
<1>4. IsConnected(d) => home[d] \in Threads
  BY DEF TypeInv, TypeOK, IsConnected
<1>5. CASE home[d] = home[c]
  BY <1>1, <1>3, <1>5, RestPush, SMTT(60)
<1>6. CASE home[d] # home[c]
  <2>1. d # c
    BY <1>6
  <2>2. addressed'[d] = addressed[d] /\ (d \in enabled' <=> d \in enabled)
    BY <2>1
  <2>3. IsConnected(d) => threadQueue'[home[d]] = threadQueue[home[d]]
    BY <1>3, <1>4, <1>6
  <2> QED
    BY <2>2, <2>3 DEF DeliveryInv, RestQueued, IsConnected
<1> QED
  BY <1>5, <1>6

\* The numbers of messages go on rising.
LEMMA NumberedPushed ==
  ASSUME TypeInv, DeliveryInv, NEW c \in Conns, NEW n \in Nat, NEW fits \in BOOLEAN,
         NEW type \in {"CLOSE", "MESSAGE", "ENABLE_BROADCAST", "DISABLE_BROADCAST"},
         home[c] \in Threads,
         threadQueue' = ToThread(type, c, n, fits),
         \/ type # "MESSAGE" /\ ops' = ops
         \/ ops' = ops + 1 /\ (type = "MESSAGE" => n = ops + 1),
         NEW t \in Threads
  PROVE  Numbered(threadQueue'[t], ops')
<1> DEFINE e == [type |-> type, conn |-> c, n |-> n, fits |-> fits]
<1>1. /\ e \in ThreadCommands /\ (IsMessage(e) <=> type = "MESSAGE") /\ e.n = n
  BY DEF ThreadCommands, IsMessage
<1>2. threadQueue' = [threadQueue EXCEPT ![home[c]] = Append(threadQueue[home[c]], e)]
  BY DEF ToThread
<1> HIDE DEF e
<1>3. /\ threadQueue'[home[c]] = Append(threadQueue[home[c]], e)
      /\ t # home[c] => threadQueue'[t] = threadQueue[t]
      /\ threadQueue[t] \in Seq(ThreadCommands) /\ ops \in Nat
      /\ Numbered(threadQueue[t], ops)
  BY <1>2 DEF TypeInv, TypeOK, QueuesTyped, DeliveryInv
<1>4. Numbered(threadQueue[t], ops + 1)
  BY <1>1, <1>3, NumberedAppend
<1>5. CASE t # home[c]
  BY <1>3, <1>4, <1>5
<1>6. CASE t = home[c]
  <2>1. threadQueue'[t] = Append(threadQueue[t], e)
    BY <1>3, <1>6
  <2>2. /\ ~IsMessage(e) => Numbered(Append(threadQueue[t], e), ops)
        /\ IsMessage(e) /\ e.n = ops + 1 => Numbered(Append(threadQueue[t], e), ops + 1)
    BY <1>1, <1>3, NumberedAppend
  <2>3. ~IsMessage(e) => Numbered(Append(threadQueue[t], e), ops + 1)
    <3>1. ops + 1 \in Nat
      BY <1>3
    <3> QED
      BY <1>1, <1>3, <1>4, <3>1, NumberedAppend
  <2> QED
    BY <1>1, <2>1, <2>2, <2>3
<1> QED
  BY <1>5, <1>6

\* Every step keeps what was delivered and what is queued together as addressed.
LEMMA DeliveryStep ==
  TypeInv /\ TablesInv /\ DeliveryInv /\ [Next]_vars => DeliveryInv'
<1> SUFFICES ASSUME TypeInv, TablesInv, DeliveryInv, [Next]_vars
             PROVE  DeliveryInv'
  OBVIOUS
<1> DEFINE Kept == /\ \A t \in Threads : Numbered(threadQueue'[t], ops')
                   /\ \A d \in Conns : DeliveredFirst(d)' /\ RestQueued(d)'
<1>1. ASSUME UNCHANGED <<ops, addressed, delivered, threadQueue, broadcast>>,
             \A d \in Conns :
               /\ Fresh(d)' => Fresh(d)
               /\ IsConnected(d)' => /\ IsConnected(d) /\ home'[d] = home[d]
                                   /\ (d \in enabled' <=> d \in enabled)
      PROVE  Kept
  <2>1. \A t \in Threads : Numbered(threadQueue'[t], ops')
    BY <1>1 DEF DeliveryInv
  <2>2. ASSUME NEW d \in Conns PROVE DeliveredFirst(d)' /\ RestQueued(d)'
    BY <1>1, DeliveryKept
  <2> QED
    BY <2>1, <2>2
<1>2. ASSUME NEW c \in Conns, Accept(c) PROVE Kept
  <2>1. /\ home' = [home EXCEPT ![c] = LeastLoaded] /\ home[c] = 0 /\ accepting = NoConn
        /\ accepting' = c
        /\ UNCHANGED <<ops, addressed, delivered, threadQueue, broadcast, connections,
                       pendingError, enabled>>
    BY <1>2 DEF Accept, appVars
  <2>2. c \notin connections /\ \A d \in Conns : d # c => home'[d] = home[d]
    BY <2>1 DEF TablesInv, FreshUnknown, TypeInv, TypeOK
  <2> QED
    BY <1>1, <2>1, <2>2, ConstantsAssumption DEF Fresh, IsConnected
<1>3. ASSUME NEW c \in Conns, Insert(c) PROVE Kept
  <2>1. /\ accepting = c /\ connections' = connections \cup {c} /\ c \in watched
        /\ UNCHANGED <<home, accepting, ops, addressed, delivered, threadQueue, broadcast,
                       pendingError, infos, enabled>>
    BY <1>3 DEF Insert, acceptVars, appVars
  <2>2. \A t \in Threads : Numbered(threadQueue'[t], ops')
    BY <2>1 DEF DeliveryInv
  <2>3. \A d \in Conns : DeliveredFirst(d)'
    BY <2>1 DEF DeliveryInv, DeliveredFirst, Fresh
  <2>4. \A d \in Conns : d # c => RestQueued(d)'
    BY <2>1 DEF DeliveryInv, RestQueued, IsConnected
  <2>5. RestQueued(c)'
    <3> DEFINE q == threadQueue[home[c]]
    <3>1. /\ home[c] \in Threads /\ c \notin broadcast /\ c \notin enabled
          /\ \A i \in DOMAIN q : q[i].conn # c
          /\ addressed[c] = <<>>
      BY <2>1 DEF TablesInv, FreshUnknown, Fresh, Mentions, DeliveryInv, DeliveredFirst,
                  TypeInv, TypeOK
    <3>2. q \in Seq(ThreadCommands)
      BY <3>1 DEF TypeInv, QueuesTyped
    <3>3. DOMAIN q = 1..Len(q) /\ Len(q) \in Nat
      BY <3>2, LenProperties
    <3> HIDE DEF q
    <3>4. \A i \in 1..(Len(q) + 1) : ~On(q, c, broadcast, i)
      <4>1. \A i \in 1..(Len(q) + 1) : \A j \in 1..(i - 1) : j \in DOMAIN q
        BY <3>3
      <4> QED
        BY <3>1, <4>1 DEF On, OnAt
    <3>5. \A i \in DOMAIN q : i \in 1..(Len(q) + 1)
      BY <3>3
    <3>6. \A i \in DOMAIN q : ~Due(q, c, broadcast, i)
      BY <3>1, <3>4, <3>5 DEF Due
    <3>7. Len(addressed[c]) = 0 /\ Len(delivered[c]) \in Nat
      <4>1. Len(addressed[c]) = 0
        BY <3>1, EmptySeq
      <4> QED
        BY <4>1, DeliveryTypes
    <3>8. Owed(q, c, broadcast, addressed[c], Len(delivered[c]))
      BY <3>6, <3>7 DEF Owed
    <3>9. c \in enabled <=> On(q, c, broadcast, Len(q) + 1)
      <4>1. Len(q) + 1 \in 1..(Len(q) + 1)
        BY <3>3
      <4> QED
        BY <3>1, <3>4, <4>1
    <3> QED
      BY <2>1, <3>8, <3>9 DEF RestQueued, q
  <2> QED
    BY <2>2, <2>3, <2>4, <2>5
<1>4. ASSUME NEW c \in Conns, Announce(c) PROVE Kept
  BY <1>1, <1>4, ConstantsAssumption DEF Announce, appVars, Fresh, IsConnected
<1>5. ASSUME NEW c \in Conns,
             \/ Write(c) \/ \E how \in {"closed", "broken"} : HangUp(c, how)
             \/ Read(c) \/ FindClosed(c) \/ SendError(c)
      PROVE  Kept
  BY <1>1, <1>5 DEF Write, HangUp, Read, FindClosed, SendError, CloseSocket,
                    CloseReactorSocket, acceptVars, appVars, Fresh, IsConnected
<1>6. ASSUME NEW t \in Threads, ThreadCommand(t) PROVE Kept
  <2>1. /\ threadQueue \in [Threads -> Seq(ThreadCommands)] /\ threadQueue[t] # <<>>
        /\ threadQueue' = [threadQueue EXCEPT ![t] = Tail(@)] /\ ops' = ops /\ ops \in Nat
    BY <1>6 DEF ThreadCommand, appVars, TypeInv, TypeOK, QueuesTyped
  <2>2. ASSUME NEW u \in Threads PROVE Numbered(threadQueue'[u], ops')
    <3>1. Numbered(threadQueue[u], ops) /\ threadQueue[u] \in Seq(ThreadCommands)
      BY <2>1 DEF DeliveryInv
    <3>2. CASE u = t
      BY <2>1, <3>1, <3>2, NumberedPop
    <3>3. CASE u # t
      BY <2>1, <3>1, <3>3
    <3> QED
      BY <3>2, <3>3
  <2>3. ASSUME NEW d \in Conns PROVE DeliveredFirst(d)' /\ RestQueued(d)'
    BY <1>6, DeliveryThread
  <2> QED
    BY <2>2, <2>3
\* The application or the main loop disconnects, enables, disables or sends.
<1>7. ASSUME NEW c \in Conns,
             NEW type \in {"CLOSE", "MESSAGE", "ENABLE_BROADCAST", "DISABLE_BROADCAST"},
             NEW n \in Nat, NEW fits \in BOOLEAN, c \in infos,
             threadQueue' = ToThread(type, c, n, fits),
             UNCHANGED <<home, accepting, connections, pendingError, broadcast, delivered>>,
             \A d \in Conns :
               /\ addressed'[d] = IF fits /\ type = "MESSAGE" /\ c = d
                                  THEN Append(addressed[d], n) ELSE addressed[d]
               /\ d \in enabled' <=>
                    \/ type = "ENABLE_BROADCAST" /\ c = d
                    \/ ~(type \in {"DISABLE_BROADCAST", "CLOSE"} /\ c = d) /\ d \in enabled,
             \/ type = "CLOSE" /\ ops' = ops
             \/ ops' = ops + 1 /\ (type = "MESSAGE" => n = ops + 1)
      PROVE  Kept
  <2>1. home[c] \in Threads /\ ~Fresh(c) /\ ops \in Nat
    BY <1>7 DEF TypeInv, TypeOK, TablesInv, FreshUnknown
  <2>2. \A t \in Threads : Numbered(threadQueue'[t], ops')
    BY <1>7, <2>1, NumberedPushed
  <2>3. ASSUME NEW d \in Conns PROVE RestQueued(d)'
    BY <1>7, <2>1, DeliveryPushed
  <2>4. ASSUME NEW d \in Conns PROVE DeliveredFirst(d)'
    <3>1. CASE ops' = ops /\ addressed'[d] = addressed[d]
      BY <1>7, <3>1 DEF DeliveryInv, DeliveredFirst, Fresh
    <3>2. CASE ops' = ops + 1
      BY <1>7, <2>1, <3>2, DeliveryOperated
    <3> QED
      BY <1>7, <3>1, <3>2
  <2> QED
    BY <2>2, <2>3, <2>4
<1>8. ASSUME NEW c \in Conns, AppDisconnect(c) PROVE Kept
  BY <1>7, <1>8 DEF AppDisconnect, Operate, Disconnect, OnDisconnect, acceptVars
<1>9. ASSUME NEW c \in Conns, AppEnable(c) PROVE Kept
  BY <1>7, <1>9 DEF AppEnable, Operate, acceptVars
<1>10. ASSUME NEW c \in Conns, AppDisable(c) PROVE Kept
  BY <1>7, <1>10 DEF AppDisable, Operate, acceptVars
<1>11. ASSUME NEW c \in Conns, NEW fits \in BOOLEAN, AppSend(c, fits) PROVE Kept
  <2>1. /\ c \in infos /\ ops' = ops + 1 /\ ops' \in Nat
        /\ threadQueue' = ToThread("MESSAGE", c, ops', fits)
        /\ UNCHANGED <<home, accepting, connections, pendingError, broadcast, delivered, enabled>>
        /\ \A d \in Conns : addressed'[d] = IF d = c /\ fits THEN Append(addressed[d], ops')
                                             ELSE addressed[d]
    BY <1>11 DEF AppSend, Operate, Address, acceptVars, TypeInv, TypeOK
  <2> QED
    BY <1>7, <2>1
<1>12. ASSUME NEW fits \in BOOLEAN, AppBroadcast(fits) PROVE Kept
  <2> DEFINE e == [type |-> "BROADCAST", conn |-> NoConn, n |-> ops', fits |-> fits]
  <2>1. /\ ops' = ops + 1 /\ ops \in Nat /\ ops' \in Nat
        /\ threadQueue' = [t \in Threads |-> Append(threadQueue[t], e)]
        /\ UNCHANGED <<home, accepting, connections, pendingError, broadcast, delivered, enabled>>
        /\ \A d \in Conns : addressed'[d] = IF d \in enabled /\ fits
                                             THEN Append(addressed[d], ops') ELSE addressed[d]
    BY <1>12 DEF AppBroadcast, Operate, Address, acceptVars, TypeInv, TypeOK
  <2>2. /\ e \in ThreadCommands /\ IsMessage(e) /\ e.n = ops' /\ e.type = "BROADCAST"
        /\ e.fits = fits
    BY <2>1 DEF ThreadCommands, IsMessage
  <2> HIDE DEF e
  <2>3. ASSUME NEW t \in Threads PROVE Numbered(threadQueue'[t], ops')
    <3>1. threadQueue[t] \in Seq(ThreadCommands) /\ Numbered(threadQueue[t], ops)
      BY DEF TypeInv, QueuesTyped, DeliveryInv
    <3> QED
      BY <2>1, <2>2, <3>1, NumberedAppend
  <2>4. ASSUME NEW d \in Conns PROVE RestQueued(d)'
    <3>1. IsConnected(d) => threadQueue'[home[d]] = Append(threadQueue[home[d]], e)
      BY <2>1 DEF TypeInv, TypeOK, IsConnected
    <3> QED
      BY <2>1, <2>2, <3>1, RestPush
  <2>5. ASSUME NEW d \in Conns PROVE DeliveredFirst(d)'
    <3>1. Fresh(d) => d \notin enabled
      BY DEF TablesInv, FreshUnknown, TypeInv, TypeOK
    <3> QED
      BY <2>1, <3>1, DeliveryOperated
  <2> QED
    BY <2>3, <2>4, <2>5
<1>13. ASSUME MainCommand PROVE Kept
  <2> DEFINE cmd == Head(mainQueue)
             c == cmd.conn
  <2>1. /\ UNCHANGED <<home, accepting, ops, addressed, delivered, broadcast, connections,
                       pendingError>>
        /\ mainQueue # <<>>
    BY <1>13 DEF MainCommand, acceptVars
  <2>2. cmd \in MainCommands /\ cmd = mainQueue[1] /\ 1 \in DOMAIN mainQueue
    BY <2>1, Popped DEF TypeInv, QueuesTyped
  <2>3. c \in Conns
    BY <2>2 DEF MainCommands
  <2> HIDE DEF cmd
  <2>4. CASE UNCHANGED <<enabled, threadQueue>>
    BY <1>1, <2>1, <2>4 DEF Fresh, IsConnected
  <2>5. CASE cmd.type = "CLOSE" /\ enabled' = enabled \ {c} /\ UNCHANGED threadQueue
    <3>1. c \notin connections
      BY <2>2, <2>3, <2>5 DEF TablesInv, AnnouncedOnce, Queued, TypeInv, TypeOK
    <3> QED
      BY <1>1, <2>1, <2>5, <3>1 DEF Fresh, IsConnected
  <2>6. CASE c \in infos /\ Disconnect(c)
    BY <1>7, <2>1, <2>3, <2>6 DEF Disconnect, OnDisconnect
  <2> HIDE DEF Kept
  <2> QED
    BY <1>13, <2>4, <2>5, <2>6 DEF MainCommand, cmd, OnDisconnect, Handled
<1>14. ASSUME UNCHANGED vars PROVE Kept
  BY <1>1, <1>14 DEF vars, acceptVars, appVars, Fresh, IsConnected
<1> HIDE DEF Kept
<1>15. Kept
  BY <1>2, <1>3, <1>4, <1>5, <1>6, <1>8, <1>9, <1>10, <1>11, <1>12, <1>13, <1>14 DEF Next
<1> QED
  BY <1>15 DEF Kept, DeliveryInv

\* A socket is given what the application addressed to its connection, in that
\* order, for any connections, net threads and operations.
THEOREM Delivered == Spec => []DeliveredAsAddressed
<1>1. Init => DeliveryInv
  <2> SUFFICES ASSUME Init PROVE DeliveryInv
    OBVIOUS
  <2>1. /\ ops = 0 /\ connections = {} /\ \A t \in Threads : threadQueue[t] = <<>>
        /\ \A c \in Conns : addressed[c] = <<>> /\ delivered[c] = <<>>
    BY DEF Init
  <2>2. Numbered(<<>>, 0) /\ Rising(<<>>, 0) /\ Len(<<>>) = 0
    BY EmptySeq DEF Numbered, Rising
  <2> QED
    BY <2>1, <2>2 DEF DeliveryInv, DeliveredFirst, RestQueued, IsConnected
<1>2. TypeInv /\ DeliveryInv => DeliveredAsAddressed
  <2> SUFFICES ASSUME TypeInv, DeliveryInv, NEW c \in Conns
               PROVE  /\ IsPrefixOf(delivered[c], addressed[c])
                      /\ IsConnected(c) /\ threadQueue[home[c]] = <<>>
                           => delivered[c] = addressed[c]
    BY DEF DeliveredAsAddressed
  <2> DEFINE d == delivered[c]
             a == addressed[c]
  <2>1. /\ a \in Seq(Nat) /\ d \in Seq(Nat) /\ Len(a) \in Nat /\ Len(d) \in 0..Len(a)
        /\ \A k \in 1..Len(d) : d[k] = a[k]
    BY DeliveryTypes DEF DeliveryInv, DeliveredFirst
  <2>2. RestQueued(c)
    BY DEF DeliveryInv
  <2> HIDE DEF d, a
  <2>3. /\ SubSeq(a, 1, Len(d)) \in Seq(Nat) /\ Len(SubSeq(a, 1, Len(d))) = Len(d)
        /\ \A k \in 1..Len(d) : SubSeq(a, 1, Len(d))[k] = a[k]
    BY <2>1
  <2>4. d = SubSeq(a, 1, Len(d))
    BY <2>1, <2>3, SeqEqual
  <2>5. IsPrefixOf(d, a)
    BY <2>1, <2>4 DEF IsPrefixOf
  <2>6. ASSUME IsConnected(c), threadQueue[home[c]] = <<>> PROVE d = a
    <3>1. Owed(<<>>, c, broadcast, a, Len(d))
      BY <2>2, <2>6 DEF RestQueued, a, d
    <3>2. \A k \in (Len(d) + 1)..Len(a) : FALSE
      BY <3>1 DEF Owed
    <3>3. Len(d) = Len(a)
      <4>1. Len(d) # Len(a) => Len(a) \in (Len(d) + 1)..Len(a)
        BY <2>1
      <4> QED
        BY <3>2, <4>1
    <3> QED
      BY <2>1, <3>3, SeqEqual
  <2> QED
    BY <2>5, <2>6 DEF d, a
<1> QED
  BY <1>1, <1>2, TypeInvariant, TablesInit, TablesStep, DeliveryStep, PTL DEF Spec

=============================================================================
