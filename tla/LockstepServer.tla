--------------------------- MODULE LockstepServer ---------------------------
(***************************************************************************)
(* The frame-synchronisation server of the H5 tank game                    *)
(* (h5_lockstep_game/server: tankServer.ts, playerhandler.ts,              *)
(* synchandler.ts, tankClient.ts).  One node.js event loop runs every      *)
(* handler to its end, so a handler is one action.                         *)
(*                                                                         *)
(* A connection identifier stands for one client object.  The code takes a *)
(* fresh number for each (_gClientId++); here an identifier is used again  *)
(* once nothing of its previous connection is left, which no handler can   *)
(* tell from a fresh number.                                               *)
(*                                                                         *)
(* Two variables say what the server has made each page hold: `received`,  *)
(* the frames it sent it, and `roster`, the tanks its LOGIN, ENTER and     *)
(* LEAVE messages add and delete.  A connection delivers in order, so this *)
(* is what the page holds once it has read everything sent so far.         *)
(***************************************************************************)
EXTENDS Naturals, FiniteSets, Sequences

CONSTANTS
  Conns,       \* connection identifiers
  Uids,        \* accounts of validUser, by uid
  Ops,         \* operation codes a page sends (never 0)
  NoUid,       \* the uid -1 of a connection that has not logged in
  NoCommand,   \* a step in which no command was waiting
  LateEvents,  \* may the socket library report a second event for a connection
               \* whose first "close" or "error" event was already handled?
  OrderlyPages,\* does a page log in once and send no operation before that?
               \* FALSE: any request at any time, as the handlers accept it
  MaxStep,     \* bound on _stepCount
  MaxPending   \* bound on the commands waiting for one step

ASSUME ConstantsAssumption ==
  /\ IsFiniteSet(Conns)
  /\ NoUid \notin Uids
  /\ NoCommand \notin [id : Uids \cup {NoUid}, op : Ops]
  /\ LateEvents \in BOOLEAN
  /\ OrderlyPages \in BOOLEAN
  /\ MaxStep \in Nat
  /\ MaxPending \in Nat

VARIABLES
  clients,      \* keys of _idClientMap (the values of _socketClientMap)
  closing,      \* closed connections that may still report an event
  uid,          \* TankClient._uid
  readyClient,  \* keys of _readyClient
  gameStatus,   \* _gameStatus
  stepCommands, \* _stepCommands
  stepCount,    \* _stepCount
  history,      \* _stepCommandsHistory
  received,     \* frames sent to each connection
  roster        \* tanks each page holds

connVars == <<clients, closing, uid>>
gameVars == <<readyClient, gameStatus, stepCommands, stepCount, history>>
vars == <<clients, closing, uid, readyClient, gameStatus, stepCommands,
          stepCount, history, received, roster>>

Command == [id : Uids \cup {NoUid}, op : Ops]

(***************************************************************************)
(* A frame list of one step.  Its op-0 entries, one for each connected     *)
(* client, ask a page to do nothing and are left out.  `command` is the    *)
(* entry under the key command.clientId: pushCommand never sets clientId,  *)
(* so every command of the step is written under the same key "undefined"  *)
(* and the last one written is the only one left.                          *)
(***************************************************************************)
Frame == [step : Nat, command : Command \cup {NoCommand}]

\* TankClient.isReady: the status READY and the uid are set together, once.
IsReady(c) == uid[c] # NoUid

-----------------------------------------------------------------------------
(* Connections *)

Init ==
  /\ clients = {}
  /\ closing = {}
  /\ uid = [c \in Conns |-> NoUid]
  /\ readyClient = {}
  /\ gameStatus = "WAIT"
  /\ stepCommands = <<>>
  /\ stepCount = 0
  /\ history = <<>>
  /\ received = [c \in Conns |-> {}]
  /\ roster = [c \in Conns |-> {}]

Connect(c) ==
  /\ c \notin clients \cup closing
  /\ clients' = clients \cup {c}
  /\ UNCHANGED <<closing, uid, gameVars, received, roster>>

\* Mutant: the game is not stopped when too few players are left.
StatusAfterExit_NeverWaits(ready) == gameStatus

\* onClientExit: with fewer than two ready users the game waits,
StatusAfterExit(ready) == IF Cardinality(ready) < 2 THEN "WAIT" ELSE gameStatus

\* Mutant: the history outlives the game.
HistoryAfterExit_Kept(ready) == history

\* Mutant: the history is dropped as soon as the game stops.
HistoryAfterExit_DroppedEarly(ready) ==
  IF Cardinality(ready) < 2 THEN <<>> ELSE history

\* and with none the history is dropped.
HistoryAfterExit(ready) == IF ready = {} THEN <<>> ELSE history

OnClientExit(u) ==
  /\ readyClient' = readyClient \ {u}
  /\ gameStatus' = StatusAfterExit(readyClient')
  /\ history' = HistoryAfterExit(readyClient')
  /\ UNCHANGED <<stepCommands, stepCount>>

\* Mutant: LEAVE goes to everyone, other sessions of the same user included.
TanksAfterLeave_Everyone(u) ==
  [d \in Conns |-> IF d \in clients THEN roster[d] \ {u} ELSE roster[d]]

\* The LEAVE message of onClientExit goes to every connected client with
\* another uid, whose page deletes the tank.
TanksAfterLeave(u) ==
  [d \in Conns |-> IF d \in clients /\ uid[d] # u
                   THEN roster[d] \ {u} ELSE roster[d]]

(***************************************************************************)
(* The "end" and "error" handlers: onClientExit, then closeSocket removes  *)
(* the client from both maps and closes the socket.  The page is gone.     *)
(***************************************************************************)
Disconnect(c) ==
  /\ c \in clients
  /\ OnClientExit(uid[c])
  /\ clients' = clients \ {c}
  /\ closing' = IF LateEvents THEN closing \cup {c} ELSE closing
  /\ uid' = IF LateEvents THEN uid ELSE [uid EXCEPT ![c] = NoUid]
  /\ received' = [received EXCEPT ![c] = {}]
  /\ roster' = [TanksAfterLeave(uid[c]) EXCEPT ![c] = {}]

(***************************************************************************)
(* A later event of a socket already closed ("close" after "error", or the *)
(* close handshake that closeSocket began): the handler runs again and     *)
(* closeSocket finds nothing to remove.                                    *)
(***************************************************************************)
LateEvent(c) ==
  /\ c \in closing
  /\ OnClientExit(uid[c])
  /\ closing' = closing \ {c}
  /\ uid' = [uid EXCEPT ![c] = NoUid]
  /\ roster' = TanksAfterLeave(uid[c])
  /\ UNCHANGED <<clients, received>>

-----------------------------------------------------------------------------
(* Login *)

CheckUserHasLogin(u) == u \in readyClient

\* Once the game has started, a user who logs in is not recorded.
OnClientReady(u) ==
  IF gameStatus = "START"
  THEN UNCHANGED <<readyClient, gameStatus>>
  ELSE /\ readyClient' = readyClient \cup {u}
       /\ gameStatus' = IF Cardinality(readyClient') >= 2
                        THEN "START" ELSE gameStatus

\* Mutant: getUidList lists connections that have not logged in.
UidList_NotReady(c, u) == {uid[d] : d \in clients \ {c}} \ {u}

\* getUidList once c has become u: the other users logged in.
UidList(c, u) == {uid[d] : d \in {e \in clients : e # c /\ IsReady(e)}} \ {u}

\* getStepHistory: the whole history, unless the client is alone.
StepHistory ==
  IF Cardinality(clients) >= 2 THEN {history[i] : i \in DOMAIN history} ELSE {}

\* Mutant: the ENTER broadcast is forgotten.
TanksAfterLogin_NoEnter(c, u) ==
  [roster EXCEPT ![c] = @ \cup {u} \cup UidList(c, u)]

\* The tanks after the LOGIN response to c (its own and UidList) and the
\* ENTER message to every other logged-in client.
TanksAfterLogin(c, u) ==
  [d \in Conns |->
     IF d = c THEN roster[d] \cup {u} \cup UidList(c, u)
     ELSE IF d \in clients /\ IsReady(d) /\ uid[d] # u
          THEN roster[d] \cup {u}
          ELSE roster[d]]

(***************************************************************************)
(* on$$C2S_Login_Request with a known account and its password.  The other *)
(* requests are answered with an error code and change nothing.            *)
(***************************************************************************)
Login(c, u) ==
  /\ c \in clients
  /\ OrderlyPages => ~IsReady(c)
  /\ ~CheckUserHasLogin(u)
  /\ uid' = [uid EXCEPT ![c] = u]
  /\ OnClientReady(u)
  /\ received' = [received EXCEPT ![c] = @ \cup StepHistory]
  /\ roster' = TanksAfterLogin(c, u)
  /\ UNCHANGED <<clients, closing, stepCommands, stepCount, history>>

-----------------------------------------------------------------------------
(* Steps *)

(***************************************************************************)
(* on$$C2S_FrameSync_Request and pushCommand: a command is kept while the  *)
(* game is started and the client is known, logged in or not; otherwise    *)
(* it is dropped.                                                          *)
(***************************************************************************)
PushCommand(c, op) ==
  /\ c \in clients
  /\ OrderlyPages => IsReady(c)
  /\ gameStatus = "START"
  /\ Len(stepCommands) < MaxPending
  /\ stepCommands' = Append(stepCommands, [id |-> uid[c], op |-> op])
  /\ UNCHANGED <<connVars, readyClient, gameStatus, stepCount, history,
                 received, roster>>

\* The command that is left of a step's commands.
LastCommand ==
  IF stepCommands = <<>> THEN NoCommand ELSE stepCommands[Len(stepCommands)]

\* Mutant: a frame takes its number from its place in the history.
StepFrame_Renumbered(n) == [step |-> Len(history) + 1, command |-> LastCommand]

\* stepUpdate's frame list for step n.
StepFrame(n) == [step |-> n, command |-> LastCommand]

\* Mutant: frames go only to the users recorded in _readyClient.
FrameReceivers_Recorded == {c \in clients : uid[c] \in readyClient}

\* The clients stepUpdate sends the frame to.
FrameReceivers == {c \in clients : IsReady(c)}

(***************************************************************************)
(* update: a timer tick of a started game whose elapsed time has reached   *)
(* the step interval.  The tick may come any time after any other event,   *)
(* so the elapsed time itself is left out.                                 *)
(***************************************************************************)
Update ==
  /\ gameStatus = "START"
  /\ stepCount < MaxStep
  /\ stepCount' = stepCount + 1
  /\ history' = Append(history, StepFrame(stepCount + 1))
  /\ received' = [c \in Conns |->
                     IF c \in FrameReceivers
                     THEN received[c] \cup {StepFrame(stepCount + 1)}
                     ELSE received[c]]
  /\ stepCommands' = <<>>
  /\ UNCHANGED <<connVars, readyClient, gameStatus, roster>>

Next ==
  \/ \E c \in Conns :
       \/ Connect(c)
       \/ Disconnect(c)
       \/ LateEvent(c)
       \/ \E u \in Uids : Login(c, u)
       \/ \E op \in Ops : PushCommand(c, op)
  \/ Update

Spec == Init /\ [][Next]_vars

-----------------------------------------------------------------------------
(* Properties *)

\* Type correctness of the server's state: every container of tankServer.ts
\* holds what its handlers may put there.
TypeOK ==
  /\ clients \subseteq Conns
  /\ closing \subseteq Conns
  /\ uid \in [Conns -> Uids \cup {NoUid}]
  /\ readyClient \subseteq Uids
  /\ gameStatus \in {"WAIT", "START"}
  /\ stepCommands \in Seq(Command)
  /\ stepCount \in Nat
  /\ history \in Seq(Frame)
  /\ received \in [Conns -> SUBSET Frame]
  /\ roster \in [Conns -> SUBSET Uids]

\* The game is started exactly while at least two users are recorded as ready,
\* although onClientReady raises the status and onClientExit lowers it, each
\* from its own count, and a late event may run onClientExit twice.
StartIffTwoReady == gameStatus = "START" <=> Cardinality(readyClient) >= 2

\* The frame history has no hole and no repeated step and ends at the current
\* step, through every stop and restart of the game: a page that plays it back
\* meets each step once.
HistoryContiguous ==
  \A i \in DOMAIN history : history[i].step + Len(history) = stepCount + i

\* When the last ready user leaves, nothing of the game is left for the next
\* one: a first user never logs in to the frames of other people's game.
NextGameStartsFresh == readyClient = {} => history = <<>>

\* A step number never means two things: whatever pages (or the history) hold
\* as step n is the same frame, though pages join late, games end with some
\* page still connected and the history is dropped in between.
StepAgreement ==
  LET held == {history[i] : i \in DOMAIN history}
                \cup UNION {received[c] : c \in clients}
  IN \A f, g \in held : f.step = g.step => f = g

\* A page misses no step: from the first frame it was given, by history or by
\* broadcast, it holds every step up to the server's current one.
NoStepMissed ==
  \A c \in clients : \A f \in received[c] :
    /\ f.step <= stepCount
    /\ f.step < stepCount => \E g \in received[c] : g.step = f.step + 1

\* Every logged-in page shows the tank of every connected user that is
\* recorded as ready, whatever sessions of the same or other users came, went
\* or ended twice meanwhile.
ReadyUsersVisible ==
  \A c, d \in clients :
    IsReady(c) /\ IsReady(d) /\ uid[d] \in readyClient => uid[d] \in roster[c]

\* A page never loses its own tank, even when another session of the same user
\* leaves and its LEAVE message is broadcast.
OwnTankKept == \A c \in clients : IsReady(c) => uid[c] \in roster[c]

\* As long as a ready user remains, no frame already in the history is lost or
\* changed: a user who reconnects can still be given the whole game.
HistoryKeptWhilePlayed ==
  [][readyClient' # {} =>
       /\ Len(history') >= Len(history)
       /\ SubSeq(history', 1, Len(history)) = history]_vars

\* A step carries an operation of every player that sent one for it: the server
\* collects the operations of all players (next_frame_opt).
EveryPlayersOpInStep ==
  [][stepCount' # stepCount =>
       \A i \in DOMAIN stepCommands :
         LET f == history'[Len(history')]
         IN f.command # NoCommand /\ f.command.id = stepCommands[i].id]_vars

=============================================================================
