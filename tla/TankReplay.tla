----------------------------- MODULE TankReplay -----------------------------
(***************************************************************************)
(* How the pages of the H5 tank game play the frames the server sends      *)
(* (h5_lockstep_game/client: framemgr.ts, scenemgr.tsx, tankBase.tsx and   *)
(* the message handlers of App.js).                                        *)
(*                                                                         *)
(* LockstepServer shows which frames, tanks and history the server gives a *)
(* page; here the server is reduced to whom it has recorded, its history   *)
(* and `log`, the messages it broadcasts, in order.  Every page reads the  *)
(* log from its own login on, at its own pace, and plays the frames it has *)
(* read in chunks as long as its own timer ticks happen to be.  Every user *)
(* has one page, whose connection ends with one event: LockstepServer has  *)
(* users with several connections, and second events.                      *)
(***************************************************************************)
EXTENDS Integers, FiniteSets, Sequences

CONSTANTS
  Users,         \* users, and the page of each
  NoUid,         \* the uid -1 in the frame entry of a connection not logged in
  NoCommand,     \* a frame without a command
  Ops,           \* operations the users send, among "UP" ... "FIRE"
  Interval,      \* stepInterval: the time a frame lasts
  FramesPerGear, \* the page plays faster by one for this many frames waiting
  MaxGear,       \* but never faster than this
  Width, Height, \* the scene
  Long, Short,   \* a tank's extent across and along its direction
  Born,          \* getBornRandomePos, a fixed position
  MaxTick,       \* bound on the time between two timer ticks
  MaxSteps,      \* bound on the frames of the server
  MaxLog,        \* bound on the log at a login
  MaxShots       \* shots of a tank are counted up to this

Moves == {"UP", "DOWN", "LEFT", "RIGHT"}

ASSUME ConstantsAssumption ==
  /\ NoUid \notin Users
  /\ NoCommand \notin [id : Users, op : Ops]
  /\ Ops \subseteq Moves \cup {"FIRE"}
  /\ Interval \in Nat \ {0} /\ FramesPerGear \in Nat \ {0}
  /\ MaxGear \in Nat \ {0}
  /\ Width \in Nat /\ Height \in Nat /\ Long \in Nat /\ Short \in Nat
  /\ Short <= Long /\ Long <= Width /\ Long <= Height
  /\ Born \in [x : 0..(Width - Long), y : 0..(Height - Long)]
  /\ MaxTick \in Nat \ {0} /\ MaxSteps \in Nat /\ MaxLog \in Nat
  /\ MaxShots \in Nat

VARIABLES
  log,       \* messages broadcast since nobody was online
  step,      \* the server's step count
  online,    \* users whose page is logged in
  ready,     \* _readyClient: those of them that the server has recorded
  history,   \* _stepCommandsHistory
  logins,    \* history: each user's logins: none, one, or 2 for more
  dropped,   \* history: messages in the log when frames were last dropped
  since,     \* history: `dropped` at the login of each page
  read,      \* number of messages of the log each page has read
  frames,    \* FrameMgr.frames
  left,      \* runningCommands.ms; 0 while runningCommands is null
  lastFrame, \* loginFastRunningLastFrame
  tanks,     \* SceneMgr.allTanks
  before,    \* history: the tanks of a page when the frame it is in began
  played     \* history: the time a page has played since its login

serverVars == <<log, step, online, ready, history, logins, dropped, since>>
vars == <<serverVars, read, frames, left, lastFrame, tanks, before, played>>

Command == [id : Users, op : Ops]

(***************************************************************************)
(* A frame: its command, if any, and the uid of its last entry, which is   *)
(* the command's or, without one, that of the connection made last.        *)
(***************************************************************************)
Frame == {f \in [step : Nat, command : Command \cup {NoCommand},
                 last : Users \cup {NoUid}] :
            f.command # NoCommand => f.last = f.command.id}

\* `shots` counts the bullets a tank has fired: each flies on its own timer.
Tank == [x : 0..Width, y : 0..Height, dir : Moves, shots : 0..MaxShots]

NewTank == [x |-> Born.x, y |-> Born.y, dir |-> "UP", shots |-> 0]

Lower(m, n) == IF m <= n THEN m ELSE n
Higher(m, n) == IF m >= n THEN m ELSE n

\* The empty scene, queue and so on of a page that is not logged in.
NoTanks == [u \in {} |-> NewTank]
NoFrame == [step |-> 0, id |-> NoUid]

Init ==
  /\ log = <<>> /\ step = 0
  /\ online = {} /\ ready = {}
  /\ history = <<>>
  /\ logins = [u \in Users |-> 0]
  /\ dropped = 0 /\ since = [p \in Users |-> 0]
  /\ read = [p \in Users |-> 0]
  /\ frames = [p \in Users |-> <<>>]
  /\ left = [p \in Users |-> 0]
  /\ lastFrame = [p \in Users |-> NoFrame]
  /\ tanks = [p \in Users |-> NoTanks]
  /\ before = [p \in Users |-> NoTanks]
  /\ played = [p \in Users |-> 0]

-----------------------------------------------------------------------------
(* The server *)

IsFrame(m) == m.type = "FRAME"

\* The game status is START, with two recorded users.
Started == Cardinality(ready) >= 2

\* A step of a game that has started; a command comes from someone who has
\* logged in, recorded or not, and may be gone.
Step(c, l) ==
  /\ Started
  /\ step < MaxSteps
  /\ IF c = NoCommand THEN l \in online \cup {NoUid}
     ELSE l = c.id /\ logins[c.id] > 0
  /\ step' = step + 1
  /\ LET f == [step |-> step', command |-> c, last |-> l] IN
       /\ log' = Append(log, [type |-> "FRAME", frame |-> f])
       /\ history' = Append(history, f)
  /\ UNCHANGED <<online, ready, logins, dropped, since, read, frames, left,
                 lastFrame, tanks, before, played>>

(***************************************************************************)
(* A user logs in: the server records it, unless the game has started, and *)
(* tells the others; the handler of the LOGIN response creates the tanks,  *)
(* notes the last entry of the history's last frame and takes its frames.  *)
(* The history is asked for with two online at least, or is empty.         *)
(***************************************************************************)
Login(p) ==
  /\ p \notin online
  /\ Len(log) < MaxLog
  /\ online' = online \cup {p}
  /\ ready' = IF Started THEN ready ELSE ready \cup {p}
  /\ logins' = [logins EXCEPT ![p] = Lower(@ + 1, 2)]
  /\ since' = [since EXCEPT ![p] = dropped]
  /\ log' = Append(log, [type |-> "ENTER", uid |-> p])
  /\ read' = [read EXCEPT ![p] = Len(log')]
  /\ tanks' = [tanks EXCEPT ![p] = [u \in online' |-> NewTank]]
  /\ frames' = [frames EXCEPT ![p] = history]
  /\ lastFrame' = IF history = <<>> THEN lastFrame
                  ELSE LET f == history[Len(history)]
                       IN [lastFrame EXCEPT ![p] = [step |-> f.step, id |-> f.last]]
  /\ UNCHANGED <<step, history, dropped, left, before, played>>

\* Mutant: the history is dropped with the game's second player.
HistoryKept_One(rs) == IF Cardinality(rs) < 2 THEN <<>> ELSE history

\* The history that is kept while the users in rs are recorded.
HistoryKept(rs) == IF rs = {} THEN <<>> ELSE history

\* A page is closed: the server forgets its user, drops the history if no
\* recorded user is left, also when others play on, and tells the others.
Leave(p) ==
  /\ p \in online
  /\ online' = online \ {p}
  /\ ready' = ready \ {p}
  /\ history' = HistoryKept(ready')
  /\ log' = IF online' = {} THEN <<>> ELSE Append(log, [type |-> "LEAVE", uid |-> p])
  /\ dropped' = IF online' = {} THEN 0
                ELSE IF ready' = {} /\ history # <<>> THEN Len(log') ELSE dropped
  /\ since' = [since EXCEPT ![p] = 0]
  /\ read' = [read EXCEPT ![p] = 0]
  /\ frames' = [frames EXCEPT ![p] = <<>>]
  /\ left' = [left EXCEPT ![p] = 0]
  /\ lastFrame' = [lastFrame EXCEPT ![p] = NoFrame]
  /\ tanks' = [tanks EXCEPT ![p] = NoTanks]
  /\ before' = [before EXCEPT ![p] = NoTanks]
  /\ played' = [played EXCEPT ![p] = 0]
  /\ UNCHANGED <<step, logins>>

-----------------------------------------------------------------------------
(* The page *)

\* SceneMgr.AddTank and DeleteTank.
AddTank(ts, u) == [v \in DOMAIN ts \cup {u} |-> IF v = u THEN NewTank ELSE ts[v]]
DeleteTank(ts, u) == [v \in DOMAIN ts \ {u} |-> ts[v]]

(***************************************************************************)
(* The next message arrives: a frame waits for its turn, while ENTER and   *)
(* LEAVE change the scene at once.                                         *)
(***************************************************************************)
Receive(p) ==
  /\ p \in online
  /\ read[p] < Len(log)
  /\ read' = [read EXCEPT ![p] = @ + 1]
  /\ LET m == log[read[p] + 1] IN
       \/ /\ m.type = "FRAME"
          /\ frames' = [frames EXCEPT ![p] = Append(@, m.frame)]
          /\ UNCHANGED <<tanks, before>>
       \/ /\ m.type = "ENTER"
          /\ tanks' = [tanks EXCEPT ![p] = AddTank(@, m.uid)]
          /\ before' = [before EXCEPT ![p] = DeleteTank(@, m.uid)]
          /\ UNCHANGED frames
       \/ /\ m.type = "LEAVE"
          /\ tanks' = [tanks EXCEPT ![p] = DeleteTank(@, m.uid)]
          /\ before' = [before EXCEPT ![p] = DeleteTank(@, m.uid)]
          /\ UNCHANGED frames
  /\ UNCHANGED <<serverVars, left, lastFrame, played>>

\* Mutant: collisionCheck forgets the upper and left borders.
Clamp_NoOrigin(t) ==
  LET across == t.dir \in {"UP", "DOWN"}
  IN [t EXCEPT !.x = Lower(@, Width - (IF across THEN Long ELSE Short)),
               !.y = Lower(@, Height - (IF across THEN Short ELSE Long))]

\* TankBase.collisionCheck: a tank that moves stays within the scene.
Clamp(t) ==
  LET across == t.dir \in {"UP", "DOWN"}
  IN [t EXCEPT !.x = Higher(0, Lower(@, Width - (IF across THEN Long ELSE Short))),
               !.y = Higher(0, Lower(@, Height - (IF across THEN Short ELSE Long)))]

\* moveUp, moveDown, moveLeft and moveRight.
Drive(t, d) ==
  Clamp(CASE t.dir = "UP"    -> [t EXCEPT !.y = @ - d]
          [] t.dir = "DOWN"  -> [t EXCEPT !.y = @ + d]
          [] t.dir = "LEFT"  -> [t EXCEPT !.x = @ - d]
          [] t.dir = "RIGHT" -> [t EXCEPT !.x = @ + d])

\* Mutant: a tank moves a whole frame's way at every tick.
RecvOp_WholeFrame(t, op, ms) ==
  IF op = "FIRE" THEN [t EXCEPT !.shots = Lower(@ + 1, MaxShots)]
  ELSE IF t.dir = op THEN Drive(t, Interval) ELSE [t EXCEPT !.dir = op]

\* TankBase.recvOp: a shot, or a turn, or a move of ms in the direction faced.
RecvOp(t, op, ms) ==
  IF op = "FIRE" THEN [t EXCEPT !.shots = Lower(@ + 1, MaxShots)]
  ELSE IF t.dir = op THEN Drive(t, ms) ELSE [t EXCEPT !.dir = op]

\* The command of a frame, for a tank that is there.
PlayCommand(ts, c, ms) ==
  IF c # NoCommand /\ c.id \in DOMAIN ts
  THEN [ts EXCEPT ![c.id] = RecvOp(@, c.op, ms)] ELSE ts

\* With the entry noted at login the tank goes back to where tanks are born.
BackToBorn(ts, f, last) ==
  IF last.step = f.step /\ last.id \in DOMAIN ts
  THEN [ts EXCEPT ![last.id] = [NewTank EXCEPT !.shots = ts[last.id].shots]]
  ELSE ts

\* Mutant: rounded down, so that few frames are played at no speed.
Gear_Floor(n) == Lower(n \div (FramesPerGear + 1), MaxGear)

\* How many times faster than real time n waiting frames are played.
Gear(n) == Lower((n + FramesPerGear - 1) \div FramesPerGear, MaxGear)

\* What is left of the frame that is running, or about to.
Remaining(p) == IF left[p] = 0 THEN Interval ELSE left[p]

\* Mutant: a tick may take more than is left of the frame.
Chunk_PastEnd(p, dt) == dt * Gear(Len(frames[p]))

\* The time a tick plays: what is left of the running frame at most.
Chunk(p, dt) == Lower(dt * Gear(Len(frames[p])), Remaining(p))

(***************************************************************************)
(* FrameMgr.Update: a timer tick dt after the one before plays a chunk of  *)
(* the running frame, which leaves the queue once its time is used up.     *)
(***************************************************************************)
Update(p, dt) ==
  /\ frames[p] # <<>>
  /\ LET f  == Head(frames[p])
         ms == Chunk(p, dt)
         rest == Remaining(p) - ms
     IN /\ tanks' = [tanks EXCEPT
                       ![p] = BackToBorn(PlayCommand(@, f.command, ms), f, lastFrame[p])]
        /\ frames' = IF rest <= 0 THEN [frames EXCEPT ![p] = Tail(@)] ELSE frames
        /\ left' = [left EXCEPT ![p] = Higher(0, rest)]
        /\ before' = [before EXCEPT ![p] = IF rest <= 0 THEN NoTanks
                                           ELSE IF left[p] = 0 THEN tanks[p] ELSE @]
        /\ played' = [played EXCEPT ![p] = @ + ms]
  /\ UNCHANGED <<serverVars, read, lastFrame>>

Next ==
  \/ \E c \in Command \cup {NoCommand}, l \in Users \cup {NoUid} : Step(c, l)
  \/ \E p \in Users :
       \/ Login(p)
       \/ Leave(p)
       \/ Receive(p)
       \/ \E dt \in 0..MaxTick : Update(p, dt)

(***************************************************************************)
(* The connection delivers what was sent, and a page's timer fires again   *)
(* and again: some tick finds that time has passed.                        *)
(***************************************************************************)
Fairness ==
  \A p \in Users :
    /\ WF_vars(Receive(p))
    /\ WF_vars(\E dt \in 1..MaxTick : Update(p, dt))

Spec == Init /\ [][Next]_vars /\ Fairness

-----------------------------------------------------------------------------
(* Properties *)

\* Type correctness of what FrameMgr and SceneMgr hold; a tank never leaves the
\* scene, whatever it does and wherever it turns.
TypeOK ==
  /\ step \in 0..MaxSteps
  /\ logins \in [Users -> 0..2]
  /\ ready \subseteq online /\ online \subseteq Users
  /\ history \in Seq(Frame) /\ dropped \in 0..Len(log)
  /\ \A p \in Users :
       /\ since[p] \in 0..read[p] /\ read[p] \in 0..Len(log)
       /\ frames[p] \in Seq(Frame)
       /\ left[p] \in 0..Interval
       /\ lastFrame[p] \in [step : 0..MaxSteps, id : Users \cup {NoUid}]
       /\ tanks[p] \in [DOMAIN tanks[p] -> Tank] /\ DOMAIN tanks[p] \subseteq Users
       /\ before[p] \in [DOMAIN before[p] -> Tank]
       /\ played[p] \in Nat

\* Every frame a page was given, by the history or since, is played for exactly
\* one interval, however the ticks cut it and however fast the page catches up:
\* nothing is skipped, overrun or played twice.
FramesPlayedWhole ==
  \A p \in online :
    LET given == Cardinality({i \in (since[p] + 1)..read[p] : IsFrame(log[i])})
    IN played[p] = Interval * (given - Len(frames[p]))
                     + (IF left[p] = 0 THEN 0 ELSE Interval - left[p])

\* A frame in which a tank drives on the way it faces moves it the same
\* distance, into a wall or not, and leaves the other tanks alone, whatever
\* ticks the page cuts the frame into.
StraightFramesAgree ==
  [][\A p \in online :
       frames[p] # <<>> /\ frames'[p] = Tail(frames[p]) /\ p \in online' =>
         LET f == Head(frames[p])
             start == IF left[p] = 0 THEN tanks[p] ELSE before[p]
         IN lastFrame[p].step # f.step =>
              \A u \in DOMAIN start :
                IF f.command # NoCommand /\ f.command.id = u
                THEN start[u].dir = f.command.op =>
                       tanks'[p][u] = Drive(start[u], Interval)
                ELSE tanks'[p][u] = start[u]]_vars

\* A page that has played everything
Idle(p) == p \in online /\ read[p] = Len(log) /\ frames[p] = <<>>

\* shows the users who are online, and faces every tank the way every other
\* such page does that was given the same frames, one that joined late included:
\* all but a tank whose user left and came back, or that a late page put back to
\* where it was born.  Given other frames are a page that stayed when the server
\* dropped the history it had played, and one that came after that.
PagesAgreeOnDirections ==
  \A p, q \in Users :
    Idle(p) /\ Idle(q) =>
      /\ DOMAIN tanks[p] = online
      /\ since[p] = since[q] =>
           \A u \in online :
             logins[u] = 1 /\ u \notin {lastFrame[p].id, lastFrame[q].id} =>
               tanks[p][u].dir = tanks[q][u].dir

\* A page catches up: it cannot stay behind forever once the server rests.
CatchesUp ==
  \A p \in Users : []<>(p \in online => frames[p] = <<>>)

\* The same input gives the same output: two pages that were logged in from
\* the first step on and have played everything show the same tanks.
SameInputSameOutput ==
  \A p, q \in Users :
    Idle(p) /\ Idle(q) /\ lastFrame[p] = NoFrame /\ lastFrame[q] = NoFrame
      => tanks[p] = tanks[q]

=============================================================================
