-------------------------- MODULE TankReplay_proofs --------------------------
(***************************************************************************)
(* Theorems about the pages that play the frames of the H5 tank game.      *)
(***************************************************************************)
EXTENDS TankReplay, SequenceLemmas, FiniteSetTheorems

-----------------------------------------------------------------------------
(* The invariants *)

\* Where a tank can be: further to the right or down than its length allows, but
\* not than its width.
PlacedTank == [x : 0..(Width - Short), y : 0..(Height - Short), dir : Moves,
               shots : 0..MaxShots]
Scene == UNION {[there -> PlacedTank] : there \in SUBSET Users}

Message == [type : {"FRAME"}, frame : Frame] \cup [type : {"ENTER", "LEAVE"}, uid : Users]

Types ==
  /\ log \in Seq(Message) /\ step \in 0..MaxSteps
  /\ logins \in [Users -> 0..2] /\ online \in SUBSET Users /\ ready \in SUBSET online
  /\ history \in Seq(Frame) /\ dropped \in Nat /\ dropped <= Len(log)
  /\ since \in [Users -> Nat] /\ \A p \in Users : since[p] <= read[p]
  /\ read \in [Users -> Nat] /\ \A p \in Users : read[p] <= Len(log)
  /\ frames \in [Users -> Seq(Frame)]
  /\ left \in [Users -> 0..Interval]
  /\ lastFrame \in [Users -> [step : 0..MaxSteps, id : Users \cup {NoUid}]]
  /\ tanks \in [Users -> Scene] /\ before \in [Users -> Scene]
  /\ played \in [Users -> Nat]

\* The number of frames from after the mth message of log l up to the nth.
CountIn(l, m, n) == Cardinality({i \in (m + 1)..n : IsFrame(l[i])})

\* The history has as many frames as the log since the last drop, and none is
\* numbered higher than the server has counted.
LogInv ==
  /\ Len(history) = CountIn(log, dropped, Len(log))
  /\ \A i \in DOMAIN log : IsFrame(log[i]) => log[i].frame.step <= step
  /\ \A i \in DOMAIN history : history[i].step <= step

\* A page that is not logged in holds nothing, and without any the log is empty.
OfflineInv ==
  /\ online = {} => log = <<>>
  /\ \A p \in Users \ online :
       /\ read[p] = 0 /\ frames[p] = <<>> /\ left[p] = 0 /\ played[p] = 0
       /\ lastFrame[p] = NoFrame /\ tanks[p] = NoTanks /\ before[p] = NoTanks

TypeInv == Types /\ LogInv /\ OfflineInv

\* What frame f has done after d of its time: what was b is now t.
Ran(f, b, t, d) ==
  \A u \in DOMAIN b :
    /\ u \in DOMAIN t
    /\ IF f.command # NoCommand /\ f.command.id = u
       THEN b[u].dir = f.command.op => t[u] = Drive(b[u], d)
       ELSE t[u] = b[u]

\* What a frame that runs has done so far to the tanks that were there.
RunningInv ==
  \A p \in Users : left[p] # 0 =>
    /\ frames[p] # <<>>
    /\ lastFrame[p].step # Head(frames[p]).step =>
         Ran(Head(frames[p]), before[p], tanks[p], Interval - left[p])

\* What log l says: who comes and goes, and who commands and moves.
IsAbout(m, u) == m.type \in {"ENTER", "LEAVE"} /\ m.uid = u
IsCommand(m, u) == IsFrame(m) /\ m.frame.command # NoCommand /\ m.frame.command.id = u
IsMove(m, u) == IsCommand(m, u) /\ m.frame.command.op \in Moves

\* The last message about a user, no message about a user after the nth, and the
\* last move of a user.
LastAbout(l, i, u) == IsAbout(l[i], u) /\ \A j \in (i + 1)..Len(l) : ~IsAbout(l[j], u)
NoneAfter(l, n, u) == \A j \in (n + 1)..Len(l) : ~IsAbout(l[j], u)
LastMove(l, i, u) == IsMove(l[i], u) /\ \A j \in (i + 1)..Len(l) : ~IsMove(l[j], u)

\* Frames that wait once n messages were read: they come from these messages but the
\* first s, in their order, and with one of them all later ones wait.
Numbered(fs) == \A j, k \in DOMAIN fs : j < k => fs[j].step < fs[k].step
FromLog(l, fs, s, n) ==
  \A k \in DOMAIN fs : \E i \in (s + 1)..n : IsFrame(l[i]) /\ l[i].frame = fs[k]
LaterKept(l, fs, n) ==
  \A i, j \in 1..n : IsFrame(l[i]) /\ IsFrame(l[j]) /\ i < j /\ Occurs(fs, l[i].frame)
                       => Occurs(fs, l[j].frame)
Waits(l, fs, s, n) == Numbered(fs) /\ FromLog(l, fs, s, n) /\ LaterKept(l, fs, n)

\* The frames of the log are numbered upwards, and all since the last drop are in the
\* history.
LogNumbered(l) ==
  \A i, j \in DOMAIN l :
    IsFrame(l[i]) /\ IsFrame(l[j]) /\ i < j => l[i].frame.step < l[j].frame.step
AllOccur(l, s, fs) ==
  \A i \in DOMAIN l : i > s /\ IsFrame(l[i]) => Occurs(fs, l[i].frame)
OrderInv ==
  /\ LogNumbered(log) /\ AllOccur(log, dropped, history)
  /\ Waits(log, history, dropped, Len(log))
  /\ \A p \in online : Waits(log, frames[p], since[p], read[p])

\* Who is there: the last message about a user says so, to the server and to a page
\* that has read it.
ShownInv ==
  /\ \A u \in Users : \A i \in DOMAIN log :
       LastAbout(log, i, u) => (log[i].type = "ENTER" <=> u \in online)
  /\ \A p \in online : \A u \in Users :
       NoneAfter(log, read[p], u) => (u \in DOMAIN tanks[p] <=> u \in online)

\* Who has not logged in yet is not heard of, and who has done so once came before
\* commanding.
LoginsInv ==
  \A u \in Users :
    /\ logins[u] = 0 =>
         u \notin online /\ \A i \in DOMAIN log : ~IsCommand(log[i], u) /\ ~IsAbout(log[i], u)
    /\ logins[u] = 1 => \A i, j \in DOMAIN log :
         IsAbout(log[i], u) /\ log[i].type = "ENTER" /\ IsCommand(log[j], u) => i < j

\* A tank that faces dir faces the way of the last move of its user after the first s
\* messages, or the page has yet to play that one: it is not among the n messages read
\* or waits among fs.
Faces(l, s, n, fs, dir, u) ==
  /\ (\A i \in DOMAIN l : i > s => ~IsMove(l[i], u)) => dir = "UP"
  /\ \A i \in DOMAIN l :
       i > s /\ LastMove(l, i, u) =>
         dir = l[i].frame.command.op \/ i > n \/ Occurs(fs, l[i].frame)
FacingInv ==
  \A p \in online : \A u \in DOMAIN tanks[p] :
    u \in online /\ logins[u] = 1 /\ u # lastFrame[p].id =>
      Faces(log, since[p], read[p], frames[p], tanks[p][u].dir, u)

-----------------------------------------------------------------------------
(* Tanks *)

\* What the constants say, for the leaves that calculate with them.
LEMMA Sizes ==
  /\ Interval \in Nat /\ Interval > 0 /\ MaxShots \in Nat /\ MaxTick \in Nat
  /\ Width \in Nat /\ Height \in Nat /\ Long \in Nat /\ Short \in Nat
  /\ Short <= Long /\ Long <= Width /\ Long <= Height
  /\ FramesPerGear \in Nat /\ FramesPerGear > 0 /\ MaxGear \in Nat /\ MaxSteps \in Nat
BY ConstantsAssumption

\* A tank within the borders for its direction, as it is put there.
Within(x, y, dir, shots) ==
  LET across == dir \in {"UP", "DOWN"}
  IN [x |-> Higher(0, Lower(x, Width - (IF across THEN Long ELSE Short))),
      y |-> Higher(0, Lower(y, Height - (IF across THEN Short ELSE Long))),
      dir |-> dir, shots |-> shots]

\* collisionCheck puts a tank within the borders.
LEMMA ClampIs ==
  ASSUME NEW x \in Int, NEW y \in Int, NEW dir \in Moves, NEW shots \in 0..MaxShots
  PROVE  /\ Clamp([x |-> x, y |-> y, dir |-> dir, shots |-> shots]) = Within(x, y, dir, shots)
         /\ Within(x, y, dir, shots) \in PlacedTank
<1>1. Clamp([x |-> x, y |-> y, dir |-> dir, shots |-> shots]) = Within(x, y, dir, shots)
  <2> DEFINE t == [x |-> x, y |-> y, dir |-> dir, shots |-> shots]
             across == dir \in {"UP", "DOWN"}
             mx == Width - (IF across THEN Long ELSE Short)
             my == Height - (IF across THEN Short ELSE Long)
  <2>1. t.x = x /\ t.y = y /\ t.dir = dir /\ t.shots = shots
    OBVIOUS
  <2>2. Clamp(t) = [t EXCEPT !.x = Higher(0, Lower(x, mx)), !.y = Higher(0, Lower(y, my))]
    BY <2>1 DEF Clamp
  <2>3. ASSUME NEW a, NEW b
        PROVE  [t EXCEPT !.x = a, !.y = b] = [x |-> a, y |-> b, dir |-> dir, shots |-> shots]
    <3>1. [t EXCEPT !.x = a, !.y = b] = [[t EXCEPT !.x = a] EXCEPT !.y = b]
      OBVIOUS
    <3>2. [t EXCEPT !.x = a] = [x |-> a, y |-> y, dir |-> dir, shots |-> shots]
      OBVIOUS
    <3>3. [[x |-> a, y |-> y, dir |-> dir, shots |-> shots] EXCEPT !.y = b]
            = [x |-> a, y |-> b, dir |-> dir, shots |-> shots]
      OBVIOUS
    <3> QED
      BY <3>1, <3>2, <3>3
  <2> HIDE DEF t
  <2> DEFINE a == Higher(0, Lower(x, mx))
             b == Higher(0, Lower(y, my))
  <2>4. [t EXCEPT !.x = a, !.y = b] = [x |-> a, y |-> b, dir |-> dir, shots |-> shots]
    <3> HIDE DEF a, b
    <3> QED
      BY <2>3
  <2>5. Clamp(t) = [x |-> a, y |-> b, dir |-> dir, shots |-> shots]
    BY <2>2, <2>4
  <2> QED
    BY <2>5 DEF Within, t
<1>2. Within(x, y, dir, shots) \in PlacedTank
  BY Sizes DEF Within, PlacedTank, Higher, Lower
<1> QED
  BY <1>1, <1>2

\* A drive moves a tank along its direction, as far as the border.
LEMMA DriveIs ==
  ASSUME NEW t \in PlacedTank, NEW d \in Nat
  PROVE  /\ t.dir = "UP" => Drive(t, d) = Within(t.x, t.y - d, "UP", t.shots)
         /\ t.dir = "DOWN" => Drive(t, d) = Within(t.x, t.y + d, "DOWN", t.shots)
         /\ t.dir = "LEFT" => Drive(t, d) = Within(t.x - d, t.y, "LEFT", t.shots)
         /\ t.dir = "RIGHT" => Drive(t, d) = Within(t.x + d, t.y, "RIGHT", t.shots)
         /\ Drive(t, d) \in PlacedTank /\ Drive(t, d).dir = t.dir
         /\ Drive(t, d).shots = t.shots
<1>1. /\ t = [x |-> t.x, y |-> t.y, dir |-> t.dir, shots |-> t.shots]
      /\ t.x \in Int /\ t.y \in Int /\ t.dir \in Moves /\ t.shots \in 0..MaxShots
  BY Sizes DEF PlacedTank
<1> DEFINE At(x, y) == [x |-> x, y |-> y, dir |-> t.dir, shots |-> t.shots]
<1>2. /\ [t EXCEPT !.y = @ - d] = At(t.x, t.y - d) /\ [t EXCEPT !.y = @ + d] = At(t.x, t.y + d)
      /\ [t EXCEPT !.x = @ - d] = At(t.x - d, t.y) /\ [t EXCEPT !.x = @ + d] = At(t.x + d, t.y)
  BY DEF PlacedTank
<1>3. \A x, y \in Int : /\ Clamp(At(x, y)) = Within(x, y, t.dir, t.shots)
                        /\ Within(x, y, t.dir, t.shots) \in PlacedTank
                        /\ Within(x, y, t.dir, t.shots).dir = t.dir
                        /\ Within(x, y, t.dir, t.shots).shots = t.shots
  BY <1>1, ClampIs DEF Within
<1>4. t.x - d \in Int /\ t.x + d \in Int /\ t.y - d \in Int /\ t.y + d \in Int
  BY <1>1
<1> HIDE DEF At
<1>5. CASE t.dir = "UP"
  BY <1>1, <1>2, <1>3, <1>4, <1>5 DEF Drive
<1>6. CASE t.dir = "DOWN"
  BY <1>1, <1>2, <1>3, <1>4, <1>6 DEF Drive
<1>7. CASE t.dir = "LEFT"
  BY <1>1, <1>2, <1>3, <1>4, <1>7 DEF Drive
<1>8. CASE t.dir = "RIGHT"
  BY <1>1, <1>2, <1>3, <1>4, <1>8 DEF Drive
<1> QED
  BY <1>1, <1>5, <1>6, <1>7, <1>8 DEF Moves

\* A way that is cut into two is as long as the whole, into a wall or not.
LEMMA DriveTwice ==
  ASSUME NEW t \in PlacedTank, NEW a \in Nat, NEW b \in Nat
  PROVE  Drive(Drive(t, a), b) = Drive(t, a + b)
<1> DEFINE s == Drive(t, a)
<1>1. /\ s \in PlacedTank /\ s.dir = t.dir /\ s.shots = t.shots /\ a + b \in Nat
      /\ t.x \in 0..(Width - Short) /\ t.y \in 0..(Height - Short) /\ t.dir \in Moves
  <2>1. s \in PlacedTank /\ s.dir = t.dir /\ s.shots = t.shots
    BY DriveIs
  <2> HIDE DEF s
  <2> QED
    BY <2>1 DEF PlacedTank
<1>2. CASE t.dir = "UP"
  <2>1. s = Within(t.x, t.y - a, "UP", t.shots)
    BY <1>2, DriveIs
  <2> HIDE DEF s
  <2>2. /\ Drive(s, b) = Within(s.x, s.y - b, "UP", t.shots)
        /\ Drive(t, a + b) = Within(t.x, t.y - (a + b), "UP", t.shots)
    <3>1. Drive(s, b) = Within(s.x, s.y - b, "UP", s.shots)
      BY <1>1, <1>2, DriveIs
    <3>2. Drive(t, a + b) = Within(t.x, t.y - (a + b), "UP", t.shots)
      BY <1>1, <1>2, DriveIs
    <3> QED
      BY <1>1, <3>1, <3>2
  <2>3. s.x = Higher(0, Lower(t.x, Width - Long)) /\ s.y = Higher(0, Lower(t.y - a, Height - Short))
    BY <2>1 DEF Within
  <2>4. Within(s.x, s.y - b, "UP", t.shots) = Within(t.x, t.y - (a + b), "UP", t.shots)
    BY <1>1, <2>3, Sizes DEF Within, Higher, Lower
  <2> QED
    BY <2>2, <2>4 DEF s
<1>3. CASE t.dir = "DOWN"
  <2>1. s = Within(t.x, t.y + a, "DOWN", t.shots)
    BY <1>3, DriveIs
  <2> HIDE DEF s
  <2>2. /\ Drive(s, b) = Within(s.x, s.y + b, "DOWN", t.shots)
        /\ Drive(t, a + b) = Within(t.x, t.y + (a + b), "DOWN", t.shots)
    <3>1. Drive(s, b) = Within(s.x, s.y + b, "DOWN", s.shots)
      BY <1>1, <1>3, DriveIs
    <3>2. Drive(t, a + b) = Within(t.x, t.y + (a + b), "DOWN", t.shots)
      BY <1>1, <1>3, DriveIs
    <3> QED
      BY <1>1, <3>1, <3>2
  <2>3. s.x = Higher(0, Lower(t.x, Width - Long)) /\ s.y = Higher(0, Lower(t.y + a, Height - Short))
    BY <2>1 DEF Within
  <2>4. Within(s.x, s.y + b, "DOWN", t.shots) = Within(t.x, t.y + (a + b), "DOWN", t.shots)
    BY <1>1, <2>3, Sizes DEF Within, Higher, Lower
  <2> QED
    BY <2>2, <2>4 DEF s
<1>4. CASE t.dir = "LEFT"
  <2>1. s = Within(t.x - a, t.y, "LEFT", t.shots)
    BY <1>4, DriveIs
  <2> HIDE DEF s
  <2>2. /\ Drive(s, b) = Within(s.x - b, s.y, "LEFT", t.shots)
        /\ Drive(t, a + b) = Within(t.x - (a + b), t.y, "LEFT", t.shots)
    <3>1. Drive(s, b) = Within(s.x - b, s.y, "LEFT", s.shots)
      BY <1>1, <1>4, DriveIs
    <3>2. Drive(t, a + b) = Within(t.x - (a + b), t.y, "LEFT", t.shots)
      BY <1>1, <1>4, DriveIs
    <3> QED
      BY <1>1, <3>1, <3>2
  <2>3. s.x = Higher(0, Lower(t.x - a, Width - Short)) /\ s.y = Higher(0, Lower(t.y, Height - Long))
    BY <2>1 DEF Within
  <2>4. Within(s.x - b, s.y, "LEFT", t.shots) = Within(t.x - (a + b), t.y, "LEFT", t.shots)
    BY <1>1, <2>3, Sizes DEF Within, Higher, Lower
  <2> QED
    BY <2>2, <2>4 DEF s
<1>5. CASE t.dir = "RIGHT"
  <2>1. s = Within(t.x + a, t.y, "RIGHT", t.shots)
    BY <1>5, DriveIs
  <2> HIDE DEF s
  <2>2. /\ Drive(s, b) = Within(s.x + b, s.y, "RIGHT", t.shots)
        /\ Drive(t, a + b) = Within(t.x + (a + b), t.y, "RIGHT", t.shots)
    <3>1. Drive(s, b) = Within(s.x + b, s.y, "RIGHT", s.shots)
      BY <1>1, <1>5, DriveIs
    <3>2. Drive(t, a + b) = Within(t.x + (a + b), t.y, "RIGHT", t.shots)
      BY <1>1, <1>5, DriveIs
    <3> QED
      BY <1>1, <3>1, <3>2
  <2>3. s.x = Higher(0, Lower(t.x + a, Width - Short)) /\ s.y = Higher(0, Lower(t.y, Height - Long))
    BY <2>1 DEF Within
  <2>4. Within(s.x + b, s.y, "RIGHT", t.shots) = Within(t.x + (a + b), t.y, "RIGHT", t.shots)
    BY <1>1, <2>3, Sizes DEF Within, Higher, Lower
  <2> QED
    BY <2>2, <2>4 DEF s
<1> QED
  BY <1>1, <1>2, <1>3, <1>4, <1>5 DEF Moves

\* A tank that is born is within the scene.
LEMMA NewTankType == NewTank \in PlacedTank
BY ConstantsAssumption DEF NewTank, PlacedTank, Moves

\* What a command does to a tank.
LEMMA RecvOpType ==
  ASSUME NEW t \in PlacedTank, NEW op \in Ops, NEW ms \in Nat
  PROVE  /\ RecvOp(t, op, ms) \in PlacedTank
         /\ RecvOp(t, op, ms).dir = IF op \in Moves THEN op ELSE t.dir
         /\ op \in Moves /\ t.dir = op => RecvOp(t, op, ms) = Drive(t, ms)
<1>1. CASE op = "FIRE"
  <2>1. RecvOp(t, op, ms) = [t EXCEPT !.shots = Lower(@ + 1, MaxShots)] /\ op \notin Moves
    BY <1>1 DEF RecvOp, Moves
  <2>2. t.shots + 1 \in Nat /\ Lower(t.shots + 1, MaxShots) \in 0..MaxShots
    BY Sizes DEF PlacedTank, Lower
  <2> QED
    BY <2>1, <2>2 DEF PlacedTank
<1>2. CASE op # "FIRE"
  <2>1. op \in Moves
    BY <1>2, ConstantsAssumption
  <2>2. CASE t.dir = op
    BY <1>2, <2>1, <2>2, DriveIs DEF RecvOp
  <2>3. CASE t.dir # op
    <3>1. RecvOp(t, op, ms) = [t EXCEPT !.dir = op]
      BY <1>2, <2>3 DEF RecvOp
    <3> QED
      BY <2>1, <2>3, <3>1 DEF PlacedTank
  <2> QED
    BY <2>2, <2>3
<1> QED
  BY <1>1, <1>2

-----------------------------------------------------------------------------
(* Scenes *)

\* A scene gives each user that is in it a tank.
LEMMA SceneIs ==
  /\ \A ts \in Scene : DOMAIN ts \in SUBSET Users /\ \A u \in DOMAIN ts : ts[u] \in PlacedTank
  /\ \A there \in SUBSET Users : [there -> PlacedTank] \subseteq Scene
  /\ NoTanks \in Scene /\ DOMAIN NoTanks = {}
<1>1. \A there \in SUBSET Users : [there -> PlacedTank] \subseteq Scene
  BY DEF Scene
<1>2. NoTanks \in [{} -> PlacedTank] /\ DOMAIN NoTanks = {}
  BY DEF NoTanks
<1>3. NoTanks \in Scene
  BY <1>1, <1>2
<1>4. ASSUME NEW ts \in Scene
      PROVE  DOMAIN ts \in SUBSET Users /\ \A u \in DOMAIN ts : ts[u] \in PlacedTank
  <2>1. PICK there \in SUBSET Users : ts \in [there -> PlacedTank]
    BY DEF Scene
  <2> QED
    BY <2>1
<1> QED
  BY <1>1, <1>2, <1>3, <1>4

\* A tank more, or less.
LEMMA AddDelete ==
  ASSUME NEW ts \in Scene, NEW u \in Users
  PROVE  /\ AddTank(ts, u) \in Scene /\ DOMAIN AddTank(ts, u) = DOMAIN ts \cup {u}
         /\ AddTank(ts, u)[u] = NewTank
         /\ \A v \in DOMAIN ts : v # u => AddTank(ts, u)[v] = ts[v]
         /\ DeleteTank(ts, u) \in Scene /\ DOMAIN DeleteTank(ts, u) = DOMAIN ts \ {u}
         /\ \A v \in DOMAIN ts \ {u} : DeleteTank(ts, u)[v] = ts[v]
<1>1. DOMAIN ts \in SUBSET Users /\ \A v \in DOMAIN ts : ts[v] \in PlacedTank
  BY SceneIs
<1>2. /\ DOMAIN AddTank(ts, u) = DOMAIN ts \cup {u} /\ AddTank(ts, u)[u] = NewTank
      /\ \A v \in DOMAIN ts : v # u => AddTank(ts, u)[v] = ts[v]
      /\ DOMAIN DeleteTank(ts, u) = DOMAIN ts \ {u}
      /\ \A v \in DOMAIN ts \ {u} : DeleteTank(ts, u)[v] = ts[v]
  BY DEF AddTank, DeleteTank
<1>3. AddTank(ts, u) \in [DOMAIN ts \cup {u} -> PlacedTank]
  BY <1>1, NewTankType DEF AddTank
<1>4. DeleteTank(ts, u) \in [DOMAIN ts \ {u} -> PlacedTank]
  BY <1>1 DEF DeleteTank
<1>5. DOMAIN ts \cup {u} \in SUBSET Users /\ DOMAIN ts \ {u} \in SUBSET Users
  BY <1>1
<1> QED
  BY <1>2, <1>3, <1>4, <1>5, SceneIs

\* What a chunk of a frame does to the tanks.
LEMMA PlayCommandIs ==
  ASSUME NEW ts \in Scene, NEW c \in Command \cup {NoCommand}, NEW ms \in Nat
  PROVE  /\ PlayCommand(ts, c, ms) \in Scene
         /\ DOMAIN PlayCommand(ts, c, ms) = DOMAIN ts
         /\ \A u \in DOMAIN ts :
              PlayCommand(ts, c, ms)[u] =
                IF c # NoCommand /\ c.id = u THEN RecvOp(ts[u], c.op, ms) ELSE ts[u]
<1>1. DOMAIN ts \in SUBSET Users /\ \A v \in DOMAIN ts : ts[v] \in PlacedTank
  BY SceneIs
<1>2. CASE c # NoCommand /\ c.id \in DOMAIN ts
  <2> DEFINE t == RecvOp(ts[c.id], c.op, ms)
  <2>1. PlayCommand(ts, c, ms) = [ts EXCEPT ![c.id] = t]
    BY <1>2 DEF PlayCommand
  <2>2. c.op \in Ops /\ c.id \in Users
    BY <1>2 DEF Command
  <2>3. t \in PlacedTank
    BY <1>1, <1>2, <2>2, RecvOpType
  <2> HIDE DEF t
  <2>4. ts \in [DOMAIN ts -> PlacedTank]
    <3>1. PICK there \in SUBSET Users : ts \in [there -> PlacedTank]
      BY DEF Scene
    <3> QED
      BY <3>1
  <2>5. [ts EXCEPT ![c.id] = t] \in [DOMAIN ts -> PlacedTank]
    BY <2>3, <2>4
  <2>6. \A u \in DOMAIN ts : [ts EXCEPT ![c.id] = t][u] = IF c.id = u THEN t ELSE ts[u]
    BY <2>4
  <2>7. PlayCommand(ts, c, ms) \in Scene
    BY <1>1, <2>1, <2>5, SceneIs
  <2>8. DOMAIN PlayCommand(ts, c, ms) = DOMAIN ts
    BY <2>1, <2>5
  <2> QED
    BY <1>2, <2>1, <2>6, <2>7, <2>8 DEF t
<1>3. CASE ~(c # NoCommand /\ c.id \in DOMAIN ts)
  BY <1>3 DEF PlayCommand
<1> QED
  BY <1>2, <1>3

\* What the entry noted at login does to them.
LEMMA BackToBornIs ==
  ASSUME NEW ts \in Scene, NEW f, NEW last
  PROVE  /\ BackToBorn(ts, f, last) \in Scene
         /\ DOMAIN BackToBorn(ts, f, last) = DOMAIN ts
         /\ last.step # f.step => BackToBorn(ts, f, last) = ts
         /\ \A u \in DOMAIN ts : u # last.id => BackToBorn(ts, f, last)[u] = ts[u]
<1>1. DOMAIN ts \in SUBSET Users /\ \A v \in DOMAIN ts : ts[v] \in PlacedTank
  BY SceneIs
<1>2. CASE last.step = f.step /\ last.id \in DOMAIN ts
  <2> DEFINE t == [NewTank EXCEPT !.shots = ts[last.id].shots]
  <2>1. BackToBorn(ts, f, last) = [ts EXCEPT ![last.id] = t]
    BY <1>2 DEF BackToBorn
  <2>2. t \in PlacedTank
    BY <1>1, <1>2, NewTankType DEF PlacedTank
  <2> HIDE DEF t
  <2>3. ts \in [DOMAIN ts -> PlacedTank]
    <3>1. PICK there \in SUBSET Users : ts \in [there -> PlacedTank]
      BY DEF Scene
    <3> QED
      BY <3>1
  <2>4. [ts EXCEPT ![last.id] = t] \in [DOMAIN ts -> PlacedTank]
    BY <2>2, <2>3
  <2>5. \A u \in DOMAIN ts : u # last.id => [ts EXCEPT ![last.id] = t][u] = ts[u]
    BY <2>3
  <2>6. BackToBorn(ts, f, last) \in Scene
    BY <1>1, <2>1, <2>4, SceneIs
  <2> QED
    BY <1>2, <2>1, <2>4, <2>5, <2>6
<1>3. CASE ~(last.step = f.step /\ last.id \in DOMAIN ts)
  BY <1>3 DEF BackToBorn
<1> QED
  BY <1>2, <1>3

\* A quotient of naturals is one.
LEMMA DivNat ==
  ASSUME NEW m \in Nat, NEW k \in Nat, k > 0
  PROVE  m \div k \in Nat
OBVIOUS

\* A tick plays at most what is left of the frame.
LEMMA ChunkType ==
  ASSUME Types, NEW p \in Users, NEW dt \in 0..MaxTick
  PROVE  /\ Remaining(p) \in Nat /\ Remaining(p) <= Interval /\ Remaining(p) > 0
         /\ Chunk(p, dt) \in Nat /\ Chunk(p, dt) <= Remaining(p)
<1>1. Remaining(p) \in Nat /\ Remaining(p) <= Interval /\ Remaining(p) > 0
  BY Sizes DEF Types, Remaining
<1> DEFINE n == Len(frames[p])
           g == Gear(n)
<1>2. n \in Nat /\ dt \in Nat
  BY Sizes, LenProperties DEF Types
<1>3. (n + FramesPerGear - 1) \div FramesPerGear \in Nat
  <2> DEFINE m == n + FramesPerGear - 1
  <2>1. m \in Nat
    <3> HIDE DEF n
    <3> QED
      BY <1>2, Sizes
  <2> HIDE DEF m
  <2>2. m \div FramesPerGear \in Nat
    BY <2>1, Sizes, DivNat
  <2> QED
    BY <2>2 DEF m
<1>4. g \in Nat
  BY <1>3, Sizes DEF Gear, Lower
<1> HIDE DEF g
<1>5. dt * g \in Nat
  BY <1>2, <1>4
<1> DEFINE d == dt * g
<1>6. Chunk(p, dt) = Lower(d, Remaining(p)) /\ d \in Nat
  BY <1>5 DEF Chunk, g
<1> HIDE DEF d
<1> QED
  BY <1>1, <1>6 DEF Lower

-----------------------------------------------------------------------------
(* The log *)

\* One message more is counted if it is a frame.
LEMMA CountNext ==
  ASSUME NEW l, NEW m \in Nat, NEW n \in Nat, m <= n
  PROVE  /\ CountIn(l, m, n) \in Nat /\ CountIn(l, n, n) = 0
         /\ CountIn(l, m, n + 1) = CountIn(l, m, n) + (IF IsFrame(l[n + 1]) THEN 1 ELSE 0)
<1> DEFINE S == {i \in (m + 1)..n : IsFrame(l[i])}
           T == {i \in (m + 1)..(n + 1) : IsFrame(l[i])}
<1>1. IsFiniteSet(S)
  <2>1. IsFiniteSet((m + 1)..n) /\ S \subseteq (m + 1)..n
    BY FS_Interval
  <2> QED
    BY <2>1, FS_Subset
<1>2. (m + 1)..(n + 1) = (m + 1)..n \cup {n + 1} /\ n + 1 \notin (m + 1)..n
  OBVIOUS
<1>3. Cardinality(S) \in Nat
  BY <1>1, FS_CardinalityType
<1>4. {i \in (n + 1)..n : IsFrame(l[i])} = {}
  OBVIOUS
<1>5. CASE IsFrame(l[n + 1])
  <2>1. T = S \cup {n + 1} /\ n + 1 \notin S
    BY <1>2, <1>5
  <2>2. Cardinality(T) = Cardinality(S) + 1
    BY <1>1, <2>1, FS_AddElement
  <2> QED
    BY <1>3, <1>4, <1>5, <2>2, FS_EmptySet DEF CountIn
<1>6. CASE ~IsFrame(l[n + 1])
  <2>1. T = S
    BY <1>2, <1>6
  <2> QED
    BY <1>3, <1>4, <1>6, <2>1, FS_EmptySet DEF CountIn
<1> QED
  BY <1>5, <1>6

\* What is counted is decided by the messages that are counted.
LEMMA CountSame ==
  ASSUME NEW l, NEW r, NEW m \in Nat, NEW n \in Nat, \A i \in (m + 1)..n : r[i] = l[i]
  PROVE  CountIn(r, m, n) = CountIn(l, m, n)
<1>1. {i \in (m + 1)..n : IsFrame(r[i])} = {i \in (m + 1)..n : IsFrame(l[i])}
  OBVIOUS
<1> QED
  BY <1>1 DEF CountIn

\* A message more.
LEMMA LogAppend ==
  ASSUME Types, NEW m \in Message, log' = Append(log, m)
  PROVE  /\ log' \in Seq(Message) /\ Len(log') = Len(log) + 1 /\ Len(log) \in Nat
         /\ DOMAIN log = 1..Len(log) /\ DOMAIN log' = 1..(Len(log) + 1)
         /\ log'[Len(log) + 1] = m /\ \A i \in 1..Len(log) : log'[i] = log[i]
<1>1. log \in Seq(Message)
  BY DEF Types
<1> QED
  BY <1>1, Appended

\* With a message more that is not a frame the count stays, with a frame it grows.
LEMMA CountAppend ==
  ASSUME Types, NEW m \in Message, log' = Append(log, m)
  PROVE  /\ CountIn(log, dropped, Len(log)) \in Nat
         /\ CountIn(log', dropped, Len(log'))
              = CountIn(log, dropped, Len(log)) + (IF IsFrame(m) THEN 1 ELSE 0)
         /\ CountIn(log', Len(log'), Len(log')) = 0
<1> DEFINE n == Len(log)
<1>1. /\ Len(log') = n + 1 /\ n \in Nat /\ log'[n + 1] = m
      /\ \A i \in 1..n : log'[i] = log[i]
  BY LogAppend
<1>2. dropped \in Nat /\ dropped <= n
  BY DEF Types
<1> HIDE DEF n
<1>3. CountIn(log', dropped, n) = CountIn(log, dropped, n)
  <2>1. \A i \in (dropped + 1)..n : log'[i] = log[i]
    BY <1>1, <1>2
  <2> QED
    BY <1>1, <1>2, <2>1, CountSame
<1>4. /\ CountIn(log, dropped, n) \in Nat
      /\ CountIn(log', dropped, n + 1) = CountIn(log', dropped, n) + (IF IsFrame(m) THEN 1 ELSE 0)
  BY <1>1, <1>2, CountNext
<1>5. CountIn(log', n + 1, n + 1) = 0
  <2> DEFINE k == n + 1
  <2>1. k \in Nat /\ k <= k
    BY <1>1
  <2> HIDE DEF k
  <2>2. CountIn(log', k, k) = 0
    BY <2>1, CountNext
  <2> QED
    BY <2>2 DEF k
<1> QED
  BY <1>1, <1>3, <1>4, <1>5 DEF n

\* The history gets the message if it is a frame, or is dropped.
KeptOrDropped(m) ==
  \/ dropped' = dropped /\ history' = IF IsFrame(m) THEN Append(history, m.frame) ELSE history
  \/ dropped' = Len(log') /\ history' = <<>>

\* The history has its type then, and the frames of before or none.
LEMMA HistoryAppend ==
  ASSUME Types, NEW m \in Message, KeptOrDropped(m), log' = Append(log, m)
  PROVE  /\ history' \in Seq(Frame) /\ dropped' \in Nat /\ dropped' <= Len(log')
         /\ Len(history) \in Nat /\ DOMAIN history = 1..Len(history)
         /\ \A j \in DOMAIN history' :
              \/ j \in DOMAIN history /\ history'[j] = history[j]
              \/ j = Len(history) + 1 /\ IsFrame(m) /\ history'[j] = m.frame
<1> DEFINE h == history
           g == history'
           n == Len(log)
<1>1. h \in Seq(Frame) /\ dropped \in Nat /\ dropped <= n /\ n \in Nat /\ Len(log') = n + 1
  BY LogAppend DEF Types
<1>2. Len(h) \in Nat /\ DOMAIN h = 1..Len(h)
  BY <1>1, LenProperties
<1>3. IsFrame(m) => m.frame \in Frame
  BY DEF IsFrame, Message
<1>4. \/ dropped' = dropped /\ IsFrame(m) /\ g = Append(h, m.frame)
      \/ dropped' = dropped /\ ~IsFrame(m) /\ g = h
      \/ dropped' = n + 1 /\ g = <<>>
  BY <1>1 DEF KeptOrDropped
<1> HIDE DEF h, g, n
<1>5. CASE dropped' = dropped /\ IsFrame(m) /\ g = Append(h, m.frame)
  <2>1. /\ g \in Seq(Frame) /\ DOMAIN g = 1..(Len(h) + 1) /\ g[Len(h) + 1] = m.frame
        /\ \A j \in 1..Len(h) : g[j] = h[j]
    BY <1>1, <1>3, <1>5, Appended
  <2> QED
    BY <1>1, <1>2, <1>5, <2>1 DEF g, h, n
<1>6. CASE dropped' = dropped /\ ~IsFrame(m) /\ g = h
  BY <1>1, <1>2, <1>6 DEF g, h, n
<1>7. CASE dropped' = n + 1 /\ g = <<>>
  <2>1. g \in Seq(Frame) /\ DOMAIN g = {}
    BY <1>7
  <2> QED
    BY <1>1, <1>2, <1>7, <2>1 DEF g, h, n
<1> QED
  BY <1>4, <1>5, <1>6, <1>7

\* A message more keeps what is known of the log.
LEMMA LogInvAppend ==
  ASSUME Types, LogInv, NEW m \in Message, log' = Append(log, m), KeptOrDropped(m),
         step' \in Nat, step <= step', IsFrame(m) => m.frame.step <= step'
  PROVE  LogInv'
<1>1. /\ DOMAIN log' = 1..(Len(log) + 1) /\ Len(log) \in Nat
      /\ log'[Len(log) + 1] = m /\ \A i \in 1..Len(log) : log'[i] = log[i]
      /\ DOMAIN log = 1..Len(log) /\ log \in Seq(Message)
  BY LogAppend DEF Types
<1>2. step \in Nat
  BY Sizes DEF Types
<1>3. ASSUME NEW i \in DOMAIN log', IsFrame(log'[i])
      PROVE  log'[i].frame.step <= step'
  <2>1. CASE i = Len(log) + 1
    BY <1>1, <1>3, <2>1
  <2>2. CASE i # Len(log) + 1
    <3>1. i \in DOMAIN log /\ log'[i] = log[i] /\ log[i] \in Message
      BY <1>1, <1>3, <2>2
    <3>2. log[i].frame.step <= step /\ log[i].frame.step \in Nat
      BY <1>3, <3>1 DEF LogInv, IsFrame, Message, Frame
    <3> QED
      BY <1>2, <3>1, <3>2
  <2> QED
    BY <2>1, <2>2
<1>4. ASSUME NEW i \in DOMAIN history'
      PROVE  history'[i].step <= step'
  <2>1. \/ i \in DOMAIN history /\ history'[i] = history[i]
        \/ IsFrame(m) /\ history'[i] = m.frame
    BY <1>4, HistoryAppend
  <2>2. CASE i \in DOMAIN history /\ history'[i] = history[i]
    <3>1. history \in Seq(Frame) /\ DOMAIN history = 1..Len(history)
      BY HistoryAppend DEF Types
    <3>2. history[i] \in Frame
      BY <2>2, <3>1, ElementOfSeq
    <3>3. history[i].step <= step /\ history[i].step \in Nat
      BY <2>2, <3>2 DEF LogInv, Frame
    <3> QED
      BY <1>2, <2>2, <3>3
  <2> QED
    BY <2>1, <2>2
<1>5. Len(history') = CountIn(log', dropped', Len(log'))
  <2>1. Len(history) = CountIn(log, dropped, Len(log))
    BY DEF LogInv
  <2>2. CASE dropped' = dropped
             /\ history' = IF IsFrame(m) THEN Append(history, m.frame) ELSE history
    <3>1. Len(history') = Len(history) + (IF IsFrame(m) THEN 1 ELSE 0)
      <4>1. history \in Seq(Frame) /\ Len(history) \in Nat
        BY HistoryAppend DEF Types
      <4>2. IsFrame(m) => m.frame \in Frame
        BY DEF IsFrame, Message
      <4> QED
        BY <2>2, <4>1, <4>2, Appended
    <3> QED
      BY <2>1, <2>2, <3>1, CountAppend
  <2>3. CASE dropped' = Len(log') /\ history' = <<>>
    BY <2>3, CountAppend
  <2> QED
    BY <2>2, <2>3 DEF KeptOrDropped
<1> QED
  BY <1>3, <1>4, <1>5 DEF LogInv

-----------------------------------------------------------------------------
(* Types *)

\* A step of the game.
LEMMA StepTypes ==
  ASSUME TypeInv, NEW c \in Command \cup {NoCommand}, NEW l \in Users \cup {NoUid}, Step(c, l)
  PROVE  TypeInv'
<1> DEFINE f == [step |-> step + 1, command |-> c, last |-> l]
           m == [type |-> "FRAME", frame |-> f]
<1>1. /\ step' = step + 1 /\ log' = Append(log, m) /\ step < MaxSteps
      /\ UNCHANGED <<logins, online, ready, dropped, since, read, frames, left, lastFrame, tanks,
                     before, played>>
      /\ history' = Append(history, f)
  BY DEF Step
<1>2. step \in 0..MaxSteps /\ MaxSteps \in Nat /\ step + 1 \in 0..MaxSteps /\ step + 1 \in Nat
  BY <1>1, Sizes DEF TypeInv, Types
<1>3. f \in Frame
  BY <1>2 DEF Step, Frame
<1>4. m \in Message /\ m.frame.step = step + 1
  <2> HIDE DEF f
  <2>1. m \in Message
    BY <1>3 DEF Message
  <2> QED
    BY <2>1 DEF f
<1> HIDE DEF m
<1>5. /\ log' \in Seq(Message) /\ Len(log') = Len(log) + 1 /\ Len(log) \in Nat
  BY <1>1, <1>4, LogAppend DEF TypeInv
<1>6. LogInv' /\ history' \in Seq(Frame) /\ dropped' \in Nat /\ dropped' <= Len(log')
  <2>1. IsFrame(m) /\ m.frame = f
    BY DEF IsFrame, m
  <2>2. KeptOrDropped(m)
    BY <1>1, <2>1 DEF KeptOrDropped
  <2> QED
    BY <1>1, <1>2, <1>4, <2>1, <2>2, LogInvAppend, HistoryAppend DEF TypeInv
<1>7. \A q \in Users : read[q] <= Len(log) /\ read[q] \in Nat
  BY DEF TypeInv, Types
<1>8. Types'
  <2>1. \A q \in Users : read'[q] <= Len(log')
    BY <1>1, <1>5, <1>7
  <2> QED
    BY <1>1, <1>2, <1>5, <1>6, <2>1 DEF TypeInv, Types
<1>9. online # {}
  <2>1. Cardinality(ready) >= 2 /\ Cardinality({}) = 0
    BY FS_EmptySet DEF Step, Started
  <2>2. ready \in SUBSET online
    BY DEF TypeInv, Types
  <2>3. ASSUME online = {}
        PROVE  FALSE
    <3>1. ready = {}
      BY <2>2, <2>3
    <3>2. 0 >= 2
      BY <2>1, <3>1
    <3> QED
      BY <3>2
  <2> QED
    BY <2>3
<1> QED
  BY <1>1, <1>6, <1>8, <1>9 DEF TypeInv, OfflineInv

\* A login.
LEMMA LoginTypes ==
  ASSUME TypeInv, NEW p \in Users, Login(p)
  PROVE  TypeInv'
<1> DEFINE m == [type |-> "ENTER", uid |-> p]
<1>1. m \in Message /\ ~IsFrame(m)
  BY DEF Message, IsFrame
<1>2. log' = Append(log, m) /\ UNCHANGED <<step, history, dropped>>
  BY DEF Login
<1> HIDE DEF m
<1>3. /\ log' \in Seq(Message) /\ Len(log') = Len(log) + 1 /\ Len(log) \in Nat
  BY <1>1, <1>2, LogAppend DEF TypeInv
<1>4. step \in 0..MaxSteps /\ step \in Nat /\ MaxSteps \in Nat
  BY Sizes DEF TypeInv, Types
<1>5. LogInv'
  <2>1. KeptOrDropped(m)
    BY <1>1, <1>2 DEF KeptOrDropped
  <2> QED
    BY <1>1, <1>2, <1>4, <2>1, LogInvAppend DEF TypeInv
<1>6. /\ read' \in [Users -> Nat] /\ since' \in [Users -> Nat] /\ dropped' <= Len(log')
      /\ \A q \in Users : read'[q] <= Len(log') /\ since'[q] <= read'[q]
  <2> DEFINE n == Len(log)
  <2>1. /\ read' = [read EXCEPT ![p] = n + 1] /\ since' = [since EXCEPT ![p] = dropped]
        /\ dropped' = dropped
    BY <1>3 DEF Login
  <2>2. /\ read \in [Users -> Nat] /\ since \in [Users -> Nat] /\ dropped \in Nat /\ dropped <= n
        /\ \A q \in Users : read[q] <= n /\ since[q] <= read[q]
    BY DEF TypeInv, Types
  <2>3. Len(log') = n + 1 /\ n \in Nat
    BY <1>3
  <2> HIDE DEF n
  <2> QED
    BY <2>1, <2>2, <2>3
<1>7. tanks' \in [Users -> Scene]
  <2>1. online' \in SUBSET Users
    BY DEF Login, TypeInv, Types
  <2>2. [u \in online' |-> NewTank] \in [online' -> PlacedTank]
    BY NewTankType
  <2>3. [u \in online' |-> NewTank] \in Scene
    BY <2>1, <2>2, SceneIs
  <2> QED
    BY <2>3 DEF Login, TypeInv, Types
<1>8. frames' \in [Users -> Seq(Frame)]
  BY DEF Login, TypeInv, Types
<1>9. lastFrame' \in [Users -> [step : 0..MaxSteps, id : Users \cup {NoUid}]]
  <2> DEFINE h == history
  <2>1. h \in Seq(Frame) /\ \A i \in DOMAIN h : h[i].step <= step
    BY DEF TypeInv, Types, LogInv
  <2>2. lastFrame \in [Users -> [step : 0..MaxSteps, id : Users \cup {NoUid}]]
    BY DEF TypeInv, Types
  <2>3. lastFrame' = IF h = <<>> THEN lastFrame
                     ELSE [lastFrame EXCEPT ![p] = [step |-> h[Len(h)].step, id |-> h[Len(h)].last]]
    BY DEF Login
  <2> HIDE DEF h
  <2>4. CASE h # <<>>
    <3>1. Len(h) \in DOMAIN h /\ h[Len(h)] \in Frame
      BY <2>1, <2>4
    <3> DEFINE f == h[Len(h)]
    <3>2. f \in Frame /\ f.step <= step
      BY <2>1, <3>1
    <3> HIDE DEF f
    <3>3. f.step \in 0..MaxSteps /\ f.last \in Users \cup {NoUid}
      BY <1>4, <3>2 DEF Frame
    <3>4. lastFrame' = [lastFrame EXCEPT ![p] = [step |-> f.step, id |-> f.last]]
      BY <2>3, <2>4 DEF f
    <3> QED
      BY <2>2, <3>3, <3>4
  <2> QED
    BY <2>2, <2>3, <2>4
<1>10. logins' \in [Users -> 0..2]
  <2>1. logins[p] \in 0..2 /\ logins \in [Users -> 0..2]
    BY DEF TypeInv, Types
  <2>2. Lower(logins[p] + 1, 2) \in 0..2
    BY <2>1 DEF Lower
  <2> QED
    BY <2>1, <2>2 DEF Login
<1>11. /\ online' \in SUBSET Users /\ online' # {} /\ Users \ online' = (Users \ online) \ {p}
       /\ ready' \in SUBSET online'
  BY DEF Login, TypeInv, Types
<1>12. UNCHANGED <<left, before, played>>
  BY DEF Login
<1>13. Types'
  BY <1>2, <1>3, <1>4, <1>6, <1>7, <1>8, <1>9, <1>10, <1>11, <1>12 DEF TypeInv, Types
<1>14. OfflineInv'
  <2> SUFFICES ASSUME NEW q \in Users \ online'
               PROVE  /\ read'[q] = 0 /\ frames'[q] = <<>> /\ left'[q] = 0 /\ played'[q] = 0
                      /\ lastFrame'[q] = NoFrame /\ tanks'[q] = NoTanks /\ before'[q] = NoTanks
    BY <1>11 DEF OfflineInv
  <2>1. q \in Users \ online /\ q # p
    BY <1>11
  <2>2. /\ read[q] = 0 /\ frames[q] = <<>> /\ left[q] = 0 /\ played[q] = 0
        /\ lastFrame[q] = NoFrame /\ tanks[q] = NoTanks /\ before[q] = NoTanks
    BY <2>1 DEF TypeInv, OfflineInv
  <2>3. /\ read'[q] = read[q] /\ frames'[q] = frames[q] /\ left'[q] = left[q]
        /\ tanks'[q] = tanks[q] /\ before'[q] = before[q] /\ played'[q] = played[q]
    BY <2>1 DEF Login, TypeInv, Types
  <2>4. lastFrame'[q] = lastFrame[q]
    <3> DEFINE e == [step |-> history[Len(history)].step, id |-> history[Len(history)].last]
    <3>1. lastFrame' = lastFrame \/ lastFrame' = [lastFrame EXCEPT ![p] = e]
      BY DEF Login
    <3> HIDE DEF e
    <3> QED
      BY <2>1, <3>1 DEF TypeInv, Types
  <2> QED
    BY <2>2, <2>3, <2>4
<1> QED
  BY <1>5, <1>13, <1>14 DEF TypeInv

\* A page that is closed.
LEMMA LeaveTypes ==
  ASSUME TypeInv, NEW p \in Users, Leave(p)
  PROVE  TypeInv'
<1> DEFINE m == [type |-> "LEAVE", uid |-> p]
<1>1. m \in Message /\ ~IsFrame(m)
  BY DEF Message, IsFrame
<1>2. /\ log' = IF online' = {} THEN <<>> ELSE Append(log, m)
      /\ step' = step /\ logins' = logins
  BY DEF Leave
<1> HIDE DEF m
<1>3. step \in 0..MaxSteps /\ step \in Nat /\ MaxSteps \in Nat
  BY Sizes DEF TypeInv, Types
<1>4. /\ online' \in SUBSET Users /\ Users \ online' = (Users \ online) \cup {p}
      /\ log \in Seq(Message) /\ ready' \in SUBSET online'
  BY DEF Leave, TypeInv, Types
<1>5. /\ read' \in [Users -> Nat] /\ frames' \in [Users -> Seq(Frame)]
      /\ left' \in [Users -> 0..Interval] /\ played' \in [Users -> Nat]
      /\ since' \in [Users -> Nat] /\ \A q \in Users : since'[q] <= read'[q]
      /\ read'[p] = 0 /\ frames'[p] = <<>> /\ left'[p] = 0 /\ played'[p] = 0
      /\ \A q \in Users : q # p => /\ read'[q] = read[q] /\ frames'[q] = frames[q]
                                   /\ left'[q] = left[q] /\ played'[q] = played[q]
  BY Sizes DEF Leave, TypeInv, Types
<1>6. /\ tanks' \in [Users -> Scene] /\ before' \in [Users -> Scene]
      /\ lastFrame' \in [Users -> [step : 0..MaxSteps, id : Users \cup {NoUid}]]
      /\ tanks'[p] = NoTanks /\ before'[p] = NoTanks /\ lastFrame'[p] = NoFrame
      /\ \A q \in Users : q # p => /\ tanks'[q] = tanks[q] /\ before'[q] = before[q]
                                   /\ lastFrame'[q] = lastFrame[q]
  <2>1. NoTanks \in Scene
    BY SceneIs
  <2>2. NoFrame \in [step : 0..MaxSteps, id : Users \cup {NoUid}]
    BY <1>3 DEF NoFrame
  <2> QED
    BY <2>1, <2>2 DEF Leave, TypeInv, Types
<1>7. \A q \in Users \ online' :
        /\ read'[q] = 0 /\ frames'[q] = <<>> /\ left'[q] = 0 /\ played'[q] = 0
        /\ lastFrame'[q] = NoFrame /\ tanks'[q] = NoTanks /\ before'[q] = NoTanks
  <2> TAKE q \in Users \ online'
  <2>1. CASE q = p
    BY <1>5, <1>6, <2>1
  <2>2. CASE q # p
    <3>1. q \in Users \ online
      BY <1>4, <2>2
    <3>2. /\ read[q] = 0 /\ frames[q] = <<>> /\ left[q] = 0 /\ played[q] = 0
          /\ lastFrame[q] = NoFrame /\ tanks[q] = NoTanks /\ before[q] = NoTanks
      BY <3>1 DEF TypeInv, OfflineInv
    <3> QED
      BY <1>5, <1>6, <2>2, <3>2
  <2> QED
    BY <2>1, <2>2
<1>8. OfflineInv'
  BY <1>2, <1>7 DEF OfflineInv
<1>9. /\ LogInv' /\ log' \in Seq(Message) /\ \A q \in Users : read'[q] <= Len(log')
      /\ history' \in Seq(Frame) /\ dropped' \in Nat /\ dropped' <= Len(log')
  <2>1. CASE online' # {}
    <3>1. log' = Append(log, m)
      BY <1>2, <2>1
    <3>2. /\ log' \in Seq(Message) /\ Len(log') = Len(log) + 1 /\ Len(log) \in Nat
      BY <1>1, <3>1, LogAppend DEF TypeInv
    <3>3. \A q \in Users : read[q] <= Len(log) /\ read[q] \in Nat
      BY DEF TypeInv, Types
    <3>4. \A q \in Users : read'[q] <= Len(log')
      <4> TAKE q \in Users
      <4>1. CASE q = p
        BY <1>5, <3>2, <4>1
      <4>2. CASE q # p
        <5>1. read'[q] = read[q]
          BY <1>5, <4>2
        <5>2. read[q] <= Len(log) /\ read[q] \in Nat
          BY <3>3
        <5> QED
          BY <3>2, <5>1, <5>2
      <4> QED
        BY <4>1, <4>2
    <3>5. KeptOrDropped(m)
      BY <1>1, <2>1 DEF Leave, HistoryKept, KeptOrDropped
    <3> QED
      BY <1>1, <1>2, <1>3, <3>1, <3>2, <3>4, <3>5, LogInvAppend, HistoryAppend DEF TypeInv
  <2>2. CASE online' = {}
    <3>1. log' = <<>> /\ Len(log') = 0 /\ log' \in Seq(Message) /\ DOMAIN log' = {}
      BY <1>2, <2>2
    <3>2. \A q \in Users : read'[q] = 0
      BY <1>7, <2>2
    <3>3. history' = <<>> /\ dropped' = 0
      BY <1>4, <2>2 DEF Leave, HistoryKept
    <3>4. CountIn(log', 0, 0) = 0
      BY CountNext
    <3>5. LogInv'
      BY <3>1, <3>3, <3>4 DEF LogInv
    <3> QED
      BY <3>1, <3>2, <3>3, <3>5
  <2> QED
    BY <2>1, <2>2
<1>10. Types'
  BY <1>2, <1>4, <1>5, <1>6, <1>9 DEF TypeInv, Types
<1> QED
  BY <1>8, <1>9, <1>10 DEF TypeInv

\* The next message a page reads.
LEMMA NextMessage ==
  ASSUME TypeInv, NEW p \in Users, Receive(p)
  PROVE  /\ read[p] \in Nat /\ read[p] + 1 \in DOMAIN log /\ read[p] + 1 <= Len(log)
         /\ log[read[p] + 1] \in Message
         /\ log' = log /\ online' = online /\ p \in online
         /\ read' = [read EXCEPT ![p] = read[p] + 1]
         /\ UNCHANGED serverVars
         /\ ~IsFrame(log[read[p] + 1]) => log[read[p] + 1].uid \in Users
         /\ IsFrame(log[read[p] + 1]) => log[read[p] + 1].frame \in Frame
<1>1. log \in Seq(Message) /\ read[p] \in Nat /\ read[p] < Len(log)
  BY DEF TypeInv, Types, Receive
<1> DEFINE n == Len(log)
<1>2. n \in Nat /\ DOMAIN log = 1..n
  BY <1>1, LenProperties
<1>3. read[p] + 1 \in 1..n
  <2> HIDE DEF n
  <2> QED
    BY <1>1, <1>2 DEF n
<1>4. log[read[p] + 1] \in Message
  BY <1>1, <1>3, ElementOfSeq
<1>5. log' = log /\ online' = online /\ p \in online /\ read' = [read EXCEPT ![p] = read[p] + 1]
  BY DEF Receive, serverVars
<1>6. UNCHANGED serverVars
  BY DEF Receive
<1>7. /\ ~IsFrame(log[read[p] + 1]) => log[read[p] + 1].uid \in Users
      /\ IsFrame(log[read[p] + 1]) => log[read[p] + 1].frame \in Frame
  <2> DEFINE m == log[read[p] + 1]
  <2>1. m \in Message
    BY <1>4
  <2> HIDE DEF m
  <2>2. /\ ~IsFrame(m) => m.uid \in Users
        /\ IsFrame(m) => m.frame \in Frame
    BY <2>1 DEF Message, IsFrame
  <2> QED
    BY <2>2 DEF m
<1> QED
  BY <1>1, <1>2, <1>3, <1>4, <1>5, <1>6, <1>7

\* A message that a page reads.
LEMMA ReceiveTypes ==
  ASSUME TypeInv, NEW p \in Users, Receive(p)
  PROVE  TypeInv'
<1> DEFINE m == log[read[p] + 1]
<1>1. /\ read[p] \in Nat /\ read[p] + 1 <= Len(log)
      /\ log' = log /\ online' = online /\ p \in online
      /\ read' = [read EXCEPT ![p] = read[p] + 1]
      /\ ~IsFrame(m) => m.uid \in Users
      /\ IsFrame(m) => m.frame \in Frame
  BY NextMessage
<1>2. /\ frames \in [Users -> Seq(Frame)] /\ tanks \in [Users -> Scene]
      /\ before \in [Users -> Scene] /\ read \in [Users -> Nat]
      /\ \A q \in Users : read[q] <= Len(log)
  BY DEF TypeInv, Types
<1>3. UNCHANGED <<log, step, logins, online, ready, history, dropped, since, left, lastFrame,
                  played>>
  BY DEF Receive, serverVars
<1>4. /\ frames' \in [Users -> Seq(Frame)] /\ tanks' \in [Users -> Scene]
      /\ before' \in [Users -> Scene]
      /\ \A q \in Users : q # p => /\ frames'[q] = frames[q] /\ tanks'[q] = tanks[q]
                                   /\ before'[q] = before[q]
  <2>1. CASE IsFrame(m)
    <3>1. frames' = [frames EXCEPT ![p] = Append(frames[p], m.frame)]
      BY <2>1 DEF Receive, IsFrame
    <3>2. tanks' = tanks /\ before' = before
      BY <2>1 DEF Receive, IsFrame
    <3>3. Append(frames[p], m.frame) \in Seq(Frame)
      BY <1>1, <1>2, <2>1, Appended
    <3> QED
      BY <1>2, <3>1, <3>2, <3>3
  <2>2. CASE ~IsFrame(m)
    <3>1. /\ m.uid \in Users /\ frames' = frames
          /\ \/ tanks' = [tanks EXCEPT ![p] = AddTank(tanks[p], m.uid)]
             \/ tanks' = [tanks EXCEPT ![p] = DeleteTank(tanks[p], m.uid)]
          /\ before' = [before EXCEPT ![p] = DeleteTank(before[p], m.uid)]
      BY <1>1, <2>2 DEF Receive, IsFrame
    <3>2. /\ AddTank(tanks[p], m.uid) \in Scene /\ DeleteTank(tanks[p], m.uid) \in Scene
          /\ DeleteTank(before[p], m.uid) \in Scene
      BY <1>2, <3>1, AddDelete
    <3> HIDE DEF m
    <3> QED
      BY <1>2, <3>1, <3>2
  <2> QED
    BY <2>1, <2>2
<1>5. /\ read' \in [Users -> Nat] /\ \A q \in Users : read'[q] <= Len(log')
      /\ \A q \in Users : since[q] <= read'[q]
  <2>1. read[p] + 1 \in Nat
    BY <1>1
  <2>2. since \in [Users -> Nat] /\ \A q \in Users : since[q] <= read[q]
    BY DEF TypeInv, Types
  <2> QED
    BY <1>1, <1>2, <2>1, <2>2
<1>6. Types'
  BY <1>3, <1>4, <1>5 DEF TypeInv, Types
<1>7. LogInv'
  BY <1>3 DEF TypeInv, LogInv
<1>8. OfflineInv'
  <2>1. \A q \in Users \ online : q # p /\ read'[q] = read[q]
    BY <1>1, <1>2
  <2> QED
    BY <1>3, <1>4, <2>1 DEF TypeInv, OfflineInv
<1> QED
  BY <1>6, <1>7, <1>8 DEF TypeInv

\* A tick, as a page sees it.
LEMMA Tick ==
  ASSUME TypeInv, NEW p \in Users, NEW dt \in 0..MaxTick, Update(p, dt)
  PROVE  LET f == Head(frames[p])
             ms == Chunk(p, dt)
             rest == Remaining(p) - ms
         IN /\ f \in Frame /\ frames[p] \in Seq(Frame) /\ frames[p] # <<>>
            /\ ms \in Nat /\ rest \in 0..Interval /\ p \in online
            /\ PlayCommand(tanks[p], f.command, ms) \in Scene
            /\ tanks' = [tanks EXCEPT ![p] = BackToBorn(PlayCommand(tanks[p], f.command, ms), f,
                                                        lastFrame[p])]
            /\ frames' = [frames EXCEPT ![p] = IF rest = 0 THEN Tail(frames[p]) ELSE frames[p]]
            /\ left' = [left EXCEPT ![p] = rest]
            /\ before' = [before EXCEPT ![p] = IF rest = 0 THEN NoTanks
                                               ELSE IF left[p] = 0 THEN tanks[p] ELSE before[p]]
            /\ played' = [played EXCEPT ![p] = played[p] + ms]
            /\ UNCHANGED <<serverVars, read, lastFrame>>
<1> DEFINE f == Head(frames[p])
           ms == Chunk(p, dt)
           rest == Remaining(p) - ms
<1>1. /\ frames \in [Users -> Seq(Frame)] /\ frames[p] \in Seq(Frame) /\ frames[p] # <<>>
      /\ tanks[p] \in Scene /\ left[p] \in 0..Interval
  BY DEF Update, TypeInv, Types
<1>2. f \in Frame
  BY <1>1, HeadTailProperties
<1>3. ms \in Nat /\ rest \in 0..Interval
  <2>1. /\ Remaining(p) \in Nat /\ Remaining(p) <= Interval /\ Remaining(p) > 0
        /\ Chunk(p, dt) \in Nat /\ Chunk(p, dt) <= Remaining(p)
    BY ChunkType DEF TypeInv
  <2> DEFINE r == Remaining(p)
  <2> HIDE DEF ms, r
  <2>2. r \in Nat /\ r <= Interval /\ ms \in Nat /\ ms <= r /\ rest = r - ms /\ Interval \in Nat
    BY <2>1, Sizes DEF ms, r
  <2> HIDE DEF rest
  <2> QED
    BY <2>2
<1>4. p \in online
  BY <1>1 DEF TypeInv, OfflineInv
<1>5. PlayCommand(tanks[p], f.command, ms) \in Scene
  <2>1. f.command \in Command \cup {NoCommand}
    BY <1>2 DEF Frame
  <2> HIDE DEF f, ms
  <2> QED
    BY <1>1, <1>3, <2>1, PlayCommandIs
<1>6. rest <= 0 <=> rest = 0
  <2> HIDE DEF rest
  <2> QED
    BY <1>3
<1>7. Higher(0, rest) = rest
  <2> HIDE DEF rest
  <2> QED
    BY <1>3 DEF Higher
<1>8. /\ tanks' = [tanks EXCEPT ![p] = BackToBorn(PlayCommand(tanks[p], f.command, ms), f,
                                                  lastFrame[p])]
      /\ frames' = IF rest <= 0 THEN [frames EXCEPT ![p] = Tail(frames[p])] ELSE frames
      /\ left' = [left EXCEPT ![p] = Higher(0, rest)]
      /\ before' = [before EXCEPT ![p] = IF rest <= 0 THEN NoTanks
                                         ELSE IF left[p] = 0 THEN tanks[p] ELSE before[p]]
      /\ played' = [played EXCEPT ![p] = played[p] + ms]
      /\ UNCHANGED <<serverVars, read, lastFrame>>
  BY DEF Update, serverVars
<1>9. frames' = [frames EXCEPT ![p] = IF rest = 0 THEN Tail(frames[p]) ELSE frames[p]]
  <2>1. frames = [frames EXCEPT ![p] = frames[p]]
    BY <1>1
  <2> HIDE DEF rest
  <2> QED
    BY <1>6, <1>8, <2>1
<1> HIDE DEF f, ms
<1>10. QED
  BY <1>1, <1>2, <1>3, <1>4, <1>5, <1>6, <1>7, <1>8, <1>9 DEF f, ms

\* A tick.
LEMMA UpdateTypes ==
  ASSUME TypeInv, NEW p \in Users, NEW dt \in 0..MaxTick, Update(p, dt)
  PROVE  TypeInv'
<1> DEFINE f == Head(frames[p])
           ms == Chunk(p, dt)
           rest == Remaining(p) - ms
           ts == PlayCommand(tanks[p], f.command, ms)
<1>1. /\ f \in Frame /\ frames[p] \in Seq(Frame) /\ frames[p] # <<>>
      /\ ms \in Nat /\ rest \in 0..Interval /\ p \in online /\ ts \in Scene
      /\ tanks' = [tanks EXCEPT ![p] = BackToBorn(ts, f, lastFrame[p])]
      /\ frames' = [frames EXCEPT ![p] = IF rest = 0 THEN Tail(frames[p]) ELSE frames[p]]
      /\ left' = [left EXCEPT ![p] = rest]
      /\ before' = [before EXCEPT ![p] = IF rest = 0 THEN NoTanks
                                         ELSE IF left[p] = 0 THEN tanks[p] ELSE before[p]]
      /\ played' = [played EXCEPT ![p] = played[p] + ms]
      /\ UNCHANGED <<serverVars, read, lastFrame>>
  BY Tick
<1> HIDE DEF f, ms, rest, ts
<1>2. /\ frames \in [Users -> Seq(Frame)] /\ tanks \in [Users -> Scene]
      /\ before \in [Users -> Scene] /\ left \in [Users -> 0..Interval]
      /\ played \in [Users -> Nat]
  BY DEF TypeInv, Types
<1>3. BackToBorn(ts, f, lastFrame[p]) \in Scene /\ NoTanks \in Scene
  BY <1>1, BackToBornIs, SceneIs
<1>4. Tail(frames[p]) \in Seq(Frame)
  BY <1>1, HeadTailProperties
<1>5. /\ frames' \in [Users -> Seq(Frame)] /\ tanks' \in [Users -> Scene]
      /\ before' \in [Users -> Scene] /\ left' \in [Users -> 0..Interval]
      /\ \A q \in Users : q # p => /\ frames'[q] = frames[q] /\ tanks'[q] = tanks[q]
                                   /\ before'[q] = before[q] /\ left'[q] = left[q]
                                   /\ played'[q] = played[q]
  BY <1>1, <1>2, <1>3, <1>4
<1>6. played' \in [Users -> Nat]
  <2>1. played[p] + ms \in Nat
    BY <1>1, <1>2
  <2> QED
    BY <1>1, <1>2, <2>1
<1>7. UNCHANGED <<log, step, logins, online, ready, history, dropped, since, read, lastFrame>>
  BY <1>1 DEF serverVars
<1>8. Types'
  BY <1>5, <1>6, <1>7 DEF TypeInv, Types
<1>9. LogInv'
  BY <1>7 DEF TypeInv, LogInv
<1>10. OfflineInv'
  <2>1. \A q \in Users \ online : q # p
    BY <1>1
  <2> QED
    BY <1>1, <1>5, <1>7, <2>1 DEF TypeInv, OfflineInv
<1> QED
  BY <1>8, <1>9, <1>10 DEF TypeInv

\* Every step keeps the types.
LEMMA TypeStep == TypeInv /\ [Next]_vars => TypeInv'
<1> SUFFICES ASSUME TypeInv, [Next]_vars
             PROVE  TypeInv'
  OBVIOUS
<1>1. ASSUME NEW c \in Command \cup {NoCommand}, NEW l \in Users \cup {NoUid}, Step(c, l)
      PROVE  TypeInv'
  BY <1>1, StepTypes
<1>2. ASSUME NEW p \in Users, Login(p)
      PROVE  TypeInv'
  BY <1>2, LoginTypes
<1>3. ASSUME NEW p \in Users, Leave(p)
      PROVE  TypeInv'
  BY <1>3, LeaveTypes
<1>4. ASSUME NEW p \in Users, Receive(p)
      PROVE  TypeInv'
  BY <1>4, ReceiveTypes
<1>5. ASSUME NEW p \in Users, NEW dt \in 0..MaxTick, Update(p, dt)
      PROVE  TypeInv'
  BY <1>5, UpdateTypes
<1>6. CASE UNCHANGED vars
  BY <1>6 DEF vars, serverVars, TypeInv, Types, LogInv, OfflineInv
<1> QED
  BY <1>1, <1>2, <1>3, <1>4, <1>5, <1>6 DEF Next

\* The pages start without anything.
LEMMA TypeInit == Init => TypeInv
<1> SUFFICES ASSUME Init PROVE TypeInv
  OBVIOUS
<1>1. NoTanks \in Scene
  BY SceneIs
<1>2. log = <<>> /\ log \in Seq(Message) /\ Len(log) = 0 /\ DOMAIN log = {}
  BY DEF Init
<1>3. NoFrame \in [step : 0..MaxSteps, id : Users \cup {NoUid}]
  BY Sizes DEF NoFrame
<1>4. Types
  BY <1>1, <1>2, <1>3, Sizes DEF Init, Types
<1>5. history = <<>> /\ dropped = 0 /\ CountIn(log, 0, 0) = 0
  <2>1. 0 \in Nat /\ 0 <= 0
    OBVIOUS
  <2>2. CountIn(log, 0, 0) = 0
    BY <2>1, CountNext
  <2> QED
    BY <2>2 DEF Init
<1>6. LogInv
  BY <1>2, <1>5 DEF LogInv
<1> QED
  BY <1>4, <1>6 DEF Init, OfflineInv, TypeInv

\* What the pages hold has its type, and no tank ever leaves the scene: it stays
\* within the borders of the canvas wherever it drives and turns (collisionCheck).
THEOREM TypeCorrect == Spec => [](TypeInv /\ TypeOK)
<1>1. TypeInv => TypeOK
  <2> SUFFICES ASSUME TypeInv PROVE TypeOK
    OBVIOUS
  <2>1. PlacedTank \subseteq Tank
    BY Sizes DEF PlacedTank, Tank
  <2>2. ASSUME NEW ts \in Scene
        PROVE  ts \in [DOMAIN ts -> Tank] /\ DOMAIN ts \subseteq Users
    <3>1. PICK there \in SUBSET Users : ts \in [there -> PlacedTank]
      BY DEF Scene
    <3> QED
      BY <2>1, <3>1
  <2>3. /\ dropped \in 0..Len(log)
        /\ \A p \in Users : read[p] \in 0..Len(log) /\ since[p] \in 0..read[p]
    <3>1. Len(log) \in Nat
      BY LenProperties DEF TypeInv, Types
    <3> QED
      BY <3>1 DEF TypeInv, Types
  <2> QED
    BY <2>2, <2>3 DEF TypeInv, Types, TypeOK
<1>2. TypeInv /\ [Next]_vars => TypeInv'
  BY TypeStep
<1> QED
  BY <1>1, <1>2, TypeInit, PTL DEF Spec

-----------------------------------------------------------------------------
(* Every frame is played for one interval *)

\* How long a page has played that was given so many frames, of which some wait
\* and the first has l left.
Due(given, waiting, l) ==
  Interval * (given - waiting) + (IF l = 0 THEN 0 ELSE Interval - l)

\* The property in these terms.
LEMMA WholeIs ==
  /\ FramesPlayedWhole <=>
       \A p \in online :
         played[p] = Due(CountIn(log, since[p], read[p]), Len(frames[p]), left[p])
  /\ FramesPlayedWhole' <=>
       \A p \in online' :
         played'[p] = Due(CountIn(log', since'[p], read'[p]), Len(frames'[p]), left'[p])
BY DEF FramesPlayedWhole, Due, CountIn

\* An interval more.
LEMMA IntervalMore ==
  ASSUME NEW x \in Int, NEW i \in Int
  PROVE  i * (x + 1) = i * x + i
OBVIOUS

\* What a tick does to the time that was played.
LEMMA DueNext ==
  ASSUME NEW g \in Nat, NEW n \in Nat, NEW l \in 0..Interval, NEW ms \in Nat,
         NEW r \in 0..Interval, r = (IF l = 0 THEN Interval ELSE l) - ms
  PROVE  Due(g, IF r = 0 THEN n - 1 ELSE n, r) = Due(g, n, l) + ms
<1> DEFINE x == g - n
           k == Interval * x
<1>1. x \in Int /\ Interval \in Int
  BY Sizes
<1>2. Interval * (x + 1) = k + Interval /\ k \in Int
  <2> HIDE DEF x
  <2> QED
    BY <1>1, IntervalMore
<1>3. g - (n - 1) = x + 1
  OBVIOUS
<1>4. Due(g, n - 1, 0) = k + Interval
  <2>1. Due(g, n - 1, 0) = Interval * (x + 1) + 0
    BY <1>3 DEF Due
  <2> HIDE DEF k, x
  <2> QED
    BY <1>1, <1>2, <2>1
<1>5. /\ Due(g, n, l) = k + (IF l = 0 THEN 0 ELSE Interval - l)
      /\ Due(g, n, r) = k + (IF r = 0 THEN 0 ELSE Interval - r)
  BY DEF Due
<1> HIDE DEF k
<1> QED
  BY <1>1, <1>2, <1>4, <1>5, Sizes

\* A message more does not change what was given.
LEMMA GivenBefore ==
  ASSUME TypeInv, NEW m \in Message, log' = Append(log, m), NEW q \in Users
  PROVE  CountIn(log', since[q], read[q]) = CountIn(log, since[q], read[q])
<1>1. read[q] \in Nat /\ read[q] <= Len(log) /\ since[q] \in Nat
  BY DEF TypeInv, Types
<1>2. Len(log) \in Nat /\ \A i \in 1..Len(log) : log'[i] = log[i]
  BY LogAppend DEF TypeInv
<1>3. \A i \in (since[q] + 1)..read[q] : log'[i] = log[i]
  BY <1>1, <1>2
<1> QED
  BY <1>1, <1>3, CountSame

\* Every step plays as much as it takes off the queue.
LEMMA WholeStep == TypeInv /\ FramesPlayedWhole /\ [Next]_vars => FramesPlayedWhole'
<1> SUFFICES ASSUME TypeInv, FramesPlayedWhole, [Next]_vars
             PROVE  FramesPlayedWhole'
  OBVIOUS
<1>1. \A q \in online : played[q] = Due(CountIn(log, since[q], read[q]), Len(frames[q]), left[q])
  BY WholeIs
<1>2. online \in SUBSET Users
  BY DEF TypeInv, Types
<1>3. ASSUME NEW c \in Command \cup {NoCommand}, NEW l \in Users \cup {NoUid}, Step(c, l)
      PROVE  FramesPlayedWhole'
  <2> DEFINE m == [type |-> "FRAME", frame |-> [step |-> step + 1, command |-> c, last |-> l]]
  <2>1. /\ log' = Append(log, m) /\ step' = step + 1
        /\ UNCHANGED <<online, since, read, frames, left, played>>
    BY <1>3 DEF Step
  <2>2. m \in Message
    <3>1. step \in Nat
      BY Sizes DEF TypeInv, Types
    <3> QED
      BY <1>3, <3>1 DEF Message, Frame, Step
  <2> HIDE DEF m
  <2>3. \A q \in online : CountIn(log', since[q], read[q]) = CountIn(log, since[q], read[q])
    BY <1>2, <2>1, <2>2, GivenBefore
  <2> QED
    BY <1>1, <2>1, <2>3, WholeIs
<1>4. ASSUME NEW p \in Users, Login(p)
      PROVE  FramesPlayedWhole'
  <2> DEFINE m == [type |-> "ENTER", uid |-> p]
  <2>1. /\ log' = Append(log, m) /\ read' = [read EXCEPT ![p] = Len(log')]
        /\ frames' = [frames EXCEPT ![p] = history]
        /\ since' = [since EXCEPT ![p] = dropped]
        /\ online' = online \cup {p} /\ p \notin online /\ UNCHANGED <<left, played>>
    BY <1>4 DEF Login
  <2>2. m \in Message /\ ~IsFrame(m)
    BY DEF Message, IsFrame
  <2> HIDE DEF m
  <2>3. /\ read \in [Users -> Nat] /\ frames \in [Users -> Seq(Frame)]
        /\ since \in [Users -> Nat] /\ dropped \in Nat /\ dropped <= Len(log)
        /\ history \in Seq(Frame) /\ played[p] = 0 /\ left[p] = 0
    BY <2>1 DEF TypeInv, Types, OfflineInv
  <2>4. /\ Len(log') = Len(log) + 1 /\ Len(log) \in Nat
        /\ log'[Len(log) + 1] = m /\ \A i \in 1..Len(log) : log'[i] = log[i]
    BY <2>1, <2>2, LogAppend DEF TypeInv
  <2>5. ASSUME NEW q \in online
        PROVE  played'[q] = Due(CountIn(log', since'[q], read'[q]), Len(frames'[q]), left'[q])
    <3>1. q # p /\ q \in Users
      BY <1>2, <2>1
    <3>2. CountIn(log', since[q], read[q]) = CountIn(log, since[q], read[q])
      BY <2>1, <2>2, <3>1, GivenBefore
    <3>3. read'[q] = read[q] /\ frames'[q] = frames[q] /\ since'[q] = since[q]
      BY <2>1, <2>3, <3>1
    <3> QED
      BY <1>1, <2>1, <3>2, <3>3
  <2>6. CountIn(log', dropped, Len(log) + 1) = Len(history) /\ Len(history) \in Nat
    <3>1. CountIn(log', dropped, Len(log')) = CountIn(log, dropped, Len(log)) + 0
      BY <2>1, <2>2, CountAppend DEF TypeInv
    <3>2. CountIn(log, dropped, Len(log)) = Len(history)
      BY DEF TypeInv, LogInv
    <3>3. Len(history) \in Nat
      BY <2>3, LenProperties
    <3> QED
      BY <2>4, <3>1, <3>2, <3>3
  <2>7. played'[p] = Due(CountIn(log', since'[p], read'[p]), Len(frames'[p]), left'[p])
    <3>1. read'[p] = Len(log) + 1 /\ frames'[p] = history /\ since'[p] = dropped
      BY <2>1, <2>3, <2>4
    <3> DEFINE n == Len(history)
    <3>2. Due(n, n, 0) = 0
      <4>1. n \in Nat /\ Interval \in Nat
        BY <2>6, Sizes
      <4> HIDE DEF n
      <4>2. n - n = 0 /\ Interval * 0 = 0
        BY <4>1
      <4> QED
        BY <4>2 DEF Due
    <3> HIDE DEF n
    <3>3. CountIn(log', since'[p], read'[p]) = n /\ Len(frames'[p]) = n
      BY <2>6, <3>1 DEF n
    <3> QED
      BY <2>1, <2>3, <3>2, <3>3
  <2> QED
    BY <2>1, <2>5, <2>7, WholeIs
<1>5. ASSUME NEW p \in Users, Leave(p)
      PROVE  FramesPlayedWhole'
  <2> DEFINE m == [type |-> "LEAVE", uid |-> p]
  <2>1. /\ log' = IF online' = {} THEN <<>> ELSE Append(log, m)
        /\ online' = online \ {p}
        /\ read' = [read EXCEPT ![p] = 0] /\ frames' = [frames EXCEPT ![p] = <<>>]
        /\ left' = [left EXCEPT ![p] = 0] /\ played' = [played EXCEPT ![p] = 0]
        /\ since' = [since EXCEPT ![p] = 0]
    BY <1>5 DEF Leave
  <2>2. m \in Message
    BY DEF Message
  <2> HIDE DEF m
  <2>3. /\ read \in [Users -> Nat] /\ frames \in [Users -> Seq(Frame)]
        /\ left \in [Users -> 0..Interval] /\ played \in [Users -> Nat]
        /\ since \in [Users -> Nat]
    BY DEF TypeInv, Types
  <2>4. ASSUME NEW q \in online'
        PROVE  played'[q] = Due(CountIn(log', since'[q], read'[q]), Len(frames'[q]), left'[q])
    <3>1. q # p /\ q \in Users /\ q \in online /\ log' = Append(log, m)
      BY <1>2, <2>1
    <3>2. CountIn(log', since[q], read[q]) = CountIn(log, since[q], read[q])
      BY <2>2, <3>1, GivenBefore
    <3>3. read'[q] = read[q] /\ frames'[q] = frames[q] /\ left'[q] = left[q]
          /\ played'[q] = played[q] /\ since'[q] = since[q]
      BY <2>1, <2>3, <3>1
    <3> QED
      BY <1>1, <3>1, <3>2, <3>3
  <2> QED
    BY <2>4, WholeIs
<1>6. ASSUME NEW p \in Users, Receive(p)
      PROVE  FramesPlayedWhole'
  <2> DEFINE m == log[read[p] + 1]
  <2>1. /\ read[p] \in Nat /\ log' = log /\ online' = online /\ p \in online
        /\ read' = [read EXCEPT ![p] = read[p] + 1] /\ (IsFrame(m) => m.frame \in Frame)
    BY <1>6, NextMessage
  <2>2. UNCHANGED <<left, played, since>>
    BY <1>6 DEF Receive, serverVars
  <2>3. /\ read \in [Users -> Nat] /\ frames \in [Users -> Seq(Frame)] /\ left[p] \in 0..Interval
        /\ since[p] \in Nat /\ since[p] <= read[p]
    BY DEF TypeInv, Types
  <2>4. /\ CountIn(log, since[p], read[p] + 1)
             = CountIn(log, since[p], read[p]) + (IF IsFrame(m) THEN 1 ELSE 0)
        /\ CountIn(log, since[p], read[p]) \in Nat
    BY <2>1, <2>3, CountNext
  <2>5. /\ IsFrame(m) => frames' = [frames EXCEPT ![p] = Append(frames[p], m.frame)]
        /\ ~IsFrame(m) => frames' = frames
    BY <1>6 DEF Receive, IsFrame
  <2> HIDE DEF m
  <2>6. /\ IsFrame(m) => Len(frames'[p]) = Len(frames[p]) + 1
        /\ ~IsFrame(m) => Len(frames'[p]) = Len(frames[p])
        /\ Len(frames[p]) \in Nat
    <3>1. Len(frames[p]) \in Nat
      BY <2>3, LenProperties
    <3>2. ASSUME IsFrame(m) PROVE Len(frames'[p]) = Len(frames[p]) + 1
      <4>1. frames'[p] = Append(frames[p], m.frame)
        BY <2>3, <2>5, <3>2
      <4>2. Len(Append(frames[p], m.frame)) = Len(frames[p]) + 1
        BY <2>1, <2>3, <3>2, Appended
      <4> QED
        BY <4>1, <4>2
    <3> QED
      BY <2>5, <3>1, <3>2
  <2>7. played'[p] = Due(CountIn(log', since'[p], read'[p]), Len(frames'[p]), left'[p])
    <3> DEFINE g == CountIn(log, since[p], read[p])
               n == Len(frames[p])
    <3>1. read'[p] = read[p] + 1
      BY <2>1, <2>3
    <3>2. /\ g \in Nat /\ n \in Nat /\ played[p] = Due(g, n, left[p])
          /\ CountIn(log', since'[p], read'[p]) = g + (IF IsFrame(m) THEN 1 ELSE 0)
          /\ Len(frames'[p]) = n + (IF IsFrame(m) THEN 1 ELSE 0)
          /\ left'[p] = left[p] /\ played'[p] = played[p]
      <4>1. played[p] = Due(g, n, left[p])
        BY <1>1, <2>1
      <4>2. CountIn(log', since'[p], read'[p]) = CountIn(log, since[p], read[p] + 1)
        BY <2>1, <2>2, <3>1
      <4>3. Len(frames'[p]) = n + (IF IsFrame(m) THEN 1 ELSE 0)
        <5>1. Len(frames[p]) + 0 = Len(frames[p])
          BY <2>6
        <5>2. CASE IsFrame(m)
          BY <2>6, <5>2
        <5>3. CASE ~IsFrame(m)
          BY <2>6, <5>1, <5>3
        <5> QED
          BY <5>2, <5>3
      <4> QED
        BY <2>2, <2>4, <2>6, <4>1, <4>2, <4>3
    <3> HIDE DEF g, n
    <3>3. (g + 1) - (n + 1) = g - n /\ (g + 0) - (n + 0) = g - n
      BY <3>2
    <3>4. /\ Due(g + 1, n + 1, left[p]) = Due(g, n, left[p])
          /\ Due(g + 0, n + 0, left[p]) = Due(g, n, left[p])
      BY <3>3 DEF Due
    <3>5. CASE IsFrame(m)
      BY <3>2, <3>4, <3>5
    <3>6. CASE ~IsFrame(m)
      BY <3>2, <3>4, <3>6
    <3> QED
      BY <3>5, <3>6
  <2>8. ASSUME NEW q \in online, q # p
        PROVE  played'[q] = Due(CountIn(log', since'[q], read'[q]), Len(frames'[q]), left'[q])
    <3>1. read'[q] = read[q] /\ frames'[q] = frames[q] /\ q \in Users
      BY <1>2, <2>1, <2>3, <2>5, <2>8
    <3> QED
      BY <1>1, <2>1, <2>2, <3>1
  <2> QED
    BY <2>1, <2>7, <2>8, WholeIs
<1>7. ASSUME NEW p \in Users, NEW dt \in 0..MaxTick, Update(p, dt)
      PROVE  FramesPlayedWhole'
  <2> DEFINE ms == Chunk(p, dt)
             rest == Remaining(p) - ms
  <2>1. /\ frames[p] \in Seq(Frame) /\ frames[p] # <<>>
        /\ ms \in Nat /\ rest \in 0..Interval /\ p \in online
        /\ frames' = [frames EXCEPT ![p] = IF rest = 0 THEN Tail(frames[p]) ELSE frames[p]]
        /\ left' = [left EXCEPT ![p] = rest]
        /\ played' = [played EXCEPT ![p] = played[p] + ms]
        /\ UNCHANGED <<log, online, since, read>>
    BY <1>7, Tick DEF serverVars
  <2>2. rest = (IF left[p] = 0 THEN Interval ELSE left[p]) - ms
    BY DEF Remaining
  <2> HIDE DEF ms, rest
  <2>3. /\ read \in [Users -> Nat] /\ frames \in [Users -> Seq(Frame)]
        /\ left \in [Users -> 0..Interval] /\ played \in [Users -> Nat]
        /\ since[p] \in Nat /\ since[p] <= read[p]
    BY DEF TypeInv, Types
  <2>4. played'[p] = Due(CountIn(log', since'[p], read'[p]), Len(frames'[p]), left'[p])
    <3> DEFINE g == CountIn(log, since[p], read[p])
               n == Len(frames[p])
    <3>1. g \in Nat /\ n \in Nat /\ left[p] \in 0..Interval
      BY <2>3, CountNext, LenProperties
    <3>2. Len(frames'[p]) = IF rest = 0 THEN n - 1 ELSE n
      <4>1. frames'[p] = IF rest = 0 THEN Tail(frames[p]) ELSE frames[p]
        BY <2>1, <2>3
      <4>2. Len(Tail(frames[p])) = n - 1
        BY <2>1, HeadTailProperties
      <4> QED
        BY <4>1, <4>2
    <3>3. left'[p] = rest /\ played'[p] = played[p] + ms
      BY <2>1, <2>3
    <3>4. played[p] = Due(g, n, left[p])
      BY <1>1, <2>1
    <3>5. CountIn(log', since'[p], read'[p]) = g
      BY <2>1
    <3> HIDE DEF g, n
    <3>6. Due(g, IF rest = 0 THEN n - 1 ELSE n, rest) = Due(g, n, left[p]) + ms
      <4> DEFINE l == left[p]
      <4>1. /\ l \in 0..Interval /\ rest = (IF l = 0 THEN Interval ELSE l) - ms
            /\ g \in Nat /\ n \in Nat /\ ms \in Nat /\ rest \in 0..Interval
        BY <2>1, <2>2, <3>1
      <4> HIDE DEF l
      <4>2. Due(g, IF rest = 0 THEN n - 1 ELSE n, rest) = Due(g, n, l) + ms
        BY <4>1, DueNext
      <4> QED
        BY <4>2 DEF l
    <3> QED
      BY <3>2, <3>3, <3>4, <3>5, <3>6
  <2>5. ASSUME NEW q \in online, q # p
        PROVE  played'[q] = Due(CountIn(log', since'[q], read'[q]), Len(frames'[q]), left'[q])
    <3>1. frames'[q] = frames[q] /\ left'[q] = left[q] /\ played'[q] = played[q]
      BY <1>2, <2>1, <2>3, <2>5
    <3> QED
      BY <1>1, <2>1, <3>1
  <2> QED
    BY <2>1, <2>4, <2>5, WholeIs
<1>8. CASE UNCHANGED vars
  BY <1>8 DEF vars, serverVars, FramesPlayedWhole
<1> QED
  BY <1>3, <1>4, <1>5, <1>6, <1>7, <1>8 DEF Next

\* Whatever ticks cut a frame, and however fast a page catches up, each frame it
\* was given is played for one interval and no more (FrameMgr.Update): what is
\* left of the frame that runs bounds every chunk.
THEOREM PlayedWhole == Spec => []FramesPlayedWhole
<1>1. Init => FramesPlayedWhole
  BY DEF Init, FramesPlayedWhole
<1> QED
  BY <1>1, TypeInit, TypeStep, WholeStep, PTL DEF Spec

-----------------------------------------------------------------------------
(* Frames in which a tank drives straight on *)

\* A chunk more of a frame, and the first.
LEMMA RanNext ==
  ASSUME NEW f \in Frame, NEW b \in Scene, NEW t \in Scene, NEW d \in Nat, NEW ms \in Nat
  PROVE  /\ Ran(f, b, t, d) => Ran(f, b, PlayCommand(t, f.command, ms), d + ms)
         /\ Ran(f, t, PlayCommand(t, f.command, ms), ms)
<1> DEFINE c == f.command
           s == PlayCommand(t, c, ms)
<1>1. c \in Command \cup {NoCommand} /\ (c # NoCommand => c.id \in Users /\ c.op \in Ops)
  BY DEF Frame, Command
<1> HIDE DEF c
<1>2. /\ DOMAIN s = DOMAIN t
      /\ \A u \in DOMAIN t :
           s[u] = IF c # NoCommand /\ c.id = u THEN RecvOp(t[u], c.op, ms) ELSE t[u]
  BY <1>1, PlayCommandIs, ZenonT(60)
<1> HIDE DEF s
<1>3. /\ \A u \in DOMAIN b : b[u] \in PlacedTank
      /\ \A u \in DOMAIN t : t[u] \in PlacedTank
  BY SceneIs
<1>4. ASSUME Ran(f, b, t, d)
      PROVE  Ran(f, b, s, d + ms)
  <2> SUFFICES ASSUME NEW u \in DOMAIN b
               PROVE  /\ u \in DOMAIN s
                      /\ IF c # NoCommand /\ c.id = u
                         THEN b[u].dir = c.op => s[u] = Drive(b[u], d + ms)
                         ELSE s[u] = b[u]
    BY DEF Ran, c
  <2>1. /\ u \in DOMAIN t /\ b[u] \in PlacedTank /\ t[u] \in PlacedTank
        /\ c # NoCommand /\ c.id = u => (b[u].dir = c.op => t[u] = Drive(b[u], d))
        /\ ~(c # NoCommand /\ c.id = u) => t[u] = b[u]
    BY <1>3, <1>4 DEF Ran, c
  <2>2. ASSUME c # NoCommand, c.id = u, b[u].dir = c.op
        PROVE  s[u] = Drive(b[u], d + ms)
    <3>1. c.op \in Moves /\ c.op \in Ops
      BY <1>1, <2>1, <2>2 DEF PlacedTank
    <3>2. t[u] = Drive(b[u], d) /\ t[u].dir = c.op
      BY <2>1, <2>2, DriveIs
    <3>3. s[u] = RecvOp(t[u], c.op, ms)
      BY <1>2, <2>1, <2>2
    <3>4. RecvOp(t[u], c.op, ms) = Drive(t[u], ms)
      BY <2>1, <3>1, <3>2, RecvOpType
    <3>5. Drive(Drive(b[u], d), ms) = Drive(b[u], d + ms)
      BY <2>1, DriveTwice
    <3> QED
      BY <3>2, <3>3, <3>4, <3>5
  <2> QED
    BY <1>2, <2>1, <2>2
<1>5. Ran(f, t, s, ms)
  <2> SUFFICES ASSUME NEW u \in DOMAIN t
               PROVE  /\ u \in DOMAIN s
                      /\ IF c # NoCommand /\ c.id = u
                         THEN t[u].dir = c.op => s[u] = Drive(t[u], ms)
                         ELSE s[u] = t[u]
    BY DEF Ran, c
  <2>1. ASSUME c # NoCommand, c.id = u, t[u].dir = c.op
        PROVE  s[u] = Drive(t[u], ms)
    <3>1. c.op \in Moves /\ c.op \in Ops /\ t[u] \in PlacedTank
      BY <1>1, <1>3, <2>1 DEF PlacedTank
    <3>2. s[u] = RecvOp(t[u], c.op, ms)
      BY <1>2, <2>1
    <3> QED
      BY <2>1, <3>1, <3>2, RecvOpType
  <2> QED
    BY <1>2, <2>1
<1> QED
  BY <1>4, <1>5 DEF s, c

\* A user that comes or goes in the middle of a frame is left out of it.
LEMMA RanWithout ==
  ASSUME NEW f, NEW b \in Scene, NEW t \in Scene, NEW d, NEW v \in Users, Ran(f, b, t, d)
  PROVE  /\ Ran(f, DeleteTank(b, v), AddTank(t, v), d)
         /\ Ran(f, DeleteTank(b, v), DeleteTank(t, v), d)
<1> DEFINE a == AddTank(t, v)
           r == DeleteTank(t, v)
           e == DeleteTank(b, v)
<1>1. /\ DOMAIN a = DOMAIN t \cup {v} /\ \A u \in DOMAIN t : u # v => a[u] = t[u]
      /\ DOMAIN r = DOMAIN t \ {v} /\ \A u \in DOMAIN t \ {v} : r[u] = t[u]
      /\ DOMAIN e = DOMAIN b \ {v} /\ \A u \in DOMAIN b \ {v} : e[u] = b[u]
  BY AddDelete
<1> HIDE DEF a, r, e
<1>2. ASSUME NEW u \in DOMAIN e
      PROVE  /\ u \in DOMAIN b /\ u \in DOMAIN t /\ u \in DOMAIN a /\ u \in DOMAIN r
             /\ e[u] = b[u] /\ a[u] = t[u] /\ r[u] = t[u]
  BY <1>1 DEF Ran
<1> QED
  BY <1>2 DEF Ran, a, r, e

\* A tick keeps what is known of the frame that runs, and ends a frame that was
\* played straight on where it ought to.
LEMMA RunningTick ==
  ASSUME TypeInv, RunningInv, NEW p \in Users, NEW dt \in 0..MaxTick, Update(p, dt)
  PROVE  LET f == Head(frames[p])
             start == IF left[p] = 0 THEN tanks[p] ELSE before[p]
         IN /\ left'[p] # 0 => frames'[p] = frames[p] /\ before'[p] = start
            /\ frames'[p] = Tail(frames[p]) => left'[p] = 0
            /\ lastFrame[p].step # f.step => Ran(f, start, tanks'[p], Interval - left'[p])
<1> DEFINE f == Head(frames[p])
           ms == Chunk(p, dt)
           rest == Remaining(p) - ms
           ts == PlayCommand(tanks[p], f.command, ms)
           start == IF left[p] = 0 THEN tanks[p] ELSE before[p]
<1>1. /\ f \in Frame /\ frames[p] \in Seq(Frame) /\ frames[p] # <<>>
      /\ ms \in Nat /\ rest \in 0..Interval /\ ts \in Scene
      /\ tanks' = [tanks EXCEPT ![p] = BackToBorn(ts, f, lastFrame[p])]
      /\ frames' = [frames EXCEPT ![p] = IF rest = 0 THEN Tail(frames[p]) ELSE frames[p]]
      /\ left' = [left EXCEPT ![p] = rest]
      /\ before' = [before EXCEPT ![p] = IF rest = 0 THEN NoTanks
                                         ELSE IF left[p] = 0 THEN tanks[p] ELSE before[p]]
  BY Tick
<1>2. /\ tanks \in [Users -> Scene] /\ before \in [Users -> Scene]
      /\ left \in [Users -> 0..Interval] /\ frames \in [Users -> Seq(Frame)]
  BY DEF TypeInv, Types
<1>3. rest = (IF left[p] = 0 THEN Interval ELSE left[p]) - ms
  BY DEF Remaining
<1>4. lastFrame[p].step # f.step => Ran(f, start, ts, Interval - rest)
  <2> SUFFICES ASSUME lastFrame[p].step # f.step
               PROVE  Ran(f, start, ts, Interval - rest)
    OBVIOUS
  <2>1. CASE left[p] = 0
    <3>1. Ran(f, tanks[p], ts, ms)
      <4> HIDE DEF f, ms
      <4> QED
        BY <1>1, <1>2, RanNext
    <3> HIDE DEF ms, ts, f, rest
    <3>2. Interval - rest = ms
      BY <1>1, <1>3, <2>1, Sizes
    <3> QED
      BY <2>1, <3>1, <3>2
  <2>2. CASE left[p] # 0
    <3> DEFINE d == Interval - left[p]
    <3>1. Ran(f, before[p], tanks[p], d)
      BY <2>2 DEF RunningInv
    <3>2. d \in Nat
      BY <1>2, Sizes
    <3>3. Ran(f, before[p], ts, d + ms)
      <4> HIDE DEF f, ms, d
      <4> QED
        BY <1>1, <1>2, <3>1, <3>2, RanNext
    <3> HIDE DEF ms, ts, f, rest
    <3>4. Interval - rest = d + ms
      BY <1>1, <1>2, <1>3, <2>2, Sizes
    <3> HIDE DEF d
    <3> QED
      BY <2>2, <3>3, <3>4
  <2> QED
    BY <2>1, <2>2
<1> HIDE DEF f, ms, rest, ts
<1>5. lastFrame[p].step # f.step => BackToBorn(ts, f, lastFrame[p]) = ts
  BY <1>1, BackToBornIs
<1>6. /\ tanks'[p] = BackToBorn(ts, f, lastFrame[p]) /\ left'[p] = rest
      /\ rest = 0 => frames'[p] = Tail(frames[p])
      /\ rest # 0 => frames'[p] = frames[p] /\ before'[p] = start
  BY <1>1, <1>2
<1>7. Tail(frames[p]) # frames[p]
  <2>1. Len(Tail(frames[p])) = Len(frames[p]) - 1 /\ Len(frames[p]) \in Nat
    BY <1>1, Popped
  <2>2. Len(frames[p]) - 1 # Len(frames[p])
    BY <2>1
  <2> QED
    BY <2>1, <2>2
<1> QED
  BY <1>4, <1>5, <1>6, <1>7 DEF f

\* A frame that ended was played straight on where it ought to be.
LEMMA RanWhole ==
  ASSUME TypeInv, RunningInv, NEW p \in Users, NEW dt \in 0..MaxTick, Update(p, dt),
         frames'[p] = Tail(frames[p])
  PROVE  LET f == Head(frames[p])
             start == IF left[p] = 0 THEN tanks[p] ELSE before[p]
         IN lastFrame[p].step # f.step => Ran(f, start, tanks'[p], Interval)
<1>1. left'[p] = 0
  BY RunningTick
<1>2. Interval - 0 = Interval
  BY Sizes
<1> QED
  BY <1>1, <1>2, RunningTick

\* Every step keeps what is known of the frames that run.
LEMMA RunningStep == TypeInv /\ RunningInv /\ [Next]_vars => RunningInv'
<1> SUFFICES ASSUME TypeInv, RunningInv, [Next]_vars
             PROVE  RunningInv'
  OBVIOUS
<1> DEFINE Kept(q) == left'[q] # 0 =>
                        /\ frames'[q] # <<>>
                        /\ lastFrame'[q].step # Head(frames'[q]).step =>
                             Ran(Head(frames'[q]), before'[q], tanks'[q], Interval - left'[q])
<1> SUFFICES \A q \in Users : Kept(q)
  BY DEF RunningInv
<1>1. /\ frames \in [Users -> Seq(Frame)] /\ tanks \in [Users -> Scene]
      /\ before \in [Users -> Scene] /\ left \in [Users -> 0..Interval]
      /\ lastFrame \in [Users -> [step : 0..MaxSteps, id : Users \cup {NoUid}]]
  BY DEF TypeInv, Types
<1>2. ASSUME NEW q \in Users, left'[q] = left[q], frames'[q] = frames[q],
             lastFrame'[q] = lastFrame[q], before'[q] = before[q], tanks'[q] = tanks[q]
      PROVE  Kept(q)
  BY <1>2 DEF RunningInv
<1>3. ASSUME NEW q \in Users, left'[q] = 0
      PROVE  Kept(q)
  BY <1>3
<1> HIDE DEF Kept
<1>4. ASSUME NEW c \in Command \cup {NoCommand}, NEW l \in Users \cup {NoUid}, Step(c, l)
      PROVE  \A q \in Users : Kept(q)
  BY <1>2, <1>4 DEF Step
<1>5. ASSUME NEW p \in Users, Login(p)
      PROVE  \A q \in Users : Kept(q)
  <2> TAKE q \in Users
  <2>1. CASE q = p
    <3>1. left'[p] = 0
      BY <1>5 DEF Login, TypeInv, OfflineInv
    <3> QED
      BY <1>3, <2>1, <3>1
  <2>2. CASE q # p
    <3> DEFINE e == [step |-> history[Len(history)].step, id |-> history[Len(history)].last]
    <3>1. lastFrame' = lastFrame \/ lastFrame' = [lastFrame EXCEPT ![p] = e]
      BY <1>5 DEF Login
    <3> HIDE DEF e
    <3>2. lastFrame'[q] = lastFrame[q]
      BY <1>1, <2>2, <3>1
    <3>3. /\ left'[q] = left[q] /\ frames'[q] = frames[q]
          /\ before'[q] = before[q] /\ tanks'[q] = tanks[q]
      BY <1>1, <1>5, <2>2 DEF Login
    <3> QED
      BY <1>2, <3>2, <3>3
  <2> QED
    BY <2>1, <2>2
<1>6. ASSUME NEW p \in Users, Leave(p)
      PROVE  \A q \in Users : Kept(q)
  <2> TAKE q \in Users
  <2>1. CASE q = p
    <3>1. left'[p] = 0
      BY <1>1, <1>6 DEF Leave
    <3> QED
      BY <1>3, <2>1, <3>1
  <2>2. CASE q # p
    <3>1. /\ left'[q] = left[q] /\ frames'[q] = frames[q] /\ lastFrame'[q] = lastFrame[q]
          /\ before'[q] = before[q] /\ tanks'[q] = tanks[q]
      BY <1>1, <1>6, <2>2 DEF Leave
    <3> QED
      BY <1>2, <3>1
  <2> QED
    BY <2>1, <2>2
<1>7. ASSUME NEW p \in Users, Receive(p)
      PROVE  \A q \in Users : Kept(q)
  <2> DEFINE m == log[read[p] + 1]
  <2>1. (~IsFrame(m) => m.uid \in Users) /\ (IsFrame(m) => m.frame \in Frame)
    BY <1>7, NextMessage
  <2>2. left' = left /\ lastFrame' = lastFrame
    BY <1>7 DEF Receive
  <2>3. CASE IsFrame(m)
    <3>1. frames' = [frames EXCEPT ![p] = Append(frames[p], m.frame)]
          /\ tanks' = tanks /\ before' = before
      BY <1>7, <2>3 DEF Receive, IsFrame
    <3> HIDE DEF m
    <3>2. ASSUME NEW q \in Users, q # p
          PROVE  Kept(q)
      BY <1>1, <1>2, <2>2, <3>1, <3>2
    <3>3. Kept(p)
      <4> SUFFICES ASSUME left[p] # 0
                   PROVE  /\ frames'[p] # <<>>
                          /\ lastFrame[p].step # Head(frames'[p]).step =>
                               Ran(Head(frames'[p]), before[p], tanks[p], Interval - left[p])
        BY <2>2, <3>1 DEF Kept
      <4> DEFINE fs == frames[p]
      <4>1. fs # <<>> /\ fs \in Seq(Frame)
        BY <1>1 DEF RunningInv
      <4>2. frames'[p] = Append(fs, m.frame)
        BY <1>1, <3>1
      <4> HIDE DEF fs
      <4>3. Append(fs, m.frame) # <<>> /\ Head(Append(fs, m.frame)) = Head(fs)
        BY <2>1, <2>3, <4>1, AppendProperties, HeadTailAppend
      <4> QED
        BY <4>2, <4>3 DEF RunningInv, fs
    <3> QED
      BY <3>2, <3>3
  <2>4. CASE ~IsFrame(m)
    <3>1. /\ m.uid \in Users /\ frames' = frames
          /\ \/ tanks' = [tanks EXCEPT ![p] = AddTank(tanks[p], m.uid)]
             \/ tanks' = [tanks EXCEPT ![p] = DeleteTank(tanks[p], m.uid)]
          /\ before' = [before EXCEPT ![p] = DeleteTank(before[p], m.uid)]
      BY <1>7, <2>1, <2>4 DEF Receive, IsFrame
    <3> HIDE DEF m
    <3>2. ASSUME NEW q \in Users, q # p
          PROVE  Kept(q)
      BY <1>1, <1>2, <2>2, <3>1, <3>2
    <3>3. Kept(p)
      <4> SUFFICES ASSUME left[p] # 0, lastFrame[p].step # Head(frames[p]).step
                   PROVE  Ran(Head(frames[p]), before'[p], tanks'[p], Interval - left[p])
        BY <2>2, <3>1 DEF Kept, RunningInv
      <4>1. Ran(Head(frames[p]), before[p], tanks[p], Interval - left[p])
        BY DEF RunningInv
      <4>2. /\ before'[p] = DeleteTank(before[p], m.uid)
            /\ tanks'[p] = AddTank(tanks[p], m.uid) \/ tanks'[p] = DeleteTank(tanks[p], m.uid)
        BY <1>1, <3>1
      <4> DEFINE b == before[p]
                 t == tanks[p]
                 f == Head(frames[p])
                 d == Interval - left[p]
      <4>3. b \in Scene /\ t \in Scene /\ Ran(f, b, t, d)
        BY <1>1, <4>1
      <4> HIDE DEF b, t, f, d
      <4>4. /\ Ran(f, DeleteTank(b, m.uid), AddTank(t, m.uid), d)
            /\ Ran(f, DeleteTank(b, m.uid), DeleteTank(t, m.uid), d)
        BY <3>1, <4>3, RanWithout
      <4> QED
        BY <4>2, <4>4 DEF b, t, f, d
    <3> QED
      BY <3>2, <3>3
  <2> QED
    BY <2>3, <2>4
<1>8. ASSUME NEW p \in Users, NEW dt \in 0..MaxTick, Update(p, dt)
      PROVE  \A q \in Users : Kept(q)
  <2> DEFINE f == Head(frames[p])
             start == IF left[p] = 0 THEN tanks[p] ELSE before[p]
  <2>1. /\ left'[p] # 0 => frames'[p] = frames[p] /\ before'[p] = start
        /\ lastFrame[p].step # f.step => Ran(f, start, tanks'[p], Interval - left'[p])
    BY <1>8, RunningTick
  <2>2. lastFrame' = lastFrame /\ frames[p] # <<>>
    BY <1>8 DEF Update
  <2>3. Kept(p)
    <3> HIDE DEF start
    <3> QED
      BY <2>1, <2>2 DEF Kept
  <2>4. ASSUME NEW q \in Users, q # p
        PROVE  Kept(q)
    <3>1. /\ left'[q] = left[q] /\ frames'[q] = frames[q]
          /\ before'[q] = before[q] /\ tanks'[q] = tanks[q]
      BY <1>1, <1>8, <2>4 DEF Update
    <3> QED
      BY <1>2, <2>2, <3>1
  <2> QED
    BY <2>3, <2>4
<1>9. CASE UNCHANGED vars
  BY <1>2, <1>9 DEF vars, serverVars
<1> QED
  BY <1>4, <1>5, <1>6, <1>7, <1>8, <1>9 DEF Next

\* Only a tick takes a frame off a queue whose page stays.
LEMMA OnlyTicksPop ==
  ASSUME TypeInv, Next, NEW p \in online, frames[p] # <<>>, frames'[p] = Tail(frames[p]),
         p \in online'
  PROVE  \E dt \in 0..MaxTick : Update(p, dt)
<1>1. /\ frames \in [Users -> Seq(Frame)] /\ p \in Users /\ frames[p] \in Seq(Frame)
  BY DEF TypeInv, Types
<1>2. Len(frames'[p]) = Len(frames[p]) - 1 /\ Len(frames[p]) \in Nat
  BY <1>1, Popped
<1>3. frames'[p] # frames[p] /\ \A f \in Frame : frames'[p] # Append(frames[p], f)
  <2>1. Len(frames[p]) - 1 # Len(frames[p]) /\ Len(frames[p]) - 1 # Len(frames[p]) + 1
    BY <1>2
  <2>2. \A f \in Frame : Len(Append(frames[p], f)) = Len(frames[p]) + 1
    BY <1>1, Appended
  <2> QED
    BY <1>2, <2>1, <2>2
<1>4. ASSUME NEW c \in Command \cup {NoCommand}, NEW l \in Users \cup {NoUid}, Step(c, l)
      PROVE  FALSE
  BY <1>3, <1>4 DEF Step
<1>5. ASSUME NEW q \in Users, Login(q)
      PROVE  FALSE
  BY <1>1, <1>3, <1>5 DEF Login
<1>6. ASSUME NEW q \in Users, Leave(q)
      PROVE  FALSE
  BY <1>1, <1>3, <1>6 DEF Leave
<1>7. ASSUME NEW q \in Users, Receive(q)
      PROVE  FALSE
  <2> DEFINE m == log[read[q] + 1]
  <2>1. IsFrame(m) => m.frame \in Frame
    BY <1>7, NextMessage
  <2>2. /\ IsFrame(m) => frames' = [frames EXCEPT ![q] = Append(frames[q], m.frame)]
        /\ ~IsFrame(m) => frames' = frames
    BY <1>7 DEF Receive, IsFrame
  <2> HIDE DEF m
  <2> QED
    BY <1>1, <1>3, <2>1, <2>2
<1>8. ASSUME NEW q \in Users, NEW dt \in 0..MaxTick, Update(q, dt), q # p
      PROVE  FALSE
  BY <1>1, <1>3, <1>8 DEF Update
<1> QED
  BY <1>1, <1>4, <1>5, <1>6, <1>7, <1>8 DEF Next

\* A frame in which a tank drives on the way it faces moves it the same distance
\* on every page, into a wall or not, and leaves the other tanks alone, whatever
\* ticks cut it up (FrameMgr.Update, TankBase.recvOp).
THEOREM StraightOn == Spec => StraightFramesAgree
<1> DEFINE Agree ==
      \A p \in online :
        frames[p] # <<>> /\ frames'[p] = Tail(frames[p]) /\ p \in online' =>
          LET f == Head(frames[p])
              start == IF left[p] = 0 THEN tanks[p] ELSE before[p]
          IN lastFrame[p].step # f.step =>
               \A u \in DOMAIN start :
                 IF f.command # NoCommand /\ f.command.id = u
                 THEN start[u].dir = f.command.op =>
                        tanks'[p][u] = Drive(start[u], Interval)
                 ELSE tanks'[p][u] = start[u]
<1>1. TypeInv /\ RunningInv /\ [Next]_vars => [Agree]_vars
  <2> SUFFICES ASSUME TypeInv, RunningInv, Next
               PROVE  Agree
    OBVIOUS
  <2> SUFFICES ASSUME NEW p \in online, frames[p] # <<>>, frames'[p] = Tail(frames[p]),
                      p \in online'
               PROVE  LET f == Head(frames[p])
                          start == IF left[p] = 0 THEN tanks[p] ELSE before[p]
                      IN lastFrame[p].step # f.step =>
                           \A u \in DOMAIN start :
                             IF f.command # NoCommand /\ f.command.id = u
                             THEN start[u].dir = f.command.op =>
                                    tanks'[p][u] = Drive(start[u], Interval)
                             ELSE tanks'[p][u] = start[u]
    OBVIOUS
  <2>1. PICK dt \in 0..MaxTick : Update(p, dt)
    BY OnlyTicksPop
  <2>2. p \in Users
    BY DEF TypeInv, Types
  <2> QED
    BY <2>1, <2>2, RanWhole DEF Ran
<1>2. Init => RunningInv
  BY DEF Init, RunningInv
<1>3. StraightFramesAgree <=> [][Agree]_vars
  BY DEF StraightFramesAgree
<1> QED
  BY <1>1, <1>2, <1>3, TypeInit, TypeStep, RunningStep, PTL DEF Spec

-----------------------------------------------------------------------------
(* The order of the frames *)

\* The messages of a log are of their type.
LEMMA InLog ==
  ASSUME NEW l \in Seq(Message)
  PROVE  /\ Len(l) \in Nat /\ DOMAIN l = 1..Len(l)
         /\ \A i \in DOMAIN l : l[i] \in Message
         /\ \A i \in DOMAIN l : IsFrame(l[i]) => l[i].frame \in Frame /\ l[i].frame.step \in Nat
<1>1. Len(l) \in Nat /\ DOMAIN l = 1..Len(l) /\ \A i \in DOMAIN l : l[i] \in Message
  BY LenProperties
<1>2. \A m \in Message : IsFrame(m) => m.frame \in Frame /\ m.frame.step \in Nat
  BY DEF Message, IsFrame, Frame
<1> QED
  BY <1>1, <1>2

\* What the first n messages say of a queue, they say in every log.
LEMMA WaitsSame ==
  ASSUME NEW l, NEW r, NEW fs, NEW s \in Nat, NEW n \in Nat, \A i \in 1..n : r[i] = l[i],
         Waits(l, fs, s, n)
  PROVE  Waits(r, fs, s, n)
<1>1. FromLog(r, fs, s, n)
  BY DEF Waits, FromLog
<1>2. LaterKept(r, fs, n)
  BY DEF Waits, LaterKept
<1> QED
  BY <1>1, <1>2 DEF Waits

\* One message more is read: a frame waits at the end of the queue.
LEMMA WaitsMore ==
  ASSUME NEW l \in Seq(Message), LogNumbered(l), NEW n \in Nat, n + 1 \in DOMAIN l,
         NEW s \in Nat, s <= n, NEW fs \in Seq(Frame), Waits(l, fs, s, n)
  PROVE  /\ IsFrame(l[n + 1]) => Waits(l, Append(fs, l[n + 1].frame), s, n + 1)
         /\ ~IsFrame(l[n + 1]) => Waits(l, fs, s, n + 1)
<1> DEFINE m == l[n + 1]
           f == m.frame
           gs == Append(fs, f)
<1>1. /\ 1..(n + 1) = 1..n \cup {n + 1} /\ (\A i \in 1..n : i < n + 1)
      /\ 1..(n + 1) \subseteq DOMAIN l /\ (s + 1)..n \subseteq 1..n
      /\ (s + 1)..(n + 1) = (s + 1)..n \cup {n + 1}
  <2>1. Len(l) \in Nat /\ DOMAIN l = 1..Len(l)
    BY InLog
  <2> QED
    BY <2>1
<1>2. ASSUME ~IsFrame(m)
      PROVE  Waits(l, fs, s, n + 1)
  <2>1. FromLog(l, fs, s, n + 1)
    BY <1>1 DEF Waits, FromLog
  <2>2. LaterKept(l, fs, n + 1)
    BY <1>1, <1>2 DEF Waits, LaterKept
  <2> QED
    BY <2>1, <2>2 DEF Waits
<1>3. ASSUME IsFrame(m)
      PROVE  Waits(l, gs, s, n + 1)
  <2>1. f \in Frame
    BY <1>1, <1>3, InLog
  <2> DEFINE k == Len(fs)
  <2>2. /\ k \in Nat /\ DOMAIN fs = 1..k /\ DOMAIN gs = 1..(k + 1) /\ gs[k + 1] = f
        /\ \A i \in 1..k : gs[i] = fs[i]
    BY <2>1, Appended
  <2>3. \A g : Occurs(gs, g) <=> (Occurs(fs, g) \/ f = g)
    <3> TAKE g
    <3> QED
      BY <2>1, OccursAppend
  <2>4. FromLog(l, fs, s, n) /\ Numbered(fs) /\ LaterKept(l, fs, n)
    BY DEF Waits
  <2> HIDE DEF gs, f, k
  <2>5. 1..(k + 1) = 1..k \cup {k + 1} /\ (\A i \in 1..k : i < k + 1) /\ k + 1 \in Nat
    BY <2>2
  <2>6. FromLog(l, gs, s, n + 1)
    <3> SUFFICES ASSUME NEW i \in DOMAIN gs
                 PROVE  \E j \in (s + 1)..(n + 1) : IsFrame(l[j]) /\ l[j].frame = gs[i]
      BY DEF FromLog
    <3>1. CASE i = k + 1
      BY <1>1, <1>3, <2>2, <3>1 DEF f
    <3>2. CASE i \in 1..k
      BY <1>1, <2>2, <2>4, <3>2 DEF FromLog
    <3> QED
      BY <2>2, <2>5, <3>1, <3>2
  <2>7. ASSUME NEW i \in 1..n, IsFrame(l[i])
        PROVE  l[i].frame.step < f.step /\ l[i].frame.step \in Nat
    BY <1>1, <1>3, <2>7, InLog DEF LogNumbered, f
  <2>8. f.step \in Nat
    BY <2>1 DEF Frame
  <2>9. LaterKept(l, gs, n + 1)
    <3> SUFFICES ASSUME NEW i \in 1..(n + 1), NEW j \in 1..(n + 1), IsFrame(l[i]), IsFrame(l[j]),
                        i < j, Occurs(gs, l[i].frame)
                 PROVE  Occurs(gs, l[j].frame)
      BY DEF LaterKept
    <3>1. i \in 1..n
      OBVIOUS
    <3>2. l[i].frame # f
      BY <2>7, <2>8, <3>1
    <3>3. Occurs(fs, l[i].frame)
      BY <2>3, <3>2
    <3>4. CASE j = n + 1
      BY <2>3, <3>4 DEF f
    <3>5. CASE j \in 1..n
      BY <2>3, <2>4, <3>1, <3>3, <3>5 DEF LaterKept
    <3> QED
      BY <1>1, <3>4, <3>5
  <2>10. Numbered(gs)
    <3> SUFFICES ASSUME NEW i \in DOMAIN gs, NEW j \in DOMAIN gs, i < j
                 PROVE  gs[i].step < gs[j].step
      BY DEF Numbered
    <3>1. i \in 1..k
      BY <2>2
    <3>2. CASE j \in 1..k
      BY <2>2, <2>4, <3>1, <3>2 DEF Numbered
    <3>3. CASE j = k + 1
      <4>1. PICK h \in 1..n : IsFrame(l[h]) /\ l[h].frame = fs[i]
        BY <1>1, <2>2, <2>4, <3>1 DEF FromLog
      <4> QED
        BY <2>2, <2>7, <3>1, <3>3, <4>1
    <3> QED
      BY <2>2, <2>5, <3>2, <3>3
  <2> QED
    BY <2>6, <2>9, <2>10 DEF Waits
<1> QED
  BY <1>2, <1>3

\* The first frame that waits is played.
LEMMA WaitsPop ==
  ASSUME NEW l \in Seq(Message), LogNumbered(l), NEW n \in Nat, n <= Len(l),
         NEW s \in Nat, NEW fs \in Seq(Frame), fs # <<>>, Waits(l, fs, s, n)
  PROVE  Waits(l, Tail(fs), s, n)
<1> DEFINE f == Head(fs)
           gs == Tail(fs)
           k == Len(fs)
<1>1. /\ k \in Nat /\ k > 0 /\ DOMAIN fs = 1..k /\ DOMAIN gs = 1..(k - 1) /\ fs[1] = f
      /\ \A i \in 1..(k - 1) : gs[i] = fs[i + 1]
      /\ \A i \in DOMAIN fs : fs[i] \in Frame
  BY Popped, LenProperties
<1>2. \A g : Occurs(fs, g) <=> (Occurs(gs, g) \/ f = g)
  <2> TAKE g
  <2> QED
    BY OccursPop
<1> HIDE DEF f, gs, k
<1>3. \A i \in 1..(k - 1) : i + 1 \in 1..k /\ 1 < i + 1 /\ 1 \in 1..k
  BY <1>1
<1>4. FromLog(l, fs, s, n) /\ Numbered(fs) /\ LaterKept(l, fs, n)
  BY DEF Waits
<1>5. FromLog(l, gs, s, n)
  BY <1>1, <1>3, <1>4 DEF FromLog
<1>6. Numbered(gs)
  <2> SUFFICES ASSUME NEW i \in DOMAIN gs, NEW j \in DOMAIN gs, i < j
               PROVE  gs[i].step < gs[j].step
    BY DEF Numbered
  <2>1. i \in 1..(k - 1) /\ j \in 1..(k - 1) /\ i + 1 < j + 1
    BY <1>1
  <2> QED
    BY <1>1, <1>3, <1>4, <2>1 DEF Numbered
<1>7. 1..n \subseteq DOMAIN l
  BY InLog
<1>8. LaterKept(l, gs, n)
  <2> SUFFICES ASSUME NEW i \in 1..n, NEW j \in 1..n, IsFrame(l[i]), IsFrame(l[j]),
                      i < j, Occurs(gs, l[i].frame)
               PROVE  Occurs(gs, l[j].frame)
    BY DEF LaterKept
  <2>1. Occurs(fs, l[j].frame)
    BY <1>2, <1>4 DEF LaterKept
  <2>2. PICK h \in DOMAIN gs : gs[h] = l[i].frame
    BY DEF Occurs
  <2>3. f.step < l[i].frame.step
    BY <1>1, <1>3, <1>4, <2>2 DEF Numbered
  <2>4. l[i].frame.step < l[j].frame.step /\ l[i].frame.step \in Nat /\ l[j].frame.step \in Nat
    BY <1>7, InLog DEF LogNumbered
  <2>5. f.step \in Nat
    BY <1>1, <1>3, <2>2 DEF Frame
  <2>6. f # l[j].frame
    BY <2>3, <2>4, <2>5
  <2> QED
    BY <1>2, <2>1, <2>6
<1> QED
  BY <1>5, <1>6, <1>8 DEF Waits, gs

\* A message more in the log.
LEMMA OrderAppend ==
  ASSUME TypeInv, OrderInv, NEW m \in Message, log' = Append(log, m), KeptOrDropped(m),
         IsFrame(m) => m.frame.step = step + 1
  PROVE  /\ LogNumbered(log') /\ AllOccur(log', dropped', history')
         /\ Waits(log', history', dropped', Len(log'))
         /\ \A p \in online : Waits(log', frames[p], since[p], read[p])
<1> DEFINE n == Len(log)
<1>1. /\ log \in Seq(Message) /\ log' \in Seq(Message) /\ Len(log') = n + 1 /\ n \in Nat
      /\ DOMAIN log = 1..n /\ DOMAIN log' = 1..(n + 1)
      /\ log'[n + 1] = m /\ \A i \in 1..n : log'[i] = log[i]
      /\ \/ dropped' = dropped
            /\ history' = IF IsFrame(m) THEN Append(history, m.frame) ELSE history
         \/ dropped' = n + 1 /\ history' = <<>>
  BY LogAppend DEF TypeInv, Types, KeptOrDropped
<1>2. /\ \A i \in DOMAIN log : IsFrame(log[i]) => log[i].frame.step <= step
      /\ history \in Seq(Frame) /\ step \in Nat /\ dropped \in Nat /\ dropped <= n
  BY Sizes DEF TypeInv, LogInv, Types
<1>3. /\ LogNumbered(log) /\ AllOccur(log, dropped, history)
      /\ Waits(log, history, dropped, n)
      /\ \A p \in online : Waits(log, frames[p], since[p], read[p])
  BY DEF OrderInv
<1> HIDE DEF n
<1>4. 1..(n + 1) = 1..n \cup {n + 1} /\ (\A i \in 1..n : i < n + 1)
  BY <1>1
<1>5. LogNumbered(log')
  <2> SUFFICES ASSUME NEW i \in DOMAIN log', NEW j \in DOMAIN log', IsFrame(log'[i]),
                      IsFrame(log'[j]), i < j
               PROVE  log'[i].frame.step < log'[j].frame.step
    BY DEF LogNumbered
  <2>1. i \in 1..n /\ log'[i] = log[i]
    BY <1>1
  <2>2. CASE j \in 1..n
    BY <1>1, <1>3, <2>1, <2>2 DEF LogNumbered
  <2>3. CASE j = n + 1
    <3>1. log[i].frame.step <= step /\ log[i].frame.step \in Nat
      BY <1>1, <1>2, <2>1, InLog
    <3>2. log'[j].frame.step = step + 1
      BY <1>1, <2>3
    <3> QED
      BY <1>2, <2>1, <3>1, <3>2
  <2> QED
    BY <1>1, <1>4, <2>2, <2>3
<1>6. IsFrame(m) => m.frame \in Frame
  BY DEF IsFrame, Message
<1> DEFINE h == history
           g == history'
<1>7. /\ h \in Seq(Frame) /\ AllOccur(log, dropped, h) /\ Waits(log, h, dropped, n)
      /\ \/ dropped' = dropped /\ IsFrame(m) /\ g = Append(h, m.frame)
         \/ dropped' = dropped /\ ~IsFrame(m) /\ g = h
         \/ dropped' = n + 1 /\ g = <<>>
  BY <1>1, <1>2, <1>3
<1> HIDE DEF h, g
<1>8. AllOccur(log', dropped', g)
  <2> SUFFICES ASSUME NEW i \in DOMAIN log', i > dropped', IsFrame(log'[i])
               PROVE  Occurs(g, log'[i].frame)
    BY DEF AllOccur
  <2>1. dropped' = dropped
    BY <1>1, <1>7
  <2>2. ASSUME i \in 1..n
        PROVE  Occurs(h, log'[i].frame)
    BY <1>1, <1>7, <2>1, <2>2 DEF AllOccur
  <2>3. CASE IsFrame(m) /\ g = Append(h, m.frame)
    <3>1. m.frame \in Frame
      BY <1>6, <2>3
    <3>2. ASSUME NEW x
          PROVE  Occurs(g, x) <=> (Occurs(h, x) \/ m.frame = x)
      <4>1. Occurs(Append(h, m.frame), x) <=> (Occurs(h, x) \/ m.frame = x)
        BY <1>7, <3>1, OccursAppend
      <4> QED
        BY <2>3, <4>1
    <3> QED
      BY <1>1, <1>4, <2>2, <3>2
  <2>4. CASE ~IsFrame(m) /\ g = h
    BY <1>1, <1>4, <2>2, <2>4
  <2> QED
    BY <1>1, <1>7, <2>3, <2>4
<1>9. Waits(log', g, dropped', n + 1)
  <2>1. Waits(log', h, dropped, n)
    BY <1>1, <1>2, <1>7, WaitsSame
  <2>2. n + 1 \in DOMAIN log'
    BY <1>1
  <2>3. /\ IsFrame(log'[n + 1]) => Waits(log', Append(h, log'[n + 1].frame), dropped, n + 1)
        /\ ~IsFrame(log'[n + 1]) => Waits(log', h, dropped, n + 1)
    BY <1>1, <1>2, <1>5, <1>7, <2>1, <2>2, WaitsMore
  <2>4. CASE g = <<>>
    <3>1. DOMAIN g = {} /\ \A x : ~Occurs(g, x)
      BY <2>4 DEF Occurs
    <3> QED
      BY <3>1 DEF Waits, Numbered, FromLog, LaterKept
  <2> QED
    BY <1>1, <1>7, <2>3, <2>4
<1>10. ASSUME NEW p \in online
       PROVE  Waits(log', frames[p], since[p], read[p])
  <2>1. read[p] \in Nat /\ read[p] <= n /\ since[p] \in Nat
    BY DEF TypeInv, Types, n
  <2>2. \A i \in 1..read[p] : log'[i] = log[i]
    BY <1>1, <2>1
  <2> QED
    BY <1>3, <2>1, <2>2, WaitsSame
<1> QED
  BY <1>1, <1>5, <1>8, <1>9, <1>10 DEF g

\* Every step keeps the frames in order.
LEMMA OrderStep == TypeInv /\ OrderInv /\ [Next]_vars => OrderInv'
<1> SUFFICES ASSUME TypeInv, OrderInv, [Next]_vars
             PROVE  OrderInv'
  OBVIOUS
<1>1. /\ frames \in [Users -> Seq(Frame)] /\ read \in [Users -> Nat] /\ online \in SUBSET Users
      /\ log \in Seq(Message) /\ since \in [Users -> Nat] /\ \A q \in Users : since[q] <= read[q]
  BY DEF TypeInv, Types
<1>2. /\ LogNumbered(log) /\ \A q \in online : Waits(log, frames[q], since[q], read[q])
  BY DEF OrderInv
<1>3. ASSUME NEW c \in Command \cup {NoCommand}, NEW l \in Users \cup {NoUid}, Step(c, l)
      PROVE  OrderInv'
  <2> DEFINE m == [type |-> "FRAME", frame |-> [step |-> step + 1, command |-> c, last |-> l]]
  <2>1. /\ log' = Append(log, m) /\ UNCHANGED <<online, since, read, frames>>
        /\ KeptOrDropped(m)
    BY <1>3 DEF Step, KeptOrDropped, IsFrame
  <2>2. m \in Message /\ m.frame.step = step + 1
    <3>1. step \in Nat
      BY Sizes DEF TypeInv, Types
    <3> QED
      BY <1>3, <3>1 DEF Message, Frame, Step
  <2> HIDE DEF m
  <2>3. /\ LogNumbered(log') /\ AllOccur(log', dropped', history')
        /\ Waits(log', history', dropped', Len(log'))
        /\ \A q \in online : Waits(log', frames[q], since[q], read[q])
    BY <2>1, <2>2, OrderAppend
  <2> QED
    BY <2>1, <2>3 DEF OrderInv
<1>4. ASSUME NEW p \in Users, Login(p)
      PROVE  OrderInv'
  <2> DEFINE m == [type |-> "ENTER", uid |-> p]
  <2>1. /\ log' = Append(log, m) /\ read' = [read EXCEPT ![p] = Len(log')]
        /\ frames' = [frames EXCEPT ![p] = history]
        /\ online' = online \cup {p} /\ p \notin online
        /\ since' = [since EXCEPT ![p] = dropped] /\ UNCHANGED <<history, dropped>>
    BY <1>4 DEF Login
  <2>2. m \in Message /\ ~IsFrame(m) /\ KeptOrDropped(m)
    BY <2>1 DEF Message, IsFrame, KeptOrDropped
  <2> HIDE DEF m
  <2>3. /\ LogNumbered(log') /\ AllOccur(log', dropped', history')
        /\ Waits(log', history', dropped', Len(log'))
        /\ \A q \in online : Waits(log', frames[q], since[q], read[q])
    BY <2>1, <2>2, OrderAppend
  <2>5. ASSUME NEW q \in online'
        PROVE  Waits(log', frames'[q], since'[q], read'[q])
    <3>1. CASE q = p
      <4>1. frames'[q] = history' /\ read'[q] = Len(log') /\ since'[q] = dropped'
        BY <1>1, <2>1, <3>1
      <4> QED
        BY <2>3, <4>1
    <3>2. CASE q # p
      <4>1. frames'[q] = frames[q] /\ read'[q] = read[q] /\ q \in online /\ since'[q] = since[q]
        BY <1>1, <2>1, <3>2
      <4> QED
        BY <2>3, <4>1
    <3> QED
      BY <3>1, <3>2
  <2> QED
    BY <2>3, <2>5 DEF OrderInv
<1>5. ASSUME NEW p \in Users, Leave(p)
      PROVE  OrderInv'
  <2> DEFINE m == [type |-> "LEAVE", uid |-> p]
  <2>1. /\ log' = IF online' = {} THEN <<>> ELSE Append(log, m)
        /\ online' = online \ {p}
        /\ read' = [read EXCEPT ![p] = 0] /\ frames' = [frames EXCEPT ![p] = <<>>]
        /\ since' = [since EXCEPT ![p] = 0]
    BY <1>5 DEF Leave
  <2>2. m \in Message /\ ~IsFrame(m)
    BY DEF Message, IsFrame
  <2> HIDE DEF m
  <2>3. CASE online' # {}
    <3>1. log' = Append(log, m) /\ KeptOrDropped(m)
      BY <1>5, <2>1, <2>2, <2>3 DEF Leave, HistoryKept, KeptOrDropped
    <3>2. /\ LogNumbered(log') /\ AllOccur(log', dropped', history')
          /\ Waits(log', history', dropped', Len(log'))
          /\ \A q \in online : Waits(log', frames[q], since[q], read[q])
      BY <2>2, <3>1, OrderAppend
    <3>3. \A q \in online' : /\ frames'[q] = frames[q] /\ read'[q] = read[q]
                             /\ since'[q] = since[q] /\ q \in online
      BY <1>1, <2>1
    <3> QED
      BY <3>2, <3>3 DEF OrderInv
  <2>4. CASE online' = {}
    <3>1. log' = <<>> /\ Len(log') = 0 /\ DOMAIN log' = {}
      BY <2>1, <2>4
    <3>2. history' = <<>> /\ DOMAIN history' = {}
      <4>1. ready' = {}
        BY <1>5, <2>4 DEF Leave, TypeInv, Types
      <4> QED
        BY <1>5, <4>1 DEF Leave, HistoryKept
    <3>3. LogNumbered(log') /\ AllOccur(log', dropped', history')
      BY <3>1 DEF LogNumbered, AllOccur
    <3>4. Waits(log', history', dropped', Len(log'))
      <4>1. 1..Len(log') = {}
        BY <3>1
      <4> QED
        BY <3>2, <4>1 DEF Waits, Numbered, FromLog, LaterKept
    <3> QED
      BY <2>4, <3>3, <3>4 DEF OrderInv
  <2> QED
    BY <2>3, <2>4
<1>6. ASSUME NEW p \in Users, Receive(p)
      PROVE  OrderInv'
  <2> DEFINE n == read[p]
             m == log[n + 1]
  <2>1. /\ n \in Nat /\ n + 1 \in DOMAIN log
        /\ log' = log /\ online' = online /\ p \in online
        /\ read' = [read EXCEPT ![p] = n + 1] /\ UNCHANGED <<history, dropped, since>>
    BY <1>6, NextMessage DEF serverVars
  <2>2. /\ IsFrame(m) => frames' = [frames EXCEPT ![p] = Append(frames[p], m.frame)]
        /\ ~IsFrame(m) => frames' = frames
    BY <1>6 DEF Receive, IsFrame
  <2> HIDE DEF n
  <2>3. /\ IsFrame(m) => Waits(log, Append(frames[p], m.frame), since[p], n + 1)
        /\ ~IsFrame(m) => Waits(log, frames[p], since[p], n + 1)
    <3>1. /\ Waits(log, frames[p], since[p], n) /\ frames[p] \in Seq(Frame)
          /\ since[p] \in Nat /\ since[p] <= n
      BY <1>1, <1>2, <2>1 DEF n
    <3> QED
      BY <1>1, <1>2, <2>1, <3>1, WaitsMore
  <2> HIDE DEF m
  <2>4. Waits(log, frames'[p], since[p], read'[p])
    <3>1. read'[p] = n + 1
      BY <1>1, <2>1
    <3>2. CASE IsFrame(m)
      <4>1. frames'[p] = Append(frames[p], m.frame)
        BY <1>1, <2>2, <3>2
      <4> QED
        BY <2>3, <3>1, <3>2, <4>1
    <3>3. CASE ~IsFrame(m)
      BY <2>2, <2>3, <3>1, <3>3
    <3> QED
      BY <3>2, <3>3
  <2>5. ASSUME NEW q \in online, q # p
        PROVE  Waits(log, frames'[q], since[q], read'[q])
    <3>1. frames'[q] = frames[q] /\ read'[q] = read[q]
      BY <1>1, <2>1, <2>2, <2>5
    <3> QED
      BY <1>2, <3>1
  <2>6. \A q \in online' : Waits(log', frames'[q], since'[q], read'[q])
    BY <2>1, <2>4, <2>5
  <2> QED
    BY <2>1, <2>6 DEF OrderInv
<1>7. ASSUME NEW p \in Users, NEW dt \in 0..MaxTick, Update(p, dt)
      PROVE  OrderInv'
  <2> DEFINE rest == Remaining(p) - Chunk(p, dt)
  <2>1. /\ frames[p] \in Seq(Frame) /\ frames[p] # <<>> /\ p \in online
        /\ frames' = [frames EXCEPT ![p] = IF rest = 0 THEN Tail(frames[p]) ELSE frames[p]]
        /\ UNCHANGED <<log, online, history, dropped, since, read>>
    BY <1>7, Tick DEF serverVars
  <2> HIDE DEF rest
  <2>2. Waits(log, Tail(frames[p]), since[p], read[p])
    <3>1. read[p] \in Nat /\ read[p] <= Len(log) /\ since[p] \in Nat
      BY DEF TypeInv, Types
    <3> QED
      BY <1>1, <1>2, <2>1, <3>1, WaitsPop
  <2>3. \A q \in online : Waits(log, frames'[q], since[q], read[q])
    <3> TAKE q \in online
    <3>1. frames'[q] = frames[q] \/ (q = p /\ frames'[q] = Tail(frames[p]))
      BY <1>1, <2>1
    <3> QED
      BY <1>2, <2>2, <3>1
  <2> QED
    BY <2>1, <2>3 DEF OrderInv
<1>8. CASE UNCHANGED vars
  BY <1>8 DEF vars, serverVars, OrderInv
<1> QED
  BY <1>3, <1>4, <1>5, <1>6, <1>7, <1>8 DEF Next

-----------------------------------------------------------------------------
(* Who is there *)

\* A message more in the log: what is the last about a user, or the last move.
LEMMA LogGrows ==
  ASSUME TypeInv, NEW m \in Message, log' = Append(log, m)
  PROVE  /\ log \in Seq(Message) /\ Len(log') = Len(log) + 1 /\ Len(log) \in Nat
         /\ DOMAIN log = 1..Len(log) /\ DOMAIN log' = 1..(Len(log) + 1)
         /\ log'[Len(log) + 1] = m /\ \A i \in 1..Len(log) : log'[i] = log[i]
         /\ 1..(Len(log) + 1) = 1..Len(log) \cup {Len(log) + 1}
         /\ \A i \in 1..Len(log) : i < Len(log) + 1
<1>1. /\ log \in Seq(Message) /\ Len(log') = Len(log) + 1 /\ Len(log) \in Nat
      /\ DOMAIN log = 1..Len(log) /\ DOMAIN log' = 1..(Len(log) + 1)
      /\ log'[Len(log) + 1] = m /\ \A i \in 1..Len(log) : log'[i] = log[i]
  BY LogAppend DEF TypeInv, Types
<1> DEFINE n == Len(log)
<1>2. n \in Nat
  BY <1>1
<1> HIDE DEF n
<1>3. 1..(n + 1) = 1..n \cup {n + 1} /\ \A i \in 1..n : i < n + 1
  BY <1>2
<1> QED
  BY <1>1, <1>3 DEF n

LastAppend(l, r, m, u) ==
  /\ \A i \in 1..Len(l) : LastAbout(r, i, u) <=> (LastAbout(l, i, u) /\ ~IsAbout(m, u))
  /\ LastAbout(r, Len(l) + 1, u) <=> IsAbout(m, u)
  /\ \A k \in 0..Len(l) : NoneAfter(r, k, u) <=> (NoneAfter(l, k, u) /\ ~IsAbout(m, u))
  /\ \A i \in 1..Len(l) : LastMove(r, i, u) <=> (LastMove(l, i, u) /\ ~IsMove(m, u))
  /\ LastMove(r, Len(l) + 1, u) <=> IsMove(m, u)

\* The last message about a user and the last move, with a message more in the log.
LEMMA LastGrows ==
  ASSUME TypeInv, NEW m \in Message, log' = Append(log, m), NEW u
  PROVE  LastAppend(log, log', m, u)
<1> DEFINE n == Len(log)
           r == log'
<1>1. /\ n \in Nat /\ Len(r) = n + 1 /\ r[n + 1] = m /\ \A i \in 1..n : r[i] = log[i]
  BY LogGrows
<1>2. r = log'
  OBVIOUS
<1> HIDE DEF n, r
<1>3. \A k \in 0..n : (k + 1)..(n + 1) = (k + 1)..n \cup {n + 1} /\ (k + 1)..n \subseteq 1..n
  BY <1>1
<1>4. ((n + 1) + 1)..(n + 1) = {} /\ 1..n \subseteq 0..n
  BY <1>1
<1>5. \A k \in 0..n : NoneAfter(r, k, u) <=> (NoneAfter(log, k, u) /\ ~IsAbout(m, u))
  BY <1>1, <1>3 DEF NoneAfter, n
<1>6. \A i \in 1..n : LastAbout(r, i, u) <=> (LastAbout(log, i, u) /\ ~IsAbout(m, u))
  <2> TAKE i \in 1..n
  <2>1. (i + 1)..(n + 1) = (i + 1)..n \cup {n + 1} /\ (i + 1)..n \subseteq 1..n
    BY <1>3, <1>4
  <2> QED
    BY <1>1, <2>1 DEF LastAbout, n
<1>7. \A i \in 1..n : LastMove(r, i, u) <=> (LastMove(log, i, u) /\ ~IsMove(m, u))
  <2> TAKE i \in 1..n
  <2>1. (i + 1)..(n + 1) = (i + 1)..n \cup {n + 1} /\ (i + 1)..n \subseteq 1..n
    BY <1>3, <1>4
  <2> QED
    BY <1>1, <2>1 DEF LastMove, n
<1>8. (LastAbout(r, n + 1, u) <=> IsAbout(m, u)) /\ (LastMove(r, n + 1, u) <=> IsMove(m, u))
  BY <1>1, <1>4 DEF LastAbout, LastMove
<1> QED
  BY <1>2, <1>5, <1>6, <1>7, <1>8 DEF LastAppend, n

\* Every step keeps what the log says of the logins.
LEMMA LoginsStep == TypeInv /\ LoginsInv /\ [Next]_vars => LoginsInv'
<1> SUFFICES ASSUME TypeInv, LoginsInv, [Next]_vars
             PROVE  LoginsInv'
  OBVIOUS
<1> DEFINE Heard(v) ==
      /\ logins'[v] = 0 =>
           v \notin online' /\ \A i \in DOMAIN log' : ~IsCommand(log'[i], v) /\ ~IsAbout(log'[i], v)
      /\ logins'[v] = 1 => \A i, j \in DOMAIN log' :
           IsAbout(log'[i], v) /\ log'[i].type = "ENTER" /\ IsCommand(log'[j], v) => i < j
<1> SUFFICES ASSUME NEW u \in Users
             PROVE  Heard(u)
  BY DEF LoginsInv
<1>1. /\ logins[u] = 0 =>
           u \notin online /\ \A i \in DOMAIN log : ~IsCommand(log[i], u) /\ ~IsAbout(log[i], u)
      /\ logins[u] = 1 => \A i, j \in DOMAIN log :
           IsAbout(log[i], u) /\ log[i].type = "ENTER" /\ IsCommand(log[j], u) => i < j
  BY DEF LoginsInv
<1>2. logins \in [Users -> 0..2] /\ online \in SUBSET Users
  BY DEF TypeInv, Types
<1>3. ASSUME NEW c \in Command \cup {NoCommand}, NEW l \in Users \cup {NoUid}, Step(c, l)
      PROVE  Heard(u)
  <2> DEFINE m == [type |-> "FRAME", frame |-> [step |-> step + 1, command |-> c, last |-> l]]
             n == Len(log)
  <2>1. /\ log' = Append(log, m) /\ UNCHANGED <<logins, online>>
        /\ c # NoCommand => logins[c.id] > 0
    BY <1>3 DEF Step
  <2>2. m \in Message
    <3>1. step \in Nat
      BY Sizes DEF TypeInv, Types
    <3> QED
      BY <1>3, <3>1 DEF Message, Frame, Step
  <2>3. ~IsAbout(m, u) /\ (IsCommand(m, u) => logins[u] > 0)
    BY <2>1 DEF IsAbout, IsCommand
  <2> HIDE DEF m
  <2>4. /\ n \in Nat /\ DOMAIN log = 1..n /\ DOMAIN log' = 1..(n + 1) /\ log'[n + 1] = m
        /\ 1..(n + 1) = 1..n \cup {n + 1} /\ (\A i \in 1..n : i < n + 1)
        /\ \A i \in 1..n : log'[i] = log[i]
    BY <2>1, <2>2, LogGrows
  <2> HIDE DEF n
  <2>5. ASSUME logins[u] = 0
        PROVE  /\ u \notin online
               /\ \A i \in 1..(n + 1) : ~IsCommand(log'[i], u) /\ ~IsAbout(log'[i], u)
    <3>1. ~IsCommand(m, u)
      BY <2>3, <2>5
    <3> QED
      BY <1>1, <2>3, <2>4, <2>5, <3>1
  <2>6. ASSUME logins[u] = 1, NEW i \in 1..(n + 1), NEW j \in 1..(n + 1), IsAbout(log'[i], u),
               log'[i].type = "ENTER", IsCommand(log'[j], u)
        PROVE  i < j
    <3>1. i \in 1..n
      BY <2>3, <2>4, <2>6
    <3>2. CASE j \in 1..n
      BY <1>1, <2>4, <2>6, <3>1, <3>2
    <3>3. CASE j = n + 1
      BY <2>4, <3>1, <3>3
    <3> QED
      BY <2>4, <3>2, <3>3
  <2> QED
    BY <2>1, <2>4, <2>5, <2>6
<1>4. ASSUME NEW p \in Users, Login(p)
      PROVE  Heard(u)
  <2> DEFINE m == [type |-> "ENTER", uid |-> p]
             n == Len(log)
  <2>1. /\ log' = Append(log, m) /\ logins' = [logins EXCEPT ![p] = Lower(logins[p] + 1, 2)]
        /\ online' = online \cup {p}
    BY <1>4 DEF Login
  <2>2. m \in Message /\ ~IsFrame(m) /\ (u # p => ~IsAbout(m, u))
    BY DEF Message, IsFrame, IsAbout
  <2> HIDE DEF m
  <2>3. /\ n \in Nat /\ DOMAIN log = 1..n /\ DOMAIN log' = 1..(n + 1) /\ log'[n + 1] = m
        /\ 1..(n + 1) = 1..n \cup {n + 1} /\ \A i \in 1..n : log'[i] = log[i]
    BY <2>1, <2>2, LogGrows
  <2> HIDE DEF n
  <2>4. ~IsCommand(m, u)
    BY <2>2 DEF IsCommand
  <2>5. CASE u = p
    <3>1. logins'[u] = Lower(logins[u] + 1, 2) /\ logins[u] \in 0..2
      BY <1>2, <2>1, <2>5
    <3>2. logins'[u] # 0 /\ (logins'[u] = 1 => logins[u] = 0)
      BY <3>1 DEF Lower
    <3>3. ASSUME logins[u] = 0
          PROVE  \A j \in 1..(n + 1) : ~IsCommand(log'[j], u)
      BY <1>1, <2>3, <2>4, <3>3
    <3> QED
      BY <2>3, <3>2, <3>3
  <2>6. CASE u # p
    <3>1. logins'[u] = logins[u] /\ (u \in online' <=> u \in online) /\ ~IsAbout(m, u)
      BY <1>2, <2>1, <2>2, <2>6
    <3>2. ASSUME logins[u] = 0
          PROVE  /\ u \notin online
                 /\ \A i \in 1..(n + 1) : ~IsCommand(log'[i], u) /\ ~IsAbout(log'[i], u)
      BY <1>1, <2>3, <2>4, <3>1, <3>2
    <3>3. ASSUME logins[u] = 1, NEW i \in 1..(n + 1), NEW j \in 1..(n + 1), IsAbout(log'[i], u),
                 log'[i].type = "ENTER", IsCommand(log'[j], u)
          PROVE  i < j
      <4>1. i \in 1..n /\ j \in 1..n
        BY <2>3, <2>4, <3>1, <3>3
      <4> QED
        BY <1>1, <2>3, <3>3, <4>1
    <3> QED
      BY <2>3, <3>1, <3>2, <3>3
  <2> QED
    BY <2>5, <2>6
<1>5. ASSUME NEW p \in Users, Leave(p)
      PROVE  Heard(u)
  <2> DEFINE m == [type |-> "LEAVE", uid |-> p]
             n == Len(log)
  <2>1. /\ log' = IF online' = {} THEN <<>> ELSE Append(log, m)
        /\ online' = online \ {p} /\ p \in online /\ logins' = logins
    BY <1>5 DEF Leave
  <2>2. m \in Message /\ ~IsFrame(m) /\ m.type = "LEAVE" /\ (u # p => ~IsAbout(m, u))
    BY DEF Message, IsFrame, IsAbout
  <2> HIDE DEF m
  <2>3. CASE online' = {}
    <3>1. DOMAIN log' = {} /\ u \notin online'
      BY <2>1, <2>3
    <3> QED
      BY <3>1
  <2>4. CASE online' # {}
    <3>1. /\ n \in Nat /\ DOMAIN log = 1..n /\ DOMAIN log' = 1..(n + 1) /\ log'[n + 1] = m
          /\ 1..(n + 1) = 1..n \cup {n + 1} /\ \A i \in 1..n : log'[i] = log[i]
      BY <2>1, <2>2, <2>4, LogGrows
    <3> HIDE DEF n
    <3>2. ~IsCommand(m, u)
      BY <2>2 DEF IsCommand
    <3>3. ASSUME logins[u] = 0
          PROVE  /\ u \notin online'
                 /\ \A i \in 1..(n + 1) : ~IsCommand(log'[i], u) /\ ~IsAbout(log'[i], u)
      <4>1. u # p /\ ~IsAbout(m, u)
        BY <1>1, <2>1, <2>2, <3>3
      <4> QED
        BY <1>1, <2>1, <3>1, <3>2, <3>3, <4>1
    <3>4. ASSUME logins[u] = 1, NEW i \in 1..(n + 1), NEW j \in 1..(n + 1), IsAbout(log'[i], u),
                 log'[i].type = "ENTER", IsCommand(log'[j], u)
          PROVE  i < j
      <4>1. i \in 1..n /\ j \in 1..n
        BY <2>2, <3>1, <3>2, <3>4
      <4> QED
        BY <1>1, <3>1, <3>4, <4>1
    <3> QED
      BY <2>1, <3>1, <3>3, <3>4
  <2> QED
    BY <2>3, <2>4
<1>6. CASE UNCHANGED <<log, logins, online>>
  BY <1>1, <1>6
<1>7. ASSUME NEW p \in Users, Receive(p)
      PROVE  Heard(u)
  BY <1>6, <1>7 DEF Receive, serverVars
<1>8. ASSUME NEW p \in Users, NEW dt \in 0..MaxTick, Update(p, dt)
      PROVE  Heard(u)
  BY <1>6, <1>8 DEF Update, serverVars
<1>9. CASE UNCHANGED vars
  BY <1>6, <1>9 DEF vars, serverVars
<1> HIDE DEF Heard
<1> QED
  BY <1>3, <1>4, <1>5, <1>7, <1>8, <1>9 DEF Next

\* A tick turns the tank of the frame's command, and no tank comes or goes.
LEMMA TickTanks ==
  ASSUME TypeInv, NEW p \in Users, NEW dt \in 0..MaxTick, Update(p, dt)
  PROVE  LET c == Head(frames[p]).command
         IN /\ DOMAIN tanks'[p] = DOMAIN tanks[p]
            /\ \A q \in Users : q # p => tanks'[q] = tanks[q]
            /\ \A u \in DOMAIN tanks[p] : u # lastFrame[p].id =>
                 tanks'[p][u].dir = IF c # NoCommand /\ c.id = u /\ c.op \in Moves
                                    THEN c.op ELSE tanks[p][u].dir
<1> DEFINE f == Head(frames[p])
           c == f.command
           ms == Chunk(p, dt)
           ts == PlayCommand(tanks[p], c, ms)
           bs == BackToBorn(ts, f, lastFrame[p])
<1>1. /\ f \in Frame /\ ms \in Nat /\ ts \in Scene /\ tanks' = [tanks EXCEPT ![p] = bs]
  BY Tick
<1>2. tanks \in [Users -> Scene] /\ \A u \in DOMAIN tanks[p] : tanks[p][u] \in PlacedTank
  BY SceneIs DEF TypeInv, Types
<1>3. c \in Command \cup {NoCommand} /\ (c # NoCommand => c.op \in Ops)
  <2> HIDE DEF f
  <2> QED
    BY <1>1 DEF Frame, Command
<1> HIDE DEF f, ms
<1>4. /\ DOMAIN ts = DOMAIN tanks[p]
      /\ \A u \in DOMAIN tanks[p] :
           ts[u] = IF c # NoCommand /\ c.id = u THEN RecvOp(tanks[p][u], c.op, ms) ELSE tanks[p][u]
  <2> HIDE DEF c
  <2> QED
    BY <1>1, <1>2, <1>3, PlayCommandIs
<1> HIDE DEF ts
<1>5. /\ DOMAIN bs = DOMAIN ts /\ \A u \in DOMAIN ts : u # lastFrame[p].id => bs[u] = ts[u]
  BY <1>1, BackToBornIs
<1> HIDE DEF bs, c
<1>6. ASSUME NEW u \in DOMAIN tanks[p]
      PROVE  ts[u].dir = IF c # NoCommand /\ c.id = u /\ c.op \in Moves
                         THEN c.op ELSE tanks[p][u].dir
  <2>1. CASE c # NoCommand /\ c.id = u
    <3>1. RecvOp(tanks[p][u], c.op, ms).dir = IF c.op \in Moves THEN c.op ELSE tanks[p][u].dir
      BY <1>1, <1>2, <1>3, <2>1, RecvOpType
    <3> QED
      BY <1>4, <2>1, <3>1
  <2>2. CASE ~(c # NoCommand /\ c.id = u)
    BY <1>4, <2>2
  <2> QED
    BY <2>1, <2>2
<1>7. tanks'[p] = bs /\ \A q \in Users : q # p => tanks'[q] = tanks[q]
  BY <1>1, <1>2
<1> QED
  BY <1>4, <1>5, <1>6, <1>7 DEF c, f

\* Every step keeps what the log says of who is there.
LEMMA ShownStep == TypeInv /\ ShownInv /\ [Next]_vars => ShownInv'
<1> SUFFICES ASSUME TypeInv, ShownInv, [Next]_vars
             PROVE  ShownInv'
  OBVIOUS
<1> DEFINE Said == \A u \in Users : \A i \in DOMAIN log' :
                     LastAbout(log', i, u) => (log'[i].type = "ENTER" <=> u \in online')
           Seen == \A q \in online' : \A u \in Users :
                     NoneAfter(log', read'[q], u) => (u \in DOMAIN tanks'[q] <=> u \in online')
<1> SUFFICES Said /\ Seen
  BY DEF ShownInv
<1>1. /\ read \in [Users -> Nat] /\ online \in SUBSET Users /\ tanks \in [Users -> Scene]
      /\ log \in Seq(Message) /\ \A q \in Users : read[q] \in Nat /\ read[q] <= Len(log)
  BY DEF TypeInv, Types
<1>2. /\ \A u \in Users : \A i \in DOMAIN log :
           LastAbout(log, i, u) => (log[i].type = "ENTER" <=> u \in online)
      /\ \A q \in online : \A u \in Users :
           NoneAfter(log, read[q], u) => (u \in DOMAIN tanks[q] <=> u \in online)
  BY DEF ShownInv
<1>3. ASSUME NEW m \in Message, log' = Append(log, m),
             \A u \in Users : IsAbout(m, u) => (m.type = "ENTER" <=> u \in online'),
             \A u \in Users : ~IsAbout(m, u) => (u \in online' <=> u \in online)
      PROVE  /\ Said
             /\ \A q \in online, u \in Users :
                  NoneAfter(log', read[q], u) => (u \in DOMAIN tanks[q] <=> u \in online')
  <2> DEFINE n == Len(log)
  <2>1. /\ n \in Nat /\ DOMAIN log = 1..n /\ DOMAIN log' = 1..(n + 1) /\ log'[n + 1] = m
        /\ 1..(n + 1) = 1..n \cup {n + 1} /\ \A i \in 1..n : log'[i] = log[i]
    BY <1>3, LogGrows
  <2>2. ASSUME NEW u \in Users
        PROVE  /\ \A i \in 1..n : LastAbout(log', i, u) <=> (LastAbout(log, i, u) /\ ~IsAbout(m, u))
               /\ LastAbout(log', n + 1, u) <=> IsAbout(m, u)
               /\ \A k \in 0..n : NoneAfter(log', k, u) <=> (NoneAfter(log, k, u) /\ ~IsAbout(m, u))
    BY <1>3, LastGrows DEF LastAppend
  <2>3. \A q \in online : read[q] \in 0..n
    BY <1>1, <2>1
  <2> HIDE DEF n
  <2>4. ASSUME NEW u \in Users, NEW i \in 1..(n + 1), LastAbout(log', i, u)
        PROVE  log'[i].type = "ENTER" <=> u \in online'
    <3>1. CASE i \in 1..n
      BY <1>2, <1>3, <2>1, <2>2, <2>4, <3>1
    <3>2. CASE i = n + 1
      BY <1>3, <2>1, <2>2, <2>4, <3>2
    <3> QED
      BY <2>1, <3>1, <3>2
  <2>5. Said
    BY <2>1, <2>4
  <2>6. ASSUME NEW q \in online, NEW u \in Users, NoneAfter(log', read[q], u)
        PROVE  u \in DOMAIN tanks[q] <=> u \in online'
    <3>1. NoneAfter(log, read[q], u) /\ ~IsAbout(m, u)
      BY <2>2, <2>3, <2>6
    <3> QED
      BY <1>2, <1>3, <3>1
  <2> QED
    BY <2>5, <2>6
<1>4. ASSUME NEW c \in Command \cup {NoCommand}, NEW l \in Users \cup {NoUid}, Step(c, l)
      PROVE  Said /\ Seen
  <2> DEFINE m == [type |-> "FRAME", frame |-> [step |-> step + 1, command |-> c, last |-> l]]
  <2>1. log' = Append(log, m) /\ UNCHANGED <<online, read, tanks>>
    BY <1>4 DEF Step
  <2>2. m \in Message /\ \A u \in Users : ~IsAbout(m, u)
    <3>1. step \in Nat
      BY Sizes DEF TypeInv, Types
    <3>2. m \in Message
      BY <1>4, <3>1 DEF Message, Frame, Step
    <3> QED
      BY <3>2 DEF IsAbout
  <2> HIDE DEF m, Said
  <2> QED
    BY <1>3, <2>1, <2>2
<1>5. ASSUME NEW p \in Users, Login(p)
      PROVE  Said /\ Seen
  <2> DEFINE m == [type |-> "ENTER", uid |-> p]
  <2>1. /\ log' = Append(log, m) /\ read' = [read EXCEPT ![p] = Len(log')]
        /\ tanks' = [tanks EXCEPT ![p] = [u \in online' |-> NewTank]]
        /\ online' = online \cup {p} /\ p \notin online
    BY <1>5 DEF Login
  <2>2. m \in Message /\ m.type = "ENTER" /\ \A u \in Users : IsAbout(m, u) <=> u = p
    BY DEF Message, IsAbout
  <2> HIDE DEF m
  <2>3. /\ Said
        /\ \A q \in online, u \in Users :
             NoneAfter(log', read[q], u) => (u \in DOMAIN tanks[q] <=> u \in online')
    <3> HIDE DEF Said
    <3> QED
      BY <1>3, <2>1, <2>2
  <2> HIDE DEF Said
  <2>4. ASSUME NEW q \in online', NEW u \in Users, NoneAfter(log', read'[q], u)
        PROVE  u \in DOMAIN tanks'[q] <=> u \in online'
    <3>1. CASE q = p
      <4>1. tanks'[q] = [v \in online' |-> NewTank]
        BY <1>1, <2>1, <3>1
      <4> QED
        BY <4>1
    <3>2. CASE q # p
      <4>1. q \in online /\ read'[q] = read[q] /\ tanks'[q] = tanks[q]
        BY <1>1, <2>1, <3>2
      <4> QED
        BY <2>3, <2>4, <4>1
    <3> QED
      BY <3>1, <3>2
  <2> QED
    BY <2>3, <2>4
<1>6. ASSUME NEW p \in Users, Leave(p)
      PROVE  Said /\ Seen
  <2> DEFINE m == [type |-> "LEAVE", uid |-> p]
  <2>1. /\ log' = IF online' = {} THEN <<>> ELSE Append(log, m)
        /\ online' = online \ {p} /\ p \in online
        /\ read' = [read EXCEPT ![p] = 0] /\ tanks' = [tanks EXCEPT ![p] = NoTanks]
    BY <1>6 DEF Leave
  <2>2. m \in Message /\ m.type # "ENTER" /\ \A u \in Users : IsAbout(m, u) <=> u = p
    BY DEF Message, IsAbout
  <2> HIDE DEF m
  <2>3. CASE online' = {}
    <3>1. DOMAIN log' = {}
      BY <2>1, <2>3
    <3> QED
      BY <2>3, <3>1
  <2>4. CASE online' # {}
    <3>1. /\ Said
          /\ \A q \in online, u \in Users :
               NoneAfter(log', read[q], u) => (u \in DOMAIN tanks[q] <=> u \in online')
      <4> HIDE DEF Said
      <4> QED
        BY <1>3, <2>1, <2>2, <2>4
    <3> HIDE DEF Said
    <3>2. \A q \in online' : q \in online /\ read'[q] = read[q] /\ tanks'[q] = tanks[q]
      BY <1>1, <2>1
    <3> QED
      BY <3>1, <3>2
  <2> HIDE DEF Said, Seen
  <2> QED
    BY <2>3, <2>4
<1>7. ASSUME NEW p \in Users, Receive(p)
      PROVE  Said /\ Seen
  <2> DEFINE n == read[p]
             m == log[n + 1]
  <2>1. /\ n \in Nat /\ n + 1 \in DOMAIN log /\ n + 1 <= Len(log)
        /\ log' = log /\ online' = online /\ p \in online /\ m \in Message
        /\ read' = [read EXCEPT ![p] = n + 1] /\ (~IsFrame(m) => m.uid \in Users)
    BY <1>7, NextMessage
  <2>2. /\ IsFrame(m) => tanks' = tanks
        /\ m.type = "ENTER" => tanks' = [tanks EXCEPT ![p] = AddTank(tanks[p], m.uid)]
        /\ m.type = "LEAVE" => tanks' = [tanks EXCEPT ![p] = DeleteTank(tanks[p], m.uid)]
        /\ m.type \in {"FRAME", "ENTER", "LEAVE"}
    BY <1>7 DEF Receive, IsFrame
  <2>3. /\ IsFrame(m) => tanks'[p] = tanks[p]
        /\ m.type = "ENTER" => DOMAIN tanks'[p] = DOMAIN tanks[p] \cup {m.uid}
        /\ m.type = "LEAVE" => DOMAIN tanks'[p] = DOMAIN tanks[p] \ {m.uid}
        /\ \A q \in Users : q # p => tanks'[q] = tanks[q]
    <3> HIDE DEF m
    <3>1. /\ ~IsFrame(m) => /\ DOMAIN AddTank(tanks[p], m.uid) = DOMAIN tanks[p] \cup {m.uid}
                            /\ DOMAIN DeleteTank(tanks[p], m.uid) = DOMAIN tanks[p] \ {m.uid}
      BY <1>1, <2>1, AddDelete, ZenonT(60)
    <3> QED
      BY <1>1, <2>2, <3>1 DEF IsFrame
  <2>4. Said
    BY <1>2, <2>1
  <2> HIDE DEF Said
  <2>5. ASSUME NEW u \in Users, NoneAfter(log, n + 1, u)
        PROVE  u \in DOMAIN tanks'[p] <=> u \in online
    <3> HIDE DEF m, n
    <3>1. CASE IsAbout(m, u)
      <4>1. LastAbout(log, n + 1, u)
        BY <2>5, <3>1 DEF LastAbout, NoneAfter, m
      <4>2. m.type = "ENTER" <=> u \in online
        BY <1>2, <2>1, <4>1 DEF m
      <4> QED
        BY <2>3, <3>1, <4>2 DEF IsAbout
    <3>2. CASE ~IsAbout(m, u)
      <4>1. NoneAfter(log, n, u)
        <5>1. (n + 1)..Len(log) = {n + 1} \cup ((n + 1) + 1)..Len(log)
          BY <1>1, <2>1, InLog
        <5> QED
          BY <2>5, <3>2, <5>1 DEF NoneAfter, m
      <4>2. u \in DOMAIN tanks'[p] <=> u \in DOMAIN tanks[p]
        BY <2>2, <2>3, <3>2 DEF IsAbout, IsFrame
      <4> QED
        BY <1>2, <2>1, <4>1, <4>2 DEF n
    <3> QED
      BY <3>1, <3>2
  <2>6. ASSUME NEW q \in online', NEW u \in Users, NoneAfter(log', read'[q], u)
        PROVE  u \in DOMAIN tanks'[q] <=> u \in online'
    <3>1. CASE q = p
      <4>1. read'[q] = n + 1
        BY <1>1, <2>1, <3>1
      <4> QED
        BY <2>1, <2>5, <2>6, <3>1, <4>1
    <3>2. CASE q # p
      <4>1. q \in online /\ read'[q] = read[q] /\ tanks'[q] = tanks[q]
        BY <1>1, <2>1, <2>3, <3>2
      <4> QED
        BY <1>2, <2>1, <2>6, <4>1
    <3> QED
      BY <3>1, <3>2
  <2> QED
    BY <2>4, <2>6
<1>8. ASSUME NEW p \in Users, NEW dt \in 0..MaxTick, Update(p, dt)
      PROVE  Said /\ Seen
  <2>1. UNCHANGED <<log, online, read>>
    BY <1>8 DEF Update, serverVars
  <2>2. \A q \in Users : DOMAIN tanks'[q] = DOMAIN tanks[q]
    BY <1>8, TickTanks
  <2>3. Said
    BY <1>2, <2>1
  <2>4. Seen
    BY <1>1, <1>2, <2>1, <2>2
  <2> QED
    BY <2>3, <2>4
<1>9. CASE UNCHANGED vars
  BY <1>2, <1>9 DEF vars, serverVars
<1> HIDE DEF Said, Seen
<1> QED
  BY <1>4, <1>5, <1>6, <1>7, <1>8, <1>9 DEF Next

-----------------------------------------------------------------------------
(* Where the tanks face *)

\* A message more in the log: a move more has not been read.
LEMMA FacesGrows ==
  ASSUME TypeInv, NEW m \in Message, log' = Append(log, m), NEW n \in Nat, n <= Len(log),
         NEW s \in Nat, NEW fs, NEW dir, NEW u, Faces(log, s, n, fs, dir, u)
  PROVE  Faces(log', s, n, fs, dir, u)
<1> DEFINE k == Len(log)
<1>1. /\ k \in Nat /\ DOMAIN log = 1..k /\ DOMAIN log' = 1..(k + 1)
      /\ 1..(k + 1) = 1..k \cup {k + 1} /\ \A i \in 1..k : log'[i] = log[i]
      /\ \A i \in 1..k : LastMove(log', i, u) <=> (LastMove(log, i, u) /\ ~IsMove(m, u))
      /\ k + 1 > n
  <2>1. /\ k \in Nat /\ DOMAIN log = 1..k /\ DOMAIN log' = 1..(k + 1)
        /\ 1..(k + 1) = 1..k \cup {k + 1} /\ \A i \in 1..k : log'[i] = log[i]
    BY LogGrows
  <2>2. \A i \in 1..k : LastMove(log', i, u) <=> (LastMove(log, i, u) /\ ~IsMove(m, u))
    BY LastGrows DEF LastAppend
  <2>3. n <= k
    OBVIOUS
  <2> HIDE DEF k
  <2> QED
    BY <2>1, <2>2, <2>3
<1> HIDE DEF k
<1>2. (\A i \in DOMAIN log' : i > s => ~IsMove(log'[i], u)) => dir = "UP"
  BY <1>1 DEF Faces
<1>3. ASSUME NEW i \in DOMAIN log', i > s, LastMove(log', i, u)
      PROVE  dir = log'[i].frame.command.op \/ i > n \/ Occurs(fs, log'[i].frame)
  <2>1. CASE i \in 1..k
    BY <1>1, <1>3, <2>1 DEF Faces
  <2>2. CASE i = k + 1
    BY <1>1, <2>2
  <2> QED
    BY <1>1, <2>1, <2>2
<1> QED
  BY <1>2, <1>3 DEF Faces

\* A tick: if it plays a move, that is the last one or a later one waits.
LEMMA FacesTick ==
  ASSUME TypeInv, OrderInv, NEW p \in Users, NEW dt \in 0..MaxTick, Update(p, dt),
         NEW u \in DOMAIN tanks[p], u # lastFrame[p].id,
         Faces(log, since[p], read[p], frames[p], tanks[p][u].dir, u)
  PROVE  Faces(log, since[p], read[p], frames'[p], tanks'[p][u].dir, u)
<1> DEFINE fs == frames[p]
           f == Head(fs)
           gs == frames'[p]
           c == f.command
           n == read[p]
           s == since[p]
           old == tanks[p][u].dir
           new == tanks'[p][u].dir
<1>1. /\ fs \in Seq(Frame) /\ fs # <<>> /\ p \in online /\ frames \in [Users -> Seq(Frame)]
      /\ gs = fs \/ gs = Tail(fs)
  <2> DEFINE rest == Remaining(p) - Chunk(p, dt)
  <2>1. /\ frames[p] \in Seq(Frame) /\ frames[p] # <<>> /\ p \in online
        /\ frames' = [frames EXCEPT ![p] = IF rest = 0 THEN Tail(frames[p]) ELSE frames[p]]
    BY Tick
  <2> HIDE DEF rest
  <2> QED
    BY <2>1 DEF TypeInv, Types
<1>2. new = IF c # NoCommand /\ c.id = u /\ c.op \in Moves THEN c.op ELSE old
  BY TickTanks
<1>3. /\ log \in Seq(Message) /\ n \in Nat /\ n <= Len(log) /\ s \in Nat
  BY DEF TypeInv, Types
<1>4. LogNumbered(log) /\ Waits(log, fs, s, n)
  BY <1>1 DEF OrderInv
<1>5. Faces(log, s, n, fs, old, u)
  OBVIOUS
<1> HIDE DEF gs, new, old, n, s
<1>6. \A g : Occurs(fs, g) => Occurs(gs, g) \/ g = f
  <2> TAKE g
  <2>1. Occurs(fs, g) <=> Occurs(Tail(fs), g) \/ f = g
    BY <1>1, OccursPop
  <2> QED
    BY <1>1, <2>1
<1>7. f = fs[1] /\ 1 \in DOMAIN fs
  BY <1>1, Popped
<1> HIDE DEF fs
<1>8. Occurs(fs, f)
  BY <1>7 DEF Occurs
<1> HIDE DEF f
<1>9. CASE c # NoCommand /\ c.id = u /\ c.op \in Moves
  <2>1. PICK k \in 1..n : IsFrame(log[k]) /\ log[k].frame = f /\ k > s
    <3>1. PICK k \in (s + 1)..n : IsFrame(log[k]) /\ log[k].frame = f
      BY <1>4, <1>7 DEF Waits, FromLog
    <3>2. k \in 1..n /\ k > s
      BY <1>3
    <3> QED
      BY <3>1, <3>2
  <2>2. IsMove(log[k], u) /\ k \in DOMAIN log /\ k \in Nat /\ 1..n \subseteq DOMAIN log
    BY <1>3, <1>9, <2>1, InLog DEF IsMove, IsCommand
  <2>3. ASSUME NEW i \in DOMAIN log, LastMove(log, i, u)
        PROVE  new = log[i].frame.command.op \/ i > n \/ Occurs(gs, log[i].frame)
    <3>1. k <= i /\ i \in Nat
      <4>1. Len(log) \in Nat /\ DOMAIN log = 1..Len(log)
        BY <1>3, InLog
      <4> DEFINE e == Len(log)
      <4>2. k \in 1..e /\ i \in 1..e /\ e \in Nat
        BY <2>2, <4>1
      <4> HIDE DEF e
      <4>3. ~(i < k)
        <5>1. i < k => k \in (i + 1)..e
          BY <4>2
        <5> QED
          BY <2>2, <2>3, <5>1 DEF LastMove, e
      <4> QED
        BY <4>2, <4>3
    <3>2. CASE i = k
      BY <1>2, <1>9, <2>1, <3>2
    <3>3. CASE i # k /\ i <= n
      <4>1. k < i /\ i \in 1..n
        BY <2>2, <3>1, <3>3
      <4>2. IsFrame(log[i])
        BY <2>3 DEF LastMove, IsMove, IsCommand
      <4>3. Occurs(fs, log[i].frame)
        BY <1>4, <1>8, <2>1, <4>1, <4>2 DEF Waits, LaterKept
      <4>4. log[k].frame.step < log[i].frame.step /\ log[i].frame.step \in Nat
        BY <1>3, <1>4, <2>1, <2>2, <4>1, <4>2, InLog DEF LogNumbered
      <4>5. log[i].frame # f
        BY <2>1, <4>4
      <4> QED
        BY <1>6, <4>3, <4>5
    <3>4. i <= n \/ i > n
      BY <1>3, <3>1
    <3> QED
      BY <3>2, <3>3, <3>4
  <2> QED
    BY <2>1, <2>2, <2>3 DEF Faces, n, s, gs, new
<1>10. CASE ~(c # NoCommand /\ c.id = u /\ c.op \in Moves)
  <2>1. new = old
    BY <1>2, <1>10
  <2>2. ASSUME NEW i \in DOMAIN log, i > s, LastMove(log, i, u)
        PROVE  new = log[i].frame.command.op \/ i > n \/ Occurs(gs, log[i].frame)
    <3>1. log[i].frame # f
      BY <1>10, <2>2 DEF LastMove, IsMove, IsCommand
    <3> QED
      BY <1>5, <1>6, <2>1, <2>2, <3>1 DEF Faces
  <2> QED
    BY <1>5, <2>1, <2>2 DEF Faces, n, s, gs, new
<1> QED
  BY <1>9, <1>10

\* Every step keeps what is known of where the tanks face.
LEMMA FacingStep ==
  TypeInv /\ OrderInv /\ ShownInv /\ LoginsInv /\ FacingInv /\ [Next]_vars => FacingInv'
<1> SUFFICES ASSUME TypeInv, OrderInv, ShownInv, LoginsInv, FacingInv, [Next]_vars
             PROVE  FacingInv'
  OBVIOUS
<1> DEFINE Right == \A q \in online' : \A u \in DOMAIN tanks'[q] :
      u \in online' /\ logins'[u] = 1 /\ u # lastFrame'[q].id =>
        Faces(log', since'[q], read'[q], frames'[q], tanks'[q][u].dir, u)
<1> SUFFICES Right
  BY DEF FacingInv
<1>1. /\ read \in [Users -> Nat] /\ online \in SUBSET Users /\ tanks \in [Users -> Scene]
      /\ frames \in [Users -> Seq(Frame)] /\ logins \in [Users -> 0..2]
      /\ lastFrame \in [Users -> [step : 0..MaxSteps, id : Users \cup {NoUid}]]
      /\ log \in Seq(Message) /\ \A q \in Users : read[q] \in Nat /\ read[q] <= Len(log)
      /\ since \in [Users -> Nat] /\ \A q \in Users : since[q] \in Nat
      /\ \A q \in Users : \A u \in DOMAIN tanks[q] : u \in Users
  BY SceneIs DEF TypeInv, Types
<1>2. \A q \in online : \A u \in DOMAIN tanks[q] :
        u \in online /\ logins[u] = 1 /\ u # lastFrame[q].id =>
          Faces(log, since[q], read[q], frames[q], tanks[q][u].dir, u)
  BY DEF FacingInv
<1>3. ASSUME NEW m \in Message, log' = Append(log, m), NEW q \in online, NEW u \in DOMAIN tanks[q],
             u \in online, logins[u] = 1, u # lastFrame[q].id
      PROVE  Faces(log', since[q], read[q], frames[q], tanks[q][u].dir, u)
  <2>1. /\ Faces(log, since[q], read[q], frames[q], tanks[q][u].dir, u)
        /\ read[q] \in Nat /\ read[q] <= Len(log) /\ since[q] \in Nat
    BY <1>1, <1>2, <1>3
  <2> QED
    BY <1>3, <2>1, FacesGrows
<1>4. ASSUME NEW c \in Command \cup {NoCommand}, NEW l \in Users \cup {NoUid}, Step(c, l)
      PROVE  Right
  <2> DEFINE m == [type |-> "FRAME", frame |-> [step |-> step + 1, command |-> c, last |-> l]]
  <2>1. /\ log' = Append(log, m)
        /\ UNCHANGED <<logins, online, since, read, frames, tanks, lastFrame>>
    BY <1>4 DEF Step
  <2>2. m \in Message
    <3>1. step \in Nat
      BY Sizes DEF TypeInv, Types
    <3> QED
      BY <1>4, <3>1 DEF Message, Frame, Step
  <2> HIDE DEF m
  <2> QED
    BY <1>3, <2>1, <2>2
<1>5. ASSUME NEW p \in Users, Login(p)
      PROVE  Right
  <2> DEFINE m == [type |-> "ENTER", uid |-> p]
             e == [step |-> history[Len(history)].step, id |-> history[Len(history)].last]
  <2>1. /\ log' = Append(log, m) /\ read' = [read EXCEPT ![p] = Len(log')]
        /\ logins' = [logins EXCEPT ![p] = Lower(logins[p] + 1, 2)]
        /\ frames' = [frames EXCEPT ![p] = history]
        /\ tanks' = [tanks EXCEPT ![p] = [u \in online' |-> NewTank]]
        /\ online' = online \cup {p} /\ p \notin online
        /\ lastFrame' = lastFrame \/ lastFrame' = [lastFrame EXCEPT ![p] = e]
        /\ since' = [since EXCEPT ![p] = dropped]
    BY <1>5 DEF Login
  <2> HIDE DEF e
  <2>2. m \in Message /\ ~IsFrame(m)
    BY DEF Message, IsFrame
  <2> HIDE DEF m
  <2>3. AllOccur(log, dropped, history)
    BY DEF OrderInv
  <2>4. ASSUME NEW u \in DOMAIN tanks'[p]
        PROVE  Faces(log', since'[p], read'[p], frames'[p], tanks'[p][u].dir, u)
    <3>1. frames'[p] = history /\ tanks'[p] = [v \in online' |-> NewTank] /\ since'[p] = dropped
      BY <1>1, <2>1
    <3>2. tanks'[p][u].dir = "UP"
      BY <3>1, <2>4 DEF NewTank
    <3> DEFINE k == Len(log)
    <3>3. /\ k \in Nat /\ DOMAIN log = 1..k /\ DOMAIN log' = 1..(k + 1) /\ log'[k + 1] = m
          /\ 1..(k + 1) = 1..k \cup {k + 1} /\ \A i \in 1..k : log'[i] = log[i]
      BY <2>1, <2>2, LogGrows
    <3> HIDE DEF k
    <3>4. ASSUME NEW i \in DOMAIN log', i > dropped, LastMove(log', i, u)
          PROVE  Occurs(history, log'[i].frame)
      <4>1. IsFrame(log'[i])
        BY <3>4 DEF LastMove, IsMove, IsCommand
      <4>2. i \in 1..k
        BY <2>2, <3>3, <4>1
      <4> QED
        BY <2>3, <3>3, <3>4, <4>1, <4>2 DEF AllOccur
    <3> QED
      BY <3>1, <3>2, <3>4 DEF Faces
  <2>5. ASSUME NEW q \in online, NEW u \in DOMAIN tanks'[q], u \in online', logins'[u] = 1,
               u # lastFrame'[q].id
        PROVE  Faces(log', since'[q], read'[q], frames'[q], tanks'[q][u].dir, u)
    <3>1. /\ q # p /\ read'[q] = read[q] /\ frames'[q] = frames[q] /\ tanks'[q] = tanks[q]
          /\ lastFrame'[q] = lastFrame[q] /\ since'[q] = since[q] /\ q \in Users /\ u \in Users
      BY <1>1, <2>1
    <3>2. CASE u = p
      <4>1. logins[p] = 0
        <5>1. Lower(logins[p] + 1, 2) = 1 /\ logins[p] \in 0..2
          BY <1>1, <2>1, <2>5, <3>2
        <5> QED
          BY <5>1 DEF Lower
      <4>2. \A i \in DOMAIN log : ~IsAbout(log[i], p)
        BY <4>1 DEF LoginsInv
      <4>3. NoneAfter(log, read[q], p)
        <5>1. (read[q] + 1)..Len(log) \subseteq DOMAIN log
          BY <1>1, <3>1, InLog
        <5> QED
          BY <4>2, <5>1 DEF NoneAfter
      <4>4. p \notin DOMAIN tanks[q]
        BY <2>1, <4>3 DEF ShownInv
      <4> QED
        BY <2>5, <3>1, <3>2, <4>4
    <3>3. CASE u # p
      <4>1. u \in online /\ logins[u] = 1
        BY <1>1, <2>1, <2>5, <3>1, <3>3
      <4> QED
        BY <1>3, <2>1, <2>2, <2>5, <3>1, <4>1
    <3> QED
      BY <3>2, <3>3
  <2> QED
    BY <2>1, <2>4, <2>5
<1>6. ASSUME NEW p \in Users, Leave(p)
      PROVE  Right
  <2> DEFINE m == [type |-> "LEAVE", uid |-> p]
  <2>1. /\ log' = IF online' = {} THEN <<>> ELSE Append(log, m)
        /\ online' = online \ {p} /\ p \in online /\ logins' = logins
        /\ read' = [read EXCEPT ![p] = 0] /\ tanks' = [tanks EXCEPT ![p] = NoTanks]
        /\ frames' = [frames EXCEPT ![p] = <<>>]
        /\ lastFrame' = [lastFrame EXCEPT ![p] = NoFrame] /\ since' = [since EXCEPT ![p] = 0]
    BY <1>6 DEF Leave
  <2>2. m \in Message
    BY DEF Message
  <2> HIDE DEF m
  <2>3. ASSUME NEW q \in online'
        PROVE  /\ q \in online /\ read'[q] = read[q] /\ tanks'[q] = tanks[q]
               /\ frames'[q] = frames[q] /\ lastFrame'[q] = lastFrame[q]
               /\ log' = Append(log, m) /\ since'[q] = since[q]
    BY <1>1, <2>1, <2>3
  <2> QED
    BY <1>3, <2>1, <2>2, <2>3
<1>7. ASSUME NEW p \in Users, Receive(p)
      PROVE  Right
  <2> DEFINE n == read[p]
             m == log[n + 1]
  <2>1. /\ n \in Nat /\ n + 1 \in DOMAIN log /\ n + 1 <= Len(log)
        /\ log' = log /\ online' = online /\ p \in online /\ m \in Message
        /\ read' = [read EXCEPT ![p] = n + 1] /\ (~IsFrame(m) => m.uid \in Users)
        /\ (IsFrame(m) => m.frame \in Frame)
    BY <1>7, NextMessage
  <2>2. /\ IsFrame(m) => tanks' = tanks
                         /\ frames' = [frames EXCEPT ![p] = Append(frames[p], m.frame)]
        /\ ~IsFrame(m) => frames' = frames
        /\ m.type = "ENTER" => tanks' = [tanks EXCEPT ![p] = AddTank(tanks[p], m.uid)]
        /\ m.type = "LEAVE" => tanks' = [tanks EXCEPT ![p] = DeleteTank(tanks[p], m.uid)]
        /\ m.type \in {"FRAME", "ENTER", "LEAVE"}
        /\ UNCHANGED <<logins, since, lastFrame>>
    BY <1>7 DEF Receive, IsFrame, serverVars
  <2>3. ASSUME NEW q \in online, q # p
        PROVE  frames'[q] = frames[q] /\ tanks'[q] = tanks[q] /\ read'[q] = read[q]
    <3> HIDE DEF m, n
    <3> QED
      BY <1>1, <2>1, <2>2, <2>3 DEF IsFrame
  <2>4. ASSUME NEW i \in DOMAIN log, i > n, ~(i > n + 1)
        PROVE  i = n + 1
    <3>1. i \in Nat
      BY <1>1, InLog
    <3> HIDE DEF n
    <3> QED
      BY <2>1, <2>4, <3>1
  <2>5. read'[p] = n + 1
    BY <1>1, <2>1
  <2>6. ASSUME NEW u \in DOMAIN tanks[p], tanks'[p][u] = tanks[p][u], u \in online, logins[u] = 1,
               u # lastFrame[p].id
        PROVE  Faces(log, since[p], n + 1, frames'[p], tanks'[p][u].dir, u)
    <3>1. Faces(log, since[p], n, frames[p], tanks[p][u].dir, u)
      BY <1>2, <2>1, <2>6
    <3> HIDE DEF n
    <3>2. ASSUME NEW i \in DOMAIN log, i > since[p], LastMove(log, i, u)
          PROVE  tanks[p][u].dir = log[i].frame.command.op \/ i > n + 1
                 \/ Occurs(frames'[p], log[i].frame)
      <4>1. tanks[p][u].dir = log[i].frame.command.op \/ i > n \/ Occurs(frames[p], log[i].frame)
        BY <3>1, <3>2 DEF Faces
      <4>2. CASE IsFrame(m)
        <5> DEFINE f == m.frame
                   fs == frames[p]
        <5>1. frames'[p] = Append(fs, f) /\ f \in Frame /\ fs \in Seq(Frame)
          BY <1>1, <2>1, <2>2, <4>2
        <5> HIDE DEF f, fs
        <5>2. Occurs(frames'[p], log[i].frame) <=> (Occurs(fs, log[i].frame) \/ f = log[i].frame)
          <6>1. Occurs(Append(fs, f), log[i].frame)
                  <=> (Occurs(fs, log[i].frame) \/ f = log[i].frame)
            BY <5>1, OccursAppend
          <6> QED
            BY <5>1, <6>1
        <5> QED
          BY <2>4, <4>1, <5>2 DEF f, fs
      <4>3. CASE ~IsFrame(m)
        <5>1. i # n + 1
          BY <3>2, <4>3 DEF LastMove, IsMove, IsCommand
        <5>2. frames'[p] = frames[p]
          BY <2>2, <4>3
        <5> QED
          BY <2>4, <4>1, <5>1, <5>2
      <4> QED
        BY <4>2, <4>3
    <3> QED
      BY <2>6, <3>1, <3>2 DEF Faces
  <2>7. ASSUME NEW u \in DOMAIN tanks'[p], u \in online, logins[u] = 1, u # lastFrame[p].id
        PROVE  Faces(log, since[p], n + 1, frames'[p], tanks'[p][u].dir, u)
    <3>1. CASE IsFrame(m)
      BY <2>2, <2>6, <2>7, <3>1
    <3>2. CASE m.type = "ENTER"
      <4>1. /\ DOMAIN tanks'[p] = DOMAIN tanks[p] \cup {m.uid} /\ tanks'[p][m.uid] = NewTank
            /\ \A v \in DOMAIN tanks[p] : v # m.uid => tanks'[p][v] = tanks[p][v]
        <5>1. m.uid \in Users /\ tanks'[p] = AddTank(tanks[p], m.uid) /\ tanks[p] \in Scene
          <6> HIDE DEF m, n
          <6> QED
            BY <1>1, <2>1, <2>2, <3>2 DEF IsFrame
        <5> DEFINE x == m.uid
                   ts == tanks[p]
        <5> HIDE DEF x, ts
        <5>2. x \in Users /\ ts \in Scene /\ tanks'[p] = AddTank(ts, x)
          BY <5>1 DEF x, ts
        <5>3. /\ DOMAIN AddTank(ts, x) = DOMAIN ts \cup {x} /\ AddTank(ts, x)[x] = NewTank
              /\ \A v \in DOMAIN ts : v # x => AddTank(ts, x)[v] = ts[v]
          BY <5>2, AddDelete
        <5> QED
          BY <5>2, <5>3 DEF x, ts
      <4>2. CASE u # m.uid
        BY <2>6, <2>7, <4>1, <4>2
      <4>3. CASE u = m.uid
        <5>1. IsAbout(log[n + 1], u) /\ log[n + 1].type = "ENTER"
          BY <3>2, <4>3 DEF IsAbout
        <5>2. \A j \in DOMAIN log : IsCommand(log[j], u) => n + 1 < j
          BY <1>1, <2>1, <2>7, <5>1 DEF LoginsInv
        <5>3. tanks'[p][u].dir = "UP"
          BY <4>1, <4>3 DEF NewTank
        <5>4. \A i \in DOMAIN log : LastMove(log, i, u) => i > n + 1
          <6> TAKE i \in DOMAIN log
          <6>1. LastMove(log, i, u) => n + 1 < i
            BY <5>2 DEF LastMove, IsMove
          <6>2. n + 1 < i => i > n + 1
            OBVIOUS
          <6> QED
            BY <6>1, <6>2
        <5> QED
          BY <5>3, <5>4 DEF Faces
      <4> QED
        BY <4>2, <4>3
    <3>3. CASE m.type = "LEAVE"
      <4>1. u \in DOMAIN tanks[p] /\ tanks'[p][u] = tanks[p][u]
        <5>1. m.uid \in Users /\ tanks'[p] = DeleteTank(tanks[p], m.uid) /\ tanks[p] \in Scene
          <6> HIDE DEF m, n
          <6> QED
            BY <1>1, <2>1, <2>2, <3>3 DEF IsFrame
        <5>2. /\ DOMAIN DeleteTank(tanks[p], m.uid) = DOMAIN tanks[p] \ {m.uid}
              /\ \A v \in DOMAIN tanks[p] \ {m.uid} : DeleteTank(tanks[p], m.uid)[v] = tanks[p][v]
          BY <5>1, AddDelete
        <5> QED
          BY <2>7, <5>1, <5>2
      <4> QED
        BY <2>6, <2>7, <4>1
    <3> QED
      BY <2>2, <3>1, <3>2, <3>3 DEF IsFrame
  <2>8. ASSUME NEW q \in online, NEW u \in DOMAIN tanks'[q], u \in online, logins[u] = 1,
               u # lastFrame[q].id
        PROVE  Faces(log, since[q], read'[q], frames'[q], tanks'[q][u].dir, u)
    <3>1. CASE q = p
      BY <2>5, <2>7, <2>8, <3>1
    <3>2. CASE q # p
      <4>1. frames'[q] = frames[q] /\ tanks'[q] = tanks[q] /\ read'[q] = read[q]
        BY <2>3, <3>2
      <4>2. Faces(log, since[q], read[q], frames[q], tanks[q][u].dir, u)
        BY <1>2, <2>8, <4>1
      <4> QED
        BY <4>1, <4>2
    <3> QED
      BY <3>1, <3>2
  <2> QED
    BY <2>1, <2>2, <2>8
<1>8. ASSUME NEW p \in Users, NEW dt \in 0..MaxTick, Update(p, dt)
      PROVE  Right
  <2>1. UNCHANGED <<log, online, since, read, logins, lastFrame>>
    BY <1>8 DEF Update, serverVars
  <2>2. DOMAIN tanks'[p] = DOMAIN tanks[p] /\ \A q \in Users : q # p => tanks'[q] = tanks[q]
    BY <1>8, TickTanks
  <2>3. \A q \in Users : q # p => frames'[q] = frames[q]
    BY <1>1, <1>8 DEF Update
  <2>4. ASSUME NEW q \in online, NEW u \in DOMAIN tanks'[q], u \in online, logins[u] = 1,
               u # lastFrame[q].id
        PROVE  Faces(log, since[q], read[q], frames'[q], tanks'[q][u].dir, u)
    <3>1. CASE q = p
      <4>1. u \in DOMAIN tanks[p] /\ u # lastFrame[p].id
        BY <2>2, <2>4, <3>1
      <4>2. Faces(log, since[p], read[p], frames[p], tanks[p][u].dir, u)
        BY <1>2, <2>4, <3>1, <4>1
      <4>3. Faces(log, since[p], read[p], frames'[p], tanks'[p][u].dir, u)
        BY <1>8, <4>1, <4>2, FacesTick
      <4> QED
        BY <3>1, <4>3
    <3>2. CASE q # p
      <4>1. q \in Users /\ frames'[q] = frames[q] /\ tanks'[q] = tanks[q]
        BY <1>1, <2>2, <2>3, <3>2
      <4>2. Faces(log, since[q], read[q], frames[q], tanks[q][u].dir, u)
        BY <1>2, <2>4, <4>1
      <4> QED
        BY <4>1, <4>2
    <3> QED
      BY <3>1, <3>2
  <2> QED
    BY <2>1, <2>4
<1>9. CASE UNCHANGED vars
  BY <1>2, <1>9 DEF vars, serverVars
<1> HIDE DEF Right
<1> QED
  BY <1>4, <1>5, <1>6, <1>7, <1>8, <1>9 DEF Next

\* The invariants together, from the start on.
LEMMA FacingCorrect == Spec => [](TypeInv /\ OrderInv /\ ShownInv /\ LoginsInv /\ FacingInv)
<1>1. Init => OrderInv /\ ShownInv /\ LoginsInv /\ FacingInv
  <2> SUFFICES ASSUME Init PROVE OrderInv /\ ShownInv /\ LoginsInv /\ FacingInv
    OBVIOUS
  <2>1. log = <<>> /\ Len(log) = 0 /\ DOMAIN log = {} /\ 1..Len(log) = {} /\ online = {}
    BY DEF Init
  <2>2. history = <<>> /\ DOMAIN history = {}
    BY DEF Init
  <2>3. OrderInv
    BY <2>1, <2>2 DEF OrderInv, LogNumbered, AllOccur, Waits, Numbered, FromLog, LaterKept
  <2> QED
    BY <2>1, <2>3 DEF Init, ShownInv, LoginsInv, FacingInv
<1> QED
  BY <1>1, TypeInit, TypeStep, OrderStep, ShownStep, LoginsStep, FacingStep, PTL DEF Spec

\* Every log with a move of a user has a last one.
LEMMA LastMoveExists ==
  ASSUME NEW l \in Seq(Message), NEW u, NEW k \in DOMAIN l, IsMove(l[k], u)
  PROVE  \E i \in DOMAIN l : LastMove(l, i, u)
<1> DEFINE n == Len(l)
           T == {d \in Nat : \E i \in DOMAIN l : d = n - i /\ IsMove(l[i], u)}
<1>1. n \in Nat /\ DOMAIN l = 1..n
  BY InLog
<1> HIDE DEF n
<1>2. n - k \in T
  BY <1>1
<1>3. PICK d \in T : \A e \in T : d <= e
  BY <1>2, LeastElement
<1>4. PICK i \in 1..n : d = n - i /\ IsMove(l[i], u)
  BY <1>1, <1>3
<1>5. ASSUME NEW j \in (i + 1)..n
      PROVE  ~IsMove(l[j], u)
  <2> SUFFICES ASSUME IsMove(l[j], u) PROVE FALSE
    OBVIOUS
  <2>1. j \in 1..n /\ n - j \in Nat
    BY <1>1, <1>4
  <2>2. n - j \in T
    BY <1>1, <2>1
  <2>3. d <= n - j
    BY <1>3, <2>2
  <2> QED
    BY <1>1, <1>4, <2>3
<1> QED
  BY <1>1, <1>4, <1>5 DEF LastMove, n

\* Pages that have played everything show the users who are online, and each tank
\* faces the same way on all that were given the same frames, on one that joined late
\* and replayed the history included (the LOGIN handler of App.js, FrameMgr.Update):
\* the way of its last move since the server last dropped the history.
THEOREM PagesAgree == Spec => []PagesAgreeOnDirections
<1>1. TypeInv /\ ShownInv /\ FacingInv => PagesAgreeOnDirections
  <2> SUFFICES ASSUME TypeInv, ShownInv, FacingInv, NEW p \in Users, NEW q \in Users,
                      Idle(p), Idle(q)
               PROVE  /\ DOMAIN tanks[p] = online
                      /\ since[p] = since[q] =>
                           \A u \in online :
                             logins[u] = 1 /\ u \notin {lastFrame[p].id, lastFrame[q].id} =>
                               tanks[p][u].dir = tanks[q][u].dir
    BY DEF PagesAgreeOnDirections
  <2>1. /\ log \in Seq(Message) /\ Len(log) \in Nat /\ DOMAIN log = 1..Len(log)
        /\ online \in SUBSET Users /\ tanks \in [Users -> Scene]
    BY InLog DEF TypeInv, Types
  <2>2. ASSUME NEW r \in Users, Idle(r)
        PROVE  DOMAIN tanks[r] = online
    <3>1. r \in online /\ read[r] = Len(log)
      BY <2>2 DEF Idle
    <3>2. (read[r] + 1)..Len(log) = {}
      BY <2>1, <3>1
    <3>3. \A u \in Users : u \in DOMAIN tanks[r] <=> u \in online
      BY <3>1, <3>2 DEF ShownInv, NoneAfter
    <3>4. DOMAIN tanks[r] \in SUBSET Users
      BY <2>1, SceneIs
    <3> QED
      BY <2>1, <3>3, <3>4
  <2>3. ASSUME since[p] = since[q], NEW u \in online, logins[u] = 1,
               u \notin {lastFrame[p].id, lastFrame[q].id}
        PROVE  tanks[p][u].dir = tanks[q][u].dir
    <3> DEFINE s == since[p]
    <3>1. ASSUME NEW r \in Users, Idle(r), u # lastFrame[r].id, since[r] = s
          PROVE  /\ (\A i \in DOMAIN log : i > s => ~IsMove(log[i], u)) => tanks[r][u].dir = "UP"
                 /\ \A i \in DOMAIN log :
                      i > s /\ LastMove(log, i, u) => tanks[r][u].dir = log[i].frame.command.op
      <4>1. /\ r \in online /\ read[r] = Len(log) /\ frames[r] = <<>> /\ DOMAIN frames[r] = {}
            /\ u \in DOMAIN tanks[r]
        BY <2>2, <3>1 DEF Idle
      <4>2. Faces(log, s, read[r], frames[r], tanks[r][u].dir, u)
        BY <2>3, <3>1, <4>1 DEF FacingInv
      <4>3. \A i \in DOMAIN log : ~(i > read[r])
        BY <2>1, <4>1
      <4>4. \A f : ~Occurs(frames[r], f)
        BY <4>1 DEF Occurs
      <4> QED
        BY <4>2, <4>3, <4>4 DEF Faces
    <3>2. since[p] = s /\ since[q] = s /\ s \in Nat
      BY <2>3 DEF TypeInv, Types
    <3> HIDE DEF s
    <3>3. CASE \A i \in DOMAIN log : i > s => ~IsMove(log[i], u)
      BY <2>3, <3>1, <3>2, <3>3
    <3>4. CASE \E i \in DOMAIN log : i > s /\ IsMove(log[i], u)
      <4>1. PICK k \in DOMAIN log : k > s /\ IsMove(log[k], u)
        BY <3>4
      <4>2. PICK i \in DOMAIN log : LastMove(log, i, u)
        BY <2>1, <4>1, LastMoveExists
      <4>3. i > s
        <5> DEFINE n == Len(log)
        <5>1. n \in Nat /\ i \in 1..n /\ k \in 1..n
          BY <2>1
        <5>2. ~(k \in (i + 1)..n)
          BY <4>1, <4>2 DEF LastMove
        <5> HIDE DEF n
        <5> QED
          BY <3>2, <4>1, <5>1, <5>2
      <4> QED
        BY <2>3, <3>1, <3>2, <4>2, <4>3
    <3> QED
      BY <3>3, <3>4
  <2> QED
    BY <2>2, <2>3
<1> QED
  BY <1>1, FacingCorrect, PTL

=============================================================================
