----------------------- MODULE LockstepServer_proofs -----------------------
(***************************************************************************)
(* Theorems about LockstepServer, for any sets of connections, users and   *)
(* operations and any bounds.                                              *)
(***************************************************************************)
EXTENDS LockstepServer, FiniteSetTheorems, SequenceTheorems, TLAPS

USE ConstantsAssumption

\* What a connection that is not, or not yet, in the game holds: nothing.
SlotsClean ==
  /\ clients \cap closing = {}
  /\ \A c \in Conns \ (clients \cup closing) : uid[c] = NoUid
  /\ \A c \in Conns : c \notin clients \/ ~IsReady(c) => received[c] = {}

\* The part of the inductive invariant that is about the game.
GameInv ==
  /\ IsFiniteSet(readyClient)
  /\ StartIffTwoReady
  /\ HistoryContiguous
  /\ NextGameStartsFresh

-----------------------------------------------------------------------------
(* Type correctness *)

\* The command left of a step is a command of some connection, or none.
LEMMA LastCommandType ==
  ASSUME stepCommands \in Seq(Command)
  PROVE  LastCommand \in Command \cup {NoCommand}
<1>1. CASE stepCommands = <<>>
  BY <1>1 DEF LastCommand
<1>2. CASE stepCommands # <<>>
  <2>1. Len(stepCommands) \in 1..Len(stepCommands)
    BY <1>2
  <2>2. QED
    BY <1>2, <2>1 DEF LastCommand
<1>3. QED
  BY <1>1, <1>2

\* The frame of a step is a frame.
LEMMA StepFrameType ==
  ASSUME stepCommands \in Seq(Command), NEW n \in Nat
  PROVE  StepFrame(n) \in Frame
BY LastCommandType DEF StepFrame, Frame

\* The handlers keep the types (TypeOK) of every container of the server.
LEMMA TypeStep == TypeOK /\ [Next]_vars => TypeOK'
<1> SUFFICES ASSUME TypeOK, [Next]_vars PROVE TypeOK'
  OBVIOUS
<1> USE DEF TypeOK
<1>1. ASSUME NEW c \in Conns, Connect(c) PROVE TypeOK'
  BY <1>1 DEF Connect, gameVars
<1>2. ASSUME NEW c \in Conns, Disconnect(c) PROVE TypeOK'
  <2>1. /\ readyClient' \subseteq Uids
        /\ gameStatus' \in {"WAIT", "START"}
        /\ history' \in Seq(Frame)
        /\ stepCommands' \in Seq(Command)
        /\ stepCount' \in Nat
    BY <1>2 DEF Disconnect, OnClientExit, StatusAfterExit, HistoryAfterExit
  <2>2. roster' \in [Conns -> SUBSET Uids]
    BY <1>2 DEF Disconnect, TanksAfterLeave
  <2>3. QED
    BY <1>2, <2>1, <2>2 DEF Disconnect
<1>3. ASSUME NEW c \in Conns, LateEvent(c) PROVE TypeOK'
  <2>1. /\ readyClient' \subseteq Uids
        /\ gameStatus' \in {"WAIT", "START"}
        /\ history' \in Seq(Frame)
        /\ stepCommands' \in Seq(Command)
        /\ stepCount' \in Nat
    BY <1>3 DEF LateEvent, OnClientExit, StatusAfterExit, HistoryAfterExit
  <2>2. roster' \in [Conns -> SUBSET Uids]
    BY <1>3 DEF LateEvent, TanksAfterLeave
  <2>3. QED
    BY <1>3, <2>1, <2>2 DEF LateEvent
<1>4. ASSUME NEW c \in Conns, NEW u \in Uids, Login(c, u) PROVE TypeOK'
  <2>1. readyClient' \subseteq Uids /\ gameStatus' \in {"WAIT", "START"}
    BY <1>4 DEF Login, OnClientReady
  <2>2. StepHistory \subseteq Frame
    BY DEF StepHistory
  <2>3. UidList(c, u) \subseteq Uids
    BY DEF UidList, IsReady
  <2>4. roster' \in [Conns -> SUBSET Uids]
    BY <1>4, <2>3 DEF Login, TanksAfterLogin
  <2>5. received' \in [Conns -> SUBSET Frame]
    BY <1>4, <2>2 DEF Login
  <2>6. QED
    BY <1>4, <2>1, <2>4, <2>5 DEF Login
<1>5. ASSUME NEW c \in Conns, NEW op \in Ops, PushCommand(c, op) PROVE TypeOK'
  <2>1. [id |-> uid[c], op |-> op] \in Command
    BY DEF Command
  <2>2. QED
    BY <1>5, <2>1 DEF PushCommand, connVars
<1>6. ASSUME Update PROVE TypeOK'
  <2>1. StepFrame(stepCount + 1) \in Frame
    BY StepFrameType
  <2>2. QED
    BY <1>6, <2>1 DEF Update, connVars
<1>7. CASE UNCHANGED vars
  BY <1>7 DEF vars
<1>8. QED
  BY <1>1, <1>2, <1>3, <1>4, <1>5, <1>6, <1>7 DEF Next

\* Every state of the server is well typed.
THEOREM TypeCorrect == Spec => []TypeOK
<1>1. Init => TypeOK
  BY DEF Init, TypeOK
<1>2. QED
  BY <1>1, TypeStep, PTL DEF Spec

-----------------------------------------------------------------------------
(* The game: its status, its ready users and its history *)

\* onClientExit keeps the status, the ready users and the history in line.
LEMMA ExitKeepsGame ==
  ASSUME TypeOK, GameInv, NEW u, OnClientExit(u)
  PROVE  GameInv'
<1>1. IsFiniteSet(readyClient') /\ Cardinality(readyClient') \in Nat
  <2>1. readyClient' \subseteq readyClient
    BY DEF OnClientExit
  <2>2. QED
    BY <2>1, FS_Subset, FS_CardinalityType DEF GameInv
<1>2. Cardinality(readyClient') <= Cardinality(readyClient)
  BY FS_Subset DEF OnClientExit, GameInv
<1>3. Cardinality(readyClient) \in Nat
  BY FS_CardinalityType DEF GameInv
<1>4. StartIffTwoReady'
  BY <1>1, <1>2, <1>3
  DEF OnClientExit, StatusAfterExit, GameInv, StartIffTwoReady, TypeOK
<1>5. HistoryContiguous'
  BY DEF OnClientExit, HistoryAfterExit, GameInv, HistoryContiguous, TypeOK
<1>6. NextGameStartsFresh'
  BY DEF OnClientExit, HistoryAfterExit, GameInv, NextGameStartsFresh
<1>7. QED
  BY <1>1, <1>4, <1>5, <1>6 DEF GameInv

\* onClientReady keeps the status in line with the ready users.
LEMMA ReadyKeepsGame ==
  ASSUME TypeOK, GameInv, NEW u \in Uids, OnClientReady(u),
         UNCHANGED <<history, stepCount>>
  PROVE  GameInv'
<1>1. CASE gameStatus = "START"
  BY <1>1 DEF OnClientReady, GameInv, StartIffTwoReady, HistoryContiguous,
              NextGameStartsFresh
<1>2. CASE gameStatus # "START"
  <2>1. readyClient' = readyClient \cup {u}
    BY <1>2 DEF OnClientReady
  <2>2. IsFiniteSet(readyClient')
    BY <2>1, FS_AddElement DEF GameInv
  <2>3. StartIffTwoReady'
    BY <1>2 DEF OnClientReady, StartIffTwoReady, TypeOK
  <2>4. HistoryContiguous'
    BY DEF GameInv, HistoryContiguous
  <2>5. NextGameStartsFresh'
    BY <2>1 DEF NextGameStartsFresh
  <2>6. QED
    BY <2>2, <2>3, <2>4, <2>5 DEF GameInv
<1>3. QED
  BY <1>1, <1>2

\* A step extends the history by the next step number.
LEMMA UpdateKeepsGame ==
  ASSUME TypeOK, GameInv, Update
  PROVE  GameInv'
<1>1. StepFrame(stepCount + 1) \in Frame /\ StepFrame(stepCount + 1).step = stepCount + 1
  BY StepFrameType DEF TypeOK, StepFrame
<1>2. /\ Len(history') = Len(history) + 1
      /\ \A i \in DOMAIN history : history'[i] = history[i]
      /\ history'[Len(history) + 1] = StepFrame(stepCount + 1)
      /\ DOMAIN history' = 1..(Len(history) + 1)
      /\ DOMAIN history = 1..Len(history)
  BY <1>1 DEF Update, TypeOK
<1>3. HistoryContiguous'
  <2> SUFFICES ASSUME NEW i \in 1..(Len(history) + 1)
               PROVE  history'[i].step + Len(history') = stepCount' + i
    BY <1>2 DEF HistoryContiguous
  <2>0. Len(history) \in Nat /\ stepCount \in Nat /\ stepCount' = stepCount + 1
    BY DEF TypeOK, Update
  <2>1. CASE i = Len(history) + 1
    BY <1>1, <1>2, <2>0, <2>1
  <2>2. CASE i \in 1..Len(history)
    <3>1. history[i].step + Len(history) = stepCount + i
      <4>1. i \in DOMAIN history
        BY <1>2, <2>2
      <4>2. QED
        BY <4>1 DEF GameInv, HistoryContiguous
    <3>2. history[i].step \in Nat
      <4>1. history[i] \in Frame
        BY <2>2 DEF TypeOK
      <4>2. QED
        BY <4>1 DEF Frame
    <3>3. history'[i] = history[i]
      BY <1>2, <2>2
    <3>4. QED
      BY <1>2, <2>0, <2>2, <3>1, <3>2, <3>3, SMTT(60)
  <2>3. QED
    BY <2>0, <2>1, <2>2
<1>4. UNCHANGED <<readyClient, gameStatus>> /\ gameStatus = "START"
  BY DEF Update
<1>5. readyClient # {}
  BY <1>4, FS_EmptySet DEF GameInv, StartIffTwoReady
<1>6. QED
  BY <1>3, <1>4, <1>5 DEF GameInv, StartIffTwoReady, NextGameStartsFresh

\* Every step of the server keeps the invariant of the game.
LEMMA GameStep == TypeOK /\ GameInv /\ [Next]_vars => GameInv'
<1> SUFFICES ASSUME TypeOK, GameInv, [Next]_vars PROVE GameInv'
  OBVIOUS
<1>0. UNCHANGED gameVars => GameInv'
  BY DEF gameVars, GameInv, StartIffTwoReady, HistoryContiguous, NextGameStartsFresh
<1>1. ASSUME NEW c \in Conns, Connect(c) PROVE GameInv'
  BY <1>0, <1>1 DEF Connect
<1>2. ASSUME NEW c \in Conns, Disconnect(c) PROVE GameInv'
  BY <1>2, ExitKeepsGame DEF Disconnect
<1>3. ASSUME NEW c \in Conns, LateEvent(c) PROVE GameInv'
  BY <1>3, ExitKeepsGame DEF LateEvent
<1>4. ASSUME NEW c \in Conns, NEW u \in Uids, Login(c, u) PROVE GameInv'
  BY <1>4, ReadyKeepsGame DEF Login
<1>5. ASSUME NEW c \in Conns, NEW op \in Ops, PushCommand(c, op) PROVE GameInv'
  BY <1>5 DEF PushCommand, GameInv, StartIffTwoReady, HistoryContiguous,
              NextGameStartsFresh
<1>6. ASSUME Update PROVE GameInv'
  BY <1>6, UpdateKeepsGame
<1>7. CASE UNCHANGED vars
  BY <1>0, <1>7 DEF vars, gameVars
<1>8. QED
  BY <1>1, <1>2, <1>3, <1>4, <1>5, <1>6, <1>7 DEF Next

\* The game is started exactly while two users are recorded as ready, its
\* history is contiguous and ends at the current step, and an empty game has no
\* history: onClientReady, onClientExit and stepUpdate agree, in any order.
THEOREM GameCorrect ==
  Spec => [](StartIffTwoReady /\ HistoryContiguous /\ NextGameStartsFresh)
<1>1. Init => GameInv
  BY FS_EmptySet DEF Init, GameInv, StartIffTwoReady, HistoryContiguous,
                     NextGameStartsFresh
<1>2. GameInv => StartIffTwoReady /\ HistoryContiguous /\ NextGameStartsFresh
  BY DEF GameInv
<1>3. QED
  BY <1>1, <1>2, TypeCorrect, GameStep, PTL DEF Spec

-----------------------------------------------------------------------------
(* The pages: the frames they hold *)

\* Connections are cleaned when nothing of them is left, and only a logged-in
\* one is ever sent a frame.
LEMMA SlotsStep == TypeOK /\ SlotsClean /\ [Next]_vars => SlotsClean'
<1> SUFFICES ASSUME TypeOK, SlotsClean, [Next]_vars PROVE SlotsClean'
  OBVIOUS
<1> USE DEF SlotsClean, IsReady, TypeOK
<1>1. ASSUME NEW c \in Conns, Connect(c) PROVE SlotsClean'
  BY <1>1 DEF Connect
<1>2. ASSUME NEW c \in Conns, Disconnect(c) PROVE SlotsClean'
  BY <1>2 DEF Disconnect
<1>3. ASSUME NEW c \in Conns, LateEvent(c) PROVE SlotsClean'
  BY <1>3 DEF LateEvent
<1>4. ASSUME NEW c \in Conns, NEW u \in Uids, Login(c, u) PROVE SlotsClean'
  BY <1>4 DEF Login
<1>5. ASSUME NEW c \in Conns, NEW op \in Ops, PushCommand(c, op) PROVE SlotsClean'
  BY <1>5 DEF PushCommand, connVars
<1>6. ASSUME Update PROVE SlotsClean'
  BY <1>6 DEF Update, connVars, FrameReceivers
<1>7. CASE UNCHANGED vars
  BY <1>7 DEF vars
<1>8. QED
  BY <1>1, <1>2, <1>3, <1>4, <1>5, <1>6, <1>7 DEF Next

\* The part of the inductive invariant that is about frames.
PagesInv == SlotsClean /\ NoStepMissed /\ StepAgreement

\* Nobody, neither a page nor the history, holds a step of the future.
LEMMA HeldSteps ==
  ASSUME TypeOK, GameInv, NoStepMissed
  PROVE  /\ \A i \in DOMAIN history : history[i].step \in Nat
                                      /\ history[i].step <= stepCount
         /\ \A c \in clients : \A f \in received[c] : f.step \in Nat
                                      /\ f.step <= stepCount
<1>1. ASSUME NEW i \in DOMAIN history
      PROVE  history[i].step \in Nat /\ history[i].step <= stepCount
  <2>1. history[i] \in Frame /\ i \in 1..Len(history)
    BY DEF TypeOK
  <2>2. history[i].step \in Nat
    BY <2>1 DEF Frame
  <2>3. history[i].step + Len(history) = stepCount + i
    BY DEF GameInv, HistoryContiguous
  <2>4. Len(history) \in Nat /\ stepCount \in Nat
    BY DEF TypeOK
  <2>5. QED
    BY <2>1, <2>2, <2>3, <2>4
<1>2. ASSUME NEW c \in clients, NEW f \in received[c]
      PROVE  f.step \in Nat /\ f.step <= stepCount
  <2>1. f \in Frame
    BY DEF TypeOK
  <2>2. QED
    BY <2>1 DEF Frame, NoStepMissed
<1>3. QED
  BY <1>1, <1>2

\* Neighbours in a contiguous history have neighbouring step numbers.
LEMMA StepSuccessor ==
  \A a, b, l, s, i \in Nat :
    a + l = s + i /\ b + l = s + (i + 1) => b = a + 1
OBVIOUS

\* A login gives a page the history, which ends at the current step.
LEMMA LoginKeepsPages ==
  ASSUME TypeOK, GameInv, PagesInv, NEW c \in Conns, NEW u \in Uids, Login(c, u)
  PROVE  NoStepMissed' /\ StepAgreement'
<1> DEFINE past == {history[i] : i \in DOMAIN history}
<1>1. StepHistory \subseteq past
  BY DEF StepHistory
<1>2. /\ clients' = clients /\ stepCount' = stepCount /\ history' = history
      /\ \A d \in clients : received'[d] = IF d = c THEN received[c] \cup StepHistory
                                           ELSE received[d]
  BY DEF Login, TypeOK
<1>3. ASSUME NEW f \in StepHistory
      PROVE  /\ f.step <= stepCount
             /\ f.step < stepCount => \E g \in StepHistory : g.step = f.step + 1
  <2>1. PICK i \in DOMAIN history : f = history[i]
    BY <1>1
  <2>2. Len(history) \in Nat /\ stepCount \in Nat /\ i \in 1..Len(history)
        /\ i \in Nat
    BY DEF TypeOK
  <2>3. f.step \in Nat /\ f.step <= stepCount
    BY <2>1, HeldSteps DEF PagesInv
  <2>4. f.step + Len(history) = stepCount + i
    BY <2>1 DEF GameInv, HistoryContiguous
  <2>5. ASSUME f.step < stepCount
        PROVE  \E g \in StepHistory : g.step = f.step + 1
    <3>1. i + 1 \in 1..Len(history)
      BY <2>2, <2>3, <2>4, <2>5
    <3>2. i + 1 \in DOMAIN history
      BY <3>1 DEF TypeOK
    <3>3. history[i + 1].step \in Nat
      BY <3>2, HeldSteps DEF PagesInv
    <3>4. history[i + 1].step + Len(history) = stepCount + (i + 1)
      BY <3>2 DEF GameInv, HistoryContiguous
    <3>5. history[i + 1].step = f.step + 1
      BY <2>2, <2>3, <2>4, <3>3, <3>4, StepSuccessor, SMTT(60)
    <3>6. StepHistory = past
      BY DEF StepHistory
    <3>7. QED
      BY <3>2, <3>5, <3>6
  <2>6. QED
    BY <2>3, <2>5
<1>4. NoStepMissed'
  <2> SUFFICES ASSUME NEW d \in clients, NEW f \in received'[d]
               PROVE  /\ f.step <= stepCount
                      /\ f.step < stepCount =>
                           \E g \in received'[d] : g.step = f.step + 1
    BY <1>2 DEF NoStepMissed
  <2>1. CASE f \in received[d]
    BY <1>2, <2>1 DEF PagesInv, NoStepMissed
  <2>2. CASE f \in StepHistory /\ d = c
    BY <1>2, <1>3, <2>2
  <2>3. QED
    BY <1>2, <2>1, <2>2
<1>5. StepAgreement'
  <2>1. past' \cup UNION {received'[d] : d \in clients'}
          \subseteq past \cup UNION {received[d] : d \in clients}
    BY <1>1, <1>2
  <2>2. QED
    BY <2>1 DEF PagesInv, StepAgreement
<1>6. QED
  BY <1>4, <1>5

\* A tick gives every logged-in page the next step.
LEMMA UpdateKeepsPages ==
  ASSUME TypeOK, GameInv, PagesInv, Update
  PROVE  NoStepMissed' /\ StepAgreement'
<1> DEFINE F == StepFrame(stepCount + 1)
<1>1. F \in Frame /\ F.step = stepCount + 1
  BY StepFrameType DEF TypeOK, StepFrame
<1>2. /\ clients' = clients /\ stepCount' = stepCount + 1 /\ stepCount \in Nat
      /\ \A c \in clients : received'[c] = IF IsReady(c) THEN received[c] \cup {F}
                                           ELSE received[c]
  BY DEF Update, TypeOK, connVars, FrameReceivers
<1>3. {history'[i] : i \in DOMAIN history'} \subseteq
        {history[i] : i \in DOMAIN history} \cup {F}
  BY <1>1 DEF Update, TypeOK
<1> HIDE DEF F
<1>4. NoStepMissed'
  <2> SUFFICES ASSUME NEW c \in clients, NEW f \in received'[c]
               PROVE  /\ f.step <= stepCount'
                      /\ f.step < stepCount' =>
                           \E g \in received'[c] : g.step = f.step + 1
    BY <1>2 DEF NoStepMissed
  <2>1. IsReady(c)
    BY <1>2 DEF PagesInv, SlotsClean, TypeOK
  <2>2. CASE f = F
    BY <1>1, <1>2, <2>2
  <2>3. CASE f \in received[c]
    <3>1. f.step \in Nat /\ f.step <= stepCount
      BY <2>3, HeldSteps DEF PagesInv
    <3>2. received'[c] = received[c] \cup {F}
      BY <1>2, <2>1
    <3>3. f.step <= stepCount'
      BY <1>2, <3>1
    <3>4. \E g \in received'[c] : g.step = f.step + 1
      <4>1. CASE f.step = stepCount
        BY <1>1, <3>2, <4>1
      <4>2. CASE f.step < stepCount
        BY <3>2, <2>3, <4>2 DEF PagesInv, NoStepMissed
      <4>3. QED
        BY <1>2, <3>1, <4>1, <4>2
    <3>5. QED
      BY <3>3, <3>4
  <2>4. QED
    BY <1>2, <2>2, <2>3
<1>5. StepAgreement'
  <2> DEFINE held == {history[i] : i \in DOMAIN history}
                       \cup UNION {received[c] : c \in clients}
  <2>1. \A f \in held : f.step \in Nat /\ f.step <= stepCount
    BY HeldSteps DEF PagesInv
  <2>2. \A f, g \in held : f.step = g.step => f = g
    BY DEF PagesInv, StepAgreement
  <2>3. held' \subseteq held \cup {F}
    <3>1. \A c \in clients : received'[c] \subseteq received[c] \cup {F}
      BY <1>2
    <3>2. ASSUME NEW f \in UNION {received'[c] : c \in clients'}
          PROVE  f \in held \cup {F}
      <4>1. PICK c \in clients : f \in received'[c]
        BY <1>2
      <4>2. QED
        BY <3>1, <4>1
    <3>3. {history'[i] : i \in DOMAIN history'} \subseteq held \cup {F}
      BY <1>3
    <3>4. QED
      BY <3>2, <3>3
  <2> HIDE DEF held
  <2>4. \A f, g \in held' : f.step = g.step => f = g
    BY <1>1, <1>2, <2>1, <2>2, <2>3
  <2>5. QED
    BY <2>4 DEF StepAgreement, held
<1>6. QED
  BY <1>4, <1>5

\* When a client leaves, what the others hold is untouched.
LEMMA ExitKeepsPages ==
  ASSUME TypeOK, PagesInv, NEW u, OnClientExit(u),
         clients' \subseteq clients,
         \A d \in clients' : received'[d] = received[d]
  PROVE  NoStepMissed' /\ StepAgreement'
<1>1. stepCount' = stepCount
  BY DEF OnClientExit
<1>2. NoStepMissed'
  BY <1>1 DEF PagesInv, NoStepMissed
<1>3. {history'[i] : i \in DOMAIN history'}
        \cup UNION {received'[d] : d \in clients'}
      \subseteq {history[i] : i \in DOMAIN history}
        \cup UNION {received[d] : d \in clients}
  BY DEF OnClientExit, HistoryAfterExit
<1>4. StepAgreement'
  BY <1>3 DEF PagesInv, StepAgreement
<1>5. QED
  BY <1>2, <1>4

\* Every step of the server keeps the invariant of the pages.
LEMMA PagesStep ==
  TypeOK /\ GameInv /\ PagesInv /\ [Next]_vars => PagesInv'
<1> SUFFICES ASSUME TypeOK, GameInv, PagesInv, [Next]_vars
             PROVE  NoStepMissed' /\ StepAgreement'
  BY SlotsStep DEF PagesInv
<1>1. ASSUME NEW c \in Conns, Connect(c) PROVE NoStepMissed' /\ StepAgreement'
  <2>1. received[c] = {}
    BY <1>1 DEF Connect, PagesInv, SlotsClean
  <2>2. /\ clients' = clients \cup {c}
        /\ UNCHANGED <<stepCount, history, received>>
    BY <1>1 DEF Connect, gameVars
  <2>3. UNION {received'[d] : d \in clients'} = UNION {received[d] : d \in clients}
    BY <2>1, <2>2
  <2>4. QED
    BY <2>1, <2>2, <2>3 DEF PagesInv, NoStepMissed, StepAgreement
<1>2. ASSUME NEW c \in Conns, Disconnect(c) PROVE NoStepMissed' /\ StepAgreement'
  <2>1. OnClientExit(uid[c]) /\ clients' \subseteq clients
        /\ \A d \in clients' : received'[d] = received[d]
    BY <1>2 DEF Disconnect, TypeOK
  <2>2. QED
    BY <2>1, ExitKeepsPages
<1>3. ASSUME NEW c \in Conns, LateEvent(c) PROVE NoStepMissed' /\ StepAgreement'
  BY <1>3, ExitKeepsPages DEF LateEvent
<1>4. ASSUME NEW c \in Conns, NEW u \in Uids, Login(c, u)
      PROVE  NoStepMissed' /\ StepAgreement'
  BY <1>4, LoginKeepsPages
<1>5. ASSUME NEW c \in Conns, NEW op \in Ops, PushCommand(c, op)
      PROVE  NoStepMissed' /\ StepAgreement'
  BY <1>5 DEF PushCommand, connVars, PagesInv, NoStepMissed, StepAgreement
<1>6. ASSUME Update PROVE NoStepMissed' /\ StepAgreement'
  BY <1>6, UpdateKeepsPages
<1>7. CASE UNCHANGED vars
  BY <1>7 DEF vars, PagesInv, NoStepMissed, StepAgreement
<1>8. QED
  BY <1>1, <1>2, <1>3, <1>4, <1>5, <1>6, <1>7 DEF Next

\* A page never misses a step, and a step is the same frame on every page and
\* in the history, for any order of connections, logins, operations and ticks.
THEOREM PagesCorrect == Spec => [](NoStepMissed /\ StepAgreement)
<1>1. Init => GameInv /\ PagesInv
  BY FS_EmptySet DEF Init, GameInv, StartIffTwoReady, HistoryContiguous,
     NextGameStartsFresh, PagesInv, SlotsClean, NoStepMissed, StepAgreement
<1>2. PagesInv => NoStepMissed /\ StepAgreement
  BY DEF PagesInv
<1>3. QED
  BY <1>1, <1>2, TypeCorrect, GameStep, PagesStep, PTL DEF Spec

-----------------------------------------------------------------------------
(* The pages: the tanks they show *)

RosterInv == OwnTankKept /\ ReadyUsersVisible

\* A leaving user takes only its own tank with it, and only from other users.
LEMMA ExitKeepsRoster ==
  ASSUME TypeOK, RosterInv, NEW u, OnClientExit(u), clients' \subseteq clients,
         \A d \in clients' : uid'[d] = uid[d] /\ roster'[d] = TanksAfterLeave(u)[d]
  PROVE  RosterInv'
<1>1. readyClient' = readyClient \ {u}
  BY DEF OnClientExit
<1>2. \A d \in clients' : roster'[d] = IF uid[d] # u THEN roster[d] \ {u} ELSE roster[d]
  BY DEF TanksAfterLeave, TypeOK
<1>3. OwnTankKept'
  BY <1>2 DEF RosterInv, OwnTankKept, IsReady
<1>4. ReadyUsersVisible'
  BY <1>1, <1>2 DEF RosterInv, ReadyUsersVisible, IsReady
<1>5. QED
  BY <1>3, <1>4 DEF RosterInv

\* The LOGIN response and the ENTER message show every page the tanks it lacks.
LEMMA LoginKeepsRoster ==
  ASSUME TypeOK, RosterInv, NEW c \in Conns, NEW u \in Uids, Login(c, u)
  PROVE  RosterInv'
<1>1. /\ c \in clients /\ clients' = clients /\ clients \subseteq Conns
      /\ uid' = [uid EXCEPT ![c] = u]
      /\ uid'[c] = u
      /\ \A d \in clients : d # c => uid'[d] = uid[d]
  BY DEF Login, TypeOK
<1>2. readyClient' \subseteq readyClient \cup {u}
  BY DEF Login, OnClientReady
<1>3. /\ roster'[c] = roster[c] \cup {u} \cup UidList(c, u)
      /\ \A d \in clients : d # c =>
           roster'[d] = IF IsReady(d) /\ uid[d] # u THEN roster[d] \cup {u}
                        ELSE roster[d]
  BY <1>1 DEF Login, TanksAfterLogin
<1>4. \A d \in clients : d # c /\ IsReady(d) => u \in roster'[d]
  BY <1>3 DEF RosterInv, OwnTankKept
<1>5. \A d \in clients : roster[d] \subseteq roster'[d]
  BY <1>1, <1>3
<1>6. \A d \in clients : d # c /\ IsReady(d) => uid[d] \in roster'[c]
  BY <1>3 DEF UidList
<1>7. OwnTankKept'
  BY <1>1, <1>3, <1>5 DEF RosterInv, OwnTankKept, IsReady
<1>8. ReadyUsersVisible'
  <2> SUFFICES ASSUME NEW e \in clients, NEW d \in clients, IsReady(e)', IsReady(d)',
                      uid'[d] \in readyClient'
               PROVE  uid'[d] \in roster'[e]
    BY <1>1 DEF ReadyUsersVisible
  <2>1. CASE e = c
    BY <1>1, <1>3, <1>6, <2>1 DEF IsReady
  <2>2. CASE e # c /\ uid'[d] = u
    BY <1>1, <1>4, <2>2 DEF IsReady
  <2>3. CASE e # c /\ uid'[d] # u
    <3>1. d # c /\ uid'[d] = uid[d] /\ IsReady(d) /\ IsReady(e)
          /\ uid[d] \in readyClient
      BY <1>1, <1>2, <2>3 DEF IsReady
    <3>2. QED
      BY <1>5, <3>1 DEF RosterInv, ReadyUsersVisible
  <2>4. QED
    BY <2>1, <2>2, <2>3
<1>9. QED
  BY <1>7, <1>8 DEF RosterInv

\* Every step of the server keeps the tanks of the pages.
LEMMA RosterStep == TypeOK /\ SlotsClean /\ RosterInv /\ [Next]_vars => RosterInv'
<1> SUFFICES ASSUME TypeOK, SlotsClean, RosterInv, [Next]_vars PROVE RosterInv'
  OBVIOUS
<1>0. UNCHANGED <<clients, uid, roster, readyClient>> => RosterInv'
  BY DEF RosterInv, OwnTankKept, ReadyUsersVisible, IsReady
<1>1. ASSUME NEW c \in Conns, Connect(c) PROVE RosterInv'
  <2>1. uid[c] = NoUid
    BY <1>1 DEF Connect, SlotsClean
  <2>2. clients' = clients \cup {c} /\ UNCHANGED <<uid, roster, readyClient>>
    BY <1>1 DEF Connect, gameVars
  <2>3. QED
    BY <2>1, <2>2 DEF RosterInv, OwnTankKept, ReadyUsersVisible, IsReady
<1>2. ASSUME NEW c \in Conns, Disconnect(c) PROVE RosterInv'
  <2>1. /\ OnClientExit(uid[c]) /\ clients' \subseteq clients
        /\ \A d \in clients' : uid'[d] = uid[d]
                               /\ roster'[d] = TanksAfterLeave(uid[c])[d]
    BY <1>2 DEF Disconnect, TypeOK, TanksAfterLeave
  <2>2. QED
    BY <2>1, ExitKeepsRoster
<1>3. ASSUME NEW c \in Conns, LateEvent(c) PROVE RosterInv'
  <2>1. /\ OnClientExit(uid[c]) /\ clients' \subseteq clients
        /\ \A d \in clients' : uid'[d] = uid[d]
                               /\ roster'[d] = TanksAfterLeave(uid[c])[d]
    BY <1>3 DEF LateEvent, TypeOK, SlotsClean
  <2>2. QED
    BY <2>1, ExitKeepsRoster
<1>4. ASSUME NEW c \in Conns, NEW u \in Uids, Login(c, u) PROVE RosterInv'
  BY <1>4, LoginKeepsRoster
<1>5. ASSUME NEW c \in Conns, NEW op \in Ops, PushCommand(c, op) PROVE RosterInv'
  BY <1>0, <1>5 DEF PushCommand, connVars
<1>6. ASSUME Update PROVE RosterInv'
  BY <1>0, <1>6 DEF Update, connVars
<1>7. CASE UNCHANGED vars
  BY <1>0, <1>7 DEF vars
<1>8. QED
  BY <1>1, <1>2, <1>3, <1>4, <1>5, <1>6, <1>7 DEF Next

\* Every logged-in page shows its own tank and that of every recorded user,
\* through any logins, late logins, second sessions and double events.
THEOREM RosterCorrect == Spec => [](OwnTankKept /\ ReadyUsersVisible)
<1>1. Init => SlotsClean /\ RosterInv
  BY DEF Init, SlotsClean, RosterInv, OwnTankKept, ReadyUsersVisible
<1>2. RosterInv => OwnTankKept /\ ReadyUsersVisible
  BY DEF RosterInv
<1>3. QED
  BY <1>1, <1>2, TypeCorrect, SlotsStep, RosterStep, PTL DEF Spec

-----------------------------------------------------------------------------
(* The history *)

\* While a recorded user is left, no step of the server drops or changes a
\* frame of the history.
THEOREM HistoryKept == Spec => HistoryKeptWhilePlayed
<1> DEFINE Kept == readyClient' # {} =>
             /\ Len(history') >= Len(history)
             /\ SubSeq(history', 1, Len(history)) = history
<1>1. TypeOK /\ [Next]_vars => Kept
  <2> SUFFICES ASSUME TypeOK, [Next]_vars PROVE Kept
    OBVIOUS
  <2>1. history \in Seq(Frame) /\ Len(history) \in Nat
        /\ SubSeq(history, 1, Len(history)) = history
    BY SubSeqFull DEF TypeOK
  <2>2. CASE history' = history
    BY <2>1, <2>2
  <2>3. CASE Update
    <3>1. StepFrame(stepCount + 1) \in Frame
      BY StepFrameType DEF TypeOK
    <3>2. history' = Append(history, StepFrame(stepCount + 1))
      BY <2>3 DEF Update
    <3>3. SubSeq(history', 1, Len(history)) = history
      BY <2>1, <3>1, <3>2
    <3>4. QED
      BY <2>1, <3>1, <3>2, <3>3
  <2>4. ASSUME NEW u, OnClientExit(u) PROVE Kept
    BY <2>1, <2>4 DEF OnClientExit, HistoryAfterExit
  <2>5. QED
    BY <2>2, <2>3, <2>4 DEF Next, vars, Connect, Disconnect, LateEvent, Login,
                            PushCommand, gameVars
<1>2. QED
  BY <1>1, TypeCorrect, PTL DEF Spec, HistoryKeptWhilePlayed

=============================================================================
