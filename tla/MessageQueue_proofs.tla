------------------------ MODULE MessageQueue_proofs ------------------------
(***************************************************************************)
(* Proofs about MessageQueue, for any number of pushers and any limits: no *)
(* wake-up is lost, and the queue is a channel.                            *)
(***************************************************************************)
EXTENDS MessageQueue, SequenceTheorems, TLAPS

\* What a callback that nobody is about to wake again has found in the queue
\* is what it has popped and what is left.
SeenInv == reader # "drain" /\ Quiet => Len(queue) + count = seen

\* A reader that sleeps over commands has stopped at its limit.
StopInv == reader = "wait" /\ Quiet /\ queue # <<>> => limit > 0 /\ count = limit

\* A reader that pops is below its limit.
PopInv == reader = "pop" /\ limit > 0 => count < limit

IInv == TypeOK /\ SeenInv /\ StopInv /\ PopInv

-----------------------------------------------------------------------------

\* The sequences stay sequences of commands.
LEMMA QueueStep ==
  ASSUME TypeOK, [Next]_vars
  PROVE  queue' \in Seq(Commands) /\ taken' \in Seq(Commands)
<1> USE DEF TypeOK
<1>1. ASSUME NEW p \in Pushers, Push(p) PROVE queue' \in Seq(Commands)
  <2>1. pushed'[p] \in 1..MaxPushes
    BY <1>1, ConstantsAssumption DEF Push
  <2>2. <<p, pushed'[p]>> \in Commands
    BY <2>1 DEF Commands
  <2> QED BY <1>1, <2>2, AppendProperties DEF Push
<1>2. CASE Pop
  <2>1. Head(queue) \in Commands /\ Tail(queue) \in Seq(Commands)
    BY <1>2, HeadTailProperties DEF Pop
  <2> QED BY <1>2, <2>1, AppendProperties DEF Pop
<1> QED
  BY <1>1, <1>2 DEF Next, Read, Push, Notify, Wake, Drain, PopNothing, vars

\* Every step keeps the inductive invariant.
LEMMA InvStep == IInv /\ [Next]_vars => IInv'
<1> SUFFICES ASSUME IInv, [Next]_vars PROVE IInv'
  OBVIOUS
<1> USE ConstantsAssumption DEF IInv, TypeOK, SeenInv, StopInv, PopInv, Quiet
<1>0. queue' \in Seq(Commands) /\ taken' \in Seq(Commands)
  BY QueueStep
<1>1. Len(queue) \in Nat /\ Len(queue') \in Nat
  BY <1>0, LenProperties
<1>2. ASSUME NEW p \in Pushers, Push(p) PROVE IInv'
  BY <1>0, <1>2 DEF Push
<1>3. ASSUME NEW p \in Pushers, Notify(p) PROVE IInv'
  BY <1>0, <1>3 DEF Notify, Lower
<1>4. CASE Wake
  BY <1>0, <1>4 DEF Wake
<1>5. CASE Drain
  BY <1>0, <1>1, <1>5 DEF Drain, Lower
<1>6. CASE Pop
  <2>1. Len(queue') = Len(queue) - 1
    BY <1>6, HeadTailProperties DEF Pop
  <2>2. /\ limit' = limit /\ limit \in Nat /\ seen' = seen
        /\ count' = count + 1
        /\ pipe' = pipe /\ pushing' = pushing /\ pushed' = pushed
    BY <1>6 DEF Pop
  <2>3. \/ reader' = "wait" /\ limit > 0 /\ count' = limit
        \/ reader' = "pop" /\ (limit > 0 => count' < limit)
    BY <1>6, <2>2 DEF Pop
  <2>4. TypeOK'
    BY <1>0, <2>2, <2>3
  <2>5. SeenInv'
    <3>1. reader = "pop"
      BY <1>6 DEF Pop
    <3>2. Quiet => Len(queue) + count = seen
      BY <3>1
    <3>3. (Len(queue) - 1) + (count + 1) = Len(queue) + count
      BY <1>1
    <3> QED BY <2>1, <2>2, <3>2, <3>3
  <2>6. StopInv' /\ PopInv'
    BY <2>2, <2>3
  <2> QED BY <2>4, <2>5, <2>6
<1>7. CASE PopNothing
  BY <1>0, <1>7 DEF PopNothing
<1>8. CASE UNCHANGED vars
  BY <1>8 DEF vars
<1> QED
  BY <1>2, <1>3, <1>4, <1>5, <1>6, <1>7, <1>8 DEF Next, Read

\* The inductive invariant holds in every reachable state.
THEOREM Invariant == Spec => []IInv
<1>1. Init => IInv
  BY ConstantsAssumption, EmptySeq
     DEF Init, IInv, TypeOK, SeenInv, StopInv, PopInv, Quiet
<1> QED
  BY <1>1, InvStep, PTL DEF Spec

\* Type correctness: a reader never pops more than its limit in a callback.
THEOREM TypeCorrect == Spec => []TypeOK
<1>1. IInv => TypeOK
  BY DEF IInv
<1> QED
  BY <1>1, Invariant, PTL

\* No wake-up is lost, for any number of pushing threads and any limit: only
\* what a callback leaves beyond its limit can wait for the next push.
THEOREM NoWakeUpLost == Spec => []OnlyBacklogWaits
<1>1. IInv => OnlyBacklogWaits
  <2> SUFFICES ASSUME IInv, reader = "wait", Quiet, queue # <<>>
               PROVE  limit > 0 /\ seen > limit /\ Len(queue) = seen - limit
    BY DEF OnlyBacklogWaits
  <2>1. limit > 0 /\ count = limit /\ Len(queue) + count = seen
    BY DEF IInv, SeenInv, StopInv
  <2>2. Len(queue) \in Nat /\ Len(queue) # 0
    BY LenProperties, EmptySeq DEF IInv, TypeOK
  <2> QED
    BY <2>1, <2>2, ConstantsAssumption DEF IInv, TypeOK
<1> QED
  BY <1>1, Invariant, PTL

-----------------------------------------------------------------------------

\* Every step of the queue is a step of the channel, or none.
LEMMA ChannelStep ==
  ASSUME TypeOK, [Next]_vars
  PROVE  [Chan!Next]_(Chan!vars)
<1> USE DEF TypeOK
<1>1. ASSUME NEW p \in Pushers, Push(p) PROVE \E c \in Commands : Chan!Send(c)
  <2> DEFINE c == <<p, pushed'[p]>>
  <2>1. c \in Commands
    BY <1>1, ConstantsAssumption DEF Push, Commands
  <2>2. taken \o Append(queue, c) = Append(taken \o queue, c)
    BY <2>1, ConcatAssociative, AppendIsConcat, ConcatProperties
  <2> QED BY <1>1, <2>1, <2>2 DEF Push, Chan!Send
<1>2. CASE Pop
  <2>1. /\ Head(queue) \in Commands /\ Tail(queue) \in Seq(Commands)
        /\ Len(queue) \in Nat /\ Len(queue) > 0
    BY <1>2, HeadTailProperties, LenProperties, EmptySeq DEF Pop
  <2>2. Append(taken, Head(queue)) \o Tail(queue) = taken \o queue
    BY <2>1
  <2>3. Len(taken) < Len(taken \o queue)
    BY <2>1, LenProperties, ConcatProperties
  <2>4. Len(Append(taken, Head(queue))) = Len(taken) + 1
    BY <2>1, AppendProperties
  <2> QED BY <1>2, <2>2, <2>3, <2>4 DEF Pop, Chan!Next, Chan!Take
<1>3. CASE UNCHANGED <<queue, taken>>
  BY <1>3 DEF Chan!vars
<1> QED
  BY <1>1, <1>2, <1>3
     DEF Next, Read, Notify, Wake, Drain, PopNothing, vars, Chan!Next

\* The queue implements the channel: commands are popped in the order in which
\* they were pushed, each once, and none is lost.
THEOREM Implements == Spec => ImplementsChannel
<1>1. Init => Chan!Init
  BY EmptySeq, ConcatEmptySeq DEF Init, Chan!Init
<1> QED
  BY <1>1, ChannelStep, TypeCorrect, PTL DEF Spec, ImplementsChannel, Chan!Spec

=============================================================================
