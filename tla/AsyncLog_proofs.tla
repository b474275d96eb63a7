--------------------------- MODULE AsyncLog_proofs ---------------------------
(***************************************************************************)
(* Theorems about the asynchronous log of zbluenet.                        *)
(***************************************************************************)
EXTENDS AsyncLog, SequenceLemmas, FiniteSetTheorems

-----------------------------------------------------------------------------
(* The invariants *)

Types ==
  /\ queue \in Seq(Buffers \cup {End}) /\ Len(queue) <= Capacity
  /\ pool \in Seq(Buffers)
  /\ content \in Seq(Seq(Lines)) /\ written \in Seq(Lines)
  /\ act \in [Pushers -> {"idle", "push", "asleep"}]
  /\ mine \in [Pushers -> Buffers \cup {End}]
  /\ logged \in [Loggers -> 0..MaxLines]
  /\ thread \in {"never", "pop", "asleep", "write", "return", "wakeup",
                 "clear", "done"}
  /\ hand \in Buffers \cup {End}
  /\ dtor \in {"live", "push", "close", "wait", "asleep", "freed"}
  /\ isRun \in BOOLEAN /\ waitCount \in -1..1 /\ wakeupCount \in 0..1

\* Whoever pushes has a buffer in hand, and the log thread while it writes; the
\* destructor pushes none, when nobody logs.
HandsInv ==
  /\ mine[Closer] = End
  /\ \A p \in Loggers : mine[p] = End <=> act[p] = "idle"
  /\ hand # End <=> thread \in {"write", "return"}
  /\ act[Closer] # "idle" <=> dtor = "push"
  /\ dtor # "live" => \A p \in Loggers : act[p] = "idle"

Held(b) == \E p \in Loggers : mine[p] = b

\* A buffer is in one place, with one line exactly from the pool to the log.
OnePlace(b) ==
  /\ Occurs(pool, b) \/ Occurs(queue, b) \/ Held(b) \/ hand = b
  /\ Occurs(pool, b) => ~Occurs(queue, b) /\ ~Held(b) /\ hand # b
  /\ Occurs(queue, b) => ~Held(b) /\ hand # b
  /\ Held(b) => hand # b
  /\ Single(pool, b) /\ Single(queue, b)
  /\ \A p, r \in Loggers : mine[p] = b /\ mine[r] = b => p = r
  /\ content[b] = <<>> <=> Occurs(pool, b) \/ (hand = b /\ thread = "return")
  /\ Len(content[b]) <= 1

\* What the destructor pushed is the last that the log thread takes.
Ended == thread \in {"wakeup", "clear", "done"}
EndInv ==
  /\ dtor \in {"live", "push"} => ~Occurs(queue, End) /\ ~Ended
  /\ \A i \in DOMAIN queue : queue[i] = End => i = Len(queue)
  /\ dtor \notin {"live", "push"} /\ ~Ended => Occurs(queue, End)
  /\ Ended => queue = <<>>

\* The destructor and the log thread meet at the semaphore.
SemaphoreInv ==
  /\ isRun = (dtor \in {"live", "push", "close"} /\ thread # "done")
  /\ ~(thread \in {"clear", "done"}) =>
       /\ dtor # "freed" /\ wakeupCount = 0
       /\ waitCount = IF dtor = "asleep" THEN -1 ELSE 0
  /\ thread \in {"clear", "done"} =>
       /\ dtor \in {"close", "wait"} => waitCount = 1 /\ wakeupCount = 0
       /\ dtor = "asleep" => waitCount = 0 /\ wakeupCount = 1

ControlInv == Types /\ HandsInv /\ EndInv /\ SemaphoreInv
TypeInv == ControlInv /\ \A b \in Buffers : OnePlace(b)

\* A line that was begun is written or in a buffer, and once.
InBuffer(b, line) == b \in Buffers /\ content[b] # <<>> /\ content[b][1] = line
Begun(line) == line[2] <= logged[line[1]]
LinesInv ==
  /\ \A p \in Loggers : \A k \in 1..logged[p] :
       Occurs(written, <<p, k>>) \/ \E b \in Buffers : InBuffer(b, <<p, k>>)
  /\ \A line \in Lines :
       /\ Occurs(written, line) => Begun(line) /\ Single(written, line)
       /\ \A b \in Buffers : InBuffer(b, line) =>
            /\ Begun(line) /\ ~Occurs(written, line)
            /\ \A d \in Buffers : InBuffer(d, line) => d = b

-----------------------------------------------------------------------------
(* Types and control *)

\* Buffers are numbered from 1, and none is End.
LEMMA BufferNumbers ==
  ASSUME Types
  PROVE  /\ Len(content) \in Nat /\ Buffers = 1..Len(content) /\ End \notin Buffers
         /\ Buffers \subseteq Nat /\ End \in Nat
BY DEF Types, Buffers, End

\* A pusher that is woken pushes, if one sleeps.
LEMMA WakeType ==
  ASSUME Types, WakePusher(act)
  PROVE  /\ act' \in [Pushers -> {"idle", "push", "asleep"}]
         /\ \A p \in Pushers : act'[p] = "idle" <=> act[p] = "idle"
<1>1. CASE \E p \in Pushers : act[p] = "asleep"
  <2>1. PICK p \in Pushers : act[p] = "asleep" /\ act' = [act EXCEPT ![p] = "push"]
    BY <1>1 DEF WakePusher
  <2> QED
    BY <2>1 DEF Types
<1>2. CASE ~\E p \in Pushers : act[p] = "asleep"
  BY <1>2 DEF WakePusher, Types
<1> QED
  BY <1>1, <1>2

\* What a logger does to the buffers: one that is nowhere else gets the line.
LEMMA LogTakes ==
  ASSUME TypeInv, NEW p \in Loggers, Log(p)
  PROVE  \E b \in Buffers' :
           /\ mine' = [mine EXCEPT ![p] = b] /\ b # End
           /\ content' \in Seq(Seq(Lines)) /\ pool' \in Seq(Buffers)
           /\ Len(content') \in Nat /\ Buffers' = Buffers \cup {b}
           /\ content'[b] = <<<<p, logged[p] + 1>>>>
           /\ \A d \in Buffers : d # b => content'[d] = content[d]
           /\ ~Occurs(queue, b) /\ ~Held(b) /\ hand # b /\ ~Occurs(pool', b)
           /\ b \in Buffers => content[b] = <<>>
           /\ \A d : d # b => (Occurs(pool', d) <=> Occurs(pool, d))
           /\ \A d \in Buffers : Single(pool', d)
           /\ b \notin Buffers => pool' = pool
<1> DEFINE line == <<p, logged[p] + 1>>
<1>1. /\ Types /\ \A b \in Buffers : OnePlace(b)
      /\ logged[p] \in 0..MaxLines /\ MaxLines \in Nat /\ logged[p] < MaxLines
      /\ logged' = [logged EXCEPT ![p] = @ + 1] /\ logged \in [Loggers -> 0..MaxLines]
  BY ConstantsAssumption DEF TypeInv, ControlInv, Types, Log
<1>2. line \in Lines /\ logged'[p] = logged[p] + 1
  BY <1>1 DEF Lines
<1>3. CASE pool # <<>>
  <2> DEFINE b == Last(pool)
  <2>1. /\ mine' = [mine EXCEPT ![p] = b] /\ pool' = Front(pool)
        /\ content' = [content EXCEPT ![b] = Append(@, line)]
    BY <1>2, <1>3 DEF Log
  <2>2. pool \in Seq(Buffers) /\ b \in Buffers /\ Front(pool) \in Seq(Buffers)
    BY <1>1, <1>3, Dropped DEF Types
  <2>3. Occurs(pool, b)
    BY <1>3, <2>2, OccursDrop
  <2>4. /\ ~Occurs(queue, b) /\ ~Held(b) /\ hand # b /\ content[b] = <<>>
        /\ Single(pool, b)
    BY <1>1, <2>2, <2>3 DEF OnePlace
  <2>5. \A d : (Occurs(pool, d) <=> Occurs(pool', d) \/ b = d)
               /\ (Single(pool, d) => Single(pool', d) /\ (b = d => ~Occurs(pool', d)))
    BY <1>3, <2>1, <2>2, OccursDrop
  <2>6. \A d \in Buffers : Single(pool', d)
    BY <1>1, <2>5 DEF OnePlace
  <2>7. content \in Seq(Seq(Lines)) /\ Append(<<>>, line) = <<line>> /\ <<line>> \in Seq(Lines)
    BY <1>1, <1>2 DEF Types
  <2> HIDE DEF b, line
  <2>8. content' = [content EXCEPT ![b] = <<line>>]
    BY <2>1, <2>4, <2>7
  <2>9. /\ content' \in Seq(Seq(Lines)) /\ Buffers' = Buffers
        /\ content'[b] = <<line>> /\ \A d \in Buffers : d # b => content'[d] = content[d]
    BY <2>2, <2>7, <2>8 DEF Buffers
  <2>10. Buffers' = Buffers \cup {b} /\ b # End /\ Len(content') \in Nat
    BY <1>1, <2>2, <2>9, BufferNumbers
  <2> QED
    BY <2>1, <2>2, <2>4, <2>5, <2>6, <2>9, <2>10 DEF line
<1>4. CASE pool = <<>>
  <2> DEFINE b == Len(content) + 1
  <2>1. /\ mine' = [mine EXCEPT ![p] = b] /\ content' = Append(content, <<line>>)
        /\ pool' = pool
    BY <1>2, <1>4 DEF Log
  <2>2. content \in Seq(Seq(Lines)) /\ <<line>> \in Seq(Lines)
    BY <1>1, <1>2 DEF Types
  <2> HIDE DEF line
  <2>3. /\ content' \in Seq(Seq(Lines)) /\ Len(content') = Len(content) + 1
        /\ Len(content) \in Nat /\ DOMAIN content' = 1..(Len(content) + 1)
        /\ content'[b] = <<line>> /\ \A d \in 1..Len(content) : content'[d] = content[d]
    BY <2>1, <2>2, Appended
  <2>4. Buffers = 1..Len(content) /\ Buffers' = 1..(Len(content) + 1)
    BY <1>1, <2>3, BufferNumbers DEF Buffers
  <2>5. /\ Buffers' = Buffers \cup {b} /\ b \notin Buffers /\ b # End /\ b \in Buffers'
        /\ Len(content') \in Nat
    BY <2>3, <2>4 DEF End
  <2> HIDE DEF b
  <2>6. /\ \A i \in DOMAIN queue : queue[i] \in Buffers \cup {End}
        /\ \A r \in Loggers : mine[r] \in Buffers \cup {End}
        /\ hand \in Buffers \cup {End}
        /\ DOMAIN pool = {} /\ pool \in Seq(Buffers)
    BY <1>1, <1>4 DEF Types, Pushers
  <2>7. ~Occurs(queue, b) /\ ~Held(b) /\ hand # b /\ ~Occurs(pool', b)
    BY <2>1, <2>5, <2>6 DEF Occurs, Held
  <2>8. \A d \in Buffers : Single(pool', d)
    BY <1>1, <2>1 DEF OnePlace
  <2> QED
    BY <2>1, <2>3, <2>4, <2>5, <2>6, <2>7, <2>8 DEF line
<1> QED
  BY <1>3, <1>4

\* Every step keeps the types, and who does what.
LEMMA ControlStep == TypeInv /\ [Next]_vars => ControlInv'
<1> SUFFICES ASSUME TypeInv, [Next]_vars PROVE ControlInv'
  OBVIOUS
<1>1. ControlInv /\ Types /\ HandsInv /\ EndInv /\ SemaphoreInv
  BY DEF TypeInv, ControlInv
<1>2. /\ Len(content) \in Nat /\ Buffers = 1..Len(content) /\ End \notin Buffers
      /\ Closer \in Pushers /\ Loggers \subseteq Pushers /\ Closer \notin Loggers
      /\ Capacity \in Nat /\ Capacity > 0
  BY <1>1, BufferNumbers, ConstantsAssumption DEF Pushers
<1>3. ASSUME NEW p \in Pushers, Push(p) PROVE ControlInv'
  <2>1. CASE Len(queue) >= Capacity
    <3>1. /\ act[p] = "push" /\ act' = [act EXCEPT ![p] = "asleep"]
          /\ UNCHANGED <<queue, mine, thread, dtor, bufVars, hand, written, semVars>>
      BY <1>3, <2>1 DEF Push
    <3>2. Types' /\ HandsInv'
      BY <1>1, <1>2, <3>1 DEF Types, HandsInv, Buffers, bufVars, semVars
    <3>3. EndInv' /\ SemaphoreInv'
      BY <1>1, <3>1 DEF EndInv, SemaphoreInv, Ended, Occurs, semVars
    <3> QED
      BY <3>2, <3>3 DEF ControlInv
  <2>2. CASE ~(Len(queue) >= Capacity)
    <3>1. /\ act[p] = "push" /\ queue' = Append(queue, mine[p])
          /\ act' = [act EXCEPT ![p] = "idle"] /\ mine' = [mine EXCEPT ![p] = End]
          /\ thread' = IF thread = "asleep" THEN "pop" ELSE thread
          /\ dtor' = IF p = Closer THEN "close" ELSE dtor
          /\ UNCHANGED <<bufVars, hand, written, semVars>>
      BY <1>3, <2>2 DEF Push
    <3>2. /\ queue \in Seq(Buffers \cup {End}) /\ mine[p] \in Buffers \cup {End}
          /\ Len(queue) <= Capacity
      BY <1>1 DEF Types
    <3>3. /\ queue' \in Seq(Buffers \cup {End}) /\ Len(queue') = Len(queue) + 1
          /\ Len(queue) \in Nat /\ DOMAIN queue = 1..Len(queue)
          /\ DOMAIN queue' = 1..(Len(queue) + 1) /\ queue'[Len(queue) + 1] = mine[p]
          /\ \A i \in 1..Len(queue) : queue'[i] = queue[i]
          /\ Len(queue') <= Capacity
      BY <1>2, <2>2, <3>1, <3>2, Appended
    <3>4. Types'
      BY <1>1, <1>2, <3>1, <3>3 DEF Types, Buffers, bufVars, semVars
    <3>5. HandsInv'
      BY <1>1, <1>2, <3>1 DEF Types, HandsInv, bufVars
    <3>6. /\ p = Closer <=> mine[p] = End
          /\ p = Closer <=> dtor = "push"
          /\ p # Closer => dtor = "live" /\ dtor' = "live"
          /\ p = Closer => dtor' = "close"
      BY <1>1, <1>2, <3>1 DEF HandsInv, Pushers, Types
    <3>7. Occurs(queue', End) <=> Occurs(queue, End) \/ mine[p] = End
      BY <3>1, <3>2, OccursAppend
    <3>8. ~Occurs(queue, End) /\ ~Ended /\ ~Ended'
      BY <1>1, <3>1, <3>6 DEF EndInv, Ended
    <3>9. EndInv'
      <4>1. ASSUME NEW i \in DOMAIN queue', queue'[i] = End PROVE i = Len(queue')
        BY <3>3, <3>8, <4>1 DEF Occurs
      <4> QED
        BY <3>6, <3>7, <3>8, <4>1 DEF EndInv
    <3>10. SemaphoreInv'
      BY <1>1, <3>1, <3>6, <3>8 DEF SemaphoreInv, Ended, semVars
    <3> QED
      BY <3>4, <3>5, <3>9, <3>10 DEF ControlInv
  <2> QED
    BY <2>1, <2>2
<1>4. CASE Pop
  <2>1. /\ thread = "pop" /\ queue # <<>> /\ hand' = Head(queue) /\ queue' = Tail(queue)
        /\ WakePusher(act)
        /\ thread' = IF Head(queue) = End THEN "wakeup" ELSE "write"
        /\ UNCHANGED <<mine, bufVars, written, dtor, semVars>>
    BY <1>4 DEF Pop
  <2>2. queue \in Seq(Buffers \cup {End}) /\ Len(queue) <= Capacity
    BY <1>1 DEF Types
  <2>3. /\ queue' \in Seq(Buffers \cup {End}) /\ Len(queue') = Len(queue) - 1
        /\ Len(queue) \in Nat /\ Len(queue) > 0 /\ DOMAIN queue = 1..Len(queue)
        /\ DOMAIN queue' = 1..(Len(queue) - 1) /\ Head(queue) = queue[1]
        /\ Head(queue) \in Buffers \cup {End}
        /\ \A i \in 1..(Len(queue) - 1) : queue'[i] = queue[i + 1]
    BY <2>1, <2>2, Popped
  <2>4. /\ act' \in [Pushers -> {"idle", "push", "asleep"}]
        /\ \A p \in Pushers : act'[p] = "idle" <=> act[p] = "idle"
    BY <1>1, <2>1, WakeType
  <2>5. Types'
    BY <1>1, <1>2, <2>1, <2>2, <2>3, <2>4 DEF Types, Buffers, bufVars, semVars
  <2>6. HandsInv'
    BY <1>1, <1>2, <2>1, <2>4 DEF HandsInv
  <2>7. Occurs(queue, End) <=> Occurs(queue', End) \/ Head(queue) = End
    BY <2>1, <2>2, OccursPop
  <2>8. EndInv'
    <3>1. ASSUME NEW i \in DOMAIN queue', queue'[i] = End PROVE i = Len(queue')
      <4>1. i + 1 \in DOMAIN queue /\ queue[i + 1] = End
        BY <2>3, <3>1
      <4> QED
        BY <1>1, <2>3, <4>1 DEF EndInv
    <3>2. Head(queue) = End => queue' = <<>>
      <4>1. Head(queue) = End => 1 = Len(queue)
        BY <1>1, <2>3 DEF EndInv
      <4> QED
        BY <2>3, <4>1, EmptySeq
    <3>3. dtor \in {"live", "push"} => ~Occurs(queue', End) /\ Head(queue) # End
      BY <1>1, <2>7 DEF EndInv
    <3> QED
      BY <1>1, <2>1, <2>7, <3>1, <3>2, <3>3 DEF EndInv, Ended
  <2>9. SemaphoreInv'
    BY <1>1, <2>1 DEF SemaphoreInv, semVars
  <2> QED
    BY <2>5, <2>6, <2>8, <2>9 DEF ControlInv
<1>5. CASE PopSleeps
  <2>1. Types' /\ HandsInv'
    BY <1>1, <1>5 DEF PopSleeps, Types, HandsInv, Buffers, queueVars, bufVars, semVars
  <2>2. EndInv' /\ SemaphoreInv'
    BY <1>1, <1>5 DEF PopSleeps, EndInv, SemaphoreInv, Ended, Occurs, queueVars, semVars
  <2> QED
    BY <2>1, <2>2 DEF ControlInv
<1>6. CASE Spurious
  <2>1. Types' /\ HandsInv'
    BY <1>1, <1>6 DEF Spurious, Types, HandsInv, Buffers, queueVars, bufVars, semVars, Pushers
  <2>2. EndInv' /\ SemaphoreInv'
    BY <1>1, <1>6 DEF Spurious, EndInv, SemaphoreInv, Ended, Occurs, queueVars, semVars
  <2> QED
    BY <2>1, <2>2 DEF ControlInv
<1>7. ASSUME NEW p \in Loggers, Log(p) PROVE ControlInv'
  <2>1. PICK b \in Buffers' :
          /\ mine' = [mine EXCEPT ![p] = b] /\ b # End
          /\ content' \in Seq(Seq(Lines)) /\ pool' \in Seq(Buffers)
          /\ Buffers' = Buffers \cup {b}
    BY <1>7, LogTakes
  <2>2. /\ act[p] = "idle" /\ dtor = "live" /\ act' = [act EXCEPT ![p] = "push"]
        /\ logged[p] < MaxLines /\ logged' = [logged EXCEPT ![p] = @ + 1]
        /\ UNCHANGED <<queue, thread, hand, written, dtor, semVars>>
    BY <1>7 DEF Log
  <2>3. logged[p] + 1 \in 0..MaxLines
    BY <1>1, <2>2, ConstantsAssumption DEF Types
  <2>4. /\ Buffers \subseteq Buffers' /\ Buffers' = DOMAIN content' /\ pool' \in Seq(Buffers')
        /\ queue \in Seq(Buffers') \/ queue \in Seq(Buffers' \cup {End})
    <3>1. Buffers \subseteq Buffers'
      BY <2>1
    <3> HIDE DEF Buffers
    <3> QED
      BY <1>1, <2>1, <3>1 DEF Buffers, Types
  <2>5. Types'
    BY <1>1, <1>2, <2>1, <2>2, <2>3, <2>4 DEF Types, semVars
  <2>6. HandsInv'
    BY <1>1, <1>2, <2>1, <2>2 DEF HandsInv, Types
  <2>7. EndInv' /\ SemaphoreInv'
    BY <1>1, <2>2 DEF EndInv, SemaphoreInv, Ended, Occurs, semVars
  <2> QED
    BY <2>5, <2>6, <2>7 DEF ControlInv
<1>8. CASE WriteLine
  <2>1. /\ content[hand] \in Seq(Lines) /\ hand \in Buffers /\ content \in Seq(Seq(Lines))
    BY <1>1, <1>8 DEF WriteLine, Types, HandsInv, Buffers
  <2>2. /\ content' = [content EXCEPT ![hand] = <<>>] /\ <<>> \in Seq(Lines)
        /\ written' = written \o content[hand]
        /\ thread = "write" /\ thread' = "return"
        /\ UNCHANGED <<queueVars, pool, logged, hand, dtor, semVars>>
    BY <1>8 DEF WriteLine
  <2>3. content' \in Seq(Seq(Lines)) /\ Buffers' = Buffers /\ written' \in Seq(Lines)
    BY <1>1, <2>1, <2>2 DEF Types, Buffers
  <2>4. Types' /\ HandsInv'
    BY <1>1, <2>2, <2>3 DEF Types, HandsInv, queueVars, semVars
  <2>5. EndInv' /\ SemaphoreInv'
    BY <1>1, <2>2 DEF EndInv, SemaphoreInv, Ended, Occurs, queueVars, semVars
  <2> QED
    BY <2>4, <2>5 DEF ControlInv
<1>9. CASE ReturnBuffer
  <2>1. hand \in Buffers /\ pool' = Append(pool, hand) /\ pool \in Seq(Buffers)
    BY <1>1, <1>9 DEF ReturnBuffer, HandsInv, Types
  <2>2. pool' \in Seq(Buffers)
    BY <2>1, Appended
  <2>3. Types' /\ HandsInv'
    BY <1>1, <1>9, <2>2 DEF ReturnBuffer, Types, HandsInv, Buffers, queueVars, semVars
  <2>4. EndInv' /\ SemaphoreInv'
    BY <1>1, <1>9 DEF ReturnBuffer, EndInv, SemaphoreInv, Ended, Occurs, queueVars, semVars
  <2> QED
    BY <2>3, <2>4 DEF ControlInv
<1>10. CASE Wakeup \/ ClearIsRun \/ Close \/ Wait \/ Awake
  <2>1. UNCHANGED <<queueVars, bufVars, hand, written>>
    BY <1>10 DEF Wakeup, ClearIsRun, Close, Wait, Awake, semVars
  <2>2. HandsInv' /\ EndInv'
    BY <1>1, <1>10, <2>1 DEF HandsInv, EndInv, Ended, Occurs, queueVars, Wakeup, ClearIsRun,
       Close, Wait, Awake, Types
  <2>3. SemaphoreInv'
    <3> USE DEF Types, SemaphoreInv
    <3>1. CASE Wakeup
      <4>1. dtor \in {"close", "wait", "asleep"}
        BY <1>1, <3>1 DEF Wakeup, EndInv, Ended
      <4>2. waitCount = IF dtor = "asleep" THEN -1 ELSE 0
        BY <1>1, <3>1 DEF Wakeup
      <4> QED
        BY <1>1, <3>1, <4>1, <4>2 DEF Wakeup
    <3>2. CASE ClearIsRun
      BY <1>1, <3>2 DEF ClearIsRun
    <3>3. CASE Close
      BY <1>1, <3>3 DEF Close
    <3>4. CASE Wait
      BY <1>1, <3>4 DEF Wait
    <3>5. CASE Awake
      BY <1>1, <3>5 DEF Awake
    <3> QED
      BY <1>10, <3>1, <3>2, <3>3, <3>4, <3>5
  <2>4. Types'
    BY <1>1, <1>10, <2>1, <2>3 DEF Types, SemaphoreInv, Wakeup, ClearIsRun, Close, Wait, Awake,
       queueVars, bufVars, Buffers
  <2> QED
    BY <2>2, <2>3, <2>4 DEF ControlInv
<1>11. CASE Destroy
  <2>1. Types' /\ HandsInv'
    BY <1>1, <1>2, <1>11 DEF Destroy, Types, HandsInv, Buffers, queueVars, bufVars, semVars
  <2>2. EndInv' /\ SemaphoreInv'
    BY <1>1, <1>11 DEF Destroy, EndInv, SemaphoreInv, Ended, Occurs, queueVars, semVars
  <2> QED
    BY <2>1, <2>2 DEF ControlInv
<1>12. CASE UNCHANGED vars
  <2>1. Types' /\ HandsInv'
    BY <1>1, <1>12 DEF vars, Types, HandsInv, Buffers, queueVars, bufVars, semVars
  <2>2. EndInv' /\ SemaphoreInv'
    BY <1>1, <1>12 DEF vars, EndInv, SemaphoreInv, Ended, Occurs, queueVars, semVars
  <2> QED
    BY <2>1, <2>2 DEF ControlInv
<1> QED
  BY <1>2, <1>3, <1>4, <1>5, <1>6, <1>7, <1>8, <1>9, <1>10, <1>11, <1>12
     DEF Next, LogThread, Destructor

\* A buffer that a step neither moves nor writes to stays where it is.
LEMMA PlaceKept ==
  ASSUME NEW b \in Buffers, OnePlace(b),
         Occurs(pool', b) <=> Occurs(pool, b), Occurs(queue', b) <=> Occurs(queue, b),
         hand' = b <=> hand = b, \A p \in Loggers : mine'[p] = b <=> mine[p] = b,
         Single(pool', b), Single(queue', b), content'[b] = content[b],
         hand = b => (thread' = "return" <=> thread = "return")
  PROVE  OnePlace(b)'
<1>1. Held(b)' <=> Held(b)
  BY DEF Held
<1>2. Occurs(pool, b)' <=> Occurs(pool', b)
  BY DEF Occurs
<1>3. Occurs(queue, b)' <=> Occurs(queue', b)
  BY DEF Occurs
<1>4. Single(pool, b)' /\ Single(queue, b)'
  BY DEF Single
<1> QED
  BY <1>1, <1>2, <1>3, <1>4 DEF OnePlace

\* Every step keeps the buffers in one place each.
LEMMA PlacesStep ==
  ASSUME TypeInv, [Next]_vars, NEW b \in Buffers'
  PROVE  OnePlace(b)'
<1>1. ControlInv /\ Types /\ HandsInv /\ \A d \in Buffers : OnePlace(d)
  BY DEF TypeInv, ControlInv
<1>2. /\ Len(content) \in Nat /\ Buffers = 1..Len(content) /\ End \notin Buffers
      /\ Closer \in Pushers /\ Loggers \subseteq Pushers /\ Closer \notin Loggers
  BY <1>1, BufferNumbers, ConstantsAssumption DEF Pushers
<1>3. ASSUME NEW p \in Pushers, Push(p) PROVE OnePlace(b)'
  <2>1. b \in Buffers /\ OnePlace(b) /\ b # End
    BY <1>1, <1>2, <1>3 DEF Push, bufVars, Buffers
  <2>2. CASE Len(queue) >= Capacity
    BY <1>3, <2>1, <2>2, PlaceKept DEF Push, bufVars, OnePlace
  <2>3. CASE ~(Len(queue) >= Capacity)
    <3>1. /\ queue' = Append(queue, mine[p]) /\ mine' = [mine EXCEPT ![p] = End]
          /\ thread' = "return" <=> thread = "return"
          /\ UNCHANGED <<pool, content, hand>>
      BY <1>3, <2>3 DEF Push, bufVars
    <3>2. queue \in Seq(Buffers \cup {End}) /\ mine[p] \in Buffers \cup {End}
      BY <1>1 DEF Types
    <3>3. /\ Occurs(queue', b) <=> Occurs(queue, b) \/ mine[p] = b
          /\ Single(queue, b) /\ (mine[p] = b => ~Occurs(queue, b)) => Single(queue', b)
      BY <3>1, <3>2, OccursAppend
    <3>4. mine[p] = b => p \in Loggers /\ Held(b)
      BY <1>1, <1>2, <2>1 DEF HandsInv, Pushers, Held
    <3>5. Single(queue', b)
      BY <2>1, <3>3, <3>4 DEF OnePlace
    <3>6. \A r \in Loggers : mine'[r] = b <=> mine[r] = b /\ r # p
      BY <1>1, <1>2, <2>1, <3>1 DEF Types
    <3>7. CASE mine[p] # b
      BY <2>1, <3>1, <3>3, <3>5, <3>6, <3>7, PlaceKept DEF OnePlace
    <3>8. CASE mine[p] = b
      <4>1. ~Held(b)'
        BY <2>1, <3>4, <3>6, <3>8 DEF Held, OnePlace
      <4>2. Occurs(queue, b)' /\ Single(queue, b)'
        BY <3>3, <3>5, <3>8 DEF Occurs, Single
      <4>3. ~Occurs(pool, b)' /\ Single(pool, b)' /\ hand' # b /\ hand # b
        BY <2>1, <3>1, <3>4, <3>8 DEF OnePlace, Occurs, Single
      <4>4. content'[b] # <<>> /\ Len(content'[b]) <= 1
        BY <2>1, <3>1, <3>4, <3>8 DEF OnePlace
      <4>5. \A r, s \in Loggers : mine'[r] = b /\ mine'[s] = b => r = s
        BY <4>1 DEF Held
      <4> QED
        BY <4>1, <4>2, <4>3, <4>4, <4>5 DEF OnePlace
    <3> QED
      BY <3>7, <3>8
  <2> QED
    BY <2>2, <2>3
<1>4. CASE Pop
  <2>1. b \in Buffers /\ OnePlace(b) /\ b # End
    BY <1>1, <1>2, <1>4 DEF Pop, bufVars, Buffers
  <2>2. /\ queue # <<>> /\ hand' = Head(queue) /\ queue' = Tail(queue)
        /\ thread = "pop" /\ thread' # "return"
        /\ UNCHANGED <<mine, pool, content>>
    BY <1>4 DEF Pop, bufVars
  <2>3. queue \in Seq(Buffers \cup {End}) /\ hand = End
    BY <1>1, <2>2 DEF Types, HandsInv
  <2>4. /\ Occurs(queue, b) <=> Occurs(queue', b) \/ Head(queue) = b
        /\ Single(queue, b) => Single(queue', b) /\ (Head(queue) = b => ~Occurs(queue', b))
    BY <2>2, <2>3, OccursPop
  <2>5. CASE Head(queue) # b
    BY <2>1, <2>2, <2>3, <2>4, <2>5, PlaceKept DEF OnePlace
  <2>6. CASE Head(queue) = b
    <3>1. ~Held(b)'
      BY <2>1, <2>2, <2>4, <2>6 DEF Held, OnePlace
    <3>2. ~Occurs(queue, b)' /\ Single(queue, b)'
      BY <2>1, <2>4, <2>6 DEF Occurs, Single, OnePlace
    <3>3. ~Occurs(pool, b)' /\ Single(pool, b)'
      BY <2>1, <2>2, <2>4, <2>6 DEF OnePlace, Occurs, Single
    <3>4. content'[b] # <<>> /\ Len(content'[b]) <= 1
      BY <2>1, <2>2, <2>3, <2>4, <2>6 DEF OnePlace
    <3>5. \A r, s \in Loggers : mine'[r] = b /\ mine'[s] = b => r = s
      BY <3>1 DEF Held
    <3> QED
      BY <2>2, <2>6, <3>1, <3>2, <3>3, <3>4, <3>5 DEF OnePlace
  <2> QED
    BY <2>5, <2>6
<1>5. ASSUME NEW p \in Loggers, Log(p) PROVE OnePlace(b)'
  <2>1. PICK d \in Buffers' :
          /\ mine' = [mine EXCEPT ![p] = d] /\ d # End
          /\ Buffers' = Buffers \cup {d}
          /\ content'[d] = <<<<p, logged[p] + 1>>>>
          /\ \A x \in Buffers : x # d => content'[x] = content[x]
          /\ ~Occurs(queue, d) /\ ~Held(d) /\ hand # d /\ ~Occurs(pool', d)
          /\ \A x : x # d => (Occurs(pool', x) <=> Occurs(pool, x))
          /\ \A x \in Buffers : Single(pool', x)
          /\ d \notin Buffers => pool' = pool
    BY <1>5, LogTakes
  <2>2. /\ act[p] = "idle" /\ UNCHANGED <<queue, thread, hand>>
        /\ p \in Pushers /\ mine \in [Pushers -> Buffers \cup {End}] /\ mine[p] = End
    BY <1>1, <1>2, <1>5 DEF Log, Types, HandsInv
  <2>3. \A r \in Loggers : mine'[r] = IF r = p THEN d ELSE mine[r]
    BY <1>2, <2>1, <2>2
  <2>4. CASE b = d
    <3>1. Held(b)' /\ \A r, s \in Loggers : mine'[r] = b /\ mine'[s] = b => r = s
      BY <2>1, <2>3, <2>4 DEF Held
    <3>2. ~Occurs(queue, b)' /\ Single(queue, b)' /\ hand' # b
      BY <2>1, <2>2, <2>4 DEF Occurs, Single
    <3>3. ~Occurs(pool, b)' /\ Single(pool, b)'
      BY <2>1, <2>4 DEF Occurs, Single
    <3>4. content'[b] # <<>> /\ Len(content'[b]) <= 1
      <4> DEFINE line == <<p, logged[p] + 1>>
      <4>1. content'[b] = <<line>>
        BY <2>1, <2>4
      <4> HIDE DEF line
      <4>2. <<line>> # <<>> /\ Len(<<line>>) = 1
        OBVIOUS
      <4> QED
        BY <4>1, <4>2
    <3> QED
      BY <3>1, <3>2, <3>3, <3>4 DEF OnePlace
  <2>5. CASE b # d
    <3>1. b \in Buffers /\ OnePlace(b) /\ b # End
      BY <1>1, <1>2, <2>1, <2>5
    <3>2. \A r \in Loggers : mine'[r] = b <=> mine[r] = b
      BY <2>2, <2>3, <2>5, <3>1
    <3> QED
      BY <2>1, <2>2, <2>5, <3>1, <3>2, PlaceKept DEF OnePlace
  <2> QED
    BY <2>4, <2>5
<1>6. CASE WriteLine
  <2>1. /\ content \in Seq(Seq(Lines)) /\ hand \in Buffers /\ thread = "write"
        /\ content' = [content EXCEPT ![hand] = <<>>] /\ thread' = "return"
        /\ UNCHANGED <<queue, mine, pool, hand>>
    BY <1>1, <1>6 DEF WriteLine, Types, HandsInv, queueVars
  <2>2. b \in Buffers /\ OnePlace(b) /\ b # End
    BY <1>1, <1>2, <2>1 DEF Buffers
  <2>3. CASE b # hand
    <3>1. content'[b] = content[b]
      BY <2>1, <2>2, <2>3 DEF Buffers
    <3> QED
      BY <2>1, <2>2, <2>3, <3>1, PlaceKept DEF OnePlace
  <2>4. CASE b = hand
    <3>1. content'[b] = <<>>
      BY <2>1, <2>2, <2>4 DEF Buffers
    <3>2. /\ Occurs(pool, b)' <=> Occurs(pool, b)
          /\ Occurs(queue, b)' <=> Occurs(queue, b)
          /\ Single(pool, b)' <=> Single(pool, b)
          /\ Single(queue, b)' <=> Single(queue, b)
          /\ Held(b)' <=> Held(b)
      BY <2>1 DEF Occurs, Single, Held
    <3>3. Len(content'[b]) <= 1
      BY <3>1
    <3> QED
      BY <2>1, <2>2, <2>4, <3>1, <3>2, <3>3 DEF OnePlace
  <2> QED
    BY <2>3, <2>4
<1>7. CASE ReturnBuffer
  <2>1. b \in Buffers /\ OnePlace(b) /\ b # End
    BY <1>1, <1>2, <1>7 DEF ReturnBuffer, Buffers
  <2>2. /\ hand \in Buffers /\ pool' = Append(pool, hand) /\ hand' = End /\ thread = "return"
        /\ thread' # "return"
        /\ UNCHANGED <<queue, mine, content>> /\ pool \in Seq(Buffers)
    BY <1>1, <1>7 DEF ReturnBuffer, Types, HandsInv, queueVars
  <2>3. /\ Occurs(pool', b) <=> Occurs(pool, b) \/ hand = b
        /\ Single(pool, b) /\ (hand = b => ~Occurs(pool, b)) => Single(pool', b)
    BY <2>2, OccursAppend
  <2>4. CASE hand # b
    BY <2>1, <2>2, <2>3, <2>4, PlaceKept DEF OnePlace
  <2>5. CASE hand = b
    <3>1. /\ Occurs(pool, b)' /\ Single(pool, b)'
      BY <2>1, <2>3, <2>5 DEF OnePlace, Occurs, Single
    <3>2. /\ ~Occurs(queue, b)' /\ Single(queue, b)' /\ ~Held(b)' /\ hand' # b
      BY <2>1, <2>2, <2>5 DEF OnePlace, Occurs, Single, Held
    <3>3. \A r, s \in Loggers : mine'[r] = b /\ mine'[s] = b => r = s
      BY <3>2 DEF Held
    <3>4. content'[b] = <<>> /\ Len(content'[b]) <= 1
      BY <2>1, <2>2, <2>5 DEF OnePlace
    <3> QED
      BY <3>1, <3>2, <3>3, <3>4 DEF OnePlace
  <2> QED
    BY <2>4, <2>5
<1>8. CASE UNCHANGED <<queue, mine, pool, content, hand>>
           /\ (hand # End => (thread' = "return" <=> thread = "return"))
  <2>1. b \in Buffers /\ OnePlace(b) /\ b # End
    BY <1>1, <1>2, <1>8 DEF Buffers
  <2> QED
    BY <1>8, <2>1, PlaceKept DEF OnePlace
<1>9. CASE PopSleeps \/ Spurious \/ Wakeup \/ ClearIsRun \/ Destroy \/ Close \/ Wait \/ Awake
           \/ UNCHANGED vars
  BY <1>8, <1>9 DEF PopSleeps, Spurious, Wakeup, ClearIsRun, Destroy, Close, Wait, Awake,
     queueVars, bufVars, vars
<1> QED
  BY <1>2, <1>3, <1>4, <1>5, <1>6, <1>7, <1>9 DEF Next, LogThread, Destructor

\* Types and places, for any loggers, capacity and lines.
THEOREM TypeInvariant == Spec => []TypeInv
<1>1. Init => TypeInv
  <2> SUFFICES ASSUME Init PROVE TypeInv
    OBVIOUS
  <2>1. Types
    BY ConstantsAssumption DEF Init, Types, Pushers, Lines, Buffers
  <2>2. HandsInv /\ EndInv /\ SemaphoreInv
    <3>1. HandsInv /\ EndInv
      BY ConstantsAssumption DEF Init, HandsInv, EndInv, Ended, Occurs, Pushers
    <3>2. SemaphoreInv
      BY DEF Init, SemaphoreInv
    <3> QED
      BY <3>1, <3>2
  <2>3. Buffers = {}
    BY DEF Init, Buffers
  <2> QED
    BY <2>1, <2>2, <2>3 DEF TypeInv, ControlInv
<1>2. TypeInv /\ [Next]_vars => TypeInv'
  <2> SUFFICES ASSUME TypeInv, [Next]_vars PROVE TypeInv'
    OBVIOUS
  <2>1. \A b \in Buffers' : OnePlace(b)'
    BY PlacesStep
  <2> QED
    BY <2>1, ControlStep DEF TypeInv
<1> QED
  BY <1>1, <1>2, PTL DEF Spec

\* An element that occurs at most once is counted once or not at all.
LEMMA SingleCount ==
  ASSUME NEW s, NEW b, Single(s, b)
  PROVE  Cardinality({i \in DOMAIN s : s[i] = b}) = IF Occurs(s, b) THEN 1 ELSE 0
<1>1. CASE Occurs(s, b)
  <2>1. PICK i \in DOMAIN s : s[i] = b
    BY <1>1 DEF Occurs
  <2>2. {j \in DOMAIN s : s[j] = b} = {i}
    BY <2>1 DEF Single
  <2> QED
    BY <1>1, <2>2, FS_Singleton
<1>2. CASE ~Occurs(s, b)
  <2>1. {j \in DOMAIN s : s[j] = b} = {}
    BY <1>2 DEF Occurs
  <2> QED
    BY <1>2, <2>1, FS_EmptySet
<1> QED
  BY <1>1, <1>2

\* Type correctness of the log: every buffer is in one place, and has a line in
\* it exactly while it is not free.
THEOREM TypeCorrect == Spec => []TypeOK
<1>1. TypeInv => TypeOK
  <2> SUFFICES ASSUME TypeInv PROVE TypeOK
    OBVIOUS
  <2>1. Types /\ HandsInv /\ \A b \in Buffers : OnePlace(b)
    BY DEF TypeInv, ControlInv
  <2>2. ASSUME NEW b \in Buffers
        PROVE  /\ Places(b) = 1
               /\ content[b] = <<>> <=> (\E i \in DOMAIN pool : pool[i] = b)
                                          \/ (hand = b /\ thread = "return")
    <3>1. OnePlace(b) /\ b # End
      BY <2>1, BufferNumbers
    <3>2. /\ Cardinality({i \in DOMAIN pool : pool[i] = b}) = IF Occurs(pool, b) THEN 1 ELSE 0
          /\ Cardinality({i \in DOMAIN queue : queue[i] = b})
               = IF Occurs(queue, b) THEN 1 ELSE 0
      BY <3>1, SingleCount DEF OnePlace
    <3>3. {p \in Pushers : mine[p] = b} = {p \in Loggers : mine[p] = b}
      BY <2>1, <3>1 DEF HandsInv, Pushers
    <3>4. Cardinality({p \in Pushers : mine[p] = b}) = IF Held(b) THEN 1 ELSE 0
      <4>1. CASE Held(b)
        <5>1. PICK p \in Loggers : mine[p] = b
          BY <4>1 DEF Held
        <5>2. {r \in Loggers : mine[r] = b} = {p}
          BY <3>1, <5>1 DEF OnePlace
        <5> QED
          BY <3>3, <4>1, <5>2, FS_Singleton
      <4>2. CASE ~Held(b)
        <5>1. {r \in Loggers : mine[r] = b} = {}
          BY <4>2 DEF Held
        <5> QED
          BY <3>3, <4>2, <5>1, FS_EmptySet
      <4> QED
        BY <4>1, <4>2
    <3>5. Places(b) = 1
      BY <3>1, <3>2, <3>4 DEF Places, OnePlace
    <3>6. content[b] = <<>> <=> Occurs(pool, b) \/ (hand = b /\ thread = "return")
      BY <3>1 DEF OnePlace
    <3> QED
      BY <3>5, <3>6 DEF Occurs
  <2> QED
    BY <2>1, <2>2 DEF TypeOK, Types
<1> QED
  BY <1>1, TypeInvariant, PTL

-----------------------------------------------------------------------------
(* Notifications *)

\* Only finitely many push at a time, or counting them would say nothing.
WakesInv == NobodyForgotten /\ IsFiniteSet(Among("push"))

\* A pusher more among those that push,
LEMMA PusherMore ==
  ASSUME Types, IsFiniteSet(Among("push")), NEW p \in Pushers, act[p] # "push",
         act' = [act EXCEPT ![p] = "push"]
  PROVE  /\ IsFiniteSet(Among("push")') /\ Among("asleep")' \subseteq Among("asleep")
         /\ Cardinality(Among("push")) \in Nat
         /\ Cardinality(Among("push")') = Cardinality(Among("push")) + 1
<1>1. Among("push")' = Among("push") \cup {p} /\ p \notin Among("push")
  BY DEF Types, Among
<1>2. Among("asleep")' \subseteq Among("asleep")
  BY DEF Types, Among
<1> QED
  BY <1>1, <1>2, FS_AddElement, FS_CardinalityType

\* and one less.
LEMMA PusherLess ==
  ASSUME Types, IsFiniteSet(Among("push")), NEW p \in Pushers, act[p] = "push",
         act'[p] # "push", act' \in [Pushers -> {"idle", "push", "asleep"}],
         \A r \in Pushers : r # p => act'[r] = act[r]
  PROVE  /\ IsFiniteSet(Among("push")')
         /\ Cardinality(Among("push")) \in Nat /\ Cardinality(Among("push")') \in Nat
         /\ Cardinality(Among("push")') = Cardinality(Among("push")) - 1
         /\ Among("push") # {}
<1>1. Among("push")' = Among("push") \ {p} /\ p \in Among("push")
  BY DEF Types, Among
<1> QED
  BY <1>1, FS_RemoveElement, FS_CardinalityType

\* Every step keeps the wake-ups.
LEMMA WakesStep == TypeInv /\ WakesInv /\ [Next]_vars => WakesInv'
<1> SUFFICES ASSUME TypeInv, WakesInv, [Next]_vars PROVE WakesInv'
  OBVIOUS
<1>1. /\ Types /\ IsFiniteSet(Among("push")) /\ NobodyForgotten
      /\ queue \in Seq(Buffers \cup {End}) /\ Len(queue) \in Nat
      /\ Capacity \in Nat /\ Len(queue) <= Capacity
      /\ Cardinality(Among("push")) \in Nat
      /\ act \in [Pushers -> {"idle", "push", "asleep"}]
  BY ConstantsAssumption, FS_CardinalityType DEF TypeInv, ControlInv, Types, WakesInv
<1>2. Closer \in Pushers /\ Loggers \subseteq Pushers
  BY DEF Pushers
<1>3. ASSUME UNCHANGED <<act, queue>>, thread' = "asleep" => thread = "asleep" \/ queue = <<>>
      PROVE  WakesInv'
  BY <1>1, <1>3 DEF WakesInv, NobodyForgotten, Among
<1>4. ASSUME NEW p \in Pushers, Push(p) PROVE WakesInv'
  <2>1. CASE Len(queue) >= Capacity
    <3>1. /\ act[p] = "push" /\ act' = [act EXCEPT ![p] = "asleep"]
          /\ UNCHANGED <<queue, thread>>
      BY <1>4, <2>1 DEF Push
    <3>2. /\ IsFiniteSet(Among("push")') /\ Cardinality(Among("push")') \in Nat
      BY <1>1, <3>1, PusherLess
    <3>3. Capacity - Len(queue') = 0
      BY <1>1, <2>1, <3>1
    <3> QED
      BY <1>1, <3>1, <3>2, <3>3 DEF WakesInv, NobodyForgotten
  <2>2. CASE ~(Len(queue) >= Capacity)
    <3>1. /\ act[p] = "push" /\ queue' = Append(queue, mine[p])
          /\ act' = [act EXCEPT ![p] = "idle"]
          /\ thread' = IF thread = "asleep" THEN "pop" ELSE thread
      BY <1>4, <2>2 DEF Push
    <3>2. Len(queue') = Len(queue) + 1
      BY <1>1, <3>1 DEF Types
    <3>3. /\ IsFiniteSet(Among("push")') /\ Cardinality(Among("push")') \in Nat
          /\ Cardinality(Among("push")') = Cardinality(Among("push")) - 1
      BY <1>1, <3>1, PusherLess
    <3>4. Among("asleep")' = Among("asleep")
      BY <1>1, <3>1 DEF Among
    <3>5. /\ Among("asleep") # {} => Capacity - Len(queue) <= Cardinality(Among("push"))
          /\ thread' # "asleep"
      BY <1>1, <3>1 DEF NobodyForgotten
    <3>6. Among("asleep") # {} => Capacity - Len(queue') <= Cardinality(Among("push")')
      BY <1>1, <3>2, <3>3, <3>5
    <3> QED
      BY <3>3, <3>4, <3>5, <3>6 DEF WakesInv, NobodyForgotten
  <2> QED
    BY <2>1, <2>2
<1>5. CASE Pop
  <2>1. queue # <<>> /\ queue' = Tail(queue) /\ WakePusher(act) /\ thread' # "asleep"
    BY <1>5 DEF Pop
  <2>2. Len(queue') = Len(queue) - 1
    BY <1>1, <2>1, Popped
  <2>3. CASE \E p \in Pushers : act[p] = "asleep"
    <3>1. PICK p \in Pushers : act[p] = "asleep" /\ act' = [act EXCEPT ![p] = "push"]
      BY <2>1, <2>3 DEF WakePusher
    <3>2. /\ IsFiniteSet(Among("push")') /\ p \in Among("asleep")
          /\ Cardinality(Among("push")') = Cardinality(Among("push")) + 1
      BY <1>1, <3>1, PusherMore DEF Among
    <3>3. Capacity - Len(queue) <= Cardinality(Among("push"))
      BY <1>1, <3>2 DEF NobodyForgotten
    <3>4. Capacity - Len(queue') <= Cardinality(Among("push")')
      BY <1>1, <2>2, <3>2, <3>3
    <3> QED
      BY <2>1, <3>2, <3>4 DEF WakesInv, NobodyForgotten
  <2>4. CASE ~\E p \in Pushers : act[p] = "asleep"
    <3>1. Among("asleep")' = {} /\ Among("push")' = Among("push")
      BY <2>1, <2>4 DEF WakePusher, Among
    <3> QED
      BY <1>1, <2>1, <3>1 DEF WakesInv, NobodyForgotten
  <2> QED
    BY <2>3, <2>4
<1>6. ASSUME NEW p \in Pushers, act[p] # "push", act' = [act EXCEPT ![p] = "push"],
             UNCHANGED <<queue, thread>>
      PROVE  WakesInv'
  <2>1. /\ IsFiniteSet(Among("push")') /\ Among("asleep")' \subseteq Among("asleep")
        /\ Cardinality(Among("push")') = Cardinality(Among("push")) + 1
    BY <1>1, <1>6, PusherMore
  <2>2. Among("asleep") # {} => Capacity - Len(queue) <= Cardinality(Among("push"))
    BY <1>1 DEF NobodyForgotten
  <2>3. Among("asleep")' # {} => Capacity - Len(queue') <= Cardinality(Among("push")')
    BY <1>1, <1>6, <2>1, <2>2
  <2> QED
    BY <1>1, <1>6, <2>1, <2>3 DEF WakesInv, NobodyForgotten
<1>7. CASE Spurious
  <2>1. CASE thread = "asleep" /\ thread' = "pop" /\ UNCHANGED act
    BY <1>3, <1>7, <2>1 DEF Spurious
  <2>2. CASE (\E p \in Pushers : act[p] = "asleep" /\ act' = [act EXCEPT ![p] = "push"])
             /\ UNCHANGED thread
    BY <1>6, <1>7, <2>2 DEF Spurious
  <2> QED
    BY <1>7, <2>1, <2>2 DEF Spurious
<1>8. ASSUME NEW p \in Loggers, Log(p) PROVE WakesInv'
  BY <1>2, <1>6, <1>8 DEF Log
<1>9. CASE Destroy
  <2>1. dtor = "live" /\ act' = [act EXCEPT ![Closer] = "push"] /\ UNCHANGED <<queue, thread>>
    BY <1>9 DEF Destroy
  <2>2. act[Closer] = "idle"
    BY <2>1 DEF TypeInv, ControlInv, HandsInv
  <2> QED
    BY <1>2, <1>6, <2>1, <2>2
<1>10. CASE PopSleeps \/ WriteLine \/ ReturnBuffer \/ Wakeup \/ ClearIsRun \/ Close \/ Wait
            \/ Awake \/ UNCHANGED vars
  BY <1>3, <1>10 DEF PopSleeps, WriteLine, ReturnBuffer, Wakeup, ClearIsRun, Close, Wait, Awake,
     vars, queueVars
<1> QED
  BY <1>2, <1>4, <1>5, <1>7, <1>8, <1>9, <1>10 DEF Next, LogThread, Destructor

\* For any number of loggers and any capacity, whoever sleeps for a place in the
\* queue is woken for every place that is free, and the log thread sleeps only on
\* an empty queue: notify_one is enough.
THEOREM NoWakeUpLost == Spec => []NobodyForgotten
<1>1. Init => WakesInv
  <2> SUFFICES ASSUME Init PROVE WakesInv
    OBVIOUS
  <2>1. Among("push") = {} /\ Among("asleep") = {} /\ thread # "asleep"
    BY DEF Init, Among
  <2> QED
    BY <2>1, FS_EmptySet DEF WakesInv, NobodyForgotten
<1>2. WakesInv => NobodyForgotten
  BY DEF WakesInv
<1> QED
  BY <1>1, <1>2, TypeInvariant, WakesStep, PTL DEF Spec

-----------------------------------------------------------------------------
(* The lines *)

\* A line that a logger begins is new, and in the buffer it is copied to.
LEMMA LinesLog ==
  ASSUME TypeInv, LinesInv, NEW p \in Loggers, Log(p)
  PROVE  LinesInv'
<1> DEFINE line == <<p, logged[p] + 1>>
<1>1. /\ Types /\ \A d \in Buffers : OnePlace(d)
      /\ logged \in [Loggers -> 0..MaxLines] /\ MaxLines \in Nat
      /\ logged[p] \in Nat /\ \A r \in Loggers : logged[r] \in Nat
  BY ConstantsAssumption DEF TypeInv, ControlInv, Types
<1>2. /\ logged' = [logged EXCEPT ![p] = @ + 1] /\ logged[p] < MaxLines
      /\ UNCHANGED written
  BY <1>1 DEF Log
<1>3. PICK b \in Buffers' :
        /\ Buffers' = Buffers \cup {b} /\ content'[b] = <<line>>
        /\ \A d \in Buffers : d # b => content'[d] = content[d]
        /\ b \in Buffers => content[b] = <<>>
  BY LogTakes
<1>4. line \in Lines /\ line[1] = p /\ line[2] = logged[p] + 1
  BY <1>1, <1>2 DEF Lines
<1>5. /\ ~Begun(line)
      /\ \A x \in Lines : Begun(x)' <=> Begun(x) \/ x = line
      /\ \A r \in Loggers : \A k \in 1..logged'[r] : k \in 1..logged[r] \/ <<r, k>> = line
  <2>1. \A r \in Loggers : logged'[r] = IF r = p THEN logged[p] + 1 ELSE logged[r]
    BY <1>1, <1>2
  <2>2. ~Begun(line)
    BY <1>1, <1>4 DEF Begun
  <2>3. ASSUME NEW x \in Lines PROVE Begun(x)' <=> Begun(x) \/ x = line
    <3>1. PICK r \in Loggers, k \in 1..MaxLines : x = <<r, k>>
      BY DEF Lines
    <3>2. /\ Begun(x)' <=> k <= logged'[r]
          /\ Begun(x) <=> k <= logged[r]
      BY <3>1 DEF Begun
    <3>3. x = line <=> r = p /\ k = logged[p] + 1
      BY <3>1
    <3> QED
      BY <1>1, <2>1, <3>2, <3>3
  <2>4. ASSUME NEW r \in Loggers, NEW k \in 1..logged'[r]
        PROVE  k \in 1..logged[r] \/ <<r, k>> = line
    BY <1>1, <2>1
  <2> QED
    BY <2>2, <2>3, <2>4
<1> HIDE DEF line
<1>6. ASSUME NEW d, NEW x \in Lines
      PROVE  InBuffer(d, x)' <=> InBuffer(d, x) \/ (d = b /\ x = line)
  <2>1. CASE d = b
    <3>1. content'[d] # <<>> /\ content'[d][1] = line
      BY <1>3, <2>1
    <3> QED
      BY <1>3, <2>1, <3>1 DEF InBuffer
  <2>2. CASE d # b
    BY <1>3, <2>2 DEF InBuffer
  <2> QED
    BY <2>1, <2>2
<1>7. ASSUME NEW x \in Lines
      PROVE  (Occurs(written, x)' <=> Occurs(written, x))
             /\ (Single(written, x)' <=> Single(written, x))
  BY <1>2 DEF Occurs, Single
<1>8. /\ \A x \in Lines :
           /\ Occurs(written, x) => Begun(x) /\ Single(written, x)
           /\ \A d \in Buffers : InBuffer(d, x) =>
                /\ Begun(x) /\ ~Occurs(written, x)
                /\ \A e \in Buffers : InBuffer(e, x) => e = d
      /\ \A r \in Loggers : \A k \in 1..logged[r] :
           Occurs(written, <<r, k>>) \/ \E d \in Buffers : InBuffer(d, <<r, k>>)
  BY DEF LinesInv
<1>9. ASSUME NEW r \in Loggers, NEW k \in 1..logged'[r]
      PROVE  Occurs(written, <<r, k>>)' \/ \E d \in Buffers' : InBuffer(d, <<r, k>>)'
  <2>1. CASE <<r, k>> = line
    BY <1>3, <1>4, <1>6, <2>1
  <2>2. CASE <<r, k>> # line
    <3>1. k \in 1..logged[r] /\ <<r, k>> \in Lines
      BY <1>1, <1>5, <2>2 DEF Lines
    <3>2. CASE Occurs(written, <<r, k>>)
      BY <1>7, <3>1, <3>2
    <3>3. ASSUME NEW d \in Buffers, InBuffer(d, <<r, k>>)
          PROVE  \E e \in Buffers' : InBuffer(e, <<r, k>>)'
      BY <1>3, <1>6, <3>1, <3>3
    <3> QED
      BY <1>8, <3>1, <3>2, <3>3
  <2> QED
    BY <2>1, <2>2
<1>10. ASSUME NEW x \in Lines, Occurs(written, x)' PROVE Begun(x)' /\ Single(written, x)'
  BY <1>5, <1>7, <1>8, <1>10
<1>11. ASSUME NEW x \in Lines, NEW d \in Buffers', InBuffer(d, x)'
       PROVE  /\ Begun(x)' /\ ~Occurs(written, x)'
              /\ \A e \in Buffers' : InBuffer(e, x)' => e = d
  <2>1. \A e : InBuffer(e, x) => e \in Buffers
    BY DEF InBuffer
  <2>2. CASE x = line
    <3>1. ~Occurs(written, x) /\ \A e : ~InBuffer(e, x)
      BY <1>4, <1>5, <1>8, <2>1, <2>2
    <3> QED
      BY <1>5, <1>6, <1>7, <1>11, <2>2, <3>1
  <2>3. CASE x # line
    BY <1>5, <1>6, <1>7, <1>8, <1>11, <2>1, <2>3
  <2> QED
    BY <2>2, <2>3
<1> QED
  BY <1>9, <1>10, <1>11 DEF LinesInv

\* The buffer that is written has one line in it.
LEMMA LineWritten ==
  ASSUME TypeInv, WriteLine
  PROVE  \E line \in Lines :
           /\ content[hand] = <<line>> /\ hand \in Buffers
           /\ written' = Append(written, line) /\ written \in Seq(Lines)
           /\ Buffers' = Buffers /\ content'[hand] = <<>>
           /\ \A d \in Buffers : d # hand => content'[d] = content[d]
<1>1. /\ content \in Seq(Seq(Lines)) /\ hand \in Buffers /\ thread = "write" /\ hand # End
      /\ OnePlace(hand) /\ written \in Seq(Lines)
      /\ content' = [content EXCEPT ![hand] = <<>>] /\ written' = written \o content[hand]
  BY BufferNumbers DEF TypeInv, ControlInv, Types, HandsInv, WriteLine
<1>2. /\ content[hand] \in Seq(Lines) /\ content[hand] # <<>> /\ Len(content[hand]) <= 1
  BY <1>1 DEF OnePlace, Buffers
<1>3. Len(content[hand]) \in Nat /\ Len(content[hand]) # 0
  BY <1>2, LenProperties, EmptySeq
<1>4. Len(content[hand]) = 1
  <2>1. \A n \in Nat : n # 0 /\ n <= 1 => n = 1
    OBVIOUS
  <2> QED
    BY <1>2, <1>3, <2>1
<1> DEFINE line == content[hand][1]
<1>5. content[hand] = <<line>> /\ line \in Lines
  BY <1>2, <1>4
<1> HIDE DEF line
<1>6. written \o <<line>> = Append(written, line)
  BY <1>1, <1>5, AppendIsConcat
<1>7. /\ Buffers' = Buffers /\ content'[hand] = <<>>
      /\ \A d \in Buffers : d # hand => content'[d] = content[d]
  BY <1>1 DEF Buffers
<1> QED
  BY <1>1, <1>5, <1>6, <1>7

\* A line that is written leaves its buffer.
LEMMA LinesWrite ==
  ASSUME TypeInv, LinesInv, WriteLine
  PROVE  LinesInv'
<1>1. PICK line \in Lines :
        /\ content[hand] = <<line>> /\ hand \in Buffers
        /\ written' = Append(written, line) /\ written \in Seq(Lines)
        /\ Buffers' = Buffers /\ content'[hand] = <<>>
        /\ \A d \in Buffers : d # hand => content'[d] = content[d]
  BY LineWritten
<1>2. UNCHANGED logged
  BY DEF WriteLine
<1>3. ASSUME NEW x \in Lines
      PROVE  /\ Occurs(written, x)' <=> Occurs(written, x) \/ line = x
             /\ Single(written, x) /\ (line = x => ~Occurs(written, x)) => Single(written, x)'
             /\ Begun(x)' <=> Begun(x)
  <2>1. /\ Occurs(written', x) <=> Occurs(written, x) \/ line = x
        /\ Single(written, x) /\ (line = x => ~Occurs(written, x)) => Single(written', x)
    BY <1>1, OccursAppend
  <2> QED
    BY <1>2, <2>1 DEF Occurs, Single, Begun
<1>4. InBuffer(hand, line)
  <2>1. <<line>> # <<>> /\ <<line>>[1] = line
    OBVIOUS
  <2> QED
    BY <1>1, <2>1 DEF InBuffer
<1>5. ASSUME NEW d, NEW x PROVE InBuffer(d, x)' <=> InBuffer(d, x) /\ d # hand
  <2>1. hand' = hand
    BY DEF WriteLine
  <2> QED
    BY <1>1, <2>1 DEF InBuffer
<1>6. /\ \A x \in Lines :
           /\ Occurs(written, x) => Begun(x) /\ Single(written, x)
           /\ \A d \in Buffers : InBuffer(d, x) =>
                /\ Begun(x) /\ ~Occurs(written, x)
                /\ \A e \in Buffers : InBuffer(e, x) => e = d
      /\ \A r \in Loggers : \A k \in 1..logged[r] :
           Occurs(written, <<r, k>>) \/ \E d \in Buffers : InBuffer(d, <<r, k>>)
  BY DEF LinesInv
<1>7. Begun(line) /\ ~Occurs(written, line) /\ \A e \in Buffers : InBuffer(e, line) => e = hand
  BY <1>1, <1>4, <1>6
<1>8. \A x : InBuffer(hand, x) => x = line
  BY <1>1 DEF InBuffer
<1>9. ASSUME NEW r \in Loggers, NEW k \in 1..logged'[r]
      PROVE  Occurs(written, <<r, k>>)' \/ \E d \in Buffers' : InBuffer(d, <<r, k>>)'
  <2>1. /\ k \in 1..logged[r] /\ <<r, k>> \in Lines
    BY <1>2, ConstantsAssumption DEF TypeInv, ControlInv, Types, Lines
  <2>2. CASE Occurs(written, <<r, k>>)
    BY <1>3, <2>1, <2>2
  <2>3. ASSUME NEW d \in Buffers, InBuffer(d, <<r, k>>)
        PROVE  Occurs(written, <<r, k>>)' \/ \E e \in Buffers' : InBuffer(e, <<r, k>>)'
    BY <1>1, <1>3, <1>5, <1>8, <2>1, <2>3
  <2> QED
    BY <1>6, <2>1, <2>2, <2>3
<1>10. ASSUME NEW x \in Lines, Occurs(written, x)' PROVE Begun(x)' /\ Single(written, x)'
  <2>1. CASE x = line
    <3>1. Single(written, x)
      BY <1>7, <2>1 DEF Single, Occurs
    <3> QED
      BY <1>3, <1>7, <2>1, <3>1
  <2>2. CASE x # line
    BY <1>3, <1>6, <1>10, <2>2
  <2> QED
    BY <2>1, <2>2
<1>11. ASSUME NEW x \in Lines, NEW d \in Buffers', InBuffer(d, x)'
       PROVE  /\ Begun(x)' /\ ~Occurs(written, x)'
              /\ \A e \in Buffers' : InBuffer(e, x)' => e = d
  <2>1. InBuffer(d, x) /\ d # hand /\ d \in Buffers /\ x # line
    BY <1>1, <1>5, <1>7, <1>11
  <2> QED
    BY <1>1, <1>3, <1>5, <1>6, <2>1
<1> QED
  BY <1>9, <1>10, <1>11 DEF LinesInv

\* No other step has to do with lines.
LEMMA LinesStep == TypeInv /\ LinesInv /\ [Next]_vars => LinesInv'
<1> SUFFICES ASSUME TypeInv, LinesInv, [Next]_vars PROVE LinesInv'
  OBVIOUS
<1>1. CASE UNCHANGED <<written, content, logged>>
  <2>1. /\ \A x : /\ Occurs(written, x)' <=> Occurs(written, x)
                  /\ Single(written, x)' <=> Single(written, x)
                  /\ Begun(x)' <=> Begun(x)
                  /\ \A d : InBuffer(d, x)' <=> InBuffer(d, x)
        /\ Buffers' = Buffers
    BY <1>1 DEF Occurs, Single, InBuffer, Begun, Buffers
  <2> QED
    BY <1>1, <2>1 DEF LinesInv
<1>2. CASE \E p \in Loggers : Log(p)
  BY <1>2, LinesLog
<1>3. CASE WriteLine
  BY <1>3, LinesWrite
<1>4. CASE \E p \in Pushers : Push(p)
  BY <1>1, <1>4 DEF Push, bufVars
<1>5. CASE Pop \/ PopSleeps \/ Spurious \/ ReturnBuffer \/ Wakeup \/ ClearIsRun \/ Destroy
           \/ Close \/ Wait \/ Awake \/ UNCHANGED vars
  BY <1>1, <1>5 DEF Pop, PopSleeps, Spurious, ReturnBuffer, Wakeup, ClearIsRun, Destroy, Close,
     Wait, Awake, bufVars, vars
<1> QED
  BY <1>2, <1>3, <1>4, <1>5 DEF Next, LogThread, Destructor, Pushers

\* Lines that are all written, and once each, are as many as were begun.
LEMMA LinesCount ==
  ASSUME TypeInv, LinesInv, \A b \in Buffers : content[b] = <<>>, NEW p \in Loggers
  PROVE  Cardinality({i \in DOMAIN written : written[i][1] = p}) = logged[p]
<1> DEFINE S == {i \in DOMAIN written : written[i][1] = p}
           T == 1..logged[p]
           f == [i \in S |-> written[i][2]]
<1>1. /\ logged[p] \in Nat /\ logged[p] <= MaxLines /\ MaxLines \in Nat
      /\ written \in Seq(Lines) /\ Len(written) \in Nat /\ DOMAIN written = 1..Len(written)
  BY ConstantsAssumption DEF TypeInv, ControlInv, Types
<1>2. IsFiniteSet(S)
  <2>1. IsFiniteSet(1..Len(written)) /\ S \subseteq 1..Len(written)
    BY <1>1, FS_Interval
  <2> QED
    BY <2>1, FS_Subset
<1>3. ASSUME NEW i \in S PROVE written[i] = <<p, f[i]>> /\ f[i] \in T /\ written[i] \in Lines
  <2>1. written[i] \in Lines /\ written[i][1] = p
    BY <1>1
  <2>2. written[i] = <<p, written[i][2]>> /\ written[i][2] \in 1..MaxLines
    BY <2>1 DEF Lines
  <2>3. Begun(written[i])
    BY <2>1 DEF LinesInv, Occurs
  <2> QED
    BY <1>1, <2>1, <2>2, <2>3 DEF Begun
<1>4. ASSUME NEW k \in T PROVE \E i \in S : f[i] = k
  <2>1. Occurs(written, <<p, k>>)
    BY DEF LinesInv, InBuffer
  <2>2. PICK i \in DOMAIN written : written[i] = <<p, k>>
    BY <2>1 DEF Occurs
  <2> QED
    BY <2>2
<1>5. ASSUME NEW i \in S, NEW j \in S, f[i] = f[j] PROVE i = j
  <2>1. written[i] = written[j] /\ written[i] \in Lines
    BY <1>3, <1>5
  <2>2. Single(written, written[i])
    BY <2>1 DEF LinesInv, Occurs
  <2> QED
    BY <2>1, <2>2 DEF Single
<1>6. f \in [S -> T]
  BY <1>3
<1>7. DOMAIN f = S
  OBVIOUS
<1> HIDE DEF f, S, T
<1>8. f \in Bijection(S, T)
  BY <1>4, <1>5, <1>6, <1>7 DEF Bijection, Injection, Surjection, IsInjective
<1>9. Cardinality(S) = Cardinality(T)
  BY <1>2, <1>8, FS_Bijection DEF ExistsBijection
<1>10. Cardinality(T) = logged[p]
  <2> DEFINE n == logged[p]
  <2>1. n \in Nat /\ T = 1..n
    BY <1>1 DEF T
  <2> HIDE DEF n
  <2>2. Cardinality(1..n) = IF 1 > n THEN 0 ELSE n - 1 + 1
    BY <2>1, FS_Interval
  <2> QED
    BY <2>1, <2>2 DEF n
<1> QED
  BY <1>9, <1>10 DEF S

\* If every buffer is in the pool, once, the pool is as long as there are buffers.
LEMMA PoolCount ==
  ASSUME TypeInv, \A b \in Buffers : Occurs(pool, b)
  PROVE  Len(pool) = Len(content)
<1>1. /\ pool \in Seq(Buffers) /\ Len(content) \in Nat /\ Buffers = 1..Len(content)
      /\ Len(pool) \in Nat /\ DOMAIN pool = 1..Len(pool)
      /\ \A b \in Buffers : Single(pool, b)
  BY BufferNumbers DEF TypeInv, ControlInv, Types, OnePlace
<1>2. pool \in [1..Len(pool) -> Buffers]
  BY <1>1
<1>3. pool \in Bijection(1..Len(pool), Buffers)
  BY <1>1, <1>2 DEF Bijection, Injection, Surjection, IsInjective, Occurs, Single
<1>4. Cardinality(Buffers) = Cardinality(1..Len(pool))
  BY <1>1, <1>3, FS_Interval, FS_Bijection DEF ExistsBijection
<1>5. \A n \in Nat : Cardinality(1..n) = n
  <2> TAKE n \in Nat
  <2>1. Cardinality(1..n) = IF 1 > n THEN 0 ELSE n - 1 + 1
    BY FS_Interval
  <2> QED
    BY <2>1
<1> QED
  BY <1>1, <1>4, <1>5

\* When a log whose thread ran is freed, every line that anyone began to log is
\* written, every buffer is back in the pool, and the thread is past all of it:
\* the destructor waits for long enough, for any loggers and capacity.
THEOREM Freed == Spec => []FreedWhenWritten
<1>1. Init => LinesInv
  <2> SUFFICES ASSUME Init PROVE LinesInv
    OBVIOUS
  <2>1. Buffers = {} /\ DOMAIN written = {} /\ \A p \in Loggers : 1..logged[p] = {}
    BY DEF Init, Buffers
  <2> QED
    BY <2>1 DEF LinesInv, Occurs
<1>2. TypeInv /\ LinesInv => FreedWhenWritten
  <2> SUFFICES ASSUME TypeInv, LinesInv, dtor = "freed", thread # "never"
               PROVE  /\ thread \in {"clear", "done"} /\ queue = <<>>
                      /\ Len(pool) = Len(content)
                      /\ \A p \in Loggers :
                           Cardinality({i \in DOMAIN written : written[i][1] = p}) = logged[p]
    BY DEF FreedWhenWritten
  <2>1. /\ Types /\ HandsInv /\ EndInv /\ SemaphoreInv /\ \A b \in Buffers : OnePlace(b)
    BY DEF TypeInv, ControlInv
  <2>2. thread \in {"clear", "done"} /\ queue = <<>>
    BY <2>1 DEF SemaphoreInv, EndInv, Ended
  <2>3. hand = End /\ \A p \in Loggers : mine[p] = End
    BY <2>1, <2>2 DEF HandsInv
  <2>4. ASSUME NEW b \in Buffers PROVE Occurs(pool, b) /\ content[b] = <<>>
    BY <2>1, <2>2, <2>3, BufferNumbers DEF OnePlace, Occurs, Held
  <2> QED
    BY <2>2, <2>4, LinesCount, PoolCount
<1> QED
  BY <1>1, <1>2, TypeInvariant, LinesStep, PTL DEF Spec

-----------------------------------------------------------------------------
(* The channel *)

Contents(q) == [i \in DOMAIN q |-> IF q[i] = End THEN <<>> ELSE content[q[i]]]
AtHand == IF thread = "write" THEN content[hand] ELSE <<>>
Sent == written \o (AtHand \o FlattenSeq(Contents(queue)))

\* The lines that wait are lines.
LEMMA WaitingType ==
  ASSUME Types
  PROVE  /\ \A q \in Seq(Buffers \cup {End}) : Contents(q) \in Seq(Seq(Lines))
         /\ FlattenSeq(Contents(queue)) \in Seq(Lines)
         /\ hand # End => content[hand] \in Seq(Lines)
<1>1. ASSUME NEW q \in Seq(Buffers \cup {End}) PROVE Contents(q) \in Seq(Seq(Lines))
  <2>1. /\ DOMAIN q = 1..Len(q) /\ Len(q) \in Nat /\ \A i \in 1..Len(q) : q[i] \in Buffers \cup {End}
    BY LenProperties
  <2>2. \A i \in 1..Len(q) : (IF q[i] = End THEN <<>> ELSE content[q[i]]) \in Seq(Lines)
    BY <2>1 DEF Types, Buffers
  <2>3. Contents(q) \in [1..Len(q) -> Seq(Lines)]
    BY <2>1, <2>2 DEF Contents
  <2> QED
    BY <2>1, <2>3
<1>2. queue \in Seq(Buffers \cup {End})
  BY DEF Types
<1>3. FlattenSeq(Contents(queue)) \in Seq(Lines)
  BY <1>1, <1>2, FlattenType
<1>4. hand # End => content[hand] \in Seq(Lines)
  BY DEF Types, Buffers
<1> QED
  BY <1>1, <1>3, <1>4

\* A step of the queue's two ends, as the channel sees it.
LEMMA SentSteps ==
  ASSUME TypeInv, [Next]_vars
  PROVE  \/ (\E line \in Lines : Sent' = Append(Sent, line)) /\ UNCHANGED written
         \/ /\ UNCHANGED Sent /\ Len(written') = Len(written) + 1
            /\ Len(written) < Len(Sent)
         \/ UNCHANGED <<Sent, written>>
<1> DEFINE F == FlattenSeq(Contents(queue))
<1>1. /\ Types /\ HandsInv /\ \A b \in Buffers : OnePlace(b)
      /\ queue \in Seq(Buffers \cup {End}) /\ content \in Seq(Seq(Lines))
      /\ written \in Seq(Lines)
  BY DEF TypeInv, ControlInv, Types
<1>2. /\ F \in Seq(Lines) /\ Contents(queue) \in Seq(Seq(Lines))
      /\ AtHand \in Seq(Lines)
  <2>1. F \in Seq(Lines) /\ Contents(queue) \in Seq(Seq(Lines))
    BY <1>1, WaitingType
  <2>2. AtHand \in Seq(Lines)
    BY <1>1, WaitingType, EmptySeq DEF AtHand, HandsInv
  <2> QED
    BY <2>1, <2>2
<1>3. ASSUME NEW p \in Pushers, Push(p)
      PROVE  \/ (\E line \in Lines : Sent' = Append(Sent, line)) /\ UNCHANGED written
             \/ UNCHANGED <<Sent, written>>
  <2>1. UNCHANGED <<written, content, hand>> /\ AtHand' = AtHand
    BY <1>3 DEF Push, bufVars, AtHand
  <2>2. CASE Len(queue) >= Capacity
    BY <1>3, <2>1, <2>2 DEF Push, Sent, Contents
  <2>3. CASE ~(Len(queue) >= Capacity)
    <3>1. queue' = Append(queue, mine[p]) /\ mine[p] \in Buffers \cup {End} /\ act[p] = "push"
      BY <1>1, <1>3, <2>3 DEF Push, Types
    <3> DEFINE s == IF mine[p] = End THEN <<>> ELSE content[mine[p]]
    <3>2. s \in Seq(Lines)
      BY <1>1, <3>1 DEF Buffers
    <3>3. Contents(queue)' = Append(Contents(queue), s)
      <4>1. /\ Contents(queue)' = [i \in DOMAIN queue' |->
                                    IF queue'[i] = End THEN <<>> ELSE content[queue'[i]]]
            /\ DOMAIN queue = 1..Len(queue) /\ DOMAIN queue' = 1..(Len(queue) + 1)
            /\ Len(queue) \in Nat
            /\ \A i \in 1..Len(queue) : queue'[i] = queue[i]
            /\ queue'[Len(queue) + 1] = mine[p]
        BY <1>1, <2>1, <3>1, Appended DEF Contents
      <4>2. /\ Len(Contents(queue)) = Len(queue) /\ DOMAIN Contents(queue) = 1..Len(queue)
            /\ \A i \in 1..Len(queue) :
                 Contents(queue)[i] = IF queue[i] = End THEN <<>> ELSE content[queue[i]]
        BY <1>2, <4>1, LenProperties DEF Contents
      <4>3. Append(Contents(queue), s)
              = [i \in 1..(Len(queue) + 1) |->
                   IF i <= Len(queue) THEN Contents(queue)[i] ELSE s]
        BY <1>2, <3>2, <4>1, <4>2
      <4>4. \A i \in 1..(Len(queue) + 1) :
              (IF queue'[i] = End THEN <<>> ELSE content[queue'[i]])
                = IF i <= Len(queue) THEN Contents(queue)[i] ELSE s
        <5> TAKE i \in 1..(Len(queue) + 1)
        <5>1. CASE i \in 1..Len(queue)
          BY <4>1, <4>2, <5>1
        <5>2. CASE i = Len(queue) + 1
          BY <4>1, <5>2
        <5> QED
          BY <4>1, <5>1, <5>2
      <4> QED
        BY <4>1, <4>3, <4>4
    <3> HIDE DEF s
    <3>4. F' = F \o s
      BY <1>2, <3>2, <3>3, FlattenAppend
    <3> HIDE DEF F
    <3>5. Sent' = Sent \o s
      <4>1. Sent' = written \o (AtHand \o (F \o s)) /\ Sent = written \o (AtHand \o F)
        BY <2>1, <3>4 DEF Sent, F
      <4>2. AtHand \o (F \o s) = (AtHand \o F) \o s
        BY <1>2, <3>2, ConcatAssociative, SMTT(60)
      <4>3. AtHand \o F \in Seq(Lines)
        BY <1>2, ConcatProperties
      <4> DEFINE u == AtHand \o F
      <4>4. u \in Seq(Lines)
        BY <4>3
      <4> HIDE DEF u
      <4>5. written \o (u \o s) = (written \o u) \o s
        BY <1>1, <3>2, <4>4, ConcatAssociative, SMTT(60)
      <4> QED
        BY <4>1, <4>2, <4>5 DEF u
    <3>6. Sent \in Seq(Lines)
      BY <1>1, <1>2, ConcatProperties DEF Sent, F
    <3>7. CASE p = Closer
      <4>1. s = <<>>
        BY <1>1, <3>7 DEF HandsInv, s
      <4> QED
        BY <2>1, <3>5, <3>6, <4>1, ConcatEmptySeq
    <3>8. CASE p # Closer
      <4>1. mine[p] \in Buffers /\ mine[p] # End /\ s = content[mine[p]] /\ p \in Loggers
        BY <1>1, <3>1, <3>8 DEF HandsInv, Pushers, s
      <4>2. Held(mine[p]) /\ OnePlace(mine[p])
        BY <1>1, <4>1 DEF Held
      <4>3. s # <<>> /\ Len(s) <= 1
        BY <4>1, <4>2 DEF OnePlace
      <4>4. Len(s) \in Nat /\ Len(s) # 0
        BY <3>2, <4>3, LenProperties, EmptySeq
      <4>5. Len(s) = 1
        <5>1. \A n \in Nat : n # 0 /\ n <= 1 => n = 1
          OBVIOUS
        <5> QED
          BY <4>3, <4>4, <5>1
      <4>6. s = <<s[1]>> /\ s[1] \in Lines
        BY <3>2, <4>5
      <4>7. Append(Sent, s[1]) = Sent \o <<s[1]>>
        BY <3>6, <4>6, AppendIsConcat
      <4> QED
        BY <2>1, <3>5, <4>6, <4>7
    <3> QED
      BY <3>7, <3>8
  <2> QED
    BY <2>2, <2>3
<1>4. CASE Pop
  <2>1. /\ queue # <<>> /\ hand' = Head(queue) /\ queue' = Tail(queue) /\ thread = "pop"
        /\ thread' = (IF Head(queue) = End THEN "wakeup" ELSE "write")
        /\ UNCHANGED <<written, content>>
    BY <1>4 DEF Pop, bufVars
  <2> DEFINE s == IF Head(queue) = End THEN <<>> ELSE content[Head(queue)]
  <2>2. AtHand = <<>> /\ AtHand' = s
    BY <2>1 DEF AtHand
  <2>3. /\ DOMAIN queue = 1..Len(queue) /\ DOMAIN Tail(queue) = 1..(Len(queue) - 1)
        /\ Len(queue) \in Nat /\ Len(queue) > 0 /\ Head(queue) = queue[1]
        /\ \A i \in 1..(Len(queue) - 1) : Tail(queue)[i] = queue[i + 1]
    BY <1>1, <2>1, Popped
  <2>4. /\ Len(Contents(queue)) = Len(queue) /\ Contents(queue) # <<>>
        /\ \A i \in 1..Len(queue) :
             Contents(queue)[i] = IF queue[i] = End THEN <<>> ELSE content[queue[i]]
    <3>1. DOMAIN Contents(queue) = 1..Len(queue)
      BY <2>3 DEF Contents
    <3>2. Len(Contents(queue)) = Len(queue)
      BY <1>2, <2>3, <3>1, LenProperties
    <3>3. Contents(queue) # <<>>
      BY <2>3, <3>2
    <3> QED
      BY <2>3, <3>1, <3>2, <3>3 DEF Contents
  <2>5. Head(Contents(queue)) = s
    BY <2>3, <2>4
  <2>6. Tail(Contents(queue)) = Contents(queue)'
    <3>1. Contents(queue)' = [i \in 1..(Len(queue) - 1) |->
            IF Tail(queue)[i] = End THEN <<>> ELSE content[Tail(queue)[i]]]
      BY <2>1, <2>3 DEF Contents
    <3>2. Tail(Contents(queue)) = [i \in 1..(Len(queue) - 1) |-> Contents(queue)[i + 1]]
      <4> DEFINE c == Contents(queue)
      <4>1. c \in Seq(Seq(Lines)) /\ c # <<>> /\ Len(c) = Len(queue)
        BY <1>2, <2>4
      <4> HIDE DEF c
      <4>2. /\ Tail(c) \in Seq(Seq(Lines)) /\ DOMAIN Tail(c) = 1..(Len(c) - 1)
            /\ \A i \in 1..(Len(c) - 1) : Tail(c)[i] = c[i + 1]
        BY <4>1, Popped
      <4> DEFINE r == Tail(c)
      <4>3. r \in Seq(Seq(Lines))
        BY <4>2
      <4> HIDE DEF r
      <4>4. r = [i \in DOMAIN r |-> r[i]]
        BY <4>3, LenProperties
      <4> QED
        BY <4>1, <4>2, <4>4 DEF c, r
    <3>3. \A i \in 1..(Len(queue) - 1) :
            (IF Tail(queue)[i] = End THEN <<>> ELSE content[Tail(queue)[i]])
              = Contents(queue)[i + 1]
      <4> TAKE i \in 1..(Len(queue) - 1)
      <4>1. i + 1 \in 1..Len(queue)
        BY <2>3
      <4> QED
        BY <2>3, <2>4, <4>1
    <3> QED
      BY <3>1, <3>2, <3>3
  <2>7. F = s \o F'
    BY <1>2, <2>4, <2>5, <2>6, FlattenPop
  <2>8. <<>> \o F = F
    BY <1>2, ConcatEmptySeq
  <2> QED
    BY <2>1, <2>2, <2>7, <2>8 DEF Sent
<1>5. CASE WriteLine
  <2>1. PICK line \in Lines :
          /\ content[hand] = <<line>> /\ hand \in Buffers
          /\ written' = Append(written, line)
          /\ \A d \in Buffers : d # hand => content'[d] = content[d]
    BY <1>5, LineWritten
  <2>2. thread = "write" /\ thread' = "return" /\ UNCHANGED <<queue, hand>>
    BY <1>5 DEF WriteLine, queueVars
  <2>3. \A i \in DOMAIN queue : queue[i] # hand /\ queue[i] \in Buffers \cup {End}
    BY <1>1, <2>1 DEF OnePlace, Occurs
  <2>4. Contents(queue)' = Contents(queue)
    BY <2>1, <2>2, <2>3 DEF Contents
  <2>5. AtHand = <<line>> /\ AtHand' = <<>>
    BY <2>1, <2>2 DEF AtHand
  <2>6. Sent = written \o (<<line>> \o F) /\ Sent' = Append(written, line) \o (<<>> \o F)
    BY <2>1, <2>4, <2>5 DEF Sent
  <2> HIDE DEF F
  <2>7. /\ <<>> \o F = F /\ Append(written, line) = written \o <<line>>
        /\ <<line>> \in Seq(Lines)
    BY <1>1, <1>2, <2>1, ConcatEmptySeq, AppendIsConcat
  <2>8. (written \o <<line>>) \o F = written \o (<<line>> \o F)
    BY <1>1, <1>2, <2>7, ConcatAssociative, SMTT(60)
  <2>9. /\ Len(written') = Len(written) + 1 /\ Len(written) \in Nat
        /\ Append(written, line) \in Seq(Lines)
    BY <1>1, <2>1, Appended
  <2>10. Len(Append(written, line) \o F) = Len(Append(written, line)) + Len(F) /\ Len(F) \in Nat
    BY <1>2, <2>9, ConcatProperties, LenProperties
  <2>11. Len(written) < Len(Sent)
    BY <2>1, <2>6, <2>7, <2>8, <2>9, <2>10
  <2> QED
    BY <2>6, <2>7, <2>8, <2>9, <2>11
<1>6. ASSUME NEW p \in Loggers, Log(p) PROVE UNCHANGED <<Sent, written>>
  <2>1. PICK b \in Buffers' :
          /\ \A d \in Buffers : d # b => content'[d] = content[d]
          /\ ~Occurs(queue, b) /\ hand # b
    BY <1>6, LogTakes
  <2>2. UNCHANGED <<queue, thread, hand, written>>
    BY <1>6 DEF Log
  <2>3. \A i \in DOMAIN queue : queue[i] # b /\ queue[i] \in Buffers \cup {End}
    BY <1>1, <2>1 DEF Occurs
  <2>4. Contents(queue)' = Contents(queue)
    BY <2>1, <2>2, <2>3 DEF Contents
  <2>5. thread = "write" => hand \in Buffers
    BY <1>1 DEF HandsInv, Types
  <2>6. AtHand' = AtHand
    BY <2>1, <2>2, <2>5 DEF AtHand
  <2> QED
    BY <2>2, <2>4, <2>6 DEF Sent
<1>7. CASE /\ UNCHANGED <<queue, content, written>>
           /\ AtHand' = AtHand
  BY <1>7 DEF Sent, Contents
<1>8. CASE PopSleeps \/ Spurious \/ ReturnBuffer \/ Wakeup \/ ClearIsRun \/ Destroy \/ Close
           \/ Wait \/ Awake \/ UNCHANGED vars
  <2>1. /\ UNCHANGED <<queue, content, written>>
        /\ \/ thread # "write" /\ thread' # "write"
           \/ UNCHANGED <<thread, hand>>
    BY <1>8 DEF PopSleeps, Spurious, ReturnBuffer, Wakeup, ClearIsRun, Destroy, Close, Wait,
       Awake, queueVars, bufVars, vars
  <2>2. AtHand' = AtHand
    BY <2>1 DEF AtHand
  <2> QED
    BY <1>7, <2>1, <2>2
<1> QED
  BY <1>3, <1>4, <1>5, <1>6, <1>8 DEF Next, LogThread, Destructor, Pushers

\* The log implements the channel, for any loggers, capacity and lines: the lines
\* are written in the order in which they were pushed, each once, and none is
\* lost, however its buffer is used again.
THEOREM Implements == Spec => ImplementsChannel
<1>1. Init => Chan!Init
  <2> SUFFICES ASSUME Init PROVE written \o Waiting = <<>> /\ Len(written) = 0
    BY DEF Chan!Init
  <2>1. Waiting = <<>> \o FlattenSeq(<<>>) /\ written = <<>>
    <3>1. queue = <<>> /\ thread # "write" /\ written = <<>>
      BY DEF Init
    <3> QED
      BY <3>1 DEF Waiting
  <2>2. FlattenSeq(<<>>) = <<>>
    BY DEF FlattenSeq
  <2>3. Waiting = <<>>
    BY <2>1, <2>2, ConcatEmptySeq, EmptySeq
  <2> QED
    BY <2>1, <2>3, ConcatEmptySeq, EmptySeq
<1>2. TypeInv /\ [Next]_vars => [Chan!Next]_(Chan!vars)
  <2> SUFFICES ASSUME TypeInv, [Next]_vars PROVE [Chan!Next]_(Chan!vars)
    OBVIOUS
  <2>1. Sent = written \o Waiting /\ Sent' = (written \o Waiting)'
    BY DEF Sent, Waiting, AtHand, Contents
  <2>2. \/ (\E line \in Lines : Sent' = Append(Sent, line)) /\ UNCHANGED written
        \/ /\ UNCHANGED Sent /\ Len(written') = Len(written) + 1
           /\ Len(written) < Len(Sent)
        \/ UNCHANGED <<Sent, written>>
    BY SentSteps
  <2> QED
    BY <2>1, <2>2 DEF Chan!Next, Chan!Send, Chan!Take, Chan!vars
<1> QED
  BY <1>1, <1>2, TypeInvariant, PTL DEF Spec, ImplementsChannel, Chan!Spec

=============================================================================
