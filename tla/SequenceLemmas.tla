--------------------------- MODULE SequenceLemmas ---------------------------
(***************************************************************************)
(* Facts about natural numbers, recursive functions and FlattenSeq that    *)
(* the proofs about several components need.                               *)
(*                                                                         *)
(* Induction over data is done with least elements: a set of numbers that  *)
(* has counterexamples has a least one.                                    *)
(***************************************************************************)
EXTENDS Integers, Sequences, SequencesExt, SequenceTheorems,
        WellFoundedInduction, TLAPS

-----------------------------------------------------------------------------
(* Least elements *)

\* A set of natural numbers that is not empty has a least element.
LEMMA LeastElement ==
  ASSUME NEW T \in SUBSET Nat, T # {}
  PROVE  \E n \in T : \A m \in T : n <= m
<1> DEFINE R == OpToRel(<, Nat)
<1>1. IsWellFoundedOn(R, Nat)
  BY NatLessThanWellFounded
<1>2. \A m, n \in Nat : m < n => <<m, n>> \in R
  BY DEF OpToRel
<1> HIDE DEF R
<1>3. T \subseteq Nat
  OBVIOUS
<1>4. \E n \in T : \A m \in T : <<m, n>> \notin R
  BY <1>1, <1>3, WFMin, ZenonT(20)
<1>5. PICK n \in T : \A m \in T : ~(m < n)
  BY <1>2, <1>4
<1> QED
  BY <1>5

\* What holds of 0, and of n + 1 if it holds of n, holds of every number: the
\* numbers of which it holds are given as a set.
LEMMA Induction ==
  ASSUME NEW P, 0 \in P, \A n \in Nat : n \in P => n + 1 \in P
  PROVE  Nat \subseteq P
<1> DEFINE T == Nat \ P
<1>1. CASE T # {}
  <2>1. PICK n \in T : \A m \in T : n <= m
    BY <1>1, LeastElement
  <2>2. n # 0 /\ n \in Nat
    BY <2>1
  <2>3. n - 1 \in Nat /\ n - 1 \notin T
    BY <2>1, <2>2
  <2>4. n - 1 \in P => (n - 1) + 1 \in P
    BY <2>3
  <2>5. (n - 1) + 1 = n
    BY <2>2
  <2> QED
    BY <2>1, <2>3, <2>4, <2>5
<1> QED
  BY <1>1

-----------------------------------------------------------------------------
(* Sequences as queues *)

\* A sequence with one more element at its end,
LEMMA Appended ==
  ASSUME NEW S, NEW q \in Seq(S), NEW e \in S
  PROVE  /\ Append(q, e) \in Seq(S) /\ Len(Append(q, e)) = Len(q) + 1
         /\ Len(q) \in Nat /\ DOMAIN q = 1..Len(q)
         /\ DOMAIN Append(q, e) = 1..(Len(q) + 1)
         /\ \A i \in 1..Len(q) : Append(q, e)[i] = q[i]
         /\ Append(q, e)[Len(q) + 1] = e
  OBVIOUS

\* and one without its first.
LEMMA Popped ==
  ASSUME NEW S, NEW q \in Seq(S), q # <<>>
  PROVE  /\ Tail(q) \in Seq(S) /\ Len(Tail(q)) = Len(q) - 1
         /\ Len(q) \in Nat /\ Len(q) > 0 /\ DOMAIN q = 1..Len(q)
         /\ Head(q) = q[1] /\ Head(q) \in S
         /\ DOMAIN Tail(q) = 1..(Len(q) - 1)
         /\ \A i \in 1..(Len(q) - 1) : Tail(q)[i] = q[i + 1]
  BY EmptySeq, HeadTailProperties, LenProperties

\* A sequence without its last element.
LEMMA Dropped ==
  ASSUME NEW S, NEW q \in Seq(S), q # <<>>
  PROVE  /\ Front(q) \in Seq(S) /\ Len(Front(q)) = Len(q) - 1
         /\ Len(q) \in Nat /\ Len(q) > 0 /\ DOMAIN q = 1..Len(q)
         /\ Last(q) = q[Len(q)] /\ Last(q) \in S
         /\ DOMAIN Front(q) = 1..(Len(q) - 1)
         /\ \A i \in 1..(Len(q) - 1) : Front(q)[i] = q[i]
<1>1. Len(q) \in Nat /\ Len(q) > 0
  BY EmptySeq, LenProperties
<1>2. Front(q) = [i \in 1..(Len(q) - 1) |-> q[i]]
  BY <1>1 DEF Front, SubSeq
<1>3. \A i \in 1..(Len(q) - 1) : q[i] \in S
  BY <1>1
<1>4. Front(q) \in Seq(S) /\ Len(Front(q)) = Len(q) - 1
  <2> DEFINE n == Len(q) - 1
  <2>1. n \in Nat /\ [i \in 1..n |-> q[i]] \in [1..n -> S]
    BY <1>1, <1>3
  <2> HIDE DEF n
  <2>2. [i \in 1..n |-> q[i]] \in Seq(S) /\ Len([i \in 1..n |-> q[i]]) = n
    BY <2>1
  <2> QED
    BY <1>2, <2>2 DEF n
<1> QED
  BY <1>1, <1>2, <1>4 DEF Last

\* Whether an element is in a sequence, and whether only once.
Occurs(s, b) == \E i \in DOMAIN s : s[i] = b
Single(s, b) == \A i, j \in DOMAIN s : s[i] = b /\ s[j] = b => i = j

\* With one more element at the end,
LEMMA OccursAppend ==
  ASSUME NEW S, NEW q \in Seq(S), NEW e \in S, NEW b
  PROVE  /\ Occurs(Append(q, e), b) <=> Occurs(q, b) \/ e = b
         /\ Single(q, b) /\ (e = b => ~Occurs(q, b)) => Single(Append(q, e), b)
<1> DEFINE r == Append(q, e)
           n == Len(q)
<1>1. /\ n \in Nat /\ DOMAIN q = 1..n /\ DOMAIN r = 1..(n + 1) /\ r[n + 1] = e
      /\ \A i \in 1..n : r[i] = q[i]
  BY LenProperties, AppendProperties
<1>2. 1..(n + 1) = 1..n \cup {n + 1} /\ n + 1 \notin 1..n
  BY <1>1
<1> HIDE DEF r, n
<1> QED
  BY <1>1, <1>2 DEF Occurs, Single, r

\* without the first,
LEMMA OccursPop ==
  ASSUME NEW S, NEW q \in Seq(S), q # <<>>, NEW b
  PROVE  /\ Occurs(q, b) <=> Occurs(Tail(q), b) \/ Head(q) = b
         /\ Single(q, b) => Single(Tail(q), b) /\ (Head(q) = b => ~Occurs(Tail(q), b))
<1> DEFINE r == Tail(q)
           n == Len(q)
<1>1. /\ n \in Nat /\ n > 0 /\ DOMAIN q = 1..n /\ DOMAIN r = 1..(n - 1)
      /\ Head(q) = q[1] /\ \A i \in 1..(n - 1) : r[i] = q[i + 1]
  BY Popped
<1>2. 1 \in 1..n /\ \A i \in 1..(n - 1) : i + 1 \in 1..n /\ i + 1 # 1
  BY <1>1
<1>3. \A i \in 1..n : i = 1 \/ (i - 1 \in 1..(n - 1) /\ (i - 1) + 1 = i)
  BY <1>1
<1>4. \A i, j \in 1..(n - 1) : i + 1 = j + 1 => i = j
  BY <1>1
<1> HIDE DEF r, n
<1>5. ASSUME NEW i \in 1..n, q[i] = b PROVE Occurs(r, b) \/ Head(q) = b
  <2>1. CASE i = 1
    BY <1>1, <1>5, <2>1
  <2>2. CASE i # 1
    <3>1. i - 1 \in 1..(n - 1) /\ (i - 1) + 1 = i
      BY <1>3, <2>2
    <3>2. r[i - 1] = q[i]
      BY <1>1, <3>1
    <3> QED
      BY <1>1, <1>5, <3>1, <3>2 DEF Occurs
  <2> QED
    BY <2>1, <2>2
<1>6. Occurs(r, b) \/ Head(q) = b => Occurs(q, b)
  BY <1>1, <1>2 DEF Occurs
<1>7. ASSUME Single(q, b) PROVE Single(r, b)
  <2> SUFFICES ASSUME NEW i \in 1..(n - 1), NEW j \in 1..(n - 1), r[i] = b, r[j] = b
               PROVE  i = j
    BY <1>1 DEF Single
  <2>1. i + 1 \in 1..n /\ j + 1 \in 1..n /\ q[i + 1] = b /\ q[j + 1] = b
    BY <1>1, <1>2
  <2>2. i + 1 = j + 1
    BY <1>1, <1>7, <2>1 DEF Single
  <2> QED
    BY <1>4, <2>2
<1>8. ASSUME Single(q, b), Head(q) = b PROVE ~Occurs(r, b)
  BY <1>1, <1>2, <1>8 DEF Single, Occurs
<1> QED
  <2>1. Occurs(q, b) => Occurs(r, b) \/ Head(q) = b
    BY <1>1, <1>5 DEF Occurs
  <2> QED
    BY <1>6, <1>7, <1>8, <2>1 DEF r

\* and without the last.
LEMMA OccursDrop ==
  ASSUME NEW S, NEW q \in Seq(S), q # <<>>, NEW b
  PROVE  /\ Occurs(q, b) <=> Occurs(Front(q), b) \/ Last(q) = b
         /\ Single(q, b) => Single(Front(q), b) /\ (Last(q) = b => ~Occurs(Front(q), b))
<1> DEFINE r == Front(q)
           n == Len(q)
<1>1. /\ n \in Nat /\ n > 0 /\ DOMAIN q = 1..n /\ DOMAIN r = 1..(n - 1)
      /\ Last(q) = q[n] /\ \A i \in 1..(n - 1) : r[i] = q[i]
  BY Dropped
<1>2. 1..n = 1..(n - 1) \cup {n} /\ n \notin 1..(n - 1)
  BY <1>1
<1> HIDE DEF r, n
<1> QED
  BY <1>1, <1>2 DEF Occurs, Single, r

-----------------------------------------------------------------------------
(* Recursive functions *)

\* A function up to k that begins with a and goes on as the function G says.
Goes(F, a, G, k) == F[0] = a /\ \A i \in 1..k : F[i] = G[<<i, F[i - 1]>>]
Recursion(V, a, G, k) == {F \in [0..k -> V] : Goes(F, a, G, k)}

\* There is such a function, if G stays within a set of values.
LEMMA RecursionExists ==
  ASSUME NEW V, NEW a \in V, NEW G \in [Nat \X V -> V], NEW k \in Nat
  PROVE  Recursion(V, a, G, k) # {}
<1> DEFINE Defines(n, F) == F[0] = a /\ \A i \in 1..n : F[i] = G[<<i, F[i - 1]>>]
           P == {n \in Nat : \E F \in [0..n -> V] : Defines(n, F)}
<1>1. 0 \in P
  <2>1. Defines(0, [i \in 0..0 |-> a]) /\ [i \in 0..0 |-> a] \in [0..0 -> V]
    OBVIOUS
  <2> QED
    BY <2>1
<1>2. ASSUME NEW n \in Nat, n \in P PROVE n + 1 \in P
  <2>1. PICK F \in [0..n -> V] : Defines(n, F)
    BY <1>2
  <2> DEFINE H == [i \in 0..(n + 1) |-> IF i <= n THEN F[i] ELSE G[<<n + 1, F[n]>>]]
  <2>2. F[n] \in V /\ <<n + 1, F[n]>> \in Nat \X V
    OBVIOUS
  <2>3. H \in [0..(n + 1) -> V]
    BY <2>2
  <2>4. H[0] = a
    BY <2>1
  <2>5. ASSUME NEW i \in 1..(n + 1) PROVE H[i] = G[<<i, H[i - 1]>>]
    <3>1. CASE i <= n
      <4>1. H[i] = F[i] /\ H[i - 1] = F[i - 1] /\ i \in 1..n
        BY <3>1
      <4> QED
        BY <2>1, <4>1
    <3>2. CASE i = n + 1
      <4>1. H[i] = G[<<n + 1, F[n]>>] /\ H[i - 1] = F[n]
        BY <3>2
      <4> QED
        BY <3>2, <4>1
    <3> QED
      BY <3>1, <3>2
  <2> HIDE DEF H
  <2>6. Defines(n + 1, H)
    BY <2>4, <2>5
  <2> QED
    BY <2>3, <2>6
<1> HIDE DEF P
<1>3. k \in P
  BY <1>1, <1>2, Induction
<1> QED
  BY <1>3 DEF P, Recursion, Goes

\* The beginnings of two such functions are the same.
LEMMA RecursionUnique ==
  ASSUME NEW G, NEW k \in Nat, NEW F, NEW H, F[0] = H[0],
         \A i \in 1..k : F[i] = G[<<i, F[i - 1]>>] /\ H[i] = G[<<i, H[i - 1]>>]
  PROVE  \A i \in 0..k : F[i] = H[i]
<1> DEFINE P == {n \in Nat : n <= k => F[n] = H[n]}
<1>1. 0 \in P
  OBVIOUS
<1>2. ASSUME NEW n \in Nat, n \in P PROVE n + 1 \in P
  <2> SUFFICES ASSUME n + 1 <= k PROVE F[n + 1] = H[n + 1]
    OBVIOUS
  <2>1. F[n] = H[n] /\ n + 1 \in 1..k /\ (n + 1) - 1 = n
    BY <1>2
  <2> QED
    BY <2>1
<1> HIDE DEF P
<1>3. Nat \subseteq P
  BY <1>1, <1>2, Induction
<1> QED
  BY <1>3 DEF P

-----------------------------------------------------------------------------
(* FlattenSeq *)

\* FlattenSeq is what a function reaches that appends one sequence at a time.
LEMMA FlattenFunction ==
  ASSUME NEW S, NEW ss \in Seq(Seq(S))
  PROVE  \E F \in [0..Len(ss) -> Seq(S)] :
           /\ F[0] = <<>> /\ \A i \in 1..Len(ss) : F[i] = F[i - 1] \o ss[i]
           /\ FlattenSeq(ss) = F[Len(ss)]
<1> DEFINE n == Len(ss)
           G == [p \in Nat \X Seq(S) |-> IF p[1] \in 1..n THEN p[2] \o ss[p[1]] ELSE p[2]]
<1>0. n \in Nat /\ \A i \in 1..n : ss[i] \in Seq(S)
  OBVIOUS
<1> HIDE DEF n
<1>1. G \in [Nat \X Seq(S) -> Seq(S)]
  <2>1. ASSUME NEW p \in Nat \X Seq(S), p[1] \in 1..n PROVE p[2] \o ss[p[1]] \in Seq(S)
    BY <1>0, <2>1, ConcatProperties
  <2> QED
    BY <2>1
<1>2. <<>> \in Seq(S)
  OBVIOUS
<1> HIDE DEF G
<1>3. PICK F \in [0..n -> Seq(S)] : F[0] = <<>> /\ \A i \in 1..n : F[i] = G[<<i, F[i - 1]>>]
  <2> DEFINE V == Seq(S)  a == <<>>
  <2>1. a \in V /\ G \in [Nat \X V -> V]
    BY <1>1, <1>2
  <2> HIDE DEF V, a
  <2>2. Recursion(V, a, G, n) # {}
    BY <1>0, <2>1, RecursionExists
  <2> QED
    BY <2>2 DEF V, a, Recursion, Goes
<1>4. ASSUME NEW i \in 1..n PROVE F[i] = F[i - 1] \o ss[i]
  <2>1. i - 1 \in 0..n /\ i \in Nat
    BY <1>0
  <2> QED
    BY <1>3, <2>1 DEF G
<1>5. CASE n = 0
  <2>1. ss = <<>> /\ FlattenSeq(ss) = <<>>
    BY <1>5 DEF FlattenSeq, n
  <2> QED
    BY <1>3, <1>4, <1>5, <2>1 DEF n
<1>6. CASE n # 0
  <2> DEFINE IsFlatten(f) == f = [i \in 1..n |-> IF i = 1 THEN ss[i] ELSE f[i - 1] \o ss[i]]
             f0 == [i \in 1..n |-> F[i]]
             ff == CHOOSE f : IsFlatten(f)
  <2>1. IsFlatten(f0)
    <3>1. ASSUME NEW i \in 1..n PROVE F[i] = IF i = 1 THEN ss[i] ELSE f0[i - 1] \o ss[i]
      <4>1. CASE i = 1
        <5>1. 1 \in 1..n /\ 1 - 1 = 0
          BY <4>1
        <5>2. ss[1] \in Seq(S) /\ F[1] = F[0] \o ss[1]
          BY <1>0, <1>4, <5>1
        <5>3. <<>> \o ss[1] = ss[1]
          BY <5>2, ConcatEmptySeq
        <5>4. F[1] = ss[1]
          BY <1>3, <5>2, <5>3
        <5> QED
          BY <4>1, <5>4
      <4>2. CASE i # 1
        <5>1. i - 1 \in 1..n
          BY <1>0, <4>2
        <5> QED
          BY <1>4, <4>2, <5>1
      <4> QED
        BY <4>1, <4>2
    <3> QED
      BY <3>1
  <2>2. IsFlatten(ff)
    BY <2>1
  <2>3. FlattenSeq(ss) = ff[n]
    BY <1>6 DEF FlattenSeq, n
  <2> HIDE DEF ff
  <2>4. \A k \in 1..n : F[k] = ff[k]
    <3> DEFINE P == {k \in Nat : k + 1 <= n => F[k + 1] = ff[k + 1]}
    <3>0. \A i \in 1..n : ff[i] = IF i = 1 THEN ss[i] ELSE ff[i - 1] \o ss[i]
      BY <2>2
    <3>1. \A i \in 1..n : F[i] = IF i = 1 THEN ss[i] ELSE F[i - 1] \o ss[i]
      <4>1. ASSUME NEW i \in 1..n PROVE f0[i] = IF i = 1 THEN ss[i] ELSE f0[i - 1] \o ss[i]
        BY <2>1
      <4>2. \A i \in 1..n : i # 1 => i - 1 \in 1..n
        BY <1>0
      <4> QED
        BY <4>1, <4>2
    <3>2. 0 \in P
      BY <3>0, <3>1
    <3>3. ASSUME NEW k \in Nat, k \in P PROVE k + 1 \in P
      <4> SUFFICES ASSUME (k + 1) + 1 <= n PROVE F[(k + 1) + 1] = ff[(k + 1) + 1]
        OBVIOUS
      <4>1. /\ F[k + 1] = ff[k + 1] /\ (k + 1) + 1 \in 1..n /\ (k + 1) + 1 # 1
            /\ ((k + 1) + 1) - 1 = k + 1
        BY <1>0, <3>3
      <4> QED
        BY <3>0, <3>1, <4>1
    <3> HIDE DEF P
    <3>4. Nat \subseteq P
      BY <3>2, <3>3, Induction
    <3>5. ASSUME NEW k \in 1..n PROVE F[k] = ff[k]
      <4>1. k - 1 \in P /\ (k - 1) + 1 = k
        BY <1>0, <3>4
      <4> QED
        BY <1>0, <4>1 DEF P
    <3> QED
      BY <3>5
  <2>5. ff[n] = F[n]
    BY <1>0, <1>6, <2>4
  <2> QED
    BY <1>3, <1>4, <2>3, <2>5 DEF n
<1> QED
  BY <1>5, <1>6

\* FlattenSeq gives a sequence of the elements.
LEMMA FlattenType ==
  ASSUME NEW S, NEW ss \in Seq(Seq(S))
  PROVE  FlattenSeq(ss) \in Seq(S)
<1>1. PICK F \in [0..Len(ss) -> Seq(S)] : FlattenSeq(ss) = F[Len(ss)]
  BY FlattenFunction
<1>2. Len(ss) \in 0..Len(ss)
  OBVIOUS
<1> QED
  BY <1>1, <1>2

\* One more sequence is one more at the end.
LEMMA FlattenAppend ==
  ASSUME NEW S, NEW ss \in Seq(Seq(S)), NEW s \in Seq(S)
  PROVE  FlattenSeq(Append(ss, s)) = FlattenSeq(ss) \o s
<1> DEFINE n == Len(ss)
           tt == Append(ss, s)
<1>1. /\ n \in Nat /\ tt \in Seq(Seq(S)) /\ Len(tt) = n + 1 /\ tt[n + 1] = s
      /\ \A i \in 1..n : tt[i] = ss[i]
  OBVIOUS
<1> HIDE DEF tt
<1>2. PICK F \in [0..n -> Seq(S)] :
        /\ F[0] = <<>> /\ \A i \in 1..n : F[i] = F[i - 1] \o ss[i]
        /\ FlattenSeq(ss) = F[n]
  BY FlattenFunction
<1> DEFINE Reaches(H, k) ==
             /\ H[0] = <<>> /\ \A i \in 1..k : H[i] = H[i - 1] \o tt[i]
             /\ FlattenSeq(tt) = H[k]
<1>3. PICK H \in [0..(n + 1) -> Seq(S)] : Reaches(H, n + 1)
  <2>1. \E H \in [0..Len(tt) -> Seq(S)] : Reaches(H, Len(tt))
    BY <1>1, FlattenFunction
  <2> QED
    BY <1>1, <2>1
<1>4. F[n] = H[n]
  <2> DEFINE P == {k \in Nat : k <= n => F[k] = H[k]}
  <2>1. 0 \in P
    BY <1>2, <1>3
  <2>2. ASSUME NEW k \in Nat, k \in P PROVE k + 1 \in P
    <3> SUFFICES ASSUME k + 1 <= n PROVE F[k + 1] = H[k + 1]
      OBVIOUS
    <3>1. F[k] = H[k] /\ k + 1 \in 1..n /\ k + 1 \in 1..(n + 1) /\ (k + 1) - 1 = k
      BY <1>1, <2>2
    <3> QED
      BY <1>1, <1>2, <1>3, <3>1
  <2> HIDE DEF P
  <2>3. n \in P
    BY <1>1, <2>1, <2>2, Induction
  <2> QED
    BY <1>1, <2>3 DEF P
<1>5. H[n + 1] = H[n] \o s
  <2>1. n + 1 \in 1..(n + 1) /\ (n + 1) - 1 = n
    BY <1>1
  <2> QED
    BY <1>1, <1>3, <2>1
<1> QED
  BY <1>2, <1>3, <1>4, <1>5 DEF tt

\* Flattening goes through concatenation.
LEMMA FlattenConcat ==
  ASSUME NEW S, NEW ss \in Seq(Seq(S)), NEW tt \in Seq(Seq(S))
  PROVE  FlattenSeq(ss \o tt) = FlattenSeq(ss) \o FlattenSeq(tt)
<1> DEFINE n == Len(tt)
           Upto(k) == SubSeq(tt, 1, k)
           P == {k \in Nat : k <= n =>
                   FlattenSeq(ss \o Upto(k)) = FlattenSeq(ss) \o FlattenSeq(Upto(k))}
<1>0. n \in Nat /\ FlattenSeq(ss) \in Seq(S)
  BY FlattenType
<1>1. 0 \in P
  <2>1. Upto(0) = <<>> /\ ss \o <<>> = ss
    BY <1>0, ConcatEmptySeq
  <2>2. FlattenSeq(<<>>) = <<>>
    BY DEF FlattenSeq
  <2>3. FlattenSeq(ss) \o <<>> = FlattenSeq(ss)
    BY <1>0, ConcatEmptySeq
  <2> QED
    BY <2>1, <2>2, <2>3
<1>2. ASSUME NEW k \in Nat, k \in P PROVE k + 1 \in P
  <2> SUFFICES ASSUME k + 1 <= n
               PROVE FlattenSeq(ss \o Upto(k + 1)) = FlattenSeq(ss) \o FlattenSeq(Upto(k + 1))
    OBVIOUS
  <2>1. Upto(k) \in Seq(Seq(S)) /\ tt[k + 1] \in Seq(S)
    BY <1>0
  <2>2. Upto(k + 1) = Append(Upto(k), tt[k + 1])
    BY <1>0
  <2>3. ss \o Append(Upto(k), tt[k + 1]) = Append(ss \o Upto(k), tt[k + 1])
    BY <2>1
  <2>4. FlattenSeq(Append(ss \o Upto(k), tt[k + 1])) = FlattenSeq(ss \o Upto(k)) \o tt[k + 1]
    <3>1. ss \o Upto(k) \in Seq(Seq(S))
      BY <2>1, ConcatProperties
    <3> HIDE DEF Upto
    <3> QED
      BY <2>1, <3>1, FlattenAppend
  <2>5. FlattenSeq(Append(Upto(k), tt[k + 1])) = FlattenSeq(Upto(k)) \o tt[k + 1]
    BY <2>1, FlattenAppend
  <2>6. FlattenSeq(ss \o Upto(k)) = FlattenSeq(ss) \o FlattenSeq(Upto(k))
    BY <1>0, <1>2
  <2>7. FlattenSeq(Upto(k)) \in Seq(S)
    BY <2>1, FlattenType
  <2>8. (FlattenSeq(ss) \o FlattenSeq(Upto(k))) \o tt[k + 1]
          = FlattenSeq(ss) \o (FlattenSeq(Upto(k)) \o tt[k + 1])
    <3> DEFINE u == FlattenSeq(ss)  v == FlattenSeq(Upto(k))  w == tt[k + 1]
    <3>1. u \in Seq(S) /\ v \in Seq(S) /\ w \in Seq(S)
      BY <1>0, <2>1, <2>7
    <3> HIDE DEF u, v, w
    <3>2. (u \o v) \o w = u \o (v \o w)
      BY <3>1, ConcatAssociative, SMTT(60)
    <3> QED
      BY <3>2 DEF u, v, w
  <2> QED
    BY <2>2, <2>3, <2>4, <2>5, <2>6, <2>8
<1> HIDE DEF P
<1>3. n \in P
  BY <1>0, <1>1, <1>2, Induction
<1>4. Upto(n) = tt
  BY SubSeqFull
<1>5. FlattenSeq(ss \o Upto(n)) = FlattenSeq(ss) \o FlattenSeq(Upto(n))
  BY <1>0, <1>3 DEF P
<1> QED
  BY <1>4, <1>5

\* The first sequence is the beginning of all that is flattened.
LEMMA FlattenPop ==
  ASSUME NEW S, NEW ss \in Seq(Seq(S)), ss # <<>>
  PROVE  FlattenSeq(ss) = Head(ss) \o FlattenSeq(Tail(ss))
<1> DEFINE h == Head(ss)
           r == Tail(ss)
<1>1. h \in Seq(S) /\ r \in Seq(Seq(S)) /\ ss = <<h>> \o r
  BY Popped
<1> HIDE DEF h, r
<1>2. FlattenSeq(<<h>>) = h
  <2>1. FlattenSeq(Append(<<>>, h)) = FlattenSeq(<<>>) \o h
    <3>1. <<>> \in Seq(Seq(S))
      OBVIOUS
    <3> QED
      BY <1>1, <3>1, FlattenAppend
  <2>2. FlattenSeq(<<>>) = <<>>
    BY DEF FlattenSeq
  <2>3. Append(<<>>, h) = <<h>> /\ <<>> \o h = h
    BY <1>1, ConcatEmptySeq
  <2> QED
    BY <2>1, <2>2, <2>3
<1>3. <<h>> \in Seq(Seq(S))
  BY <1>1
<1>4. FlattenSeq(<<h>> \o r) = FlattenSeq(<<h>>) \o FlattenSeq(r)
  BY <1>1, <1>3, FlattenConcat
<1> QED
  BY <1>1, <1>2, <1>4 DEF h, r

=============================================================================
