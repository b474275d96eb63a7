--------------------------- MODULE TimerHeap_proofs ---------------------------
(***************************************************************************)
(* Theorems about TimerHeap: that the heap holds the timers that are set,  *)
(* that the loop sleeps in time, and that it implements Timers.            *)
(*                                                                         *)
(* The way up and down of a timer is a recursion over places; it is taken  *)
(* apart with fixed points of a measure that ends (FixedPoint), and what   *)
(* it keeps follows by induction from what a swap keeps.  The invariant is *)
(* the types, the order of the heap unless a stop disturbed it, and the    *)
(* property about sleep.                                                   *)
(***************************************************************************)
EXTENDS TimerHeap, SequenceLemmas

-----------------------------------------------------------------------------
(* Recursive functions over places of the heap *)

\* What G makes of a function at i rests on the places of a smaller measure only.
WellFounded(I, V, m, G) ==
  \A f, h \in [I -> V] : \A i \in I :
    (\A j \in I : m[j] < m[i] => f[j] = h[j]) => G[f][i] = G[h][i]

FixedPoints(I, V, G) == {f \in [I -> V] : G[f] = f}

\* Such a function on functions has a fixed point if the measures have a bound.
LEMMA FixedPoint ==
  ASSUME NEW I, NEW V, NEW b \in Nat, NEW m \in [I -> 0..b],
         NEW G \in [[I -> V] -> [I -> V]], NEW f0 \in [I -> V],
         WellFounded(I, V, m, G)
  PROVE  FixedPoints(I, V, G) # {}
<1> DEFINE W == [I -> V]
           H == [p \in Nat \X W |-> G[p[2]]]
           k == b + 1
<1>1. H \in [Nat \X W -> W] /\ f0 \in W /\ k \in Nat
  OBVIOUS
<1>2. \A i \in Nat : \A f \in W : H[<<i, f>>] = G[f]
  OBVIOUS
<1>a. G \in [W -> W]
  OBVIOUS
<1>b. \A f, h \in W : \A i \in I :
        (\A j \in I : m[j] < m[i] => f[j] = h[j]) => G[f][i] = G[h][i]
  BY DEF WellFounded
<1> HIDE DEF W, H
<1>3. PICK F \in [0..k -> W] : Goes(F, f0, H, k)
  <2> HIDE DEF k
  <2>1. Recursion(W, f0, H, k) # {}
    BY <1>1, RecursionExists
  <2> QED
    BY <2>1 DEF Recursion
<1>4. \A n \in 0..b : F[n] \in W /\ F[n + 1] \in W /\ F[n + 1] = G[F[n]]
  <2> SUFFICES ASSUME NEW n \in 0..b
               PROVE  F[n] \in W /\ F[n + 1] \in W /\ F[n + 1] = G[F[n]]
    OBVIOUS
  <2>1. n + 1 \in 1..k /\ n \in 0..k /\ n + 1 \in 0..k /\ (n + 1) - 1 = n /\ n + 1 \in Nat
    OBVIOUS
  <2>2. F[n + 1] = H[<<n + 1, F[n]>>]
    BY <1>3, <2>1 DEF Goes
  <2> QED
    BY <1>2, <1>3, <2>1, <2>2
<1> DEFINE C(n) == \A i \in I : m[i] < n => F[n][i] = G[F[n]][i]
           P == {n \in Nat : n <= k => C(n)}
<1>5. 0 \in P
  <2>1. \A i \in I : ~(m[i] < 0)
    OBVIOUS
  <2> QED
    BY <2>1
<1>6. ASSUME NEW n \in Nat, n \in P PROVE n + 1 \in P
  <2> SUFFICES ASSUME n + 1 <= k, NEW i \in I, m[i] < n + 1
               PROVE  F[n + 1][i] = G[F[n + 1]][i]
    OBVIOUS
  <2>1. C(n) /\ n \in 0..b
    BY <1>6
  <2>2. F[n] \in W /\ F[n + 1] \in W /\ F[n + 1] = G[F[n]]
    BY <1>4, <2>1
  <2>3. ASSUME NEW j \in I, m[j] < m[i] PROVE F[n][j] = F[n + 1][j]
    <3>1. m[j] \in Nat /\ m[i] \in Nat
      OBVIOUS
    <3>2. m[j] < n
      BY <2>3, <3>1
    <3> QED
      BY <2>1, <2>2, <3>2
  <2>4. G[F[n]][i] = G[F[n + 1]][i]
    BY <1>b, <2>2, <2>3
  <2> QED
    BY <2>2, <2>4
<1>7. C(k)
  <2> HIDE DEF C
  <2>1. Nat \subseteq P
    <3> HIDE DEF P
    <3> QED
      BY <1>5, <1>6, Induction
  <2> QED
    BY <1>1, <2>1
<1>8. F[k] \in W /\ G[F[k]] \in W
  BY <1>1, <1>3, <1>a
<1>9. \A i \in I : F[k][i] = G[F[k]][i]
  <2>1. \A i \in I : m[i] < k
    OBVIOUS
  <2> QED
    BY <1>7, <2>1
<1>10. G[F[k]] = F[k]
  <2> DEFINE f == F[k]
             h == G[F[k]]
  <2>1. f \in [I -> V] /\ h \in [I -> V] /\ \A i \in I : f[i] = h[i]
    BY <1>8, <1>9 DEF W
  <2> HIDE DEF f, h
  <2>2. f = h
    BY <2>1
  <2> QED
    BY <2>2 DEF f, h
<1> QED
  BY <1>8, <1>10 DEF W, FixedPoints

\* Parents and children.
LEMMA Parents ==
  ASSUME NEW i \in Nat, i # 0
  PROVE  /\ i \div 2 \in Nat /\ i \div 2 < i /\ (i # 1 => i \div 2 # 0)
         /\ (2 * i) \div 2 = i /\ (2 * i + 1) \div 2 = i
         /\ \A j \in Nat : j \div 2 = i <=> j = 2 * i \/ j = 2 * i + 1
OBVIOUS

\* A swap within a heap.
LEMMA SwapHeap ==
  ASSUME NEW S, NEW n \in Nat, NEW g \in [1..n -> S], NEW i \in 1..n, NEW j \in 1..n, i # j
  PROVE  /\ Swap(g, i, j) \in [1..n -> S]
         /\ Swap(g, i, j)[i] = g[j] /\ Swap(g, i, j)[j] = g[i]
         /\ \A k \in 1..n : k # i /\ k # j => Swap(g, i, j)[k] = g[k]
BY DEF Swap

\* How a heap of n is changed from place i up,
Rise(v, n, f) ==
  [i \in 1..n |->
     [g \in [1..n -> Ids] |->
        IF i = 1 \/ v[g[i \div 2]] < v[g[i]] THEN g
        ELSE f[i \div 2][Swap(g, i \div 2, i)]]]

\* and that Up does so.
LEMMA UpUnfolds ==
  ASSUME NEW n \in Nat, NEW v
  PROVE  Up(v, n) = Rise(v, n, Up(v, n))
<1> DEFINE I == 1..n
           H == [1..n -> Ids]
           V == [H -> H]
           m == [i \in I |-> i]
           G == [f \in [I -> V] |-> Rise(v, n, f)]
           f0 == [i \in I |-> [g \in H |-> g]]
<1>1. m \in [I -> 0..n] /\ f0 \in [I -> V]
  OBVIOUS
<1>2. ASSUME NEW i \in I, i # 1 PROVE i \div 2 \in I /\ i \div 2 < i /\ i # i \div 2
  BY <1>2, Parents
<1>3. ASSUME NEW f \in [I -> V] PROVE Rise(v, n, f) \in [I -> V]
  <2>1. ASSUME NEW i \in I, NEW g \in H
        PROVE  (IF i = 1 \/ v[g[i \div 2]] < v[g[i]] THEN g
                ELSE f[i \div 2][Swap(g, i \div 2, i)]) \in H
    <3>1. CASE i = 1
      BY <3>1
    <3>2. CASE i # 1
      <4>1. i \div 2 \in I /\ Swap(g, i \div 2, i) \in H
        BY <1>2, <3>2, SwapHeap
      <4>2. f[i \div 2] \in V
        BY <4>1
      <4> HIDE DEF H
      <4> QED
        BY <3>2, <4>1, <4>2
    <3> QED
      BY <3>1, <3>2
  <2> HIDE DEF H
  <2> QED
    BY <2>1 DEF Rise, H
<1>4. G \in [[I -> V] -> [I -> V]]
  <2> HIDE DEF I, V
  <2> QED
    BY <1>3
<1>5. ASSUME NEW f \in [I -> V], NEW h \in [I -> V], NEW i \in I,
             \A j \in I : m[j] < m[i] => f[j] = h[j]
      PROVE  G[f][i] = G[h][i]
  <2>1. i # 1 => f[i \div 2] = h[i \div 2]
    <3> SUFFICES ASSUME i # 1 PROVE f[i \div 2] = h[i \div 2]
      OBVIOUS
    <3>1. i \div 2 \in I /\ i \div 2 < i
      BY <1>2
    <3>2. m[i \div 2] < m[i]
      BY <3>1
    <3> QED
      BY <1>5, <3>1, <3>2
  <2>2. Rise(v, n, f)[i] = Rise(v, n, h)[i]
    <3>1. CASE i = 1
      BY <3>1 DEF Rise
    <3>2. CASE i # 1
      BY <2>1, <3>2 DEF Rise
    <3> QED
      BY <3>1, <3>2
  <2>3. G[f] = Rise(v, n, f) /\ G[h] = Rise(v, n, h)
    OBVIOUS
  <2> QED
    BY <2>2, <2>3
<1>6. FixedPoints(I, V, G) # {}
  <2> HIDE DEF I, V, G, m, f0
  <2>1. WellFounded(I, V, m, G)
    BY <1>5 DEF WellFounded
  <2> QED
    BY <1>1, <1>4, <2>1, FixedPoint
<1>7. \E f : f = Rise(v, n, f)
  <2>1. PICK f \in [I -> V] : G[f] = f
    BY <1>6 DEF FixedPoints
  <2>2. G[f] = Rise(v, n, f)
    OBVIOUS
  <2> QED
    BY <2>1, <2>2
<1>8. Up(v, n) = CHOOSE f : f = Rise(v, n, f)
  BY DEF Up, Rise
<1> QED
  BY <1>7, <1>8

\* How a heap of n is changed from place i down,
Sink(v, n, f) ==
  [i \in 1..n |->
     [g \in [1..n -> Ids] |->
        IF 2 * i > n \/ v[g[i]] < v[g[Child(v, g, i)]] THEN g
        ELSE f[Child(v, g, i)][Swap(g, i, Child(v, g, i))]]]

\* and that Down does so.
LEMMA DownUnfolds ==
  ASSUME NEW n \in Nat, NEW v
  PROVE  Down(v, n) = Sink(v, n, Down(v, n))
<1> DEFINE I == 1..n
           H == [1..n -> Ids]
           V == [H -> H]
           m == [i \in I |-> n - i]
           G == [f \in [I -> V] |-> Sink(v, n, f)]
           f0 == [i \in I |-> [g \in H |-> g]]
<1>1. m \in [I -> 0..n] /\ f0 \in [I -> V]
  OBVIOUS
<1>2. ASSUME NEW i \in I, NEW g \in H, ~(2 * i > n)
      PROVE  Child(v, g, i) \in I /\ i < Child(v, g, i) /\ i # Child(v, g, i)
  <2>1. 2 * i <= n /\ i \in 1..n /\ g \in [1..n -> Ids]
    BY <1>2
  <2> QED
    BY <2>1 DEF Child
<1>3. ASSUME NEW f \in [I -> V] PROVE Sink(v, n, f) \in [I -> V]
  <2>1. ASSUME NEW i \in I, NEW g \in H
        PROVE  (IF 2 * i > n \/ v[g[i]] < v[g[Child(v, g, i)]] THEN g
                ELSE f[Child(v, g, i)][Swap(g, i, Child(v, g, i))]) \in H
    <3>1. CASE 2 * i > n
      BY <3>1
    <3>2. CASE ~(2 * i > n)
      <4> DEFINE c == Child(v, g, i)
      <4>1. c \in I /\ i # c
        BY <1>2, <3>2
      <4> HIDE DEF c
      <4>2. f[c] \in V /\ Swap(g, i, c) \in H
        BY <4>1, SwapHeap
      <4>3. f[c][Swap(g, i, c)] \in H
        <5> HIDE DEF H
        <5> QED
          BY <4>2
      <4> QED
        BY <4>3 DEF c
    <3> QED
      BY <3>1, <3>2
  <2> HIDE DEF H
  <2> QED
    BY <2>1 DEF Sink, H
<1>4. G \in [[I -> V] -> [I -> V]]
  <2> HIDE DEF I, V
  <2> QED
    BY <1>3
<1>5. ASSUME NEW f \in [I -> V], NEW h \in [I -> V], NEW i \in I,
             \A j \in I : m[j] < m[i] => f[j] = h[j]
      PROVE  G[f][i] = G[h][i]
  <2> DEFINE Next1(F, g) == IF 2 * i > n \/ v[g[i]] < v[g[Child(v, g, i)]] THEN g
                            ELSE F[Child(v, g, i)][Swap(g, i, Child(v, g, i))]
  <2>1. ASSUME NEW g \in H PROVE Next1(f, g) = Next1(h, g)
    <3>1. CASE 2 * i > n
      BY <3>1
    <3>2. CASE ~(2 * i > n)
      <4> DEFINE c == Child(v, g, i)
      <4>1. c \in I /\ i < c
        BY <1>2, <3>2
      <4> HIDE DEF c
      <4>2. m[c] < m[i]
        BY <4>1
      <4>3. f[c] = h[c]
        BY <1>5, <4>1, <4>2
      <4> QED
        BY <4>3 DEF c
    <3> QED
      BY <3>1, <3>2
  <2>2. Sink(v, n, f)[i] = [g \in H |-> Next1(f, g)]
    BY DEF Sink
  <2>3. Sink(v, n, h)[i] = [g \in H |-> Next1(h, g)]
    BY DEF Sink
  <2>4. G[f] = Sink(v, n, f) /\ G[h] = Sink(v, n, h)
    OBVIOUS
  <2> HIDE DEF Next1
  <2>5. [g \in H |-> Next1(f, g)] = [g \in H |-> Next1(h, g)]
    BY <2>1
  <2> QED
    BY <2>2, <2>3, <2>4, <2>5
<1>6. FixedPoints(I, V, G) # {}
  <2> HIDE DEF I, V, G, m, f0
  <2>1. WellFounded(I, V, m, G)
    BY <1>5 DEF WellFounded
  <2> QED
    BY <1>1, <1>4, <2>1, FixedPoint
<1>7. \E f : f = Sink(v, n, f)
  <2>1. PICK f \in [I -> V] : G[f] = f
    BY <1>6 DEF FixedPoints
  <2>2. G[f] = Sink(v, n, f)
    OBVIOUS
  <2> QED
    BY <2>1, <2>2
<1>8. Down(v, n) = CHOOSE f : f = Sink(v, n, f)
  BY DEF Down, Sink
<1> QED
  BY <1>7, <1>8

-----------------------------------------------------------------------------
(* The order of a heap; w gives the value at each place *)

\* No timer is later than one below it,
Ordered(n, w) == \A j \in 2..n : w[j \div 2] <= w[j]

\* or none but the one that goes up from i, and that one's children are not before
\* its parent,
Rising(n, w, i) ==
  /\ \A j \in 2..n : j # i => w[j \div 2] <= w[j]
  /\ \A j \in 2..n : i # 1 /\ j \div 2 = i => w[i \div 2] <= w[j]

\* or none but the one that goes down from i.
Sinking(n, w, i) ==
  /\ \A j \in 2..n : j \div 2 # i => w[j \div 2] <= w[j]
  /\ \A j \in 2..n : i # 1 /\ j \div 2 = i => w[i \div 2] <= w[j]

\* A timer that goes up by a place still does.
LEMMA RisingOn ==
  ASSUME NEW n \in Nat, NEW w \in [1..n -> Nat], NEW i \in 1..n, i # 1,
         Rising(n, w, i), w[i] <= w[i \div 2]
  PROVE  Rising(n, Swap(w, i \div 2, i), i \div 2)
<1> DEFINE p == i \div 2
           u == Swap(w, p, i)
           Par(j) == j \div 2
<1>1. \A j \in 2..n : Par(j) \in 1..n /\ Par(j) < j
  OBVIOUS
<1>2. p \in 1..n /\ p < i /\ p = Par(i) /\ i \in 2..n
  OBVIOUS
<1>3. u[p] = w[i] /\ u[i] = w[p] /\ \A k \in 1..n : k # p /\ k # i => u[k] = w[k]
  BY <1>2 DEF Swap
<1>4. \A k \in 1..n : w[k] \in Nat
  OBVIOUS
<1>5. \A j \in 2..n : j # i => w[Par(j)] <= w[j]
  BY DEF Rising
<1>6. \A j \in 2..n : Par(j) = i => w[p] <= w[j]
  BY DEF Rising
<1>7. w[i] <= w[p]
  OBVIOUS
<1>8. \A j \in 2..n : j \in 1..n
  OBVIOUS
<1> HIDE DEF p, u, Par
<1>9. ASSUME NEW j \in 2..n, j # p PROVE u[Par(j)] <= u[j]
  <2>1. CASE j = i
    BY <1>2, <1>3, <1>7, <2>1
  <2>2. CASE j # i
    <3>1. u[j] = w[j] /\ w[Par(j)] <= w[j]
      BY <1>3, <1>5, <1>8, <1>9, <2>2
    <3>2. CASE Par(j) = i
      BY <1>3, <1>6, <3>1, <3>2
    <3>3. CASE Par(j) = p
      <4>1. w[i] <= w[p] /\ w[p] <= w[j]
        BY <1>7, <3>1, <3>3
      <4> QED
        BY <1>2, <1>3, <1>4, <1>8, <3>1, <3>3, <4>1
    <3>4. CASE Par(j) # i /\ Par(j) # p
      BY <1>1, <1>3, <3>1, <3>4
    <3> QED
      BY <3>2, <3>3, <3>4
  <2> QED
    BY <2>1, <2>2
<1>10. ASSUME NEW j \in 2..n, p # 1, Par(j) = p PROVE u[Par(p)] <= u[j]
  <2>1. p \in 2..n /\ p # i
    BY <1>2, <1>10
  <2>2. Par(p) \in 1..n /\ Par(p) < p
    BY <1>1, <2>1
  <2>3. Par(p) # p /\ Par(p) # i
    BY <1>2, <2>2
  <2>4. u[Par(p)] = w[Par(p)] /\ w[Par(p)] <= w[p]
    BY <1>3, <1>5, <2>1, <2>2, <2>3
  <2>5. CASE j = i
    BY <1>3, <2>4, <2>5
  <2>6. CASE j # i
    <3>1. j # p
      BY <1>10, <2>3
    <3>2. u[j] = w[j] /\ w[p] <= w[j]
      BY <1>3, <1>5, <1>8, <1>10, <2>6, <3>1
    <3> QED
      BY <1>2, <1>4, <1>8, <2>2, <2>4, <3>2
  <2> QED
    BY <2>5, <2>6
<1> QED
  BY <1>9, <1>10 DEF Rising, p, u, Par

\* A timer that goes down by a place, to the earlier child, still does.
LEMMA SinkingOn ==
  ASSUME NEW n \in Nat, NEW w \in [1..n -> Nat], NEW i \in 1..n, NEW c \in 1..n,
         i < c, c \div 2 = i, \A j \in 2..n : j \div 2 = i => w[c] <= w[j],
         Sinking(n, w, i), w[c] <= w[i]
  PROVE  Sinking(n, Swap(w, i, c), c)
<1> DEFINE u == Swap(w, i, c)
           Par(j) == j \div 2
<1>1. \A j \in 2..n : Par(j) \in 1..n /\ Par(j) < j
  OBVIOUS
<1>2. c \in 2..n /\ Par(c) = i /\ i # c
  OBVIOUS
<1>3. u[i] = w[c] /\ u[c] = w[i] /\ \A k \in 1..n : k # i /\ k # c => u[k] = w[k]
  BY <1>2 DEF Swap
<1>4. \A k \in 1..n : w[k] \in Nat
  OBVIOUS
<1>5. \A j \in 2..n : Par(j) # i => w[Par(j)] <= w[j]
  BY DEF Sinking
<1>6. \A j \in 2..n : i # 1 /\ Par(j) = i => w[Par(i)] <= w[j]
  BY DEF Sinking
<1>7. w[c] <= w[i] /\ \A j \in 2..n : Par(j) = i => w[c] <= w[j]
  OBVIOUS
<1>8. \A j \in 2..n : j \in 1..n /\ j # 1
  OBVIOUS
<1> HIDE DEF u, Par
<1>9. ASSUME NEW j \in 2..n, Par(j) # c PROVE u[Par(j)] <= u[j]
  <2>1. CASE j = c
    BY <1>2, <1>3, <1>7, <2>1
  <2>2. CASE j = i
    <3>1. i # 1 /\ Par(i) \in 1..n /\ Par(i) < i
      BY <1>1, <1>8, <2>2
    <3>2. u[Par(i)] = w[Par(i)]
      BY <1>3, <1>9, <2>2, <3>1
    <3>3. w[Par(i)] <= w[c]
      BY <1>2, <1>6, <3>1
    <3> QED
      BY <1>3, <2>2, <3>2, <3>3
  <2>3. CASE j # c /\ j # i
    <3>1. u[j] = w[j]
      BY <1>3, <1>8, <2>3
    <3>2. CASE Par(j) = i
      BY <1>3, <1>7, <3>1, <3>2
    <3>3. CASE Par(j) # i
      BY <1>1, <1>3, <1>5, <1>9, <3>1, <3>3
    <3> QED
      BY <3>2, <3>3
  <2> QED
    BY <2>1, <2>2, <2>3
<1>10. ASSUME NEW j \in 2..n, Par(j) = c PROVE u[Par(c)] <= u[j]
  <2>1. j # c /\ j # i /\ Par(j) # i
    <3>1. c < j
      BY <1>1, <1>10
    <3> QED
      BY <1>2, <1>8, <1>10, <3>1
  <2>2. u[j] = w[j] /\ w[c] <= w[j]
    BY <1>3, <1>5, <1>8, <1>10, <2>1
  <2> QED
    BY <1>2, <1>3, <2>2
<1> QED
  BY <1>9, <1>10 DEF Sinking, u, Par

\* The first timer is the earliest.
LEMMA FirstEarliest ==
  ASSUME NEW n \in Nat, NEW w \in [1..n -> Nat], Ordered(n, w), NEW j \in 1..n
  PROVE  w[1] <= w[j]
<1> DEFINE P == {k \in Nat : \A i \in 1..n : i <= k => w[1] <= w[i]}
<1>1. 0 \in P
  OBVIOUS
<1>2. ASSUME NEW k \in Nat, k \in P PROVE k + 1 \in P
  <2> SUFFICES ASSUME NEW i \in 1..n, i <= k + 1 PROVE w[1] <= w[i]
    OBVIOUS
  <2>1. CASE i = 1
    BY <2>1
  <2>2. CASE i # 1
    <3>1. i \in 2..n /\ i \div 2 \in 1..n /\ i \div 2 <= k
      BY <2>2
    <3>2. w[1] <= w[i \div 2]
      BY <1>2, <3>1
    <3>3. w[i \div 2] <= w[i]
      BY <3>1 DEF Ordered
    <3>4. w[1] \in Nat /\ w[i \div 2] \in Nat /\ w[i] \in Nat
      BY <3>1
    <3> QED
      BY <3>2, <3>3, <3>4
  <2> QED
    BY <2>1, <2>2
<1> HIDE DEF P
<1>3. Nat \subseteq P
  BY <1>1, <1>2, Induction
<1>4. j \in Nat /\ j <= j
  OBVIOUS
<1> QED
  BY <1>3, <1>4 DEF P

-----------------------------------------------------------------------------
(* What going up and down keeps *)

Items(n, g) == {g[i] : i \in 1..n}
Distinct(n, g) == \A i, j \in 1..n : g[i] = g[j] => i = j
Weights(v, n, g) == [i \in 1..n |-> v[g[i]]]

\* r has the timers of g, each once if g has, and in order if g was asked to be.
Kept(S, v, n, g, r, asked) ==
  /\ r \in [1..n -> S] /\ Items(n, r) = Items(n, g)
  /\ Distinct(n, g) => Distinct(n, r)
  /\ asked => Ordered(n, Weights(v, n, r))

\* r is g with the timers of i and j swapped.
Swapped(S, v, n, g, i, j, r) ==
  /\ r \in [1..n -> S] /\ Items(n, r) = Items(n, g)
  /\ Distinct(n, g) => Distinct(n, r)
  /\ Weights(v, n, r) = Swap(Weights(v, n, g), i, j)

\* A swap keeps the timers.
LEMMA SwapKeeps ==
  ASSUME NEW S, NEW v, NEW n \in Nat, NEW g \in [1..n -> S],
         NEW i \in 1..n, NEW j \in 1..n, i # j
  PROVE  Swapped(S, v, n, g, i, j, Swap(g, i, j))
<1> DEFINE r == Swap(g, i, j)
<1>1. /\ r \in [1..n -> S] /\ r[i] = g[j] /\ r[j] = g[i]
      /\ \A k \in 1..n : k # i /\ k # j => r[k] = g[k]
  BY DEF Swap
<1>2. Weights(v, n, r) = Swap(Weights(v, n, g), i, j)
  <2> HIDE DEF r
  <2> DEFINE a == Weights(v, n, r)
             w == Weights(v, n, g)
             b == Swap(w, i, j)
  <2>1. DOMAIN w = 1..n /\ \A k \in 1..n : w[k] = v[g[k]]
    BY DEF Weights
  <2>2. a = [k \in 1..n |-> v[r[k]]]
    BY DEF Weights
  <2> HIDE DEF w
  <2>3. b = [k \in 1..n |-> IF k = j THEN w[i] ELSE IF k = i THEN w[j] ELSE w[k]]
    BY <2>1 DEF Swap
  <2>4. \A k \in 1..n :
          v[r[k]] = IF k = j THEN w[i] ELSE IF k = i THEN w[j] ELSE w[k]
    BY <1>1, <2>1
  <2> HIDE DEF a, b
  <2>5. a = b
    BY <2>2, <2>3, <2>4
  <2> QED
    BY <2>5 DEF a, b, w
<1> HIDE DEF r
<1>3. Items(n, r) = Items(n, g)
  <2>1. \A k \in 1..n : \E l \in 1..n : r[k] = g[l]
    BY <1>1
  <2>2. \A k \in 1..n : \E l \in 1..n : g[k] = r[l]
    BY <1>1
  <2>3. ASSUME NEW e \in Items(n, r) PROVE e \in Items(n, g)
    <3>1. PICK k \in 1..n : e = r[k]
      BY DEF Items
    <3>2. PICK l \in 1..n : r[k] = g[l]
      BY <2>1
    <3> QED
      BY <3>1, <3>2 DEF Items
  <2>4. ASSUME NEW e \in Items(n, g) PROVE e \in Items(n, r)
    <3>1. PICK k \in 1..n : e = g[k]
      BY DEF Items
    <3>2. PICK l \in 1..n : g[k] = r[l]
      BY <2>2
    <3> QED
      BY <3>1, <3>2 DEF Items
  <2> QED
    BY <2>3, <2>4
<1>4. Distinct(n, g) => Distinct(n, r)
  BY <1>1 DEF Distinct
<1>5. Swapped(S, v, n, g, i, j, r)
  BY <1>1, <1>2, <1>3, <1>4 DEF Swapped
<1> QED
  BY <1>5 DEF r

\* Going up from place i.
LEMMA UpKeeps ==
  ASSUME NEW n \in Nat, NEW S \in SUBSET Ids, NEW v \in [S -> Nat],
         NEW i \in 1..n, NEW g \in [1..n -> S]
  PROVE  Kept(S, v, n, g, Up(v, n)[i][g], Rising(n, Weights(v, n, g), i))
<1> DEFINE H == [1..n -> S]
           up == Up(v, n)
           W(h) == Weights(v, n, h)
           Fine(k) == \A h \in H : Kept(S, v, n, h, up[k][h], Rising(n, W(h), k))
           P == {m \in Nat : \A k \in 1..n : k <= m => Fine(k)}
<1>1. \A k \in 1..n : \A h \in H :
        up[k][h] = IF k = 1 \/ v[h[k \div 2]] < v[h[k]] THEN h
                   ELSE up[k \div 2][Swap(h, k \div 2, k)]
  <2> SUFFICES ASSUME NEW k \in 1..n, NEW h \in H
               PROVE  up[k][h] = IF k = 1 \/ v[h[k \div 2]] < v[h[k]] THEN h
                                 ELSE up[k \div 2][Swap(h, k \div 2, k)]
    OBVIOUS
  <2>1. h \in [1..n -> Ids]
    OBVIOUS
  <2>2. up = Rise(v, n, up)
    BY UpUnfolds
  <2> HIDE DEF up
  <2>3. Rise(v, n, up)[k][h] = IF k = 1 \/ v[h[k \div 2]] < v[h[k]] THEN h
                               ELSE up[k \div 2][Swap(h, k \div 2, k)]
    BY <2>1 DEF Rise
  <2> QED
    BY <2>2, <2>3
<1> HIDE DEF up
<1>2. \A h \in H : W(h) \in [1..n -> Nat] /\ \A k \in 1..n : W(h)[k] = v[h[k]]
  BY DEF Weights
<1>3. 0 \in P
  OBVIOUS
<1>4. ASSUME NEW m \in Nat, m \in P PROVE m + 1 \in P
  <2> SUFFICES ASSUME NEW k \in 1..n, k <= m + 1, NEW h \in H
               PROVE  Kept(S, v, n, h, up[k][h], Rising(n, W(h), k))
    OBVIOUS
  <2>1. CASE k = 1 \/ v[h[k \div 2]] < v[h[k]]
    <3>1. up[k][h] = h
      BY <1>1, <2>1
    <3>2. ASSUME Rising(n, W(h), k) PROVE Ordered(n, W(h))
      <4>1. W(h) \in [1..n -> Nat] /\ \A l \in 1..n : W(h)[l] = v[h[l]]
        BY <1>2
      <4> DEFINE w == W(h)
      <4> HIDE DEF W
      <4>2. k \in 2..n => w[k \div 2] <= w[k]
        <5> SUFFICES ASSUME k \in 2..n PROVE w[k \div 2] <= w[k]
          OBVIOUS
        <5>1. k \div 2 \in 1..n /\ k # 1
          OBVIOUS
        <5> HIDE DEF w
        <5>2. w[k \div 2] < w[k] /\ w[k] \in Nat /\ w[k \div 2] \in Nat
          BY <2>1, <4>1, <5>1 DEF w
        <5> QED
          BY <5>2
      <4>3. \A j \in 2..n : j # k => w[j \div 2] <= w[j]
        BY <3>2 DEF Rising
      <4> HIDE DEF w
      <4>4. Ordered(n, w)
        BY <4>2, <4>3 DEF Ordered
      <4> QED
        BY <4>4 DEF w
    <3> QED
      BY <3>1, <3>2 DEF Kept
  <2>2. CASE ~(k = 1 \/ v[h[k \div 2]] < v[h[k]])
    <3> DEFINE p == k \div 2
               s == Swap(h, p, k)
               r == up[p][s]
    <3>1. p \in 1..n /\ p <= m /\ p < k /\ p # k /\ k # 1
      BY <2>2
    <3>2. up[k][h] = r
      BY <1>1, <2>2
    <3>3. /\ s \in H /\ Items(n, s) = Items(n, h) /\ (Distinct(n, h) => Distinct(n, s))
          /\ W(s) = Swap(W(h), p, k)
      <4> HIDE DEF p
      <4>1. h \in [1..n -> S] /\ p \in 1..n /\ k \in 1..n /\ p # k
        BY <3>1
      <4>2. Swapped(S, v, n, h, p, k, Swap(h, p, k))
        BY <4>1, SwapKeeps
      <4> QED
        BY <4>2 DEF Swapped
    <3>4. Kept(S, v, n, s, r, Rising(n, W(s), p))
      <4>1. Fine(p)
        BY <1>4, <3>1
      <4> HIDE DEF p, s
      <4> QED
        BY <3>3, <4>1
    <3>5. ASSUME Rising(n, W(h), k) PROVE Rising(n, W(s), p)
      <4> DEFINE w == W(h)
      <4>1. w \in [1..n -> Nat] /\ w[k] = v[h[k]] /\ w[p] = v[h[p]]
        BY <1>2, <3>1
      <4>2. w[p] \in Nat /\ w[k] \in Nat /\ ~(w[p] < w[k])
        BY <2>2, <3>1, <4>1
      <4>3. w[k] <= w[p]
        <5> HIDE DEF w, p
        <5> QED
          BY <4>2
      <4>4. Rising(n, w, k) /\ k # 1
        BY <3>1, <3>5
      <4> HIDE DEF w
      <4>5. Rising(n, Swap(w, p, k), p)
        BY <4>1, <4>3, <4>4, RisingOn
      <4> QED
        BY <3>3, <4>5 DEF w
    <3> HIDE DEF s, r, p, W
    <3> QED
      BY <3>2, <3>3, <3>4, <3>5 DEF Kept
  <2> QED
    BY <2>1, <2>2
<1> HIDE DEF P
<1>5. Nat \subseteq P
  BY <1>3, <1>4, Induction
<1>6. i \in Nat /\ i <= i
  OBVIOUS
<1>7. Fine(i)
  <2> HIDE DEF Fine
  <2> QED
    BY <1>5, <1>6 DEF P
<1> QED
  BY <1>7 DEF up

\* The child is the earlier of the two.
LEMMA EarlierChild ==
  ASSUME NEW n \in Nat, NEW S \in SUBSET Ids, NEW v \in [S -> Nat],
         NEW g \in [1..n -> S], NEW k \in 1..n, ~(2 * k > n)
  PROVE  /\ Child(v, g, k) \in 1..n /\ k < Child(v, g, k) /\ Child(v, g, k) \div 2 = k
         /\ \A j \in 2..n : j \div 2 = k => v[g[Child(v, g, k)]] <= v[g[j]]
<1> DEFINE a == 2 * k
           b == 2 * k + 1
<1>1. a \in 1..n /\ k < a /\ k < b /\ a \div 2 = k /\ b \div 2 = k
  OBVIOUS
<1>2. \A j \in 2..n : j \div 2 = k => j = a \/ j = b
  OBVIOUS
<1>3. \A j \in 1..n : v[g[j]] \in Nat
  OBVIOUS
<1>4. DOMAIN g = 1..n
  OBVIOUS
<1>5. Child(v, g, k) = IF b \in DOMAIN g /\ v[g[b]] < v[g[a]] THEN b ELSE a
  BY DEF Child
<1> HIDE DEF a, b
<1>6. CASE b \in 1..n /\ v[g[b]] < v[g[a]]
  <2>1. Child(v, g, k) = b
    BY <1>4, <1>5, <1>6
  <2>2. v[g[b]] <= v[g[a]] /\ v[g[b]] <= v[g[b]]
    BY <1>1, <1>3, <1>6
  <2> QED
    BY <1>1, <1>2, <1>6, <2>1, <2>2
<1>7. CASE ~(b \in 1..n /\ v[g[b]] < v[g[a]])
  <2>1. Child(v, g, k) = a
    BY <1>4, <1>5, <1>7
  <2>2. v[g[a]] <= v[g[a]] /\ (b \in 1..n => v[g[a]] <= v[g[b]])
    BY <1>1, <1>3, <1>7
  <2>3. \A j \in 2..n : j \in 1..n
    OBVIOUS
  <2> QED
    BY <1>1, <1>2, <2>1, <2>2, <2>3
<1> QED
  BY <1>6, <1>7

\* Going down from place i.
LEMMA DownKeeps ==
  ASSUME NEW n \in Nat, NEW S \in SUBSET Ids, NEW v \in [S -> Nat],
         NEW i \in 1..n, NEW g \in [1..n -> S]
  PROVE  Kept(S, v, n, g, Down(v, n)[i][g], Sinking(n, Weights(v, n, g), i))
<1> DEFINE H == [1..n -> S]
           down == Down(v, n)
           W(h) == Weights(v, n, h)
           Ends(h, k) == 2 * k > n \/ v[h[k]] < v[h[Child(v, h, k)]]
           Fine(k) == \A h \in H : Kept(S, v, n, h, down[k][h], Sinking(n, W(h), k))
           P == {m \in Nat : \A k \in 1..n : n - k < m => Fine(k)}
<1>1. \A k \in 1..n : \A h \in H :
        down[k][h] = IF Ends(h, k) THEN h
                     ELSE down[Child(v, h, k)][Swap(h, k, Child(v, h, k))]
  <2> SUFFICES ASSUME NEW k \in 1..n, NEW h \in H
               PROVE  down[k][h] = IF Ends(h, k) THEN h
                                   ELSE down[Child(v, h, k)][Swap(h, k, Child(v, h, k))]
    OBVIOUS
  <2>1. h \in [1..n -> Ids]
    OBVIOUS
  <2>2. down = Sink(v, n, down)
    BY DownUnfolds
  <2> HIDE DEF down
  <2>3. Sink(v, n, down)[k][h] = IF Ends(h, k) THEN h
                                 ELSE down[Child(v, h, k)][Swap(h, k, Child(v, h, k))]
    BY <2>1 DEF Sink
  <2> QED
    BY <2>2, <2>3
<1> HIDE DEF down
<1>2. \A h \in H : W(h) \in [1..n -> Nat] /\ \A k \in 1..n : W(h)[k] = v[h[k]]
  BY DEF Weights
<1>3. 0 \in P
  OBVIOUS
<1>4. ASSUME NEW m \in Nat, m \in P PROVE m + 1 \in P
  <2> SUFFICES ASSUME NEW k \in 1..n, n - k < m + 1, NEW h \in H
               PROVE  Kept(S, v, n, h, down[k][h], Sinking(n, W(h), k))
    OBVIOUS
  <2> DEFINE c == Child(v, h, k)
  <2>1. ~(2 * k > n) => /\ c \in 1..n /\ k < c /\ c \div 2 = k
                        /\ \A j \in 2..n : j \div 2 = k => v[h[c]] <= v[h[j]]
    BY EarlierChild
  <2> HIDE DEF c
  <2>2. CASE Ends(h, k)
    <3>1. down[k][h] = h
      BY <1>1, <2>2
    <3>2. ASSUME Sinking(n, W(h), k) PROVE Ordered(n, W(h))
      <4> DEFINE w == W(h)
      <4>1. w \in [1..n -> Nat] /\ \A l \in 1..n : w[l] = v[h[l]]
        BY <1>2
      <4>2. \A j \in 2..n : j \div 2 # k => w[j \div 2] <= w[j]
        BY <3>2 DEF Sinking
      <4> HIDE DEF w
      <4>3. ASSUME NEW j \in 2..n, j \div 2 = k PROVE w[k] <= w[j]
        <5>1. ~(2 * k > n) /\ j \in 1..n
          BY <4>3
        <5>2. v[h[k]] < v[h[c]]
          BY <2>2, <5>1 DEF c
        <5>3. w[k] < w[c] /\ w[c] <= w[j]
          BY <2>1, <4>1, <4>3, <5>1, <5>2
        <5>4. w[k] \in Nat /\ w[c] \in Nat /\ w[j] \in Nat
          BY <2>1, <4>1, <5>1
        <5> QED
          BY <5>3, <5>4
      <4>4. Ordered(n, w)
        BY <4>2, <4>3 DEF Ordered
      <4> QED
        BY <4>4 DEF w
    <3> QED
      BY <3>1, <3>2 DEF Kept
  <2>3. CASE ~Ends(h, k)
    <3> DEFINE s == Swap(h, k, c)
               r == down[c][s]
    <3>1. ~(2 * k > n) /\ ~(v[h[k]] < v[h[c]]) /\ c \in 1..n /\ k < c /\ k # c
      BY <2>1, <2>3 DEF c
    <3>2. down[k][h] = r
      BY <1>1, <2>3 DEF c
    <3>3. /\ s \in H /\ Items(n, s) = Items(n, h) /\ (Distinct(n, h) => Distinct(n, s))
          /\ W(s) = Swap(W(h), k, c)
      <4>1. h \in [1..n -> S] /\ c \in 1..n /\ k \in 1..n /\ k # c
        BY <3>1
      <4>2. Swapped(S, v, n, h, k, c, Swap(h, k, c))
        BY <4>1, SwapKeeps
      <4> QED
        BY <4>2 DEF Swapped
    <3>4. Kept(S, v, n, s, r, Sinking(n, W(s), c))
      <4>1. n - c < m
        BY <3>1
      <4>2. Fine(c)
        BY <1>4, <3>1, <4>1
      <4> HIDE DEF s
      <4> QED
        BY <3>3, <4>2
    <3>5. ASSUME Sinking(n, W(h), k) PROVE Sinking(n, W(s), c)
      <4> DEFINE w == W(h)
      <4>1. w \in [1..n -> Nat] /\ \A l \in 1..n : w[l] = v[h[l]]
        BY <1>2
      <4> HIDE DEF w
      <4>2. w[c] \in Nat /\ w[k] \in Nat /\ ~(w[k] < w[c])
        BY <3>1, <4>1
      <4>3. w[c] <= w[k]
        BY <4>2
      <4>4. c \div 2 = k /\ \A j \in 2..n : j \div 2 = k => w[c] <= w[j]
        <5>1. \A j \in 2..n : j \in 1..n
          OBVIOUS
        <5> QED
          BY <2>1, <3>1, <4>1, <5>1
      <4>5. Sinking(n, w, k)
        BY <3>5 DEF w
      <4>6. Sinking(n, Swap(w, k, c), c)
        BY <3>1, <4>1, <4>3, <4>4, <4>5, SinkingOn
      <4> QED
        BY <3>3, <4>6 DEF w
    <3> HIDE DEF s, r, W
    <3> QED
      BY <3>2, <3>3, <3>4, <3>5 DEF Kept
  <2> QED
    BY <2>2, <2>3
<1> HIDE DEF P
<1>5. Nat \subseteq P
  BY <1>3, <1>4, Induction
<1>6. n - i + 1 \in Nat /\ n - i < n - i + 1
  OBVIOUS
<1>7. Fine(i)
  <2> HIDE DEF Fine
  <2> QED
    BY <1>5, <1>6 DEF P
<1> QED
  BY <1>7 DEF down

-----------------------------------------------------------------------------
(* Insertion and removal *)

\* The timers of T, each once,
Holds(h, T) ==
  /\ h \in Seq(T)
  /\ \A t \in T : \E i \in DOMAIN h : h[i] = t
  /\ \A i, j \in DOMAIN h : h[i] = h[j] => i = j

\* and in order.
InOrder(v, h) == Ordered(Len(h), Weights(v, Len(h), h))

\* A heap of n holds its items.
LEMMA HoldsItems ==
  ASSUME NEW S, NEW n \in Nat, NEW r \in [1..n -> S], Distinct(n, r)
  PROVE  Holds(r, Items(n, r)) /\ Len(r) = n
<1> DEFINE T == Items(n, r)
<1>1. \A i \in 1..n : r[i] \in T
  BY DEF Items
<1>2. \A t \in T : \E i \in 1..n : r[i] = t
  BY DEF Items
<1> HIDE DEF T
<1>3. r \in [1..n -> T] /\ DOMAIN r = 1..n
  BY <1>1
<1>4. r \in Seq(T) /\ Len(r) = n
  BY <1>3
<1>5. Holds(r, T)
  BY <1>2, <1>3, <1>4 DEF Holds, Distinct
<1> QED
  BY <1>4, <1>5 DEF T

\* A heap, looked at by its places.
LEMMA HoldsPlaces ==
  ASSUME NEW T, NEW h, Holds(h, T)
  PROVE  /\ h \in Seq(T) /\ Len(h) \in Nat /\ DOMAIN h = 1..Len(h) /\ h \in [1..Len(h) -> T]
         /\ T = Items(Len(h), h) /\ Distinct(Len(h), h)
<1>1. h \in Seq(T) /\ Len(h) \in Nat /\ DOMAIN h = 1..Len(h)
  BY DEF Holds
<1>2. h \in [1..Len(h) -> T]
  BY <1>1
<1>3. Distinct(Len(h), h)
  BY <1>1 DEF Holds, Distinct
<1>4. Items(Len(h), h) \subseteq T
  BY <1>2 DEF Items
<1>5. T \subseteq Items(Len(h), h)
  BY <1>1 DEF Holds, Items
<1> QED
  BY <1>1, <1>2, <1>3, <1>4, <1>5

\* minHeapInsert.
LEMMA InsertKeeps ==
  ASSUME NEW T \in SUBSET Ids, NEW t \in Ids, t \notin T, NEW h, Holds(h, T),
         NEW v \in [T \cup {t} -> Nat]
  PROVE  /\ Holds(Insert(v, h, t), T \cup {t})
         /\ InOrder(v, h) => InOrder(v, Insert(v, h, t))
<1> DEFINE S == T \cup {t}
           l == Len(h)
           n == l + 1
           g == Append(h, t)
           r == Up(v, n)[n][g]
<1>1. /\ h \in Seq(T) /\ l \in Nat /\ h \in [1..l -> T] /\ T = Items(l, h)
      /\ Distinct(l, h) /\ S \in SUBSET Ids
  BY HoldsPlaces
<1>2. h \in Seq(S) /\ t \in S
  BY <1>1
<1>3. /\ g \in Seq(S) /\ Len(g) = n /\ DOMAIN g = 1..n /\ g[n] = t
      /\ \A i \in 1..l : g[i] = h[i]
  BY <1>2, Appended
<1> HIDE DEF g
<1>4. n \in Nat /\ n \in 1..n /\ g \in [1..n -> S]
  <2>1. n \in Nat /\ n \in 1..n
    BY <1>1
  <2> HIDE DEF n
  <2> QED
    BY <1>3, <2>1
<1>5. \A i \in 1..n : i \in 1..l \/ i = n
  BY <1>1
<1>6. Items(n, g) = S
  <2>1. \A i \in 1..n : g[i] \in S
    BY <1>4
  <2>2. \A i \in 1..l : i \in 1..n
    BY <1>1
  <2> HIDE DEF n, l
  <2>3. ASSUME NEW e \in T PROVE e \in Items(n, g)
    <3>1. PICK i \in 1..l : e = h[i]
      BY <1>1 DEF Items
    <3>2. i \in 1..n /\ e = g[i]
      BY <1>3, <2>2, <3>1
    <3> QED
      BY <3>2 DEF Items
  <2>4. t \in Items(n, g)
    BY <1>3, <1>4 DEF Items
  <2> QED
    BY <2>1, <2>3, <2>4 DEF Items
<1>7. Distinct(n, g)
  <2> HIDE DEF n, l
  <2>1. \A i \in 1..l : h[i] \in T /\ h[i] # t
    BY <1>1
  <2> SUFFICES ASSUME NEW i \in 1..n, NEW j \in 1..n, g[i] = g[j] PROVE i = j
    BY DEF Distinct
  <2>2. CASE i = n /\ j = n
    BY <2>2
  <2>3. CASE i \in 1..l /\ j = n
    BY <1>3, <2>1, <2>3
  <2>4. CASE i = n /\ j \in 1..l
    BY <1>3, <2>1, <2>4
  <2>5. CASE i \in 1..l /\ j \in 1..l
    BY <1>1, <1>3, <2>5 DEF Distinct
  <2> QED
    BY <1>5, <2>2, <2>3, <2>4, <2>5
<1>8. ASSUME InOrder(v, h) PROVE Rising(n, Weights(v, n, g), n)
  <2> DEFINE w == Weights(v, n, g)
             u == Weights(v, l, h)
  <2>1. \A i \in 1..l : w[i] = u[i]
    <3>1. \A i \in 1..l : i \in 1..n
      BY <1>1
    <3> QED
      BY <1>3, <3>1 DEF Weights
  <2>2. \A j \in 2..l : u[j \div 2] <= u[j]
    BY <1>8 DEF InOrder, Ordered
  <2> HIDE DEF w, u
  <2>3. \A j \in 2..n : j # n => j \in 2..l /\ j \in 1..l /\ j \div 2 \in 1..l
    BY <1>1
  <2>4. \A j \in 2..n : j \div 2 # n
    BY <1>1
  <2>5. Rising(n, w, n)
    <3> HIDE DEF n, l
    <3> QED
      BY <2>1, <2>2, <2>3, <2>4 DEF Rising
  <2> QED
    BY <2>5 DEF w
<1> HIDE DEF n
<1>9. Kept(S, v, n, g, r, Rising(n, Weights(v, n, g), n))
  <2> HIDE DEF S
  <2>1. v \in [S -> Nat]
    BY DEF S
  <2> QED
    BY <1>1, <1>4, <2>1, UpKeeps
<1>10. r = Insert(v, h, t)
  BY DEF Insert, n, g
<1> HIDE DEF r, S, l
<1>11. r \in [1..n -> S] /\ Items(n, r) = S /\ Distinct(n, r)
  BY <1>6, <1>7, <1>9 DEF Kept
<1>12. Holds(r, S) /\ Len(r) = n
  BY <1>4, <1>11, HoldsItems
<1>13. InOrder(v, h) => InOrder(v, r)
  BY <1>8, <1>9, <1>12 DEF Kept, InOrder
<1> QED
  BY <1>10, <1>12, <1>13 DEF S

\* minHeapErase.
LEMMA EraseKeeps ==
  ASSUME NEW T \in SUBSET Ids, NEW h, Holds(h, T), NEW v \in [T -> Nat],
         NEW place \in DOMAIN h
  PROVE  /\ Holds(Erase(v, h, place), T \ {h[place]})
         /\ InOrder(v, h) /\ ~Disturbs(v, h, place) => InOrder(v, Erase(v, h, place))
<1> DEFINE l == Len(h)
           n == l - 1
           f == Front(h)
           e == h[place]
<1>1. /\ h \in Seq(T) /\ l \in Nat /\ h \in [1..l -> T] /\ T = Items(l, h)
      /\ Distinct(l, h) /\ DOMAIN h = 1..l
  BY HoldsPlaces
<1>2. h # <<>>
  BY <1>1
<1>3. /\ f \in Seq(T) /\ Len(f) = n /\ l > 0 /\ DOMAIN f = 1..n /\ Last(h) = h[l]
      /\ \A i \in 1..n : f[i] = h[i]
  BY <1>1, <1>2, Dropped
<1>4. n \in Nat /\ \A i \in 1..l : i \in 1..n \/ i = l
  <2>1. l \in Nat /\ l > 0
    BY <1>1, <1>3
  <2> HIDE DEF l
  <2> QED
    BY <2>1
<1>5. l \in 1..l /\ l \notin 1..n /\ \A i \in 1..n : i \in 1..l
  BY <1>1, <1>3
<1>6. \A i, j \in 1..l : h[i] = h[j] => i = j
  BY <1>1 DEF Distinct
<1>7. \A i \in 1..l : h[i] \in T
  BY <1>1
<1>8. \A t \in T : \E i \in 1..l : h[i] = t
  BY <1>1 DEF Items
<1>9. InOrder(v, h) => \A j \in 2..l : v[h[j \div 2]] <= v[h[j]]
  <2>1. \A j \in 2..l : j \in 1..l /\ j \div 2 \in 1..l
    BY <1>1
  <2> QED
    BY <2>1 DEF InOrder, Ordered, Weights
<1>10. \A j \in 2..n : j \in 2..l /\ j \in 1..n /\ j \div 2 \in 1..n
  BY <1>1, <1>3, SMTT(60)
<1>11. ASSUME place = l
       PROVE  /\ Holds(f, T \ {e})
              /\ InOrder(v, h) => InOrder(v, f)
  <2> HIDE DEF l, n, f
  <2>1. f \in [1..n -> T]
    BY <1>3, <1>4
  <2>2. Items(n, f) = T \ {e}
    <3>1. \A i \in 1..n : f[i] \in T \ {e}
      BY <1>3, <1>5, <1>6, <1>7, <1>11
    <3>2. ASSUME NEW t \in T \ {e} PROVE \E i \in 1..n : f[i] = t
      BY <1>3, <1>4, <1>8, <1>11
    <3> QED
      BY <3>1, <3>2 DEF Items
  <2>3. Distinct(n, f)
    BY <1>3, <1>5, <1>6 DEF Distinct
  <2>4. Holds(f, Items(n, f))
    BY <1>4, <2>1, <2>3, HoldsItems
  <2>5. ASSUME InOrder(v, h) PROVE InOrder(v, f)
    <3>1. \A j \in 2..n : v[f[j \div 2]] <= v[f[j]]
      BY <1>3, <1>9, <1>10, <2>5
    <3> QED
      BY <1>3, <1>10, <3>1 DEF InOrder, Ordered, Weights
  <2> QED
    BY <2>2, <2>4, <2>5
<1>12. ASSUME place # l
       PROVE  /\ Holds(Down(v, n)[place][[f EXCEPT ![place] = Last(h)]], T \ {e})
              /\ InOrder(v, h) /\ ~Disturbs(v, h, place) =>
                   InOrder(v, Down(v, n)[place][[f EXCEPT ![place] = Last(h)]])
  <2> DEFINE g == [f EXCEPT ![place] = Last(h)]
             r == Down(v, n)[place][g]
  <2>1. place \in 1..n /\ place \in 1..l
    BY <1>1, <1>4, <1>12
  <2> HIDE DEF l, n, f
  <2>2. f \in [1..n -> T]
    BY <1>3, <1>4
  <2>3. /\ g \in [1..n -> T] /\ g[place] = h[l]
        /\ \A i \in 1..n : i # place => g[i] = h[i]
    BY <1>3, <1>5, <1>7, <2>1, <2>2
  <2> HIDE DEF g
  <2>4. Items(n, g) = T \ {e}
    <3>1. ASSUME NEW i \in 1..n PROVE g[i] \in T \ {e}
      <4>1. CASE i = place
        BY <1>5, <1>6, <1>7, <1>12, <2>1, <2>3, <4>1
      <4>2. CASE i # place
        BY <1>5, <1>6, <1>7, <2>1, <2>3, <4>2
      <4> QED
        BY <4>1, <4>2
    <3>2. ASSUME NEW t \in T \ {e} PROVE \E i \in 1..n : g[i] = t
      <4>1. PICK i \in 1..l : h[i] = t
        BY <1>8
      <4>2. i # place
        BY <4>1
      <4> QED
        BY <1>4, <2>1, <2>3, <4>1, <4>2
    <3> QED
      BY <3>1, <3>2 DEF Items
  <2>5. Distinct(n, g)
    <3> SUFFICES ASSUME NEW i \in 1..n, NEW j \in 1..n, g[i] = g[j] PROVE i = j
      BY DEF Distinct
    <3>1. i \in 1..l /\ j \in 1..l /\ i # l /\ j # l
      BY <1>5
    <3> QED
      BY <1>5, <1>6, <2>3, <3>1
  <2>6. ASSUME InOrder(v, h), ~Disturbs(v, h, place) PROVE Sinking(n, Weights(v, n, g), place)
    <3> DEFINE w == Weights(v, n, g)
    <3>1. \A j \in 1..n : w[j] = v[g[j]]
      BY DEF Weights
    <3> HIDE DEF w
    <3>2. place # 1 => w[place \div 2] <= w[place]
      <4> SUFFICES ASSUME place # 1 PROVE w[place \div 2] <= w[place]
        OBVIOUS
      <4> DEFINE q == place \div 2
      <4>1. place \in 2..n
        BY <2>1
      <4>2. q \in 1..n /\ q # place
        BY <1>4, <4>1
      <4> HIDE DEF q
      <4>3. w[q] = v[h[q]] /\ w[place] = v[h[l]]
        BY <2>1, <2>3, <3>1, <4>2
      <4>4. ~(v[h[l]] < v[h[q]])
        BY <1>3, <1>12, <2>6 DEF Disturbs, l, q
      <4>5. v[h[q]] \in Nat /\ v[h[l]] \in Nat
        BY <1>5, <1>7, <4>2
      <4>6. w[q] <= w[place]
        BY <4>3, <4>4, <4>5
      <4> QED
        BY <4>6 DEF q
    <3>3. ASSUME NEW j \in 2..n, j \div 2 # place PROVE w[j \div 2] <= w[j]
      <4>1. CASE j = place
        BY <3>2, <4>1
      <4>2. CASE j # place
        <5>1. j \in 1..n /\ j \div 2 \in 1..n /\ j \in 2..l
          BY <1>10
        <5>2. w[j] = v[h[j]] /\ w[j \div 2] = v[h[j \div 2]]
          BY <2>3, <3>1, <3>3, <4>2, <5>1
        <5> QED
          BY <1>9, <2>6, <5>1, <5>2
      <4> QED
        BY <4>1, <4>2
    <3>4. ASSUME NEW j \in 2..n, place # 1, j \div 2 = place PROVE w[place \div 2] <= w[j]
      <4> DEFINE q == place \div 2
      <4>1. place \in 2..n /\ j # place
        BY <2>1, <3>4
      <4>2. q \in 1..n /\ q # place
        BY <1>4, <4>1
      <4>3. place \in 2..l /\ j \in 2..l /\ j \in 1..n /\ place \in 1..n
        BY <1>10, <4>1
      <4> HIDE DEF q
      <4>4. w[q] = v[h[q]] /\ w[j] = v[h[j]]
        BY <2>3, <3>1, <4>1, <4>2, <4>3
      <4>5. v[h[q]] <= v[h[place]] /\ v[h[place]] <= v[h[j]]
        BY <1>9, <2>6, <3>4, <4>3 DEF q
      <4>6. v[h[q]] \in Nat /\ v[h[place]] \in Nat /\ v[h[j]] \in Nat
        BY <1>5, <1>7, <4>2, <4>3
      <4>7. w[q] <= w[j]
        BY <4>4, <4>5, <4>6
      <4> QED
        BY <4>7 DEF q
    <3>5. Sinking(n, w, place)
      BY <3>3, <3>4 DEF Sinking
    <3> QED
      BY <3>5 DEF w
  <2>7. Kept(T, v, n, g, r, Sinking(n, Weights(v, n, g), place))
    BY <1>4, <2>1, <2>3, DownKeeps
  <2> HIDE DEF r
  <2>8. r \in [1..n -> T] /\ Items(n, r) = T \ {e} /\ Distinct(n, r)
    BY <2>4, <2>5, <2>7 DEF Kept
  <2>9. Holds(r, Items(n, r)) /\ Len(r) = n
    BY <1>4, <2>8, HoldsItems
  <2>10. Holds(r, T \ {e}) /\ Len(r) = n
    BY <2>8, <2>9
  <2>11. InOrder(v, h) /\ ~Disturbs(v, h, place) => InOrder(v, r)
    BY <2>6, <2>7, <2>10 DEF Kept, InOrder
  <2> QED
    BY <2>10, <2>11 DEF r, g
<1>13. Erase(v, h, place) = IF place = l THEN f
                            ELSE Down(v, n)[place][[f EXCEPT ![place] = Last(h)]]
  BY DEF Erase
<1> HIDE DEF l, n, f
<1>14. CASE place = l
  BY <1>11, <1>13, <1>14
<1>15. CASE place # l
  BY <1>12, <1>13, <1>15
<1> QED
  BY <1>14, <1>15

\* The order of the timers rests on their values only.
LEMMA SameOrder ==
  ASSUME NEW T, NEW h, Holds(h, T), NEW u, NEW v, \A t \in T : u[t] = v[t],
         InOrder(u, h)
  PROVE  InOrder(v, h)
<1>1. Len(h) \in Nat /\ \A i \in 1..Len(h) : h[i] \in T
  BY HoldsPlaces
<1>2. Weights(u, Len(h), h) = Weights(v, Len(h), h)
  BY <1>1 DEF Weights
<1> QED
  BY <1>2 DEF InOrder

\* The first of a heap in order is the earliest.
LEMMA FirstOfOrder ==
  ASSUME NEW T, NEW h, Holds(h, T), NEW v \in [T -> Nat], InOrder(v, h), NEW t \in T
  PROVE  /\ h # <<>> /\ h[1] \in T /\ v[h[1]] <= v[t]
<1> DEFINE n == Len(h)
           w == Weights(v, n, h)
<1>1. n \in Nat /\ h \in [1..n -> T] /\ T = Items(n, h)
  BY HoldsPlaces
<1>2. PICK j \in 1..n : h[j] = t
  BY <1>1 DEF Items
<1>3. w \in [1..n -> Nat] /\ \A i \in 1..n : w[i] = v[h[i]]
  BY <1>1 DEF Weights
<1>4. Ordered(n, w)
  BY DEF InOrder
<1>5. h # <<>>
  BY <1>2
<1> HIDE DEF n, w
<1>6. 1 \in 1..n
  BY <1>1, <1>2
<1>7. w[1] <= w[j]
  BY <1>1, <1>2, <1>3, <1>4, FirstEarliest
<1> QED
  BY <1>1, <1>2, <1>3, <1>5, <1>6, <1>7

-----------------------------------------------------------------------------
(* Milliseconds *)

\* A later time is not in an earlier millisecond.
LEMMA MillisecondsGrow ==
  ASSUME NEW m \in Nat \ {0}, NEW a \in Nat, NEW b \in Nat, a <= b
  PROVE  a \div m \in Nat /\ a \div m <= b \div m
<1> DEFINE q == a \div m
           r == b \div m
<1>1. q \in Nat /\ r \in Nat /\ m * q <= a /\ b < m * r + m
  BY SMTT(30)
<1> HIDE DEF q, r
<1>2. CASE q > r
  <2>1. m * q >= m * (r + 1)
    BY <1>1, <1>2, SMTT(30)
  <2>2. m * (r + 1) = m * r + m
    BY <1>1, SMTT(30)
  <2> DEFINE x == m * q
             y == m * r
             z == m * (r + 1)
  <2>3. x \in Nat /\ y \in Nat /\ z \in Nat
    BY <1>1, SMTT(30)
  <2> HIDE DEF x, y, z
  <2>4. x <= a /\ b < y + m /\ x >= z /\ z = y + m
    BY <1>1, <2>1, <2>2 DEF x, y, z
  <2> QED
    BY <2>3, <2>4
<1>3. CASE q <= r
  BY <1>1, <1>3 DEF q, r
<1> QED
  BY <1>1, <1>2, <1>3

\* After whole milliseconds.
LEMMA MillisecondsAfter ==
  ASSUME NEW m \in Nat \ {0}, NEW a \in Nat, NEW k \in Nat
  PROVE  (a + m * k) \div m = (a \div m) + k
BY SMTT(60)

-----------------------------------------------------------------------------
(* The invariant: types, and the order of the heap unless a timer that was *)
(* erased disturbed it                                                     *)

TimersType ==
  /\ DOMAIN timers \subseteq 1..started
  /\ timers \in [DOMAIN timers -> [value : Nat, timeout : Nat, times : Int]]
HeapType == Holds(heap, DOMAIN timers)
LoopType ==
  /\ clock \in 0..MaxClock /\ now \in 0..clock /\ timeout \in 0..MaxSleep
  /\ started \in 0..MaxStarts /\ stopped \in 0..MaxStops
  /\ pc \in {"setup", "poll", "sleep", "events", "check", "call"}
  /\ calling \in 0..started /\ (calling # 0 <=> pc = "call") /\ loose \in BOOLEAN

HeapOrder == loose \/ InOrder(Values, heap)

Inv == TimersType /\ HeapType /\ LoopType /\ HeapOrder /\ SleepsUntilDue

\* Their conjunction is the types.
LEMMA TypesSplit == TypeOK <=> TimersType /\ HeapType /\ LoopType
BY DEF TypeOK, TimersType, HeapType, LoopType, Holds

\* The constants.
LEMMA Constants ==
  /\ Ms \in Nat \ {0}
  /\ MaxSleep \in Nat /\ MaxStarts \in Nat /\ MaxStops \in Nat /\ MaxClock \in Nat
BY ConstantsAssumption

\* The values of the timers.
LEMMA ValuesType ==
  ASSUME TimersType, LoopType
  PROVE  /\ DOMAIN timers \in SUBSET Ids /\ Values \in [DOMAIN timers -> Nat]
         /\ \A t \in DOMAIN timers : /\ Value(t) \in Nat /\ Value(t) = timers[t].value
                                     /\ Values[t] = timers[t].value
<1>1. DOMAIN timers \in SUBSET Ids
  BY Constants DEF TimersType, LoopType, Ids
<1>2. \A t \in DOMAIN timers : timers[t].value \in Nat
  BY DEF TimersType
<1> QED
  BY <1>1, <1>2 DEF Values, Value

\* At the start.
LEMMA InitInv == Init => Inv
<1> SUFFICES ASSUME Init PROVE Inv
  OBVIOUS
<1>1. timers = [t \in {} |-> 0] /\ DOMAIN timers = {} /\ heap = <<>>
  BY DEF Init
<1>2. TimersType
  BY <1>1 DEF TimersType
<1>3. HeapType
  BY <1>1 DEF HeapType, Holds
<1>4. LoopType
  <2>1. clock \in 0..MaxClock /\ now \in 0..clock /\ timeout \in 0..MaxSleep
    BY Constants DEF Init
  <2>2. started \in 0..MaxStarts /\ stopped \in 0..MaxStops /\ calling \in 0..started
    BY Constants DEF Init
  <2> QED
    BY <2>1, <2>2 DEF Init, LoopType
<1>5. HeapOrder
  <2>1. Len(heap) = 0 /\ 2..Len(heap) = {}
    BY <1>1
  <2> QED
    BY <2>1 DEF HeapOrder, InOrder, Ordered
<1>6. SleepsUntilDue
  BY DEF Init, SleepsUntilDue
<1> QED
  BY <1>2, <1>3, <1>4, <1>5, <1>6 DEF Inv

\* A timer is started.
LEMMA StartInv ==
  ASSUME Inv, NEW kind \in Kinds, Start(kind)
  PROVE  Inv' /\ Abstract!Next
<1> DEFINE T == DOMAIN timers
           t == started + 1
           x == Abstract!NewTimer(clock, kind)
           v == [u \in DOMAIN timers' |-> timers'[u].value]
<1>1. /\ TimersType /\ HeapType /\ LoopType /\ HeapOrder
      /\ Ms \in Nat \ {0} /\ kind.timeout \in Int /\ kind.times \in Int
  BY ConstantsAssumption DEF Inv
<1>2. t \in Ids /\ t \notin T /\ T \in SUBSET Ids /\ started \in Nat /\ t # 0
  <2>1. started \in Nat /\ started < MaxStarts
    BY <1>1 DEF Start, LoopType
  <2> QED
    BY <1>1, <2>1, Constants, ValuesType DEF Ids, TimersType
<1>3. x \in [value : Nat, timeout : Nat, times : Int]
  <2> DEFINE d == Abstract!Upper(0, kind.timeout)
  <2>1. d \in Nat
    BY <1>1 DEF Abstract!Upper
  <2>2. clock \in Nat
    BY <1>1, Constants DEF LoopType
  <2>3. clock + d * Ms \in Nat
    <3> HIDE DEF d
    <3> QED
      BY <1>1, <2>1, <2>2
  <2>4. x = [value |-> clock + d * Ms, timeout |-> d, times |-> kind.times]
    BY DEF Abstract!NewTimer
  <2> HIDE DEF d
  <2> QED
    BY <1>1, <2>1, <2>3, <2>4
<1>4. /\ started' = t /\ timers' = Abstract!With(timers, t, x)
      /\ heap' = Insert(v, heap, t) /\ UNCHANGED <<clock, stopped, loose, loopVars>>
      /\ InApplication
  BY DEF Start
<1> HIDE DEF x
<1>5. /\ DOMAIN timers' = T \cup {t} /\ timers'[t] = x
      /\ \A u \in T : timers'[u] = timers[u]
      /\ timers' = [u \in T \cup {t} |-> IF u = t THEN x ELSE timers[u]]
  BY <1>2, <1>4 DEF Abstract!With
<1>6. \A u \in T : timers[u] \in [value : Nat, timeout : Nat, times : Int]
  BY <1>1 DEF TimersType
<1>7. TimersType'
  <2>1. T \subseteq 1..started
    BY <1>1 DEF TimersType
  <2>2. DOMAIN timers' \subseteq 1..started'
    BY <1>2, <1>4, <1>5, <2>1
  <2>3. timers' \in [DOMAIN timers' -> [value : Nat, timeout : Nat, times : Int]]
    <3>1. \A u \in DOMAIN timers' : timers'[u] \in [value : Nat, timeout : Nat, times : Int]
      BY <1>3, <1>5, <1>6
    <3>2. timers' = [u \in DOMAIN timers' |-> timers'[u]]
      BY <1>5
    <3> QED
      BY <3>1, <3>2
  <2> QED
    BY <2>2, <2>3 DEF TimersType
<1>8. LoopType'
  BY <1>1, <1>2, <1>4 DEF LoopType, loopVars, Ids
<1>9. v \in [T \cup {t} -> Nat] /\ v = Values' /\ \A u \in T : Values[u] = v[u]
  <2>1. \A u \in T \cup {t} : timers'[u].value \in Nat
    BY <1>3, <1>5, <1>6
  <2>2. v = Values'
    BY DEF Values, Value
  <2> QED
    BY <1>5, <2>1, <2>2 DEF Values, Value
<1> HIDE DEF v
<1>10. /\ Holds(Insert(v, heap, t), T \cup {t})
       /\ InOrder(v, heap) => InOrder(v, Insert(v, heap, t))
  <2> HIDE DEF T, t
  <2>1. Holds(heap, T)
    BY <1>1 DEF HeapType, T
  <2> QED
    BY <1>2, <1>9, <2>1, InsertKeeps
<1>11. HeapType'
  BY <1>4, <1>5, <1>10 DEF HeapType
<1>12. HeapOrder'
  <2>1. ASSUME InOrder(Values, heap) PROVE InOrder(v, heap)
    <3> DEFINE u == Values
    <3>1. Holds(heap, T) /\ \A e \in T : u[e] = v[e]
      BY <1>1, <1>9 DEF HeapType
    <3> HIDE DEF u, T
    <3>2. InOrder(u, heap) => InOrder(v, heap)
      BY <3>1, SameOrder
    <3> QED
      BY <2>1, <3>2 DEF u
  <2>2. loose \/ InOrder(v, heap')
    BY <1>1, <1>4, <1>10, <2>1 DEF HeapOrder
  <2>3. loose' = loose /\ v = Values'
    BY <1>4, <1>9
  <2> QED
    BY <2>2, <2>3 DEF HeapOrder
<1>13. SleepsUntilDue'
  BY <1>4 DEF SleepsUntilDue, InApplication, loopVars
<1>14. Abstract!Start(t, kind)
  BY <1>2, <1>4 DEF Abstract!Start, loopVars, x
<1>15. Abstract!Next
  <2> HIDE DEF t
  <2> QED
    BY <1>2, <1>14 DEF Abstract!Next
<1> QED
  BY <1>7, <1>8, <1>11, <1>12, <1>13, <1>15 DEF Inv

\* A timer is taken from the heap at a place.
LEMMA WithoutTimer ==
  ASSUME Inv, NEW place \in DOMAIN heap, heap' = Erase(Values, heap, place),
         timers' = Abstract!Without(timers, heap[place])
  PROVE  /\ heap[place] \in DOMAIN timers
         /\ DOMAIN timers' \subseteq DOMAIN timers
         /\ timers' \in [DOMAIN timers' -> [value : Nat, timeout : Nat, times : Int]]
         /\ HeapType'
         /\ InOrder(Values, heap) /\ ~Disturbs(Values, heap, place) =>
              InOrder(Values, heap)'
<1> DEFINE T == DOMAIN timers
           t == heap[place]
           v == Values
<1>1. TimersType /\ HeapType /\ LoopType
  BY DEF Inv
<1>2. Holds(heap, T) /\ T \in SUBSET Ids /\ v \in [T -> Nat]
  BY <1>1, ValuesType DEF HeapType
<1>3. t \in T
  BY <1>2, HoldsPlaces
<1>4. timers' = [u \in T \ {t} |-> timers[u]] /\ DOMAIN timers' = T \ {t}
  BY DEF Abstract!Without
<1>5. timers' \in [DOMAIN timers' -> [value : Nat, timeout : Nat, times : Int]]
  BY <1>1, <1>4 DEF TimersType
<1> HIDE DEF v
<1>6. /\ Holds(Erase(v, heap, place), T \ {heap[place]})
      /\ InOrder(v, heap) /\ ~Disturbs(v, heap, place) => InOrder(v, Erase(v, heap, place))
  <2> HIDE DEF T
  <2> QED
    BY <1>2, EraseKeeps
<1>7. Holds(heap', T \ {t})
  BY <1>6 DEF v
<1>8. HeapType'
  BY <1>4, <1>7 DEF HeapType
<1>9. ASSUME InOrder(Values, heap), ~Disturbs(Values, heap, place)
      PROVE  InOrder(Values, heap)'
  <2> DEFINE w == Values'
             h == heap'
  <2>1. w = [u \in T \ {t} |-> timers'[u].value] /\ v = [u \in T |-> timers[u].value]
    BY <1>4 DEF Values, Value, v
  <2>2. \A u \in T \ {t} : v[u] = w[u]
    BY <1>4, <2>1
  <2>3. InOrder(v, h)
    BY <1>6, <1>9 DEF v
  <2>4. Holds(h, T \ {t})
    BY <1>7
  <2> HIDE DEF w, h
  <2>5. InOrder(w, h)
    <3> DEFINE S == T \ {t}
    <3>1. Holds(h, S) /\ \A u \in S : v[u] = w[u]
      BY <2>2, <2>4
    <3> HIDE DEF S
    <3> QED
      BY <2>3, <3>1, SameOrder
  <2> QED
    BY <2>5 DEF w, h
<1> QED
  BY <1>3, <1>4, <1>5, <1>8, <1>9

\* A timer is stopped.
LEMMA StopInv ==
  ASSUME Inv, NEW t \in Ids, Stop(t)
  PROVE  Inv' /\ Abstract!Next
<1>1. TimersType /\ HeapType /\ LoopType /\ HeapOrder
  BY DEF Inv
<1>2. PICK place \in DOMAIN heap :
        /\ heap[place] = t /\ heap' = Erase(Values, heap, place)
        /\ loose' = (loose \/ Disturbs(Values, heap, place))
  BY DEF Stop
<1>3. /\ timers' = Abstract!Without(timers, heap[place]) /\ stopped < MaxStops
      /\ stopped' = stopped + 1 /\ t \in DOMAIN timers /\ InApplication
      /\ UNCHANGED <<clock, started, loopVars>>
  BY <1>2 DEF Stop
<1>4. /\ DOMAIN timers' \subseteq DOMAIN timers
      /\ timers' \in [DOMAIN timers' -> [value : Nat, timeout : Nat, times : Int]]
      /\ HeapType'
      /\ InOrder(Values, heap) /\ ~Disturbs(Values, heap, place) =>
           InOrder(Values, heap)'
  BY <1>2, <1>3, WithoutTimer
<1>5. TimersType'
  BY <1>1, <1>3, <1>4 DEF TimersType
<1>6. loose \in BOOLEAN /\ loose' \in BOOLEAN
  BY <1>1, <1>2 DEF LoopType
<1>7. LoopType'
  BY <1>1, <1>3, <1>6, Constants DEF LoopType, loopVars
<1>8. HeapOrder'
  BY <1>1, <1>2, <1>4 DEF HeapOrder
<1>9. SleepsUntilDue'
  BY <1>3 DEF SleepsUntilDue, InApplication, loopVars
<1>10. loose' \in {loose, TRUE}
  BY <1>2, <1>6
<1>11. Abstract!Stop(t)
  BY <1>2, <1>3, <1>10 DEF Abstract!Stop, loopVars
<1> QED
  BY <1>4, <1>5, <1>7, <1>8, <1>9, <1>11 DEF Inv, Abstract!Next

\* A timer that is called goes again.
LEMMA AgainInv ==
  ASSUME Inv, pc = "check", FirstIsDue, NEW t, t = heap[1], GoAgain(t),
         UNCHANGED <<clock, now, timeout, started, stopped, loose>>
  PROVE  /\ TimersType' /\ HeapType' /\ HeapOrder'
         /\ timers' = Abstract!With(timers, t, Abstract!Again(timers[t]))
<1> DEFINE T == DOMAIN timers
           R == T \ {t}
           x == Abstract!Again(timers[t])
           e == Erase(Values, heap, 1)
           v == [u \in DOMAIN timers' |-> timers'[u].value]
           k == 1
<1>1. TimersType /\ HeapType /\ LoopType /\ HeapOrder /\ Ms \in Nat
  BY Constants DEF Inv
<1>2. Holds(heap, T) /\ T \in SUBSET Ids /\ Values \in [T -> Nat]
  BY <1>1, ValuesType DEF HeapType
<1>3. k \in DOMAIN heap /\ t \in T
  <2>1. /\ heap # <<>> /\ heap \in Seq(T) /\ Len(heap) \in Nat
        /\ DOMAIN heap = 1..Len(heap)
    BY <1>2, HoldsPlaces DEF FirstIsDue
  <2>2. 1 \in DOMAIN heap
    BY <2>1
  <2> QED
    BY <2>1, <2>2
<1>4. x \in [value : Nat, timeout : Nat, times : Int]
  <2> DEFINE y == timers[t]
  <2>1. y \in [value : Nat, timeout : Nat, times : Int]
    BY <1>1, <1>3 DEF TimersType
  <2>2. x = [y EXCEPT !.value = @ + y.timeout * Ms,
                      !.times = IF @ > 0 THEN @ - 1 ELSE @]
    BY DEF Abstract!Again
  <2> HIDE DEF y, x
  <2>3. y.value + y.timeout * Ms \in Nat /\ y.times - 1 \in Int /\ y.times \in Int
    BY <1>1, <2>1
  <2> QED
    BY <2>1, <2>2, <2>3
<1> HIDE DEF x
<1>5. timers' = [timers EXCEPT ![t] = x] /\ heap' = Insert(v, e, t)
  BY DEF GoAgain, x
<1>6. /\ DOMAIN timers' = T /\ timers'[t] = x /\ \A u \in R : timers'[u] = timers[u]
      /\ timers' = [u \in T |-> IF u = t THEN x ELSE timers[u]]
  BY <1>1, <1>3, <1>5 DEF TimersType
<1>7. timers' = Abstract!With(timers, t, x)
  <2>1. T \cup {t} = T
    BY <1>3
  <2> QED
    BY <1>6, <2>1 DEF Abstract!With
<1>8. \A u \in T : timers'[u] \in [value : Nat, timeout : Nat, times : Int]
  <2>1. \A u \in T : timers[u] \in [value : Nat, timeout : Nat, times : Int]
    BY <1>1 DEF TimersType
  <2>2. \A u \in T : u = t \/ u \in R
    OBVIOUS
  <2> QED
    BY <1>4, <1>6, <2>1, <2>2
<1>9. TimersType'
  <2>1. timers' \in [DOMAIN timers' -> [value : Nat, timeout : Nat, times : Int]]
    BY <1>6, <1>8
  <2> QED
    BY <1>1, <1>6, <2>1 DEF TimersType
<1>10. v \in [T -> Nat] /\ v = Values' /\ \A u \in R : Values[u] = v[u]
  <2>1. \A u \in T : timers'[u].value \in Nat
    BY <1>8
  <2>2. v = Values'
    BY DEF Values, Value
  <2> QED
    BY <1>6, <2>1, <2>2 DEF Values, Value
<1> HIDE DEF v
<1>11. /\ Holds(e, R)
       /\ InOrder(Values, heap) => InOrder(Values, e)
  <2> DEFINE w == Values
  <2>1. Holds(heap, T) /\ T \in SUBSET Ids /\ w \in [T -> Nat] /\ k \in DOMAIN heap
    BY <1>2, <1>3
  <2> HIDE DEF T, w, k
  <2>2. /\ Holds(Erase(w, heap, k), T \ {heap[k]})
        /\ InOrder(w, heap) /\ ~Disturbs(w, heap, k) => InOrder(w, Erase(w, heap, k))
    BY <2>1, EraseKeeps
  <2>3. ~Disturbs(w, heap, k)
    BY DEF Disturbs, k
  <2> QED
    BY <2>2, <2>3 DEF T, w, k
<1> HIDE DEF e
<1>12. InOrder(Values, e) => InOrder(v, e)
  <2> DEFINE w == Values
  <2>1. \A u \in R : w[u] = v[u]
    BY <1>10
  <2> HIDE DEF w, R
  <2> QED
    BY <1>11, <2>1, SameOrder DEF w
<1>13. /\ Holds(Insert(v, e, t), T)
       /\ InOrder(v, e) => InOrder(v, Insert(v, e, t))
  <2>1. R \in SUBSET Ids /\ t \in Ids /\ t \notin R /\ R \cup {t} = T
    BY <1>2, <1>3
  <2>2. v \in [R \cup {t} -> Nat]
    BY <1>10, <2>1
  <2> HIDE DEF R, T
  <2>3. /\ Holds(Insert(v, e, t), R \cup {t})
        /\ InOrder(v, e) => InOrder(v, Insert(v, e, t))
    BY <1>11, <2>1, <2>2, InsertKeeps
  <2> QED
    BY <2>1, <2>3
<1>14. HeapType'
  BY <1>5, <1>6, <1>13 DEF HeapType
<1>15. HeapOrder'
  <2>1. loose \/ InOrder(v, heap')
    BY <1>1, <1>5, <1>11, <1>12, <1>13 DEF HeapOrder
  <2> QED
    BY <1>10, <2>1 DEF HeapOrder
<1> QED
  BY <1>7, <1>9, <1>14, <1>15 DEF x

\* A timer is called.
LEMMA ExpireInv ==
  ASSUME Inv, Expire
  PROVE  Inv' /\ Abstract!Next
<1> DEFINE T == DOMAIN timers
           t == heap[1]
<1>1. TimersType /\ HeapType /\ LoopType /\ HeapOrder
  BY DEF Inv
<1>2. /\ Holds(heap, T) /\ T \in SUBSET Ids /\ Values \in [T -> Nat]
      /\ \A u \in T : Value(u) \in Nat /\ Value(u) = timers[u].value
                      /\ Values[u] = timers[u].value
  BY <1>1, ValuesType DEF HeapType
<1>3. /\ pc = "check" /\ FirstIsDue /\ pc' = "call" /\ calling' = t
      /\ UNCHANGED <<clock, now, timeout, started, stopped, loose>>
  BY DEF Expire
<1>4. 1 \in DOMAIN heap /\ t \in T
  <2>1. /\ heap # <<>> /\ heap \in Seq(T) /\ Len(heap) \in Nat
        /\ DOMAIN heap = 1..Len(heap)
    BY <1>2, <1>3, HoldsPlaces DEF FirstIsDue
  <2>2. 1 \in DOMAIN heap
    BY <2>1
  <2> QED
    BY <2>1, <2>2
<1>5. /\ TimersType' /\ HeapType' /\ HeapOrder'
      /\ timers' = IF timers[t].times = 1 THEN Abstract!Without(timers, t)
                   ELSE Abstract!With(timers, t, Abstract!Again(timers[t]))
  <2>1. CASE timers[t].times = 1
    <3> DEFINE k == 1
    <3>1. timers' = Abstract!Without(timers, t) /\ heap' = Erase(Values, heap, 1)
      BY <2>1 DEF Expire
    <3>2. /\ DOMAIN timers' \subseteq DOMAIN timers
          /\ timers' \in [DOMAIN timers' -> [value : Nat, timeout : Nat, times : Int]]
          /\ HeapType'
          /\ InOrder(Values, heap) => InOrder(Values, heap)'
      <4>1. /\ k \in DOMAIN heap /\ heap' = Erase(Values, heap, k)
            /\ timers' = Abstract!Without(timers, heap[k])
        BY <1>4, <3>1
      <4>2. ~Disturbs(Values, heap, k)
        BY DEF Disturbs
      <4> HIDE DEF k
      <4> QED
        BY <4>1, <4>2, WithoutTimer
    <3>3. TimersType'
      BY <1>1, <1>3, <3>2 DEF TimersType
    <3>4. HeapOrder'
      BY <1>1, <1>3, <3>2 DEF HeapOrder
    <3> QED
      BY <2>1, <3>1, <3>2, <3>3, <3>4
  <2>2. CASE timers[t].times # 1
    <3>1. GoAgain(t)
      BY <2>2 DEF Expire
    <3>2. /\ TimersType' /\ HeapType' /\ HeapOrder'
          /\ timers' = Abstract!With(timers, t, Abstract!Again(timers[t]))
      BY <1>3, <3>1, AgainInv
    <3> QED
      BY <2>2, <3>2
  <2> QED
    BY <2>1, <2>2
<1>6. T \subseteq 1..started /\ started \in Nat
  BY <1>1, Constants DEF TimersType, LoopType
<1>7. calling' \in 0..started' /\ calling' # 0
  BY <1>3, <1>4, <1>6
<1>8. LoopType'
  BY <1>1, <1>3, <1>7 DEF LoopType
<1>9. SleepsUntilDue'
  BY <1>3 DEF SleepsUntilDue
<1>10. Abstract!Call(t)
  <2>1. calling = 0
    BY <1>1, <1>3 DEF LoopType
  <2>2. Abstract!Due(t)
    <3> DEFINE d == Value(t) \div Ms
               m == now \div Ms
               c == clock \div Ms
    <3>1. d <= m
      BY <1>3 DEF FirstIsDue
    <3>2. now \in Nat /\ clock \in Nat /\ now <= clock /\ Ms \in Nat \ {0} /\ Value(t) \in Nat
      BY <1>1, <1>2, <1>4, Constants DEF LoopType
    <3>3. m \in Nat /\ m <= c /\ c \in Nat /\ d \in Nat
      BY <3>2, MillisecondsGrow
    <3> HIDE DEF d, m, c
    <3>4. d <= c
      BY <3>1, <3>3
    <3>5. timers[t].value = Value(t)
      BY <1>2, <1>4
    <3> QED
      BY <3>4, <3>5 DEF d, c, Abstract!Due
  <2>3. loose \/ \A u \in T : timers[t].value <= timers[u].value
    <3> SUFFICES ASSUME ~loose, NEW u \in T PROVE timers[t].value <= timers[u].value
      OBVIOUS
    <3> DEFINE v == Values
    <3>1. InOrder(v, heap) /\ Holds(heap, T) /\ v \in [T -> Nat]
      BY <1>1, <1>2 DEF HeapOrder
    <3> HIDE DEF v
    <3>2. v[heap[1]] <= v[u]
      <4> HIDE DEF T
      <4> QED
        BY <3>1, FirstOfOrder
    <3> QED
      BY <1>2, <1>4, <3>2 DEF v
  <2> QED
    BY <1>3, <1>4, <1>5, <2>1, <2>2, <2>3 DEF Abstract!Call
<1>11. t \in Ids
  BY <1>2, <1>4
<1>12. Abstract!Next
  <2> HIDE DEF t
  <2> QED
    BY <1>10, <1>11 DEF Abstract!Next
<1> QED
  BY <1>5, <1>8, <1>9, <1>12 DEF Inv

\* The timeout is the milliseconds to the first timer.
LEMMA NextTimeoutWhole ==
  ASSUME Inv
  PROVE  /\ NextTimeout \in Nat
         /\ heap # <<>> /\ clock <= Value(heap[1]) =>
              (clock \div Ms) + NextTimeout = Value(heap[1]) \div Ms
         /\ heap # <<>> /\ Value(heap[1]) < clock => NextTimeout = 0
<1>1. TimersType /\ HeapType /\ LoopType
  BY DEF Inv
<1>2. clock \in Nat /\ Ms \in Nat \ {0}
  BY <1>1, Constants DEF LoopType
<1>3. heap # <<>> => Value(heap[1]) \in Nat
  <2> SUFFICES ASSUME heap # <<>> PROVE Value(heap[1]) \in Nat
    OBVIOUS
  <2>1. Holds(heap, DOMAIN timers)
    BY <1>1 DEF HeapType
  <2>2. /\ heap \in Seq(DOMAIN timers) /\ Len(heap) \in Nat
        /\ heap \in [1..Len(heap) -> DOMAIN timers]
    BY <2>1, HoldsPlaces
  <2>3. 1 \in 1..Len(heap)
    BY <2>2
  <2>4. heap[1] \in DOMAIN timers
    BY <2>2, <2>3
  <2> QED
    BY <1>1, <2>4, ValuesType
<1> DEFINE x == Value(heap[1])
           d == x \div Ms
           c == clock \div Ms
<1>4. NextTimeout = IF heap = <<>> \/ x < clock THEN 0 ELSE d - c
  BY DEF NextTimeout
<1>5. heap # <<>> /\ clock <= x => c \in Nat /\ d \in Int /\ c <= d
  <2> SUFFICES ASSUME heap # <<>>, clock <= x PROVE c \in Nat /\ d \in Int /\ c <= d
    OBVIOUS
  <2>1. x \in Nat
    BY <1>3
  <2> HIDE DEF x
  <2>2. x <= x
    BY <2>1
  <2>3. d \in Nat /\ c \in Nat /\ c <= d
    BY <1>2, <2>1, <2>2, MillisecondsGrow
  <2> QED
    BY <2>3
<1> HIDE DEF x, c, d
<1>6. heap # <<>> => x \in Nat
  BY <1>3 DEF x
<1>7. NextTimeout \in Nat
  BY <1>2, <1>4, <1>5, <1>6
<1>8. heap # <<>> /\ clock <= x => c + NextTimeout = d
  BY <1>2, <1>4, <1>5, <1>6
<1>9. heap # <<>> /\ x < clock => NextTimeout = 0
  BY <1>4
<1> QED
  BY <1>7, <1>8, <1>9 DEF x, c, d

\* The loop goes to sleep.
LEMMA PollInv ==
  ASSUME Inv, Poll
  PROVE  Inv'
<1>1. TimersType /\ HeapType /\ LoopType /\ HeapOrder
  BY DEF Inv
<1>2. /\ pc \in {"setup", "poll"} /\ pc' = "sleep" /\ now' = clock
      /\ timeout' = IF NextTimeout < MaxSleep THEN NextTimeout ELSE MaxSleep
      /\ UNCHANGED <<clock, calling, heapVars>>
  BY DEF Poll
<1>3. NextTimeout \in Nat
  BY NextTimeoutWhole
<1>4. timeout' \in 0..MaxSleep /\ timeout' <= NextTimeout
  BY <1>2, <1>3, Constants
<1>5. LoopType'
  BY <1>1, <1>2, <1>4, Constants DEF LoopType, heapVars
<1>6. TimersType' /\ HeapType' /\ HeapOrder'
  BY <1>1, <1>2 DEF TimersType, HeapType, HeapOrder, heapVars, Values, Value
<1>7. ASSUME ~loose', NEW t \in DOMAIN timers'
      PROVE  WakeAt' \div Ms <= Abstract!Upper(now, Value(t))' \div Ms
  <2> DEFINE v == Value(t)
             x == Value(heap[1])
             z == Abstract!Upper(clock, v)
  <2>1. timers' = timers /\ loose' = loose /\ t \in DOMAIN timers
    BY <1>2, <1>7 DEF heapVars
  <2>2. clock \in Nat /\ Ms \in Nat \ {0} /\ timeout' \in Nat
    BY <1>1, <1>4, Constants DEF LoopType
  <2>3. v \in Nat
    BY <1>1, <2>1, ValuesType
  <2>4. heap # <<>> /\ x \in Nat /\ x <= v
    <3> DEFINE u == Values
               T == DOMAIN timers
    <3>1. InOrder(u, heap) /\ Holds(heap, T) /\ u \in [T -> Nat] /\ t \in T
      BY <1>1, <1>7, <2>1, ValuesType DEF HeapOrder, HeapType
    <3> HIDE DEF u, T
    <3>2. heap # <<>> /\ heap[1] \in T /\ u[heap[1]] <= u[t]
      BY <3>1, FirstOfOrder
    <3>3. u[heap[1]] = x /\ u[t] = v /\ x \in Nat
      BY <1>1, <2>1, <3>2, ValuesType DEF u, T
    <3> QED
      BY <3>2, <3>3
  <2>5. z \in Nat /\ clock <= z /\ v <= z
    <3> HIDE DEF v
    <3> QED
      BY <2>2, <2>3 DEF Abstract!Upper
  <2>6. WakeAt' \div Ms = (clock \div Ms) + timeout'
    <3> DEFINE k == timeout'
    <3>1. WakeAt' = clock + Ms * k
      BY <1>2 DEF WakeAt
    <3>2. k \in Nat
      BY <2>2
    <3> HIDE DEF k
    <3>3. (clock + Ms * k) \div Ms = (clock \div Ms) + k
      BY <2>2, <3>2, MillisecondsAfter
    <3> QED
      BY <3>1, <3>3 DEF k
  <2> HIDE DEF v, z, x
  <2>7. (clock \div Ms) + timeout' <= z \div Ms
    <3> DEFINE c == clock \div Ms
               d == x \div Ms
               e == z \div Ms
               k == timeout'
               y == NextTimeout
    <3>1. c \in Nat /\ c <= e
      BY <2>2, <2>5, MillisecondsGrow
    <3>2. x <= z
      BY <2>3, <2>4, <2>5
    <3>3. d \in Nat /\ d <= e
      BY <2>2, <2>4, <2>5, <3>2, MillisecondsGrow
    <3>4. e \in Nat
      <4>1. z <= z
        BY <2>5
      <4> QED
        BY <2>2, <2>5, <4>1, MillisecondsGrow
    <3>5. k \in Nat /\ k <= y /\ y \in Nat
      BY <1>3, <1>4, <2>2
    <3>6. clock <= x => c + y = d
      BY <2>4, NextTimeoutWhole DEF x
    <3>7. x < clock => y = 0
      BY <2>4, NextTimeoutWhole DEF x
    <3> HIDE DEF c, d, e, k, y
    <3>8. c + k <= e
      <4>1. CASE clock <= x
        BY <3>1, <3>3, <3>4, <3>5, <3>6, <4>1
      <4>2. CASE x < clock
        BY <3>1, <3>4, <3>5, <3>7, <4>2
      <4> QED
        BY <2>2, <2>4, <4>1, <4>2
    <3> QED
      BY <3>8 DEF c, e, k
  <2>8. Abstract!Upper(now, Value(t))' = z
    BY <1>2, <2>1 DEF Abstract!Upper, Value, v, z
  <2> QED
    BY <2>6, <2>7, <2>8
<1>8. SleepsUntilDue'
  BY <1>7 DEF SleepsUntilDue
<1> QED
  BY <1>5, <1>6, <1>8 DEF Inv

\* Steps that leave the timers alone.
LEMMA LoopInv ==
  ASSUME Inv, Tick \/ Wake \/ BeginCheck \/ Return \/ EndCheck
  PROVE  Inv'
<1>1. TimersType /\ HeapType /\ LoopType /\ HeapOrder /\ SleepsUntilDue
  BY DEF Inv
<1>2. UNCHANGED heapVars
  BY DEF Tick, Wake, BeginCheck, Return, EndCheck
<1>3. TimersType' /\ HeapType' /\ HeapOrder'
  BY <1>1, <1>2 DEF TimersType, HeapType, HeapOrder, heapVars, Values, Value
<1>4. CASE Tick
  <2>1. /\ clock < MaxClock /\ clock' = clock + 1
        /\ UNCHANGED <<started, stopped, timers, loose, pc, now, timeout, calling>>
    BY <1>4 DEF Tick, heapVars, loopVars
  <2>2. clock' \in 0..MaxClock /\ now' \in 0..clock'
    BY <1>1, <2>1, Constants DEF LoopType
  <2>3. LoopType'
    BY <1>1, <2>1, <2>2 DEF LoopType
  <2>4. SleepsUntilDue'
    BY <1>1, <2>1 DEF SleepsUntilDue, WakeAt, Value, Abstract!Upper
  <2> QED
    BY <1>3, <2>3, <2>4 DEF Inv
<1>5. CASE Wake \/ BeginCheck \/ Return \/ EndCheck
  <2>1. clock' = clock /\ UNCHANGED <<started, stopped, loose>>
    BY <1>2, <1>5 DEF Wake, BeginCheck, Return, EndCheck, heapVars
  <2>2. now' \in {now, clock} /\ timeout' \in {timeout, 0} /\ calling' \in {calling, 0}
    BY <1>5 DEF Wake, BeginCheck, Return, EndCheck
  <2>3. /\ pc' # "sleep" /\ (calling' # 0 <=> pc' = "call")
        /\ pc' \in {"poll", "events", "check"}
    BY <1>1, <1>5 DEF Wake, BeginCheck, Return, EndCheck, LoopType
  <2>4. now' \in 0..clock' /\ timeout' \in 0..MaxSleep /\ calling' \in 0..started'
    BY <1>1, <2>1, <2>2, Constants DEF LoopType
  <2>5. LoopType'
    BY <1>1, <2>1, <2>3, <2>4 DEF LoopType
  <2>6. SleepsUntilDue'
    BY <2>3 DEF SleepsUntilDue
  <2> QED
    BY <1>3, <2>5, <2>6 DEF Inv
<1> QED
  BY <1>4, <1>5

\* Every step keeps the invariant, and is one of Timers or none.
LEMMA NextInv ==
  ASSUME Inv, [Next]_vars
  PROVE  Inv' /\ [Abstract!Next]_(Abstract!vars)
<1>1. CASE Tick
  BY <1>1, LoopInv DEF Tick, Abstract!Next, Abstract!Tick, heapVars, loopVars
<1>2. CASE Poll
  <2>1. UNCHANGED Abstract!vars
    BY <1>2 DEF Poll, Abstract!vars, heapVars
  <2> QED
    BY <1>2, <2>1, PollInv
<1>3. CASE BeginCheck \/ EndCheck \/ Wake
  <2>1. UNCHANGED Abstract!vars
    BY <1>3 DEF BeginCheck, EndCheck, Wake, Abstract!vars, heapVars
  <2> QED
    BY <1>3, <2>1, LoopInv
<1>4. CASE Expire
  BY <1>4, ExpireInv
<1>5. CASE Return
  <2>1. calling # 0
    BY <1>5 DEF Return, Inv, LoopType
  <2>2. Abstract!Return
    BY <1>5, <2>1 DEF Return, Abstract!Return, heapVars
  <2> QED
    BY <1>5, <2>2, LoopInv DEF Abstract!Next
<1>6. CASE \E kind \in Kinds : Start(kind)
  BY <1>6, StartInv
<1>7. CASE \E t \in Ids : Stop(t)
  BY <1>7, StopInv
<1>8. CASE UNCHANGED vars
  <2>1. /\ UNCHANGED <<clock, timers, heap, started, stopped, loose>>
        /\ UNCHANGED <<pc, now, timeout, calling>>
    BY <1>8 DEF vars, heapVars, loopVars
  <2>2. TimersType' /\ HeapType' /\ LoopType' /\ HeapOrder'
    BY <2>1 DEF Inv, TimersType, HeapType, LoopType, HeapOrder, Values, Value
  <2>3. SleepsUntilDue'
    BY <2>1 DEF Inv, SleepsUntilDue, WakeAt, Value, Abstract!Upper
  <2>4. UNCHANGED Abstract!vars
    BY <2>1 DEF Abstract!vars
  <2> QED
    BY <2>2, <2>3, <2>4 DEF Inv
<1> QED
  BY <1>1, <1>2, <1>3, <1>4, <1>5, <1>6, <1>7, <1>8 DEF Next, Work

-----------------------------------------------------------------------------
(* Theorems *)

\* The invariant holds in every state.
LEMMA Invariant == Spec => []Inv
<1>1. Inv /\ [Next]_vars => Inv'
  BY NextInv
<1> QED
  BY InitInv, <1>1, PTL DEF Spec

\* Type correctness: whatever is started, stopped and called, the heap holds each
\* timer that is set, once (minHeapInsert, minHeapErase).
THEOREM TypeCorrect == Spec => []TypeOK
<1>1. Inv => TypeOK
  BY TypesSplit DEF Inv
<1> QED
  BY <1>1, Invariant, PTL

\* The loop does not sleep past the millisecond of a timer, for as long as no stop
\* has put a timer below a later one (getNextTimeoutMillisecond).
THEOREM SleepsInTime == Spec => []SleepsUntilDue
<1>1. Inv => SleepsUntilDue
  BY DEF Inv
<1> QED
  BY <1>1, Invariant, PTL

\* In order, a heap of at most five is not disturbed by an erasure.
LEMMA FiveUndisturbed ==
  ASSUME NEW T, NEW h, Holds(h, T), NEW v \in [T -> Nat], InOrder(v, h), Len(h) <= 5,
         NEW place \in DOMAIN h
  PROVE  ~Disturbs(v, h, place)
<1> DEFINE l == Len(h)
           q == place \div 2
<1>1. l \in Nat /\ h \in Seq(T) /\ DOMAIN h = 1..l /\ \A i \in 1..l : v[h[i]] \in Nat
  BY HoldsPlaces
<1>2. \A j \in 2..l : v[h[j \div 2]] <= v[h[j]]
  <2>1. \A j \in 2..l : j \in 1..l /\ j \div 2 \in 1..l
    BY <1>1
  <2> QED
    BY <2>1 DEF InOrder, Ordered, Weights
<1> SUFFICES ASSUME place \notin {1, l} PROVE ~(v[h[l]] < v[h[q]])
  <2>1. h # <<>>
    BY <1>1
  <2>2. Last(h) = h[l]
    BY <1>1, <2>1, Dropped
  <2> QED
    BY <2>2 DEF Disturbs
<1>3. place \in 2..4 /\ l \in 3..5 /\ place < l /\ l \in 1..l /\ 1 \in 1..l /\ 2 \in 1..l
  <2>1. place \in 1..l /\ l <= 5 /\ place # 1 /\ place # l /\ l \in Nat
    BY <1>1
  <2> HIDE DEF l
  <2> QED
    BY <2>1
<1>4. v[h[q]] <= v[h[l]]
  <2>1. CASE q = 1
    <3>1. l \div 2 \in {1, 2} /\ l \in 2..l /\ 2 \in 2..l
      BY <1>3
    <3>2. v[h[1]] <= v[h[2]]
      <4>1. 2 \div 2 = 1
        OBVIOUS
      <4> QED
        BY <1>2, <3>1, <4>1
    <3>3. v[h[l \div 2]] <= v[h[l]]
      BY <1>2, <3>1
    <3> DEFINE a == v[h[1]]
               b == v[h[2]]
               c == v[h[l]]
    <3>4. a \in Nat /\ b \in Nat /\ c \in Nat
      BY <1>1, <1>3
    <3>5. a <= b /\ (a <= c \/ b <= c)
      BY <3>1, <3>2, <3>3
    <3> HIDE DEF a, b, c
    <3>6. a <= c
      BY <3>4, <3>5
    <3> QED
      BY <2>1, <3>6 DEF a, c
  <2>2. CASE q # 1
    <3>1. l = 5 /\ q = 2 /\ l \div 2 = 2 /\ l \in 2..l
      <4> HIDE DEF l
      <4> QED
        BY <1>3, <2>2
    <3> HIDE DEF q
    <3>2. v[h[l \div 2]] <= v[h[l]]
      BY <1>2, <3>1
    <3> QED
      BY <3>1, <3>2
  <2> QED
    BY <2>1, <2>2
<1>5. v[h[q]] \in Nat /\ v[h[l]] \in Nat
  <2>1. q \in 1..l
    BY <1>3
  <2> QED
    BY <1>1, <1>3, <2>1
<1> QED
  BY <1>4, <1>5

\* Of five timers or less, any may be stopped, and the order stays (minHeapErase, which
\* never moves a timer up).
THEOREM SmallHeaps == Spec => [][Len(heap) <= 5 /\ ~loose => ~loose']_vars
<1>1. Inv /\ [Next]_vars => [Len(heap) <= 5 /\ ~loose => ~loose']_vars
  <2> SUFFICES ASSUME Inv, Next, Len(heap) <= 5, loose = FALSE, loose' # FALSE PROVE FALSE
    BY DEF vars, heapVars, Inv, LoopType
  <2>1. PICK t \in Ids : Stop(t)
    BY DEF Next, Work, Tick, Poll, BeginCheck, Expire, Return, EndCheck, Wake, Start, heapVars
  <2>2. PICK place \in DOMAIN heap : loose' = (loose \/ Disturbs(Values, heap, place))
    BY <2>1 DEF Stop
  <2> DEFINE T == DOMAIN timers
             v == Values
  <2>3. Holds(heap, T) /\ v \in [T -> Nat] /\ InOrder(v, heap)
    BY ValuesType DEF Inv, HeapType, HeapOrder
  <2> HIDE DEF T, v
  <2>4. ~Disturbs(v, heap, place)
    BY <2>3, FiveUndisturbed
  <2> QED
    BY <2>2, <2>4 DEF v
<1> QED
  BY <1>1, Invariant, PTL DEF Spec

\* The loop and its heap implement Timers: no timer is called before its
\* millisecond, the earliest is called first, and each as often as it was asked
\* for (checkTimeout).
THEOREM Implements == Spec => ImplementsTimers
<1>1. Init => Abstract!Init
  BY DEF Init, Abstract!Init
<1>2. Inv /\ [Next]_vars => [Abstract!Next]_(Abstract!vars)
  BY NextInv
<1> QED
  BY <1>1, <1>2, Invariant, PTL DEF Spec, ImplementsTimers, Abstract!Spec
=============================================================================
