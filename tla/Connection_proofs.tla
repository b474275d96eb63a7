-------------------------- MODULE Connection_proofs --------------------------
(***************************************************************************)
(* Theorems about Connection, for any packets, replies and sizes.          *)
(*                                                                         *)
(* The lemmas go from the bytes up: what a reader gives back of what was   *)
(* written (ReadsIntV, ReadsString, ReadsLogin), and that it fails on a    *)
(* beginning of it; that a buffer has room for what it was grown for, also *)
(* when its size wraps (BufferWritten); and that recvMessage takes from a  *)
(* buffer that holds the beginning of a stream of packets the first one    *)
(* whole, or nothing (Framing, PacketTaken).                               *)
(*                                                                         *)
(* The invariant Inv joins the types, what is told (ToldInv), what is read *)
(* (ReadInv) and what is sent (OutboundInOrder): the types of the messages *)
(* that are told rest on ReadInv, as they are those of the clients.        *)
(***************************************************************************)
EXTENDS Connection, SequenceLemmas

\* The rest of a sequence behind a part of it,
LEMMA DropConcat ==
  ASSUME NEW S, NEW s \in Seq(S), NEW t \in Seq(S)
  PROVE  /\ SubSeq(s \o t, 1, Len(s)) = s
         /\ SubSeq(s \o t, Len(s) + 1, Len(s \o t)) = t
<1> DEFINE u == s \o t
           a == Len(s)
           b == Len(t)
<1>1. /\ u \in Seq(S) /\ a \in Nat /\ b \in Nat /\ Len(u) = a + b
      /\ \A i \in 1..(a + b) : u[i] = IF i <= a THEN s[i] ELSE t[i - a]
  BY ConcatProperties, LenProperties
<1>2. \A i \in 1..(a + b) : u[i] \in S
  BY <1>1
<1>3. SubSeq(u, 1, a) = s
  <2> DEFINE v == SubSeq(u, 1, a)
  <2>1. v \in Seq(S) /\ Len(v) = a /\ \A i \in 1..a : v[i] = u[i]
    <3>1. /\ v \in Seq(S) /\ Len(v) = IF 1 <= a THEN a - 1 + 1 ELSE 0
          /\ \A i \in 1..(a - 1 + 1) : v[i] = u[1 + i - 1]
      <4>1. \A i \in 1..a : u[i] \in S
        BY <1>1, <1>2
      <4> QED
        BY <4>1, <1>1, SubSeqProperties
    <3>2. a - 1 + 1 = a /\ \A i \in 1..a : 1 + i - 1 = i
      BY <1>1
    <3> QED
      BY <1>1, <3>1, <3>2
  <2>2. \A i \in 1..a : u[i] = s[i]
    BY <1>1
  <2> HIDE DEF v, u
  <2> QED
    BY <2>1, <2>2, SeqEqual, SMTT(60)
<1>4. SubSeq(u, a + 1, a + b) = t
  <2> DEFINE v == SubSeq(u, a + 1, a + b)
  <2>1. v \in Seq(S) /\ Len(v) = b /\ \A i \in 1..b : v[i] = u[a + i]
    <3>1. /\ v \in Seq(S)
          /\ Len(v) = IF a + 1 <= a + b THEN (a + b) - (a + 1) + 1 ELSE 0
          /\ \A i \in 1..((a + b) - (a + 1) + 1) : v[i] = u[(a + 1) + i - 1]
      <4>1. \A i \in (a + 1)..(a + b) : u[i] \in S
        BY <1>1, <1>2
      <4> QED
        BY <4>1, <1>1, SubSeqProperties
    <3>2. (a + b) - (a + 1) + 1 = b /\ \A i \in 1..b : (a + 1) + i - 1 = a + i
      BY <1>1
    <3> QED
      BY <1>1, <3>1, <3>2
  <2>2. \A i \in 1..b : u[a + i] = t[i]
    <3>1. ASSUME NEW i \in 1..b PROVE u[a + i] = t[i]
      <4>1. a + i \in 1..(a + b) /\ ~(a + i <= a) /\ (a + i) - a = i
        BY <1>1
      <4> QED
        BY <1>1, <4>1
    <3> QED
      BY <3>1
  <2> HIDE DEF v, u
  <2> QED
    BY <2>1, <2>2, SeqEqual DEF v
<1> QED
  BY <1>1, <1>3, <1>4

\* and a sequence cut in two.
LEMMA CutInTwo ==
  ASSUME NEW S, NEW s \in Seq(S), NEW n \in 0..Len(s)
  PROVE  /\ SubSeq(s, 1, n) \in Seq(S) /\ Len(SubSeq(s, 1, n)) = n
         /\ SubSeq(s, n + 1, Len(s)) \in Seq(S)
         /\ Len(SubSeq(s, n + 1, Len(s))) = Len(s) - n
         /\ \A i \in 1..n : SubSeq(s, 1, n)[i] = s[i]
         /\ \A i \in 1..(Len(s) - n) : SubSeq(s, n + 1, Len(s))[i] = s[n + i]
         /\ s = SubSeq(s, 1, n) \o SubSeq(s, n + 1, Len(s))
<1>1. Len(s) \in Nat /\ n \in Nat /\ n <= Len(s) /\ \A i \in 1..Len(s) : s[i] \in S
  BY LenProperties
<1>2. /\ SubSeq(s, 1, n) \in Seq(S) /\ Len(SubSeq(s, 1, n)) = n
      /\ \A i \in 1..n : SubSeq(s, 1, n)[i] = s[i]
  <2>1. \A i \in 1..n : s[i] \in S
    BY <1>1
  <2>2. /\ SubSeq(s, 1, n) \in Seq(S)
        /\ Len(SubSeq(s, 1, n)) = IF 1 <= n THEN n - 1 + 1 ELSE 0
        /\ \A i \in 1..(n - 1 + 1) : SubSeq(s, 1, n)[i] = s[1 + i - 1]
    BY <2>1, <1>1, SubSeqProperties
  <2>3. n - 1 + 1 = n /\ \A i \in 1..n : 1 + i - 1 = i
    BY <1>1
  <2> QED
    BY <1>1, <2>2, <2>3
<1>3. /\ SubSeq(s, n + 1, Len(s)) \in Seq(S)
      /\ Len(SubSeq(s, n + 1, Len(s))) = Len(s) - n
      /\ \A i \in 1..(Len(s) - n) : SubSeq(s, n + 1, Len(s))[i] = s[n + i]
  <2> DEFINE e == Len(s)
  <2>1. \A i \in (n + 1)..e : s[i] \in S
    BY <1>1
  <2>2. /\ SubSeq(s, n + 1, e) \in Seq(S)
        /\ Len(SubSeq(s, n + 1, e)) = IF n + 1 <= e THEN e - (n + 1) + 1 ELSE 0
        /\ \A i \in 1..(e - (n + 1) + 1) : SubSeq(s, n + 1, e)[i] = s[(n + 1) + i - 1]
    BY <2>1, <1>1, SubSeqProperties
  <2>3. e - (n + 1) + 1 = e - n /\ \A i \in 1..(e - n) : (n + 1) + i - 1 = n + i
    BY <1>1
  <2>4. (IF n + 1 <= e THEN e - n ELSE 0) = e - n
    BY <1>1
  <2> HIDE DEF e
  <2>5. Len(SubSeq(s, n + 1, e)) = e - n
    BY <2>2, <2>3, <2>4
  <2> QED
    BY <2>2, <2>3, <2>5 DEF e
<1>4. s = SubSeq(s, 1, n) \o SubSeq(s, n + 1, Len(s))
  <2>1. 1 \in 1..(Len(s) + 1) /\ n \in (1 - 1)..Len(s) /\ Len(s) \in n..Len(s)
    BY <1>1
  <2>2. SubSeq(s, 1, n) \o SubSeq(s, n + 1, Len(s)) = SubSeq(s, 1, Len(s))
    BY <2>1, ConcatAdjacentSubSeq
  <2> QED
    BY <2>2, SubSeqFull
<1> QED
  BY <1>2, <1>3, <1>4

\* The beginning of two sequences ends in the first or in the second.
LEMMA CutConcat ==
  ASSUME NEW S, NEW s \in Seq(S), NEW t \in Seq(S), NEW n \in 0..Len(s \o t)
  PROVE  /\ n <= Len(s) => SubSeq(s \o t, 1, n) = SubSeq(s, 1, n)
         /\ n >= Len(s) => SubSeq(s \o t, 1, n) = s \o SubSeq(t, 1, n - Len(s))
<1> DEFINE u == s \o t
           a == Len(s)
           b == Len(t)
           v == SubSeq(u, 1, n)
<1>1. /\ u \in Seq(S) /\ a \in Nat /\ b \in Nat /\ Len(u) = a + b
      /\ \A i \in 1..(a + b) : u[i] = IF i <= a THEN s[i] ELSE t[i - a]
  BY ConcatProperties, LenProperties
<1>2. n \in Nat /\ n <= a + b
  BY <1>1
<1>3. v \in Seq(S) /\ Len(v) = n /\ \A i \in 1..n : v[i] = u[i]
  BY <1>1, CutInTwo
<1>4. ASSUME n <= a PROVE v = SubSeq(s, 1, n)
  <2>1. n \in 0..Len(s)
    BY <1>1, <1>2, <1>4
  <2>2. /\ SubSeq(s, 1, n) \in Seq(S) /\ Len(SubSeq(s, 1, n)) = n
        /\ \A i \in 1..n : SubSeq(s, 1, n)[i] = s[i]
    BY <2>1, CutInTwo
  <2>3. \A i \in 1..n : u[i] = s[i]
    BY <1>1, <1>2, <1>4
  <2> HIDE DEF u, v
  <2> QED
    BY <1>3, <2>2, <2>3, SeqEqual
<1>5. ASSUME n >= a PROVE v = s \o SubSeq(t, 1, n - a)
  <2> DEFINE w == SubSeq(t, 1, n - a)
  <2>1. n - a \in 0..Len(t)
    BY <1>1, <1>2, <1>5
  <2>2. w \in Seq(S) /\ Len(w) = n - a /\ \A i \in 1..(n - a) : w[i] = t[i]
    BY <2>1, CutInTwo
  <2> HIDE DEF w
  <2>3. /\ s \o w \in Seq(S) /\ Len(s \o w) = a + (n - a)
        /\ \A i \in 1..(a + (n - a)) : (s \o w)[i] = IF i <= a THEN s[i] ELSE w[i - a]
    BY <2>2, ConcatProperties
  <2>4. a + (n - a) = n
    BY <1>1, <1>2
  <2>5. \A i \in 1..n : v[i] = (s \o w)[i]
    <3>1. ASSUME NEW i \in 1..n PROVE v[i] = (s \o w)[i]
      <4>1. i \in 1..(a + b) /\ (~(i <= a) => i - a \in 1..(n - a))
        BY <1>1, <1>2
      <4>2. v[i] = IF i <= a THEN s[i] ELSE t[i - a]
        BY <1>1, <1>3, <4>1
      <4>3. (s \o w)[i] = IF i <= a THEN s[i] ELSE w[i - a]
        BY <2>3, <2>4
      <4> QED
        BY <4>1, <4>2, <4>3, <2>2
    <3> QED
      BY <3>1
  <2> HIDE DEF u, v
  <2> QED
    BY <1>3, <2>3, <2>4, <2>5, SeqEqual DEF w
<1> QED
  BY <1>1, <1>4, <1>5

-----------------------------------------------------------------------------
(* The codec: a reader that is given an encoded value and more returns the *)
(* value and leaves the rest, and fails on a value that is cut.            *)

Reads(R, e, v) ==
  \A r \in Stream : R[e \o r] = [ok |-> TRUE, val |-> v, rest |-> r]

FailsCut(R, e) == \A n \in 0..(Len(e) - 1) : R[SubSeq(e, 1, n)].ok = FALSE

High(v) == v \div 65536

\* Numbers of the code are natural numbers,
LEMMA IntsAreNat == Shorts \subseteq Nat /\ Ints \subseteq Nat /\ Byte \subseteq Shorts
BY SMTT(30) DEF Shorts, Ints, Byte

\* which are encoded as bytes.
LEMMA IntBytes ==
  ASSUME NEW v \in Nat
  PROVE  /\ Int8(v) \in Stream /\ Len(Int8(v)) = 1 /\ Int8(v)[1] = v % 256
         /\ Int16(v) \in Stream /\ Len(Int16(v)) = 2
         /\ Int16(v)[1] = (v \div 256) % 256 /\ Int16(v)[2] = v % 256
         /\ Int32(v) = Int16(High(v)) \o Int16(v) /\ High(v) \in Nat
         /\ Int32(v) \in Stream /\ Len(Int32(v)) = 4
<1>1. High(v) \in Nat
  BY SMTT(30) DEF High
<1>2. Int32(v) = Int16(High(v)) \o Int16(v)
  BY SMTT(30) DEF Int32, High
<1>3. ASSUME NEW w \in Nat
      PROVE  /\ Int8(w) \in Stream /\ Len(Int8(w)) = 1 /\ Int8(w)[1] = w % 256
             /\ Int16(w) \in Stream /\ Len(Int16(w)) = 2
             /\ Int16(w)[1] = (w \div 256) % 256 /\ Int16(w)[2] = w % 256
  <2>1. w % 256 \in Byte /\ (w \div 256) % 256 \in Byte
    BY SMTT(30) DEF Byte
  <2> QED
    BY SMTT(30), <2>1 DEF Int8, Int16, Stream
<1>4. Int32(v) \in Stream /\ Len(Int32(v)) = 4
  <2>1. /\ Int16(v) \in Seq(Byte) /\ Len(Int16(v)) = 2
        /\ Int16(High(v)) \in Seq(Byte) /\ Len(Int16(High(v))) = 2
    BY <1>1, <1>3 DEF Stream
  <2> DEFINE a == Int16(High(v))
             b == Int16(v)
  <2> HIDE DEF a, b
  <2>2. a \o b \in Seq(Byte) /\ Len(a \o b) = Len(a) + Len(b)
    BY <2>1, ConcatProperties DEF a, b
  <2>3. Len(a) + Len(b) = 4
    BY <2>1 DEF a, b
  <2> QED
    BY <1>2, <2>2, <2>3 DEF a, b, Stream
<1> QED
  BY <1>1, <1>2, <1>3, <1>4

\* The bytes of an integer give it back.
LEMMA BigEndian ==
  /\ \A v \in Byte : v % 256 = v
  /\ \A v \in Shorts : ((v \div 256) % 256) * 256 + (v % 256) = v
  /\ \A v \in Ints :
       ((((High(v) \div 256) % 256) * 256 + (High(v) % 256)) * 256
          + ((v \div 256) % 256)) * 256 + (v % 256) = v
<1>1. \A v \in Byte : v % 256 = v
  BY SMTT(30) DEF Byte
<1>2. \A v \in Shorts : ((v \div 256) % 256) * 256 + (v % 256) = v
  BY SMTT(30) DEF Shorts
<1>3. ASSUME NEW v \in Ints
      PROVE  ((((High(v) \div 256) % 256) * 256 + (High(v) % 256)) * 256
                + ((v \div 256) % 256)) * 256 + (v % 256) = v
  <2> DEFINE h == High(v)
             m == v \div 256
  <2>1. h \in Shorts /\ h \in Nat /\ m \in Nat /\ v \in Nat
    BY SMTT(30) DEF Shorts, Ints, High
  <2>2. ((h \div 256) % 256) * 256 + (h % 256) = h
    BY <1>2, <2>1
  <2>3. h * 256 + (m % 256) = m
    BY SMTT(30) DEF High, Ints
  <2>4. m * 256 + (v % 256) = v
    BY SMTT(30), <2>1
  <2> HIDE DEF h, m
  <2>5. (h * 256 + (m % 256)) * 256 + (v % 256) = v
    BY <2>3, <2>4
  <2>6. (((h \div 256) % 256) * 256 + (h % 256)) * 256 + (m % 256) = h * 256 + (m % 256)
    BY <2>2
  <2> QED
    BY <2>5, <2>6 DEF h, m
<1> QED
  BY <1>1, <1>2, <1>3

\* The integers of a fixed size.
LEMMA ReadsInts ==
  /\ \A v \in Byte : Reads(ReadInt8, Int8(v), v)
  /\ \A v \in Shorts : Reads(ReadInt16, Int16(v), v)
  /\ \A v \in Ints : Reads(ReadInt32, Int32(v), v)
<1>1. ASSUME NEW e \in Stream, NEW r \in Stream, NEW n \in Nat, Len(e) = n
      PROVE  /\ e \o r \in Stream /\ Len(e \o r) >= n
             /\ \A i \in 1..n : (e \o r)[i] = e[i]
             /\ Drop(e \o r, n) = r
  <2>1. e \in Seq(Byte) /\ r \in Seq(Byte)
    BY DEF Stream
  <2>2. /\ e \o r \in Seq(Byte) /\ Len(e \o r) = Len(e) + Len(r)
        /\ \A i \in 1..(Len(e) + Len(r)) :
             (e \o r)[i] = IF i <= Len(e) THEN e[i] ELSE r[i - Len(e)]
    BY <2>1, ConcatProperties
  <2>3. Len(e) \in Nat /\ Len(r) \in Nat
    BY <2>1, LenProperties
  <2>4. Drop(e \o r, Len(e)) = r
    BY <2>1, DropConcat DEF Drop
  <2> QED
    BY <1>1, <2>2, <2>3, <2>4 DEF Stream
<1>2. ASSUME NEW v \in Byte, NEW r \in Stream
      PROVE  ReadInt8[Int8(v) \o r] = [ok |-> TRUE, val |-> v, rest |-> r]
  <2> DEFINE e == Int8(v)
             b == e \o r
  <2>0. v \in Nat
    BY <1>2, IntsAreNat
  <2>1. e \in Stream /\ Len(e) = 1 /\ e[1] = v
    <3>1. v % 256 = v
      BY BigEndian
    <3> QED
      BY <2>0, <3>1, IntBytes, ZenonT(60)
  <2> HIDE DEF e
  <2>2. b \in Stream /\ Len(b) >= 1 /\ b[1] = v /\ Drop(b, 1) = r
    BY <1>1, <2>1, 1 \in Nat, 1 \in 1..1
  <2>3. Len(b) \in Nat
    BY <2>2, LenProperties DEF Stream
  <2> HIDE DEF b
  <2>4. ReadInt8[b] = Found(b[1], b, 1)
    BY <2>2, <2>3 DEF ReadInt8
  <2> QED
    BY <2>2, <2>4 DEF Found, b, e
<1>3. ASSUME NEW v \in Shorts, NEW r \in Stream
      PROVE  ReadInt16[Int16(v) \o r] = [ok |-> TRUE, val |-> v, rest |-> r]
  <2> DEFINE e == Int16(v)
             b == e \o r
  <2>1. e \in Stream /\ Len(e) = 2 /\ e[1] = (v \div 256) % 256 /\ e[2] = v % 256
    BY IntBytes, IntsAreNat
  <2> HIDE DEF e
  <2>2. b \in Stream /\ Len(b) >= 2 /\ b[1] = e[1] /\ b[2] = e[2] /\ Drop(b, 2) = r
    <3> DEFINE n == 2
    <3>0. n \in Nat /\ Len(e) = n /\ e \in Stream
      BY <2>1
    <3> HIDE DEF n
    <3>1. /\ b \in Stream /\ Len(b) >= n /\ Drop(b, n) = r
          /\ \A i \in 1..n : b[i] = e[i]
      BY <1>1, <3>0
    <3> HIDE DEF b
    <3> QED
      BY <3>1 DEF n
  <2>3. Len(b) \in Nat
    BY <2>2, LenProperties DEF Stream
  <2>4. b[1] * 256 + b[2] = v
    BY <2>1, <2>2, BigEndian
  <2> HIDE DEF b
  <2>5. ReadInt16[b] = Found(b[1] * 256 + b[2], b, 2)
    BY <2>2, <2>3 DEF ReadInt16
  <2> QED
    BY <2>2, <2>4, <2>5 DEF Found, b, e
<1>4. ASSUME NEW v \in Ints, NEW r \in Stream
      PROVE  ReadInt32[Int32(v) \o r] = [ok |-> TRUE, val |-> v, rest |-> r]
  <2> DEFINE e == Int32(v)
             b == e \o r
             h == High(v)
  <2>1. h \in Nat /\ v \in Nat
    BY SMTT(30) DEF High, Ints
  <2>2. /\ e \in Stream /\ Len(e) = 4
        /\ e[1] = (h \div 256) % 256 /\ e[2] = h % 256
        /\ e[3] = (v \div 256) % 256 /\ e[4] = v % 256
    <3>1. /\ Int16(v) \in Seq(Byte) /\ Len(Int16(v)) = 2
          /\ Int16(v)[1] = (v \div 256) % 256 /\ Int16(v)[2] = v % 256
      BY <2>1, IntBytes DEF Stream
    <3>2. /\ Int16(h) \in Seq(Byte) /\ Len(Int16(h)) = 2
          /\ Int16(h)[1] = (h \div 256) % 256 /\ Int16(h)[2] = h % 256
      BY <2>1, IntBytes, ZenonT(60) DEF Stream
    <3>3. e = Int16(h) \o Int16(v) /\ e \in Stream /\ Len(e) = 4
      BY <2>1, IntBytes, ZenonT(60)
    <3> HIDE DEF e, h
    <3>4. \A i \in 1..(2 + 2) : e[i] = IF i <= 2 THEN Int16(h)[i] ELSE Int16(v)[i - 2]
      BY <3>1, <3>2, <3>3, ConcatProperties
    <3>5. e[1] = Int16(h)[1] /\ e[2] = Int16(h)[2] /\ e[3] = Int16(v)[1] /\ e[4] = Int16(v)[2]
      BY <3>4
    <3> QED
      BY <3>1, <3>2, <3>3, <3>5
  <2> HIDE DEF e
  <2>3. /\ b \in Stream /\ Len(b) >= 4 /\ Drop(b, 4) = r
        /\ b[1] = e[1] /\ b[2] = e[2] /\ b[3] = e[3] /\ b[4] = e[4]
    <3> DEFINE n == 4
    <3>0. n \in Nat /\ Len(e) = n /\ e \in Stream
      BY <2>2
    <3> HIDE DEF n
    <3>1. /\ b \in Stream /\ Len(b) >= n /\ Drop(b, n) = r
          /\ \A i \in 1..n : b[i] = e[i]
      BY <1>1, <3>0
    <3> HIDE DEF b
    <3> QED
      BY <3>1 DEF n
  <2>4. Len(b) \in Nat
    BY <2>3, LenProperties DEF Stream
  <2>5. ((b[1] * 256 + b[2]) * 256 + b[3]) * 256 + b[4] = v
    BY <2>2, <2>3, BigEndian
  <2> HIDE DEF b
  <2>6. ReadInt32[b] = Found(((b[1] * 256 + b[2]) * 256 + b[3]) * 256 + b[4], b, 4)
    BY <2>3, <2>4 DEF ReadInt32
  <2> QED
    BY <2>3, <2>5, <2>6 DEF Found, b, e
<1> QED
  BY <1>2, <1>3, <1>4 DEF Reads

\* A reader is given no value by bytes that are too few for it.
LEMMA ShortInts ==
  ASSUME NEW b \in Stream
  PROVE  /\ Len(b) < 1 => ReadInt8[b] = Short
         /\ Len(b) < 2 => ReadInt16[b] = Short
         /\ Len(b) < 4 => ReadInt32[b] = Short
BY DEF ReadInt8, ReadInt16, ReadInt32

\* Nothing is read from nothing.
LEMMA ReadNothing == ReadIntV[<<>>] = Short /\ Short.ok = FALSE
<1>1. <<>> \in Stream /\ Len(<<>>) = 0
  BY DEF Stream
<1>2. ReadInt8[<<>>] = Short
  BY <1>1, ShortInts
<1>3. Short.ok = FALSE
  BY DEF Short
<1>4. AfterLead(Short) = Short
  BY SMTT(30), <1>3 DEF AfterLead
<1> QED
  BY <1>1, <1>2, <1>3, <1>4 DEF ReadIntV

\* A reader that follows a mark.
Follows(R, k, lead) ==
  /\ \A b \in Stream : Len(b) < k => R[b] = Short
  /\ \A x : (x.ok /\ x.val = lead) => AfterLead(x) = R[x.rest]

\* A mark and an integer behind it are read as the integer.
LEMMA ReadsMarked ==
  ASSUME NEW R, NEW k \in Nat, NEW lead \in Byte, Follows(R, k, lead),
         NEW v, NEW f \in Stream, Len(f) = k, Reads(R, f, v)
  PROVE  /\ Int8(lead) \o f \in Stream /\ Len(Int8(lead) \o f) > 0
         /\ Reads(ReadIntV, Int8(lead) \o f, v)
         /\ FailsCut(ReadIntV, Int8(lead) \o f)
<1> DEFINE d == Int8(lead)
           g == d \o f
<1>1. d \in Stream /\ Len(d) = 1 /\ Reads(ReadInt8, d, lead)
  BY IntBytes, IntsAreNat, ReadsInts
<1> HIDE DEF d
<1>2. g \in Stream /\ Len(g) = 1 + k
  BY <1>1, ConcatProperties, ZenonT(60) DEF Stream
<1>3. ASSUME NEW r \in Stream
      PROVE  ReadIntV[d \o r] = R[r]
  <2>1. ReadInt8[d \o r] = [ok |-> TRUE, val |-> lead, rest |-> r]
    BY <1>1, <1>3 DEF Reads
  <2>2. d \o r \in Stream
    BY <1>1, <1>3, ConcatProperties DEF Stream
  <2>3. ReadIntV[d \o r] = AfterLead(ReadInt8[d \o r])
    BY <2>2 DEF ReadIntV
  <2> QED
    BY <2>1, <2>3 DEF Follows
<1>4. ASSUME NEW r \in Stream
      PROVE  ReadIntV[g \o r] = [ok |-> TRUE, val |-> v, rest |-> r]
  <2>1. g \o r = d \o (f \o r)
    BY <1>1, <1>4, ConcatAssociative DEF Stream
  <2>2. f \o r \in Stream
    BY <1>4, ConcatProperties DEF Stream
  <2> HIDE DEF g
  <2> QED
    BY <1>3, <1>4, <2>1, <2>2 DEF Reads
<1>5. ASSUME NEW n \in 0..(Len(g) - 1)
      PROVE  ReadIntV[SubSeq(g, 1, n)].ok = FALSE
  <2>0. n \in Nat /\ n < 1 + k /\ n \in 0..Len(g)
    BY <1>2
  <2>1. CASE n = 0
    <3>1. SubSeq(g, 1, n) = <<>>
      BY <2>1, SubSeqEmpty
    <3> QED
      BY <3>1, ReadNothing
  <2>2. CASE n # 0
    <3>1. SubSeq(g, 1, n) = d \o SubSeq(f, 1, n - 1)
      <4>1. n >= Len(d) /\ Len(d) = 1
        BY <1>1, <2>0, <2>2
      <4>2. g \in Seq(Byte) /\ d \in Seq(Byte) /\ f \in Seq(Byte)
        BY <1>1, <1>2 DEF Stream
      <4>3. n \in 0..Len(d \o f)
        BY <2>0
      <4>4. SubSeq(d \o f, 1, n) = d \o SubSeq(f, 1, n - Len(d))
        BY <4>1, <4>2, <4>3, CutConcat
      <4> QED
        BY <4>1, <4>4
    <3>2. n - 1 \in 0..Len(f) /\ n - 1 < k
      BY <2>0, <2>2
    <3>3. SubSeq(f, 1, n - 1) \in Stream /\ Len(SubSeq(f, 1, n - 1)) = n - 1
      BY <3>2, CutInTwo DEF Stream
    <3>4. R[SubSeq(f, 1, n - 1)] = Short
      BY <3>2, <3>3 DEF Follows
    <3>5. ReadIntV[SubSeq(g, 1, n)] = Short
      BY <1>3, <3>1, <3>3, <3>4
    <3> QED
      BY <3>5 DEF Short
  <2> QED
    BY <2>1, <2>2
<1>6. Len(g) > 0
  BY <1>2
<1> HIDE DEF g
<1>7. Reads(ReadIntV, g, v) /\ FailsCut(ReadIntV, g)
  BY <1>4, <1>5 DEF Reads, FailsCut
<1> QED
  BY <1>2, <1>6, <1>7 DEF g, d

\* An integer of one, three or five bytes.
LEMMA ReadsIntV ==
  ASSUME NEW v \in Ints
  PROVE  /\ IntV(v) \in Stream /\ Len(IntV(v)) > 0
         /\ Reads(ReadIntV, IntV(v), v) /\ FailsCut(ReadIntV, IntV(v))
<1> DEFINE e == IntV(v)
<1>0. v \in Nat
  BY SMTT(30) DEF Ints
<1>1. CASE v < 254
  <2>1. e = Int8(v) /\ v \in Byte
    BY SMTT(30), <1>0, <1>1 DEF IntV, Byte
  <2>0. e \in Stream /\ Len(e) = 1
    BY <1>0, <2>1, IntBytes
  <2>2. ASSUME NEW r \in Stream
        PROVE  ReadIntV[e \o r] = [ok |-> TRUE, val |-> v, rest |-> r]
    <3>1. ReadInt8[e \o r] = [ok |-> TRUE, val |-> v, rest |-> r]
      BY <2>1, ReadsInts DEF Reads
    <3>2. e \o r \in Stream
      BY <2>0, ConcatProperties DEF Stream
    <3> HIDE DEF e
    <3>3. ReadIntV[e \o r] = AfterLead(ReadInt8[e \o r])
      BY <3>2 DEF ReadIntV
    <3> QED
      BY SMTT(20), <1>1, <3>1, <3>3 DEF AfterLead
  <2>3. ReadIntV[SubSeq(e, 1, 0)].ok = FALSE
    <3>1. SubSeq(e, 1, 0) = <<>>
      BY SubSeqEmpty
    <3> QED
      BY <3>1, ReadNothing
  <2> HIDE DEF e
  <2> QED
    BY <2>0, <2>2, <2>3 DEF Reads, FailsCut, e
<1>3. CASE v >= 254 /\ v \in Shorts
  <2>1. e = Int8(254) \o Int16(v)
    BY SMTT(30), <1>0, <1>3 DEF IntV, Shorts
  <2>2. Int16(v) \in Stream /\ Len(Int16(v)) = 2 /\ Reads(ReadInt16, Int16(v), v)
    BY <1>0, <1>3, IntBytes, ReadsInts
  <2>3. \A x : (x.ok /\ x.val = 254) => AfterLead(x) = ReadInt16[x.rest]
    BY SMTT(20) DEF AfterLead
  <2>4. \A b \in Stream : Len(b) < 2 => ReadInt16[b] = Short
    BY ShortInts
  <2> HIDE DEF e
  <2> DEFINE lead == 254
             k == 2
  <2>5. lead \in Byte /\ k \in Nat
    BY DEF Byte
  <2> DEFINE f == Int16(v)
             R == ReadInt16
  <2> HIDE DEF f, R
  <2>6. /\ f \in Stream /\ Len(f) = k /\ Reads(R, f, v)
        /\ Follows(R, k, lead)
    BY <2>2, <2>3, <2>4 DEF f, R, Follows
  <2> HIDE DEF lead, k
  <2>7. /\ Int8(lead) \o f \in Stream /\ Len(Int8(lead) \o f) > 0
        /\ Reads(ReadIntV, Int8(lead) \o f, v)
        /\ FailsCut(ReadIntV, Int8(lead) \o f)
    BY <2>5, <2>6, ReadsMarked
  <2> QED
    BY <2>1, <2>7 DEF e, f, lead
<1>4. CASE v \notin Shorts
  <2>1. e = Int8(255) \o Int32(v)
    BY SMTT(30), <1>0, <1>4 DEF IntV, Shorts
  <2>2. Int32(v) \in Stream /\ Len(Int32(v)) = 4 /\ Reads(ReadInt32, Int32(v), v)
    BY <1>0, <1>4, IntBytes, ReadsInts
  <2>3. \A x : (x.ok /\ x.val = 255) => AfterLead(x) = ReadInt32[x.rest]
    BY SMTT(20) DEF AfterLead
  <2>4. \A b \in Stream : Len(b) < 4 => ReadInt32[b] = Short
    BY ShortInts
  <2> HIDE DEF e
  <2> DEFINE lead == 255
             k == 4
  <2>5. lead \in Byte /\ k \in Nat
    BY DEF Byte
  <2> DEFINE f == Int32(v)
             R == ReadInt32
  <2> HIDE DEF f, R
  <2>6. /\ f \in Stream /\ Len(f) = k /\ Reads(R, f, v)
        /\ Follows(R, k, lead)
    BY <2>2, <2>3, <2>4 DEF f, R, Follows
  <2> HIDE DEF lead, k
  <2>7. /\ Int8(lead) \o f \in Stream /\ Len(Int8(lead) \o f) > 0
        /\ Reads(ReadIntV, Int8(lead) \o f, v)
        /\ FailsCut(ReadIntV, Int8(lead) \o f)
    BY <2>5, <2>6, ReadsMarked
  <2> QED
    BY <2>1, <2>7 DEF e, f, lead
<1>5. v < 254 \/ v >= 254
  BY <1>0
<1> QED
  BY <1>1, <1>3, <1>4, <1>5

\* A string, behind its length.
LEMMA ReadsString ==
  ASSUME NEW s \in Stream, Len(s) \in Ints
  PROVE  /\ String(s) \in Stream /\ Len(String(s)) > 0
         /\ Reads(ReadString, String(s), s) /\ FailsCut(ReadString, String(s))
<1> DEFINE l == Len(s)
           d == IntV(l)
           g == d \o s
<1>0. l \in Ints /\ l \in Nat
  BY IntsAreNat
<1>1. d \in Stream /\ Len(d) > 0 /\ Reads(ReadIntV, d, l) /\ FailsCut(ReadIntV, d)
  BY <1>0, ReadsIntV
<1>2. g = String(s)
  BY DEF String
<1> HIDE DEF d
<1>3. g \in Stream /\ Len(g) = Len(d) + l /\ Len(d) \in Nat
  BY <1>1, ConcatProperties, LenProperties DEF Stream
<1>4. ASSUME NEW r \in Stream
      PROVE  ReadString[d \o r] = IF Len(r) < l THEN Short
                                  ELSE Found(SubSeq(r, 1, l), r, l)
  <2>1. ReadIntV[d \o r] = [ok |-> TRUE, val |-> l, rest |-> r]
    BY <1>1, <1>4 DEF Reads
  <2>2. d \o r \in Stream
    BY <1>1, <1>4, ConcatProperties DEF Stream
  <2> HIDE DEF l
  <2> QED
    BY <2>1, <2>2 DEF ReadString
<1>5. ASSUME NEW r \in Stream
      PROVE  ReadString[g \o r] = [ok |-> TRUE, val |-> s, rest |-> r]
  <2> DEFINE t == s \o r
  <2>1. g \o r = d \o t
    BY <1>1, <1>5, ConcatAssociative DEF Stream
  <2>2. t \in Stream /\ Len(t) = l + Len(r) /\ Len(r) \in Nat
    BY <1>5, ConcatProperties, LenProperties DEF Stream
  <2>3. SubSeq(t, 1, l) = s /\ SubSeq(t, l + 1, Len(t)) = r
    BY <1>5, DropConcat DEF Stream
  <2> HIDE DEF t, g
  <2>4. ReadString[d \o t] = Found(SubSeq(t, 1, l), t, l)
    BY <1>0, <1>4, <2>2
  <2> QED
    BY <2>1, <2>3, <2>4 DEF Found, Drop
<1>6. ASSUME NEW n \in 0..(Len(g) - 1)
      PROVE  ReadString[SubSeq(g, 1, n)].ok = FALSE
  <2>0. n \in Nat /\ n < Len(d) + l /\ n \in 0..Len(g)
    BY <1>0, <1>3
  <2>1. d \in Seq(Byte) /\ s \in Seq(Byte)
    BY <1>1 DEF Stream
  <2>2. CASE n < Len(d)
    <3>1. SubSeq(g, 1, n) = SubSeq(d, 1, n)
      BY <1>3, <2>0, <2>1, <2>2, CutConcat
    <3>2. n \in 0..(Len(d) - 1) /\ n \in 0..Len(d)
      BY <1>3, <2>0, <2>2
    <3>3. ReadIntV[SubSeq(d, 1, n)].ok = FALSE
      BY <1>1, <3>2 DEF FailsCut
    <3>4. SubSeq(d, 1, n) \in Stream
      BY <2>1, <3>2, CutInTwo DEF Stream
    <3> HIDE DEF g
    <3>5. ReadString[SubSeq(d, 1, n)] = Short
      BY <3>3, <3>4 DEF ReadString
    <3> QED
      BY <3>1, <3>5, ReadNothing
  <2>3. CASE n >= Len(d)
    <3>1. SubSeq(g, 1, n) = d \o SubSeq(s, 1, n - Len(d))
      BY <1>3, <2>0, <2>1, <2>3, CutConcat
    <3>2. n - Len(d) \in 0..Len(s) /\ n - Len(d) < l
      BY <1>0, <1>3, <2>0, <2>3
    <3>3. /\ SubSeq(s, 1, n - Len(d)) \in Stream
          /\ Len(SubSeq(s, 1, n - Len(d))) = n - Len(d)
      BY <2>1, <3>2, CutInTwo DEF Stream
    <3> HIDE DEF g
    <3>4. ReadString[SubSeq(g, 1, n)] = Short
      BY <1>4, <3>1, <3>2, <3>3
    <3> QED
      BY <3>4, ReadNothing
  <2>4. n < Len(d) \/ n >= Len(d)
    BY <1>3, <2>0
  <2> QED
    BY <2>2, <2>3, <2>4
<1> HIDE DEF g
<1>7. Len(g) > 0
  BY <1>0, <1>1, <1>3
<1> QED
  BY <1>2, <1>3, <1>5, <1>6, <1>7 DEF Reads, FailsCut

\* A login message is decoded as it was encoded, whatever comes behind it; one
\* that is cut is not decoded.
LEMMA ReadsLogin ==
  ASSUME NEW m \in Logins
  PROVE  /\ EncodeLogin(m) \in Stream /\ Len(EncodeLogin(m)) > 0
         /\ Reads(DecodeLogin, EncodeLogin(m), m)
         /\ FailsCut(DecodeLogin, EncodeLogin(m))
<1> DEFINE a == String(m.account)
           t == String(m.token)
           g == IntV(m.age)
           tg == t \o g
           e == a \o tg
<1>0. /\ m = [account |-> m.account, token |-> m.token, age |-> m.age]
      /\ m.account \in Stream /\ m.token \in Stream /\ m.age \in Ints
      /\ Len(m.account) \in Ints /\ Len(m.token) \in Ints
  BY DEF Logins
<1>1. /\ a \in Stream /\ Len(a) > 0 /\ Reads(ReadString, a, m.account)
      /\ FailsCut(ReadString, a)
  BY <1>0, ReadsString
<1>2. /\ t \in Stream /\ Len(t) > 0 /\ Reads(ReadString, t, m.token)
      /\ FailsCut(ReadString, t)
  BY <1>0, ReadsString
<1>3. /\ g \in Stream /\ Len(g) > 0 /\ Reads(ReadIntV, g, m.age)
      /\ FailsCut(ReadIntV, g)
  BY <1>0, ReadsIntV
<1>4. EncodeLogin(m) = e
  BY <1>1, <1>2, <1>3, ConcatAssociative DEF EncodeLogin, Stream
<1> HIDE DEF a, t, g
<1>5. /\ tg \in Stream /\ Len(tg) = Len(t) + Len(g) /\ Len(t) \in Nat /\ Len(g) \in Nat
  BY <1>2, <1>3, ConcatProperties, LenProperties DEF Stream
<1> HIDE DEF tg
<1>6. /\ e \in Stream /\ Len(e) = Len(a) + Len(tg) /\ Len(a) \in Nat
  BY <1>1, <1>5, ConcatProperties, LenProperties DEF Stream
<1> HIDE DEF e
\* What is decoded when the account, or account and token, are whole.
<1>7. ASSUME NEW r \in Stream
      PROVE  /\ ~ReadString[r].ok => DecodeLogin[a \o r] = Short
             /\ \A q \in Stream :
                  r = t \o q =>
                    DecodeLogin[a \o r] =
                      IF ReadIntV[q].ok
                      THEN Found([account |-> m.account, token |-> m.token,
                                  age |-> ReadIntV[q].val], ReadIntV[q].rest, 0)
                      ELSE Short
  <2>1. ReadString[a \o r] = [ok |-> TRUE, val |-> m.account, rest |-> r]
    BY <1>1, <1>7 DEF Reads
  <2>2. a \o r \in Stream
    BY <1>1, <1>7, ConcatProperties DEF Stream
  <2>3. DecodeLogin[a \o r] =
          IF ReadString[r].ok /\ ReadIntV[ReadString[r].rest].ok
          THEN Found([account |-> m.account, token |-> ReadString[r].val,
                      age |-> ReadIntV[ReadString[r].rest].val],
                     ReadIntV[ReadString[r].rest].rest, 0)
          ELSE Short
    BY <2>1, <2>2 DEF DecodeLogin
  <2>4. ASSUME NEW q \in Stream, r = t \o q
        PROVE  ReadString[r] = [ok |-> TRUE, val |-> m.token, rest |-> q]
    BY <1>2, <2>4 DEF Reads
  <2>5. ASSUME NEW q \in Stream, r = t \o q
        PROVE  ReadString[r].ok /\ ReadString[r].val = m.token /\ ReadString[r].rest = q
    <3>1. ReadString[r] = [ok |-> TRUE, val |-> m.token, rest |-> q]
      BY <2>4, <2>5
    <3> QED
      BY ONLY <3>1
  <2> QED
    BY <2>3, <2>5
<1>8. ASSUME NEW r \in Stream
      PROVE  DecodeLogin[e \o r] = [ok |-> TRUE, val |-> m, rest |-> r]
  <2>1. e \o r = a \o (t \o (g \o r))
    <3>1. e \o r = a \o (tg \o r)
      BY <1>1, <1>5, <1>8, ConcatAssociative, SMTT(60) DEF Stream, e
    <3>2. tg \o r = t \o (g \o r)
      BY <1>2, <1>3, <1>8, ConcatAssociative DEF Stream, tg
    <3> QED
      BY <3>1, <3>2
  <2>2. g \o r \in Stream
    BY <1>3, <1>8, ConcatProperties DEF Stream
  <2>3. t \o (g \o r) \in Stream
    BY <1>2, <2>2, ConcatProperties DEF Stream
  <2>4. ReadIntV[g \o r] = [ok |-> TRUE, val |-> m.age, rest |-> r]
    BY <1>3, <1>8 DEF Reads
  <2>5. ReadIntV[g \o r].ok /\ ReadIntV[g \o r].val = m.age /\ ReadIntV[g \o r].rest = r
    BY <2>4
  <2>6. DecodeLogin[e \o r] =
          Found([account |-> m.account, token |-> m.token, age |-> m.age], r, 0)
    BY <1>7, <2>1, <2>2, <2>3, <2>5, ZenonT(60)
  <2>7. SubSeq(r, 0 + 1, Len(r)) = r
    BY <1>8, SubSeqFull DEF Stream
  <2> QED
    BY <1>0, <2>6, <2>7 DEF Found, Drop
<1>9. ASSUME NEW n \in 0..(Len(e) - 1)
      PROVE  DecodeLogin[SubSeq(e, 1, n)].ok = FALSE
  <2>0. /\ n \in Nat /\ n < Len(a) + Len(tg) /\ n \in 0..Len(a \o tg)
        /\ e = a \o tg
    BY <1>5, <1>6 DEF e
  <2>1. a \in Seq(Byte) /\ t \in Seq(Byte) /\ g \in Seq(Byte) /\ tg \in Seq(Byte)
    BY <1>1, <1>2, <1>3, <1>5 DEF Stream
  <2>2. CASE n < Len(a)
    <3>1. SubSeq(e, 1, n) = SubSeq(a, 1, n)
      BY <1>6, <2>0, <2>1, <2>2, CutConcat
    <3>2. n \in 0..(Len(a) - 1) /\ n \in 0..Len(a)
      BY <1>6, <2>0, <2>2
    <3>3. ReadString[SubSeq(a, 1, n)].ok = FALSE
      BY <1>1, <3>2 DEF FailsCut
    <3>4. SubSeq(a, 1, n) \in Stream
      BY <2>1, <3>2, CutInTwo DEF Stream
    <3>5. DecodeLogin[SubSeq(a, 1, n)] = Short
      BY <3>3, <3>4 DEF DecodeLogin
    <3> QED
      BY <3>1, <3>5, ReadNothing
  <2>3. CASE n >= Len(a)
    <3> DEFINE k == n - Len(a)
               r == SubSeq(tg, 1, k)
    <3>1. SubSeq(e, 1, n) = a \o r
      BY <1>6, <2>0, <2>1, <2>3, CutConcat
    <3>2. k \in Nat /\ k \in 0..Len(tg) /\ k < Len(t) + Len(g) /\ k \in 0..Len(t \o g)
      BY <1>5, <1>6, <2>0, <2>3 DEF tg
    <3> HIDE DEF k
    <3>3. r \in Stream
      BY <2>1, <3>2, CutInTwo DEF Stream
    <3>4. CASE k < Len(t)
      <4>1. r = SubSeq(t, 1, k)
        BY <1>5, <2>1, <3>2, <3>4, CutConcat DEF tg
      <4>2. k \in 0..(Len(t) - 1)
        BY <1>5, <3>2, <3>4
      <4>3. ReadString[r].ok = FALSE
        BY <1>2, <4>1, <4>2 DEF FailsCut
      <4> HIDE DEF r
      <4>4. DecodeLogin[a \o r] = Short
        BY <1>7, <3>3, <4>3
      <4> QED
        BY <3>1, <4>4, ReadNothing
    <3>5. CASE k >= Len(t)
      <4> DEFINE q == SubSeq(g, 1, k - Len(t))
      <4>1. r = t \o q
        BY <1>5, <2>1, <3>2, <3>5, CutConcat DEF tg
      <4>2. k - Len(t) \in 0..(Len(g) - 1) /\ k - Len(t) \in 0..Len(g)
        BY <1>5, <3>2, <3>5
      <4>3. q \in Stream
        BY <2>1, <4>2, CutInTwo DEF Stream
      <4>4. ReadIntV[q].ok = FALSE
        BY <1>3, <4>2 DEF FailsCut
      <4> HIDE DEF r, q
      <4>5. DecodeLogin[a \o r] = Short
        BY <1>7, <3>3, <4>1, <4>3, <4>4
      <4> QED
        BY <3>1, <4>5, ReadNothing
    <3>6. k < Len(t) \/ k >= Len(t)
      BY <1>5, <3>2
    <3> QED
      BY <3>4, <3>5, <3>6
  <2>4. n < Len(a) \/ n >= Len(a)
    BY <1>6, <2>0
  <2> QED
    BY <2>2, <2>3, <2>4
<1>10. Len(e) > 0
  BY <1>1, <1>5, <1>6, LenProperties
<1> QED
  BY <1>4, <1>6, <1>8, <1>9, <1>10 DEF Reads, FailsCut

-----------------------------------------------------------------------------
(* The buffer *)

\* Sizes modulo a word, for sizes near one.
LEMMA ModuloWord ==
  ASSUME NEW W \in Nat, W > 0
  PROVE  /\ \A x \in Nat : x < W => x % W = x
         /\ \A x \in Nat : W <= x /\ x < W + W => x % W = x - W
         /\ \A d \in Nat : 0 < d /\ d < W => (-d) % W = W - d
<1>1. ASSUME NEW x \in Nat, x < W PROVE x % W = x
  BY SMTT(30), <1>1
<1>2. ASSUME NEW x \in Nat, W <= x, x < W + W PROVE x % W = x - W
  BY SMTT(30), <1>2
<1>3. ASSUME NEW d \in Nat, 0 < d, d < W PROVE (-d) % W = W - d
  BY SMTT(30), <1>3
<1> QED
  BY <1>1, <1>2, <1>3

\* A number in units.
LEMMA Units ==
  ASSUME NEW E \in Nat, E > 0, NEW x \in Nat
  PROVE  /\ x \div E \in Nat /\ E * (x \div E + 1) \in Nat
         /\ x < E * (x \div E + 1) /\ E * (x \div E + 1) <= x + E
<1> DEFINE k == x \div E
<1>1. k \in Nat /\ E * k <= x /\ x < E * k + E
  BY SMTT(30)
<1> HIDE DEF k
<1>2. E * (k + 1) = E * k + E /\ E * k \in Nat
  BY SMTT(30), <1>1
<1> QED
  BY <1>1, <1>2 DEF k

\* A buffer that grows, and be it by way of an unsigned difference that wraps
\* and makes it smaller, has the room that is wanted.
LEMMA GrowthSuffices ==
  ASSUME BufferAssumption,
         NEW cap \in 0..(Word - 1), NEW l \in Nat, NEW n \in Nat, l <= cap,
         l + n + 2 * ExpandSize < Word
  PROVE  /\ (cap + Growth(cap - l, n)) % Word \in 0..(Word - 1)
         /\ (cap + Growth(cap - l, n)) % Word >= l + n
<1> DEFINE W == Word
           E == ExpandSize
           free == cap - l
<1>1. W \in Nat /\ W > 0 /\ E \in Nat /\ E > 0
  BY DEF BufferAssumption
<1>2. cap \in Nat /\ cap < W /\ free \in Nat /\ cap = l + free /\ l + n + E + E < W
  BY <1>1
<1> HIDE DEF W, E, free
<1>3. CASE free >= n /\ free - n < E
  <2>1. Growth(free, n) = E
    BY <1>3 DEF Growth, E
  <2>2. cap + E \in Nat /\ cap + E < W /\ cap + E >= l + n
    BY <1>1, <1>2, <1>3
  <2>3. (cap + E) % W = cap + E
    BY <1>1, <2>2, ModuloWord
  <2>4. cap + E \in 0..(W - 1)
    BY <1>1, <2>2
  <2> QED
    BY <2>1, <2>2, <2>3, <2>4 DEF W, free
<1>4. CASE free >= n /\ free - n >= E
  <2> DEFINE d == free - n
             x == W - d
             G == E * (x \div E + 1)
  <2>1. d \in Nat /\ 0 < d /\ d < W /\ x \in Nat /\ n - free = -d
    BY <1>1, <1>2, <1>4
  <2>2. (n - free) % W = x
    BY <1>1, <2>1, ModuloWord
  <2>3. Growth(free, n) = G
    <3>1. ~(free >= n /\ free - n < E)
      BY <1>1, <1>2, <1>4
    <3>2. Growth(free, n) = E * (((n - free) % W) \div E + 1)
      BY <3>1 DEF Growth, E, W
    <3> QED
      BY <2>2, <3>2
  <2>4. G \in Nat /\ x < G /\ G <= x + E
    BY <1>1, <2>1, Units
  <2> HIDE DEF G
  <2>5. cap + G \in Nat /\ W + l + n < cap + G /\ cap + G < W + W
    BY <1>1, <1>2, <1>4, <2>1, <2>4
  <2> DEFINE y == cap + G
  <2>6. y \in Nat /\ W <= y /\ y < W + W /\ y = cap + Growth(free, n)
    BY <1>1, <1>2, <2>3, <2>5
  <2> HIDE DEF y
  <2>7. y % W = y - W
    BY <1>1, <2>6, ModuloWord
  <2>8. y - W \in 0..(W - 1) /\ y - W >= l + n
    BY <1>1, <1>2, <2>5, <2>6 DEF y
  <2> QED
    BY <2>6, <2>7, <2>8 DEF W, free
<1>5. CASE free < n
  <2> DEFINE x == n - free
             G == E * (x \div E + 1)
  <2>1. x \in Nat /\ x < W
    BY <1>1, <1>2, <1>5
  <2>2. (n - free) % W = x
    BY <1>1, <2>1, ModuloWord
  <2>3. Growth(free, n) = G
    <3>1. ~(free >= n /\ free - n < E)
      BY <1>1, <1>2, <1>5
    <3>2. Growth(free, n) = E * (((n - free) % W) \div E + 1)
      BY <3>1 DEF Growth, E, W
    <3> QED
      BY <2>2, <3>2
  <2>4. G \in Nat /\ x < G /\ G <= x + E
    BY <1>1, <2>1, Units
  <2> HIDE DEF G
  <2>5. cap + G \in Nat /\ l + n < cap + G /\ cap + G < W
    BY <1>1, <1>2, <1>5, <2>1, <2>4
  <2>6. (cap + G) % W = cap + G
    BY <1>1, <2>5, ModuloWord
  <2>7. cap + G \in 0..(W - 1) /\ cap + G >= l + n
    BY <1>1, <1>2, <2>5
  <2> QED
    BY <2>3, <2>6, <2>7 DEF W, free
<1>6. free < n \/ (free >= n /\ free - n < E) \/ (free >= n /\ free - n >= E)
  BY <1>1, <1>2
<1> QED
  BY <1>3, <1>4, <1>5, <1>6

\* What is written to a buffer with reserveWritableBytes is behind its data.
LEMMA BufferWritten ==
  ASSUME BufferAssumption, NEW b, IsBuffer(b), NEW bytes \in Stream,
         Len(b.data) + Len(bytes) + 2 * ExpandSize < Word
  PROVE  LET c == Put(Reserve(b, Len(bytes)), bytes)
         IN IsBuffer(c) /\ c.data = b.data \o bytes
<1> DEFINE n == Len(bytes)
           r == Reserve(b, n)
           c == Put(r, bytes)
           l == Len(b.data)
           Buffers == [cap : 0..(Word - 1), read : Nat, data : Seq(Byte)]
<1>0. Word \in Nat /\ ExpandSize \in Nat /\ bytes \in Seq(Byte) /\ n \in Nat
  BY LenProperties DEF BufferAssumption, Stream
<1>1. /\ b \in Buffers /\ b.cap \in 0..(Word - 1) /\ b.read \in Nat
      /\ b.data \in Seq(Byte) /\ l \in Nat /\ b.cap \in Nat
      /\ Writable(b) = b.cap - (b.read + l) /\ Writable(b) >= 0
  BY <1>0, LenProperties DEF IsBuffer, Byte, Writable
<1> HIDE DEF n
<1>2. r \in Buffers /\ r.data = b.data /\ Writable(r) >= n /\ Writable(r) \in Int
  <2>1. CASE Writable(b) >= n
    BY <1>1, <2>1 DEF Reserve
  <2>2. CASE ~(Writable(b) >= n)
    <3> DEFINE cap == (b.cap + Growth(b.cap - l, n)) % Word
    <3>0. l <= b.cap /\ l + n + 2 * ExpandSize < Word
      BY <1>0, <1>1 DEF n
    <3> HIDE DEF l
    <3>1. cap \in 0..(Word - 1) /\ cap >= l + n
      BY <1>0, <1>1, <3>0, GrowthSuffices
    <3>2. b.read + Writable(b) = b.cap - l
      BY <1>1
    <3>3. r = [cap |-> cap, read |-> 0, data |-> b.data]
      BY <2>2, <3>2 DEF Reserve
    <3> HIDE DEF cap, r
    <3>4. r \in Buffers /\ r.cap = cap /\ r.read = 0 /\ r.data = b.data
      BY <1>1, <3>1, <3>3
    <3>5. Writable(r) = cap - (0 + l)
      BY <3>4 DEF Writable, l
    <3>6. cap \in Int
      BY <1>0, <3>1
    <3> QED
      BY <1>0, <1>1, <3>1, <3>4, <3>5, <3>6, SMTT(60)
  <2> QED
    BY <2>1, <2>2
<1> HIDE DEF r
<1>3. SubSeq(bytes, 1, Lower(n, Writable(r))) = bytes
  <2>1. Lower(n, Writable(r)) = n
    BY <1>0, <1>2 DEF Lower
  <2> QED
    BY <1>0, <2>1, SubSeqFull DEF n
<1>4. c = [r EXCEPT !.data = b.data \o bytes]
  BY <1>2, <1>3 DEF Put, n
<1>5. b.data \o bytes \in Seq(Byte) /\ Len(b.data \o bytes) = l + n
  BY <1>0, <1>1, ConcatProperties DEF n
<1> HIDE DEF c
<1>6. c \in Buffers /\ c.data = b.data \o bytes /\ c.cap = r.cap /\ c.read = r.read
  BY <1>2, <1>4, <1>5
<1>7. Writable(r) = r.cap - (r.read + l)
  BY <1>2 DEF Writable
<1>8. Writable(c) = c.cap - (c.read + (l + n))
  BY <1>5, <1>6 DEF Writable
<1>9. r.cap \in Int /\ r.read \in Int
  BY <1>0, <1>2
<1>10. Writable(c) >= 0
  <2>1. Writable(c) = Writable(r) - n
    BY <1>0, <1>1, <1>6, <1>7, <1>8, <1>9
  <2> QED
    BY <1>0, <1>2, <2>1
<1> QED
  BY <1>6, <1>10 DEF IsBuffer, Byte, c, r, n

\* What is read from a buffer is its beginning.
LEMMA BufferTaken ==
  ASSUME BufferAssumption, NEW b, IsBuffer(b), NEW n \in 0..Len(b.data)
  PROVE  /\ IsBuffer(Take(b, n))
         /\ Take(b, n).data = SubSeq(b.data, n + 1, Len(b.data))
<1> DEFINE l == Len(b.data)
           c == Take(b, n)
           rest == SubSeq(b.data, n + 1, l)
           Buffers == [cap : 0..(Word - 1), read : Nat, data : Seq(Byte)]
<1>1. /\ b \in Buffers /\ b.cap \in Int /\ b.read \in Nat
      /\ b.data \in Seq(Byte) /\ l \in Nat
      /\ Writable(b) = b.cap - (b.read + l) /\ Writable(b) >= 0
  BY LenProperties DEF IsBuffer, Byte, Writable, BufferAssumption
<1>2. n \in Nat /\ n <= l
  BY <1>1
<1>3. rest \in Seq(Byte) /\ Len(rest) = l - n
  BY <1>1, CutInTwo
<1>4. CASE n >= l
  <2>1. rest = <<>>
    BY <1>1, <1>2, <1>4, SubSeqEmpty
  <2>2. c = [b EXCEPT !.read = 0, !.data = <<>>]
    BY <1>4 DEF Take
  <2> HIDE DEF c, rest
  <2>3. c \in Buffers /\ c.data = <<>> /\ c.cap = b.cap /\ c.read = 0
    <3>1. <<>> \in Seq(Byte) /\ 0 \in Nat
      OBVIOUS
    <3> HIDE DEF l
    <3> QED
      BY <1>1, <2>2, <3>1
  <2>4. Writable(c) = b.cap - (0 + 0)
    BY <2>3 DEF Writable
  <2>5. Writable(c) >= 0
    BY <1>1, <2>4
  <2> QED
    BY <2>1, <2>3, <2>5 DEF IsBuffer, Byte, c, rest
<1>5. CASE n < l
  <2>1. c = [b EXCEPT !.read = b.read + n, !.data = rest]
    BY <1>1, <1>2, <1>5 DEF Take
  <2> HIDE DEF c, rest
  <2>2. b.read + n \in Nat
    BY <1>1, <1>2
  <2>3. c \in Buffers /\ c.data = rest /\ c.cap = b.cap /\ c.read = b.read + n
    BY <1>1, <1>3, <2>1, <2>2
  <2>4. Writable(c) = b.cap - ((b.read + n) + (l - n))
    BY <1>3, <2>3 DEF Writable
  <2>5. Writable(c) >= 0
    BY <1>1, <1>2, <2>4
  <2> QED
    BY <2>3, <2>5 DEF IsBuffer, Byte, c, rest
<1> QED
  BY <1>1, <1>2, <1>4, <1>5

-----------------------------------------------------------------------------
(* Packets *)

Packets == [id : Shorts, body : Logins, pad : Int]

\* What is behind the header of a packet.
Payload(p) ==
  IF p.pad >= 0 THEN EncodeLogin(p.body) \o [i \in 1..p.pad |-> 0]
  ELSE SubSeq(EncodeLogin(p.body), 1, Len(EncodeLogin(p.body)) + p.pad)

\* A packet is its header and its payload.
LEMMA WireShape ==
  ASSUME NEW p \in Packets
  PROVE  /\ Payload(p) \in Stream /\ Wire(p) \in Stream
         /\ Len(Wire(p)) = 4 + Len(Payload(p))
         /\ Wire(p) = (Int16(p.id) \o Int16(Len(Payload(p)))) \o Payload(p)
         /\ Len(Int16(p.id) \o Int16(Len(Payload(p)))) = 4
         /\ \A i \in 1..2 : Wire(p)[i] = Int16(p.id)[i]
         /\ \A i \in 1..2 : Wire(p)[2 + i] = Int16(Len(Payload(p)))[i]
<1> DEFINE body == EncodeLogin(p.body)
           payload == Payload(p)
           a == Int16(p.id)
           b == Int16(Len(payload))
<1>1. p.id \in Nat /\ p.body \in Logins /\ p.pad \in Int
  BY IntsAreNat DEF Packets
<1>2. body \in Seq(Byte) /\ Len(body) \in Nat
  BY <1>1, ReadsLogin, LenProperties DEF Stream
<1>3. payload \in Seq(Byte)
  <2>1. CASE p.pad >= 0
    <3> DEFINE zeros == [i \in 1..p.pad |-> 0]
    <3>1. zeros \in Seq(Byte)
      BY <1>1, <2>1 DEF Byte
    <3> HIDE DEF zeros, body
    <3>2. body \o zeros \in Seq(Byte)
      BY <1>2, <3>1, ConcatProperties
    <3> QED
      BY <2>1, <3>2 DEF Payload, zeros, body
  <2>2. CASE p.pad < 0
    <3> DEFINE k == Len(body) + p.pad
    <3>1. CASE k >= 0
      <4>1. k \in 0..Len(body)
        BY <1>1, <1>2, <2>2, <3>1
      <4> HIDE DEF k
      <4>2. SubSeq(body, 1, k) \in Seq(Byte)
        BY <1>2, <4>1, CutInTwo
      <4> QED
        BY <1>1, <2>2, <4>2 DEF Payload, k
    <3>2. CASE k < 0
      <4>1. SubSeq(body, 1, k) = <<>>
        BY <1>1, <1>2, <3>2, SubSeqEmpty
      <4> QED
        BY <1>1, <2>2, <4>1 DEF Payload
    <3> QED
      BY <1>1, <1>2, <3>1, <3>2
  <2> QED
    BY <1>1, <2>1, <2>2
<1> HIDE DEF body, payload
<1>4. Len(payload) \in Nat
  BY <1>3, LenProperties
<1>5. a \in Seq(Byte) /\ Len(a) = 2 /\ b \in Seq(Byte) /\ Len(b) = 2
  BY <1>1, <1>4, IntBytes, ZenonT(60) DEF Stream
<1>6. Wire(p) = (a \o b) \o payload
  BY DEF Wire, Payload, payload
<1> HIDE DEF a, b
<1> DEFINE h == a \o b
<1>7. /\ h \in Seq(Byte) /\ Len(h) = 2 + 2
      /\ \A i \in 1..(2 + 2) : h[i] = IF i <= 2 THEN a[i] ELSE b[i - 2]
  BY <1>5, ConcatProperties, SMTT(60)
<1> HIDE DEF h
<1>8. /\ h \o payload \in Seq(Byte) /\ Len(h \o payload) = 4 + Len(payload)
      /\ \A i \in 1..(4 + Len(payload)) :
           (h \o payload)[i] = IF i <= 4 THEN h[i] ELSE payload[i - 4]
  <2> DEFINE n == Len(h)
  <2>1. n = 4
    BY <1>7
  <2>2. /\ h \o payload \in Seq(Byte) /\ Len(h \o payload) = n + Len(payload)
        /\ \A i \in 1..(n + Len(payload)) :
             (h \o payload)[i] = IF i <= n THEN h[i] ELSE payload[i - n]
    BY <1>3, <1>7, ConcatProperties
  <2> HIDE DEF n
  <2> QED
    BY <2>1, <2>2
<1>9. /\ \A i \in 1..2 : i \in 1..(2 + 2) /\ i \in 1..(4 + Len(payload)) /\ i <= 2 /\ i <= 4
      /\ \A i \in 1..2 : /\ 2 + i \in 1..(2 + 2) /\ 2 + i \in 1..(4 + Len(payload))
                         /\ ~(2 + i <= 2) /\ 2 + i <= 4 /\ (2 + i) - 2 = i
  BY <1>4
<1>10. /\ \A i \in 1..2 : (h \o payload)[i] = a[i]
       /\ \A i \in 1..2 : (h \o payload)[2 + i] = b[i]
  BY <1>7, <1>8, <1>9
<1>11. Wire(p) = h \o payload /\ Len(h) = 4
  BY <1>6, <1>7 DEF h
<1> QED
  BY <1>3, <1>8, <1>10, <1>11 DEF h, a, b, payload, Stream

\* A payload is decoded only when it holds the whole message.
LEMMA PayloadDecoded ==
  ASSUME NEW p \in Packets, DecodeLogin[Payload(p)].ok
  PROVE  p.pad >= 0 /\ DecodeLogin[Payload(p)].val = p.body
<1> DEFINE body == EncodeLogin(p.body)
<1>1. p.body \in Logins /\ p.pad \in Int
  BY DEF Packets
<1>2. /\ body \in Seq(Byte) /\ Len(body) \in Nat /\ Len(body) > 0
      /\ Reads(DecodeLogin, body, p.body) /\ FailsCut(DecodeLogin, body)
  BY <1>1, ReadsLogin, LenProperties DEF Stream
<1> HIDE DEF body
<1>3. CASE p.pad >= 0
  <2> DEFINE zeros == [i \in 1..p.pad |-> 0]
  <2>1. zeros \in Stream
    BY <1>1, <1>3 DEF Byte, Stream
  <2> HIDE DEF zeros
  <2>2. DecodeLogin[body \o zeros] = [ok |-> TRUE, val |-> p.body, rest |-> zeros]
    BY <1>2, <2>1 DEF Reads
  <2>3. Payload(p) = body \o zeros
    BY <1>3 DEF Payload, zeros, body
  <2> QED
    BY <1>3, <2>2, <2>3
<1>4. CASE p.pad < 0
  <2> DEFINE k == Len(body) + p.pad
             c == IF k >= 0 THEN k ELSE 0
  <2>1. k \in Int /\ c \in 0..(Len(body) - 1)
    BY <1>1, <1>2, <1>4
  <2>2. SubSeq(body, 1, k) = SubSeq(body, 1, c)
    <3>1. CASE k >= 0
      BY <3>1
    <3>2. CASE k < 0
      <4>1. c = 0
        BY <2>1, <3>2
      <4> HIDE DEF c, k
      <4>2. SubSeq(body, 1, k) = <<>> /\ SubSeq(body, 1, c) = <<>>
        BY <2>1, <3>2, <4>1, SubSeqEmpty
      <4> QED
        BY <4>2
    <3> QED
      BY <2>1, <3>1, <3>2
  <2>3. Payload(p) = SubSeq(body, 1, k)
    BY <1>1, <1>4 DEF Payload, body
  <2> HIDE DEF k, c
  <2>4. DecodeLogin[SubSeq(body, 1, c)].ok = FALSE
    BY <1>2, <2>1 DEF FailsCut
  <2> QED
    BY <2>2, <2>3, <2>4
<1> QED
  BY <1>1, <1>3, <1>4

\* What is left behind some bytes.
LEMMA DropStream ==
  ASSUME NEW b \in Stream, NEW n \in 0..Len(b)
  PROVE  /\ Drop(b, n) \in Stream /\ Len(Drop(b, n)) = Len(b) - n
         /\ \A i \in 1..(Len(b) - n) : Drop(b, n)[i] = b[n + i]
<1>1. b \in Seq(Byte)
  BY DEF Stream
<1> QED
  BY <1>1, CutInTwo DEF Drop, Stream

\* A message that recvMessage finds in front of a stream of packets is the first
\* of them, whole, of the right kind and size.
LEMMA Framing ==
  ASSUME ConnectionAssumption, NEW p \in Packets, Len(Wire(p)) - 4 \in Shorts,
         NEW b \in Stream, NEW x \in Stream, NEW y \in Stream,
         b \o x = Wire(p) \o y, RecvMessage[b].res = "MESSAGE_READY"
  PROVE  /\ RecvMessage[b].size = Len(Wire(p)) /\ RecvMessage[b].size \in 0..Len(b)
         /\ SubSeq(b, 1, RecvMessage[b].size) = Wire(p)
         /\ p.id = LoginId /\ p.pad >= 0 /\ RecvMessage[b].msg = p.body
         /\ Len(Wire(p)) <= MaxPacketLength
<1> DEFINE w == Wire(p)
           pay == Payload(p)
           L == Len(pay)
           length == ReadInt16[Drop(b, 2)]
           id == ReadInt16[b]
           body == DecodeLogin[SubSeq(b, 5, 4 + length.val)]
<1>1. /\ pay \in Stream /\ w \in Stream /\ Len(w) = 4 + L
      /\ \A i \in 1..2 : w[i] = Int16(p.id)[i]
      /\ \A i \in 1..2 : w[2 + i] = Int16(L)[i]
      /\ w = (Int16(p.id) \o Int16(L)) \o pay
      /\ Len(Int16(p.id) \o Int16(L)) = 4
  BY WireShape
<1> HIDE DEF w, pay
<1>2. /\ L \in Nat /\ L \in Shorts /\ p.id \in Nat /\ p.id \in Shorts
      /\ Len(b) \in Nat /\ Len(x) \in Nat /\ Len(y) \in Nat
  <2>1. L \in Nat
    BY <1>1, LenProperties DEF Stream
  <2>2. L = Len(w) - 4
    BY <1>1, <2>1
  <2> QED
    BY <2>1, <2>2, IntsAreNat, LenProperties DEF Packets, Stream, w
<1>0. Len(w) \in Nat /\ Len(w) >= 4 /\ Len(w) = 4 + L
  BY <1>1, <1>2
<1>3. RecvMessage[b] =
        IF ~length.ok THEN Waiting
        ELSE IF length.val + 4 > MaxPacketLength THEN Err
        ELSE IF Len(b) < length.val + 4 THEN Waiting
        ELSE IF id.val # LoginId \/ ~body.ok THEN Err
        ELSE [res |-> "MESSAGE_READY", msg |-> body.val, size |-> length.val + 4]
  BY DEF RecvMessage
<1> HIDE DEF length, id, body
<1>4. Waiting.res # "MESSAGE_READY" /\ Err.res # "MESSAGE_READY"
  BY DEF Waiting, Err
<1>5. /\ length.ok /\ ~(length.val + 4 > MaxPacketLength) /\ ~(Len(b) < length.val + 4)
      /\ id.val = LoginId /\ body.ok
      /\ RecvMessage[b].msg = body.val /\ RecvMessage[b].size = length.val + 4
  <2>1. length.ok
    BY <1>3, <1>4
  <2>2. ~(length.val + 4 > MaxPacketLength)
    BY <1>3, <1>4, <2>1
  <2>3. ~(Len(b) < length.val + 4)
    BY <1>3, <1>4, <2>1, <2>2
  <2>4. ~(id.val # LoginId \/ ~body.ok)
    BY <1>3, <1>4, <2>1, <2>2, <2>3
  <2>5. RecvMessage[b] =
          [res |-> "MESSAGE_READY", msg |-> body.val, size |-> length.val + 4]
    BY <1>3, <2>1, <2>2, <2>3, <2>4
  <2> QED
    BY <2>1, <2>2, <2>3, <2>4, <2>5
\* The two streams agree.
<1>6. ASSUME NEW i \in Nat, 1 <= i, i <= Len(b), i <= Len(w) PROVE b[i] = w[i]
  <2>1. \A j \in 1..(Len(b) + Len(x)) : (b \o x)[j] = IF j <= Len(b) THEN b[j] ELSE x[j - Len(b)]
    BY ConcatProperties DEF Stream
  <2>2. \A j \in 1..(Len(w) + Len(y)) : (w \o y)[j] = IF j <= Len(w) THEN w[j] ELSE y[j - Len(w)]
    <3>1. w \in Seq(Byte) /\ y \in Seq(Byte)
      BY <1>1 DEF Stream
    <3> QED
      BY <3>1, ConcatProperties
  <2>3. i \in 1..(Len(b) + Len(x)) /\ i \in 1..(Len(w) + Len(y))
    <3>1. i <= Len(b) + Len(x) /\ i <= Len(w) + Len(y)
      BY <1>2, <1>0, <1>6, SMTT(60)
    <3> QED
      BY <1>0, <1>2, <1>6, <3>1
  <2>4. b \o x = w \o y
    BY DEF w
  <2> QED
    BY <1>6, <2>1, <2>2, <2>3, <2>4
<1>7. Len(b) >= 4
  <2>1. CASE Len(b) < 2
    <3>1. Drop(b, 2) = <<>>
      BY <1>2, <2>1, SubSeqEmpty DEF Drop
    <3>2. <<>> \in Stream /\ Len(<<>>) = 0
      BY DEF Stream
    <3>3. ReadInt16[<<>>] = Short
      BY <3>2, ShortInts
    <3> QED
      BY <1>5, <3>1, <3>3, ReadNothing DEF length
  <2>2. CASE Len(b) >= 2 /\ Len(b) < 4
    <3>1. Drop(b, 2) \in Stream /\ Len(Drop(b, 2)) = Len(b) - 2
      <4>1. 2 \in 0..Len(b)
        BY <1>2, <2>2
      <4> QED
        BY <4>1, DropStream
    <3>2. Len(Drop(b, 2)) < 2
      BY <1>2, <2>2, <3>1
    <3>3. ReadInt16[Drop(b, 2)] = Short
      BY <3>1, <3>2, ShortInts
    <3> QED
      BY <1>5, <3>3, ReadNothing DEF length
  <2> QED
    BY <1>2, <2>1, <2>2
<1>8. length.val = L
  <2> DEFINE d == Drop(b, 2)
  <2>1. d \in Stream /\ Len(d) = Len(b) - 2 /\ d[1] = b[3] /\ d[2] = b[4]
    <3>1. 2 \in 0..Len(b)
      BY <1>2, <1>7
    <3>2. /\ d \in Stream /\ Len(d) = Len(b) - 2
          /\ \A i \in 1..(Len(b) - 2) : d[i] = b[2 + i]
      BY <3>1, DropStream
    <3>3. 1 \in 1..(Len(b) - 2) /\ 2 \in 1..(Len(b) - 2) /\ 2 + 1 = 3 /\ 2 + 2 = 4
      BY <1>2, <1>7
    <3> HIDE DEF d
    <3> QED
      BY <3>2, <3>3
  <2> HIDE DEF d
  <2>2. ~(Len(d) < 2)
    BY <1>2, <1>7, <2>1
  <2>3. ReadInt16[d] = Found(d[1] * 256 + d[2], d, 2)
    BY <2>1, <2>2 DEF ReadInt16
  <2>4. length.val = d[1] * 256 + d[2]
    BY <2>3 DEF Found, length, d
  <2>5. b[3] = w[3] /\ b[4] = w[4] /\ w[3] = Int16(L)[1] /\ w[4] = Int16(L)[2]
    <3>1. 3 \in Nat /\ 4 \in Nat /\ 4 <= Len(b) /\ 4 <= Len(w) /\ 3 <= Len(b) /\ 3 <= Len(w)
      BY <1>0, <1>2, <1>7
    <3>2. b[3] = w[3] /\ b[4] = w[4]
      BY <1>6, <3>1
    <3>3. w[2 + 1] = Int16(L)[1] /\ w[2 + 2] = Int16(L)[2]
      BY <1>1, SMTT(60)
    <3> QED
      BY <3>2, <3>3
  <2>6. Int16(L)[1] = (L \div 256) % 256 /\ Int16(L)[2] = L % 256
    BY <1>2, IntBytes
  <2>7. ((L \div 256) % 256) * 256 + (L % 256) = L
    <3>1. \A v \in Shorts : ((v \div 256) % 256) * 256 + (v % 256) = v
      BY BigEndian
    <3> QED
      BY <1>2, <3>1
  <2> QED
    BY <2>1, <2>4, <2>5, <2>6, <2>7
<1>9. id.val = p.id
  <2>1. ~(Len(b) < 2)
    BY <1>2, <1>7
  <2>2. ReadInt16[b] = Found(b[1] * 256 + b[2], b, 2)
    BY <2>1 DEF ReadInt16
  <2>3. id.val = b[1] * 256 + b[2]
    BY <2>2 DEF Found, id
  <2>4. b[1] = w[1] /\ b[2] = w[2] /\ w[1] = Int16(p.id)[1] /\ w[2] = Int16(p.id)[2]
    <3>1. 1 \in Nat /\ 2 \in Nat /\ 2 <= Len(b) /\ 2 <= Len(w) /\ 1 <= Len(b) /\ 1 <= Len(w)
      BY <1>0, <1>2, <1>7, SMTT(60)
    <3>2. b[1] = w[1] /\ b[2] = w[2]
      BY <1>6, <3>1
    <3>3. w[1] = Int16(p.id)[1] /\ w[2] = Int16(p.id)[2]
      BY <1>1, SMTT(60)
    <3> QED
      BY <3>2, <3>3
  <2>5. Int16(p.id)[1] = (p.id \div 256) % 256 /\ Int16(p.id)[2] = p.id % 256
    BY <1>2, IntBytes, ZenonT(60)
  <2>6. ((p.id \div 256) % 256) * 256 + (p.id % 256) = p.id
    <3>1. \A v \in Shorts : ((v \div 256) % 256) * 256 + (v % 256) = v
      BY BigEndian
    <3> QED
      BY <1>2, <3>1, ZenonT(60)
  <2> QED
    BY <2>3, <2>4, <2>5, <2>6
<1>10. L + 4 = Len(w) /\ Len(w) <= Len(b) /\ Len(w) \in 0..Len(b)
  <2>1. ~(Len(b) < L + 4)
    BY <1>5, <1>8
  <2> QED
    BY <1>0, <1>2, <2>1
<1>11. SubSeq(b, 1, Len(w)) = w
  <2>1. b \in Seq(Byte) /\ w \in Seq(Byte)
    BY <1>1 DEF Stream
  <2>2. /\ SubSeq(b, 1, Len(w)) \in Seq(Byte) /\ Len(SubSeq(b, 1, Len(w))) = Len(w)
        /\ \A i \in 1..Len(w) : SubSeq(b, 1, Len(w))[i] = b[i]
    BY <1>10, <2>1, CutInTwo
  <2>3. \A i \in 1..Len(w) : b[i] = w[i]
    <3>1. ASSUME NEW i \in 1..Len(w) PROVE b[i] = w[i]
      <4>1. i \in Nat /\ 1 <= i /\ i <= Len(b) /\ i <= Len(w)
        BY <1>1, <1>2, <1>10
      <4> QED
        BY <1>6, <4>1
    <3> QED
      BY <3>1
  <2> QED
    BY <2>1, <2>2, <2>3, SeqEqual
<1>12. SubSeq(b, 5, 4 + L) = pay
  <2>1. b \in Seq(Byte) /\ w \in Seq(Byte) /\ pay \in Seq(Byte)
    BY <1>1 DEF Stream
  <2> DEFINE q == SubSeq(b, 5, 4 + L)
  <2>2. /\ q \in Seq(Byte) /\ Len(q) = L /\ \A i \in 1..L : q[i] = b[4 + i]
    <3>1. \A i \in 5..(4 + L) : b[i] \in Byte
      <4>1. \A i \in 5..(4 + L) : i \in 1..Len(b)
        BY <1>1, <1>2, <1>10
      <4> QED
        BY <2>1, <4>1, ElementOfSeq
    <3>2. /\ q \in Seq(Byte) /\ Len(q) = IF 5 <= 4 + L THEN (4 + L) - 5 + 1 ELSE 0
          /\ \A i \in 1..((4 + L) - 5 + 1) : q[i] = b[5 + i - 1]
      BY <1>2, <3>1, SubSeqProperties
    <3>3. (4 + L) - 5 + 1 = L /\ \A i \in 1..L : 5 + i - 1 = 4 + i
      BY <1>2
    <3>4. (IF 5 <= 4 + L THEN L ELSE 0) = L
      BY <1>2
    <3> HIDE DEF q
    <3> QED
      BY <3>2, <3>3, <3>4
  <2> HIDE DEF q
  <2> DEFINE h == Int16(p.id) \o Int16(L)
  <2>3. h \in Seq(Byte)
    <3>1. Int16(p.id) \in Seq(Byte) /\ Int16(L) \in Seq(Byte)
      BY <1>2, IntBytes DEF Stream
    <3> QED
      BY <3>1, ConcatProperties
  <2>4. w = h \o pay /\ Len(h) = 4
    BY <1>1
  <2> HIDE DEF h
  <2>5. \A i \in 1..(4 + L) : w[i] = IF i <= 4 THEN h[i] ELSE pay[i - 4]
    <3> DEFINE n == Len(h)
    <3>1. n = 4
      BY <2>4
    <3>2. \A i \in 1..(n + L) : (h \o pay)[i] = IF i <= n THEN h[i] ELSE pay[i - n]
      BY <2>1, <2>3, ConcatProperties
    <3> HIDE DEF n
    <3> QED
      BY <2>4, <3>1, <3>2
  <2>6. \A i \in 1..L : q[i] = pay[i]
    <3>1. ASSUME NEW i \in 1..L PROVE q[i] = pay[i]
      <4>1. /\ 4 + i \in 1..(4 + L) /\ ~(4 + i <= 4) /\ (4 + i) - 4 = i
            /\ 4 + i \in Nat /\ 1 <= 4 + i /\ 4 + i <= Len(b) /\ 4 + i <= Len(w)
        BY <1>1, <1>2, <1>10
      <4>2. b[4 + i] = w[4 + i]
        BY <1>6, <4>1
      <4> QED
        BY <2>2, <2>5, <4>1, <4>2
    <3> QED
      BY <3>1
  <2> QED
    BY <2>1, <2>2, <2>6, SeqEqual DEF q
<1>13. body = DecodeLogin[pay]
  BY <1>8, <1>12 DEF body
<1>14. p.pad >= 0 /\ body.val = p.body
  BY <1>5, <1>13, PayloadDecoded DEF pay
<1>15. Len(w) <= MaxPacketLength
  <2>1. MaxPacketLength \in Nat /\ ~(L + 4 > MaxPacketLength)
    BY <1>5, <1>8 DEF ConnectionAssumption
  <2> QED
    BY <1>2, <1>10, <2>1
<1>16. RecvMessage[b].size = Len(w)
  BY <1>5, <1>8, <1>10
<1> QED
  BY <1>5, <1>9, <1>10, <1>11, <1>14, <1>15, <1>16 DEF w

\* The bytes of packets are those of each,
LEMMA BytesType ==
  ASSUME NEW s \in Seq(Packets)
  PROVE  Bytes(s) \in Stream
<1> DEFINE ws == [i \in DOMAIN s |-> Wire(s[i])]
<1>1. DOMAIN s = 1..Len(s) /\ Len(s) \in Nat /\ \A i \in 1..Len(s) : s[i] \in Packets
  BY LenProperties
<1>2. \A i \in 1..Len(s) : Wire(s[i]) \in Stream
  BY <1>1, WireShape
<1>3. ws \in Seq(Stream)
  <2>1. ws \in [1..Len(s) -> Stream]
    BY <1>1, <1>2
  <2> HIDE DEF ws
  <2> QED
    BY <1>1, <2>1
<1> HIDE DEF ws
<1>4. FlattenSeq(ws) \in Stream
  BY <1>3, FlattenType DEF Stream
<1> QED
  BY <1>4 DEF Bytes, ws

\* one after the other,
LEMMA BytesConcat ==
  ASSUME NEW s \in Seq(Packets), NEW t \in Seq(Packets)
  PROVE  Bytes(s \o t) = Bytes(s) \o Bytes(t)
<1> DEFINE Wires(q) == [i \in DOMAIN q |-> Wire(q[i])]
           u == s \o t
           a == Len(s)
           b == Len(t)
<1>1. ASSUME NEW q \in Seq(Packets)
      PROVE  /\ DOMAIN q = 1..Len(q) /\ Len(q) \in Nat
             /\ Wires(q) \in Seq(Stream) /\ Len(Wires(q)) = Len(q)
             /\ \A i \in 1..Len(q) : Wires(q)[i] = Wire(q[i])
  <2> DEFINE ws == Wires(q)
  <2>1. DOMAIN q = 1..Len(q) /\ Len(q) \in Nat /\ \A i \in 1..Len(q) : q[i] \in Packets
    BY LenProperties
  <2>2. \A i \in 1..Len(q) : Wire(q[i]) \in Stream
    BY <2>1, WireShape
  <2>3. ws \in [1..Len(q) -> Stream] /\ \A i \in 1..Len(q) : ws[i] = Wire(q[i])
    BY <2>1, <2>2
  <2> HIDE DEF ws
  <2>4. ws \in Seq(Stream) /\ Len(ws) = Len(q)
    BY <2>1, <2>3
  <2> QED
    BY <2>1, <2>3, <2>4 DEF ws
<1>2. /\ u \in Seq(Packets) /\ Len(u) = a + b
      /\ \A i \in 1..(a + b) : u[i] = IF i <= a THEN s[i] ELSE t[i - a]
  BY ConcatProperties
<1>3. /\ Wires(s) \in Seq(Stream) /\ Len(Wires(s)) = a /\ a \in Nat
      /\ Wires(t) \in Seq(Stream) /\ Len(Wires(t)) = b /\ b \in Nat
      /\ Wires(u) \in Seq(Stream) /\ Len(Wires(u)) = a + b
      /\ \A i \in 1..a : Wires(s)[i] = Wire(s[i])
      /\ \A i \in 1..b : Wires(t)[i] = Wire(t[i])
      /\ \A i \in 1..(a + b) : Wires(u)[i] = Wire(u[i])
  BY <1>1, <1>2
<1> HIDE DEF Wires, u, a, b
<1>4. Wires(u) = Wires(s) \o Wires(t)
  <2> DEFINE v == Wires(s)
             w == Wires(t)
             z == Wires(u)
  <2>1. /\ v \in Seq(Stream) /\ w \in Seq(Stream) /\ z \in Seq(Stream)
        /\ Len(v) = a /\ Len(w) = b /\ Len(z) = a + b
    BY <1>3
  <2> HIDE DEF v, w, z
  <2>2. /\ v \o w \in Seq(Stream) /\ Len(v \o w) = a + b
        /\ \A i \in 1..(a + b) : (v \o w)[i] = IF i <= a THEN v[i] ELSE w[i - a]
    BY <2>1, ConcatProperties
  <2>3. \A i \in 1..(a + b) : z[i] = (v \o w)[i]
    <3>1. ASSUME NEW i \in 1..(a + b) PROVE z[i] = (v \o w)[i]
      <4>1. z[i] = Wire(u[i])
        BY <1>3 DEF z
      <4>2. CASE i <= a
        <5>1. i \in 1..a
          BY <1>3, <4>2
        <5>2. v[i] = Wire(s[i])
          BY <1>3, <5>1 DEF v
        <5> QED
          BY <1>2, <2>2, <4>1, <4>2, <5>2
      <4>3. CASE ~(i <= a)
        <5>1. i - a \in 1..b
          BY <1>3, <4>3
        <5>2. w[i - a] = Wire(t[i - a])
          BY <1>3, <5>1 DEF w
        <5> QED
          BY <1>2, <2>2, <4>1, <4>3, <5>2
      <4> QED
        BY <4>2, <4>3
    <3> QED
      BY <3>1
  <2>4. z = v \o w
    BY <2>1, <2>2, <2>3, SeqEqual
  <2> QED
    BY <2>4 DEF v, w, z
<1>5. FlattenSeq(Wires(s) \o Wires(t)) = FlattenSeq(Wires(s)) \o FlattenSeq(Wires(t))
  BY <1>3, FlattenConcat DEF Stream
<1> QED
  BY <1>4, <1>5 DEF Bytes, Wires, u

\* and nothing when there are none.
LEMMA BytesOfOne ==
  /\ Bytes(<<>>) = <<>>
  /\ \A p \in Packets : Bytes(<<p>>) = Wire(p)
<1>1. Bytes(<<>>) = <<>>
  <2>1. [i \in DOMAIN <<>> |-> Wire((<<>>)[i])] = <<>>
    OBVIOUS
  <2>2. FlattenSeq(<<>>) = <<>>
    BY DEF FlattenSeq
  <2> QED
    BY <2>1, <2>2 DEF Bytes
<1>2. ASSUME NEW p \in Packets PROVE Bytes(<<p>>) = Wire(p)
  <2> DEFINE w == Wire(p)
  <2>1. w \in Stream
    BY WireShape
  <2>2. [i \in DOMAIN <<p>> |-> Wire((<<p>>)[i])] = <<w>>
    OBVIOUS
  <2> HIDE DEF w
  <2>3. /\ <<>> \in Seq(Stream) /\ Append(<<>>, w) = <<w>>
    BY <2>1
  <2>4. FlattenSeq(Append(<<>>, w)) = FlattenSeq(<<>>) \o w
    BY <2>1, <2>3, FlattenAppend DEF Stream
  <2>5. FlattenSeq(<<>>) = <<>>
    BY DEF FlattenSeq
  <2>6. <<>> \o w = w
    BY <2>1, ConcatEmptySeq DEF Stream
  <2> QED
    BY <2>2, <2>3, <2>4, <2>5, <2>6 DEF Bytes, w
<1> QED
  BY <1>1, <1>2

\* A stream of packets at one of them.
LEMMA BytesAt ==
  ASSUME NEW s \in Seq(Packets), NEW k \in Nat, k < Len(s)
  PROVE  /\ s[k + 1] \in Packets
         /\ SubSeq(s, 1, k) \in Seq(Packets) /\ SubSeq(s, k + 2, Len(s)) \in Seq(Packets)
         /\ Bytes(SubSeq(s, 1, k + 1)) = Bytes(SubSeq(s, 1, k)) \o Wire(s[k + 1])
         /\ Bytes(s) = Bytes(SubSeq(s, 1, k))
                         \o (Wire(s[k + 1]) \o Bytes(SubSeq(s, k + 2, Len(s))))
<1> DEFINE n == Len(s)
           p == s[k + 1]
           a == SubSeq(s, 1, k)
           b == SubSeq(s, k + 1, n)
           c == SubSeq(s, k + 2, n)
<1>1. /\ n \in Nat /\ k \in 0..n /\ k + 1 \in 0..n /\ k + 1 \in 1..n /\ 1 \in 1..n
      /\ k + 1 \in 1..n /\ n \in (k + 1)..n /\ (k + 1) - 1 = k /\ (k + 1) + 1 = k + 2
  BY LenProperties
<1>2. p \in Packets
  BY <1>1, ElementOfSeq
<1>3. a \in Seq(Packets) /\ b \in Seq(Packets) /\ s = a \o b
  BY <1>1, CutInTwo
<1>4. c \in Seq(Packets)
  <2>1. SubSeq(s, (k + 1) + 1, n) \in Seq(Packets)
    BY <1>1, CutInTwo
  <2> QED
    BY <1>1, <2>1
<1>5. SubSeq(s, 1, k + 1) = a \o <<p>>
  <2>1. SubSeq(s, 1, k + 1) = SubSeq(s, 1, (k + 1) - 1) \o <<s[k + 1]>>
    BY <1>1, SubSeqRecursiveSecond
  <2> QED
    BY <1>1, <2>1
<1>6. b = <<p>> \o c
  <2>1. SubSeq(s, k + 1, n) = <<s[k + 1]>> \o SubSeq(s, (k + 1) + 1, n)
    BY <1>1, SubSeqRecursiveFirst
  <2> QED
    BY <1>1, <2>1
<1> HIDE DEF n, p, a, b, c
<1>7. <<p>> \in Seq(Packets) /\ Bytes(<<p>>) = Wire(p)
  BY <1>2, BytesOfOne
<1>8. Bytes(a \o <<p>>) = Bytes(a) \o Wire(p)
  BY <1>3, <1>7, BytesConcat, ZenonT(60)
<1>9. Bytes(<<p>> \o c) = Wire(p) \o Bytes(c)
  BY <1>4, <1>7, BytesConcat
<1>10. Bytes(a \o b) = Bytes(a) \o Bytes(b)
  BY <1>3, BytesConcat
<1> QED
  BY <1>2, <1>3, <1>4, <1>5, <1>6, <1>8, <1>9, <1>10 DEF n, p, a, b, c

\* Streams regrouped.
LEMMA Regroup ==
  \A a, b, x \in Seq(Byte) : (a \o b) \o x = a \o (b \o x)
<1>1. ASSUME NEW a \in Seq(Byte), NEW b \in Seq(Byte), NEW x \in Seq(Byte)
      PROVE  (a \o b) \o x = a \o (b \o x)
  BY ConcatAssociative
<1> QED
  BY <1>1

\* Where the bytes of a stream of packets are, when some packets are passed on:
\* the rest is in the read buffer, the socket, and with the client.
Kept(st, k, b, x, y) == ((Bytes(SubSeq(st, 1, k)) \o b) \o x) \o y = Bytes(st)

\* Taking the message that recvMessage finds keeps the stream whole.
LEMMA PacketTaken ==
  ASSUME ConnectionAssumption, NEW st \in Seq(Packets),
         \A i \in DOMAIN st : Len(Wire(st[i])) - 4 \in Shorts,
         NEW k \in Nat, k <= Len(st),
         NEW b \in Stream, NEW x \in Stream, NEW y \in Stream,
         Kept(st, k, b, x, y), RecvMessage[b].res = "MESSAGE_READY"
  PROVE  /\ k < Len(st) /\ st[k + 1] \in Packets
         /\ RecvMessage[b].size \in 0..Len(b)
         /\ Kept(st, k + 1, SubSeq(b, RecvMessage[b].size + 1, Len(b)), x, y)
         /\ st[k + 1].id = LoginId /\ st[k + 1].pad >= 0
         /\ RecvMessage[b].msg = st[k + 1].body
         /\ Len(Wire(st[k + 1])) <= MaxPacketLength
<1> DEFINE n == Len(st)
           a == Bytes(SubSeq(st, 1, k))
           p == st[k + 1]
           w == Wire(p)
           c == Bytes(SubSeq(st, k + 2, n))
           size == RecvMessage[b].size
           d == SubSeq(b, size + 1, Len(b))
<1>0. n \in Nat /\ k \in 0..n /\ b \in Seq(Byte) /\ x \in Seq(Byte) /\ y \in Seq(Byte)
  BY LenProperties DEF Stream
<1>1. a \in Seq(Byte)
  <2>1. SubSeq(st, 1, k) \in Seq(Packets)
    BY <1>0, CutInTwo
  <2> QED
    BY <2>1, BytesType DEF Stream
<1>2. b \o x \in Seq(Byte) /\ x \o y \in Seq(Byte) /\ b \o (x \o y) \in Seq(Byte)
  <2>1. b \o x \in Seq(Byte) /\ x \o y \in Seq(Byte)
    BY <1>0, ConcatProperties
  <2> QED
    BY <1>0, <2>1, ConcatProperties
<1>3. ((a \o b) \o x) \o y = a \o (b \o (x \o y))
  <2>1. a \o b \in Seq(Byte)
    BY <1>0, <1>1, ConcatProperties
  <2> HIDE DEF a
  <2> DEFINE ab == a \o b
             xy == x \o y
  <2>2. xy \in Seq(Byte) /\ ab \in Seq(Byte)
    BY <1>2, <2>1
  <2> HIDE DEF ab, xy
  <2>3. (ab \o x) \o y = ab \o (x \o y)
    BY <1>0, <2>2, Regroup, ZenonT(60)
  <2>4. (a \o b) \o xy = a \o (b \o xy)
    BY <1>0, <1>1, <2>2, Regroup, SMTT(60)
  <2> QED
    BY <2>3, <2>4 DEF ab, xy
<1>4. k < n
  <2>1. SUFFICES ASSUME k = n PROVE FALSE
    BY <1>0
  <2>2. SubSeq(st, 1, k) = st
    BY <2>1, SubSeqFull
  <2>3. Bytes(st) = a \o (b \o (x \o y)) /\ a = Bytes(st)
    BY <1>3, <2>2 DEF Kept
  <2>4. b \o (x \o y) = <<>>
    BY <1>1, <1>2, <2>3, ConcatEqualIffEmpty
  <2>5. b = <<>>
    BY <1>0, <1>2, <2>4, ConcatEqualIffEmpty
  <2>6. Drop(<<>>, 2) = <<>>
    BY SubSeqEmpty DEF Drop
  <2>7. <<>> \in Stream /\ Len(<<>>) = 0
    BY DEF Stream
  <2>8. ReadInt16[<<>>] = Short
    BY <2>7, ShortInts
  <2>9. RecvMessage[<<>>] = Waiting
    BY <2>6, <2>7, <2>8, ReadNothing DEF RecvMessage
  <2> QED
    BY <2>5, <2>9 DEF Waiting
<1>5. /\ p \in Packets /\ Bytes(SubSeq(st, 1, k + 1)) = a \o w
      /\ Bytes(st) = a \o (w \o c) /\ SubSeq(st, k + 2, n) \in Seq(Packets)
  BY <1>4, BytesAt
<1>6. w \in Seq(Byte) /\ c \in Seq(Byte)
  BY <1>5, WireShape, BytesType DEF Stream
<1>7. w \o c \in Seq(Byte)
  BY <1>6, ConcatProperties
<1>8. a \o (b \o (x \o y)) = a \o (w \o c)
  BY <1>3, <1>5 DEF Kept
<1> HIDE DEF a, c
<1>9. b \o (x \o y) = w \o c
  BY <1>1, <1>2, <1>7, <1>8, ConcatSimplifications, ZenonT(60)
<1>10. Len(w) - 4 \in Shorts
  <2>1. k + 1 \in DOMAIN st
    BY <1>0, <1>4, LenProperties
  <2> QED
    BY <2>1
<1>11. /\ size = Len(w) /\ size \in 0..Len(b) /\ SubSeq(b, 1, size) = w
       /\ p.id = LoginId /\ p.pad >= 0 /\ RecvMessage[b].msg = p.body
       /\ Len(w) <= MaxPacketLength
  <2>1. x \o y \in Stream /\ c \in Stream
    BY <1>2, <1>6 DEF Stream
  <2> HIDE DEF p
  <2> QED
    BY <1>5, <1>9, <1>10, <2>1, Framing, ZenonT(60)
<1>12. b = w \o d /\ d \in Seq(Byte)
  <2> HIDE DEF size
  <2>1. b = SubSeq(b, 1, size) \o d /\ d \in Seq(Byte)
    BY <1>0, <1>11, CutInTwo
  <2> QED
    BY <1>11, <2>1
<1> HIDE DEF d, w
<1>13. a \o b = (a \o w) \o d
  <2>1. (a \o w) \o d = a \o (w \o d)
    BY <1>1, <1>6, <1>12, Regroup, SMTT(60)
  <2> QED
    BY <1>12, <2>1
<1>14. Kept(st, k + 1, d, x, y)
  BY <1>5, <1>13 DEF Kept, a
<1> QED
  BY <1>4, <1>5, <1>11, <1>14 DEF d, w

-----------------------------------------------------------------------------
(* The invariants *)

Commands == [type : {"CLOSE"}] \cup [type : {"MESSAGE"}, msg : Logins]

\* The types of the variables and of the histories,
Types ==
  /\ stream \in Streams /\ toWrite \in Stream
  /\ inSock \in Stream /\ outSock \in Stream /\ received \in Stream
  /\ accepted \in Stream /\ told \in Seq(Commands)
  /\ TypeOK

\* what the main loop is told: only a connection that is not gone is handled,
\* so that nothing is told once CLOSE was,
ToldInv == (pc # "wait" => status # "GONE") /\ CloseToldLast

\* and what was read: the messages are those of the first packets, whole.
ReadInv == Len(Messages) <= Len(stream) /\ BytesKept /\ MessagesAsWritten

MessagesOf(l) ==
  FlattenSeq([i \in DOMAIN l |-> IF l[i].type = "MESSAGE" THEN <<l[i]>> ELSE <<>>])

\* The messages among the commands.
LEMMA MessagesAppend ==
  ASSUME NEW l \in Seq(Commands), NEW c \in Commands
  PROVE  /\ MessagesOf(l) \in Seq(Commands)
         /\ c.type = "MESSAGE" => MessagesOf(Append(l, c)) = Append(MessagesOf(l), c)
         /\ c.type # "MESSAGE" => MessagesOf(Append(l, c)) = MessagesOf(l)
<1> DEFINE Piece(d) == IF d.type = "MESSAGE" THEN <<d>> ELSE <<>>
           Pieces(q) == [i \in DOMAIN q |-> Piece(q[i])]
           r == Append(l, c)
           n == Len(l)
<1>1. ASSUME NEW d \in Commands PROVE Piece(d) \in Seq(Commands)
  OBVIOUS
<1>2. ASSUME NEW q \in Seq(Commands)
      PROVE  /\ Len(q) \in Nat /\ Pieces(q) \in Seq(Seq(Commands)) /\ Len(Pieces(q)) = Len(q)
             /\ \A i \in 1..Len(q) : Pieces(q)[i] = Piece(q[i])
  <2> DEFINE ps == Pieces(q)
  <2>1. DOMAIN q = 1..Len(q) /\ Len(q) \in Nat /\ \A i \in 1..Len(q) : q[i] \in Commands
    BY LenProperties
  <2>2. \A i \in 1..Len(q) : Piece(q[i]) \in Seq(Commands)
    BY <1>1, <2>1
  <2> HIDE DEF Piece
  <2>3. /\ ps \in [1..Len(q) -> Seq(Commands)]
        /\ \A i \in 1..Len(q) : ps[i] = Piece(q[i])
    BY <2>1, <2>2
  <2> HIDE DEF ps
  <2>4. ps \in Seq(Seq(Commands)) /\ Len(ps) = Len(q)
    BY <2>1, <2>3
  <2> QED
    BY <2>1, <2>3, <2>4 DEF ps
<1>3. /\ r \in Seq(Commands) /\ Len(r) = n + 1 /\ r[n + 1] = c
      /\ \A i \in 1..n : r[i] = l[i]
  BY AppendProperties
<1>4. Piece(c) \in Seq(Commands)
  BY <1>1
<1>5. MessagesOf(l) = FlattenSeq(Pieces(l)) /\ MessagesOf(r) = FlattenSeq(Pieces(r))
  BY DEF MessagesOf
<1>6. /\ Pieces(l) \in Seq(Seq(Commands)) /\ Len(Pieces(l)) = n /\ n \in Nat
      /\ Pieces(r) \in Seq(Seq(Commands)) /\ Len(Pieces(r)) = n + 1
      /\ \A i \in 1..n : Pieces(l)[i] = Piece(l[i])
      /\ \A i \in 1..(n + 1) : Pieces(r)[i] = Piece(r[i])
  BY <1>2, <1>3
<1>7. c.type = "MESSAGE" => Piece(c) = <<c>>
  OBVIOUS
<1>8. c.type # "MESSAGE" => Piece(c) = <<>>
  OBVIOUS
<1> DEFINE ps == Pieces(l)
           qs == Pieces(r)
           e == Piece(c)
<1>9. /\ ps \in Seq(Seq(Commands)) /\ Len(ps) = n
      /\ qs \in Seq(Seq(Commands)) /\ Len(qs) = n + 1 /\ e \in Seq(Commands)
      /\ \A i \in 1..n : qs[i] = ps[i]
      /\ qs[n + 1] = e
  <2>1. \A i \in 1..n : i \in 1..(n + 1)
    BY <1>6
  <2>2. n + 1 \in 1..(n + 1)
    BY <1>6
  <2>3. \A i \in 1..n : Piece(r[i]) = Piece(l[i])
    BY <1>3
  <2>4. Piece(r[n + 1]) = Piece(c)
    BY <1>3
  <2> HIDE DEF Piece, Pieces
  <2> QED
    BY <1>3, <1>4, <1>6, <2>1, <2>2, <2>3, <2>4
<1> HIDE DEF ps, qs, e, Piece, Pieces, r
<1>10. qs = Append(ps, e)
  <2>1. /\ Append(ps, e) \in Seq(Seq(Commands)) /\ Len(Append(ps, e)) = n + 1
        /\ \A i \in 1..n : Append(ps, e)[i] = ps[i]
        /\ Append(ps, e)[n + 1] = e
    BY <1>9, AppendProperties
  <2>2. \A i \in 1..(n + 1) : i \in 1..n \/ i = n + 1
    BY <1>6
  <2>3. \A i \in 1..(n + 1) : qs[i] = Append(ps, e)[i]
    BY <1>9, <2>1, <2>2
  <2> DEFINE as == Append(ps, e)
  <2> HIDE DEF as
  <2> QED
    BY <1>9, <2>1, <2>3, SeqEqual DEF as
<1>11. FlattenSeq(qs) = FlattenSeq(ps) \o e
  BY <1>9, <1>10, FlattenAppend
<1>12. MessagesOf(l) \in Seq(Commands)
  BY <1>5, <1>9, FlattenType DEF ps
<1>13. MessagesOf(r) = MessagesOf(l) \o e
  BY <1>5, <1>11 DEF ps, qs
<1>14. ASSUME c.type = "MESSAGE" PROVE MessagesOf(r) = Append(MessagesOf(l), c)
  <2>1. MessagesOf(l) \o <<c>> = Append(MessagesOf(l), c)
    BY <1>12, AppendIsConcat
  <2> QED
    BY <1>7, <1>13, <1>14, <2>1 DEF e
<1>15. ASSUME c.type # "MESSAGE" PROVE MessagesOf(r) = MessagesOf(l)
  <2>1. MessagesOf(l) \o <<>> = MessagesOf(l)
    BY <1>12, ConcatEmptySeq
  <2> QED
    BY <1>8, <1>13, <1>15, <2>1 DEF e
<1> QED
  BY <1>12, <1>14, <1>15 DEF r

\* The packets of the clients, and the sizes of buffers.
LEMMA Assumed ==
  ASSUME ConnectionAssumption, BufferAssumption, PacketAssumption, stream \in Streams
  PROVE  /\ stream \in Seq(Packets)
         /\ \A i \in DOMAIN stream : Len(Wire(stream[i])) - 4 \in Shorts
         /\ MaxPacketLength \in Nat /\ EncodeSize \in Nat /\ RecvMax \in Nat
         /\ SendMax \in Nat /\ SockSize \in Nat /\ MaxSends \in Nat
         /\ RecvMax + 2 * ExpandSize < Word /\ SendMax + 2 * ExpandSize < Word
         /\ ExpandSize \in Nat /\ Word \in Nat /\ LoginId \in Nat
BY IntsAreNat DEF ConnectionAssumption, BufferAssumption, PacketAssumption, Packets

\* The beginning.
LEMMA InitInvs ==
  ASSUME ConnectionAssumption, BufferAssumption, PacketAssumption, Init
  PROVE  Types /\ ToldInv /\ ReadInv /\ OutboundInOrder
<1>1. stream \in Streams
  BY DEF Init
<1>2. /\ stream \in Seq(Packets) /\ RecvMax \in Nat /\ SendMax \in Nat
      /\ SockSize \in Nat /\ MaxSends \in Nat
  BY <1>1, Assumed
<1>3. toWrite \in Stream /\ <<>> \in Stream /\ <<>> \in Seq(Commands) /\ Len(<<>>) = 0
  BY <1>2, BytesType DEF Init, Stream
<1>4. IsBuffer(NewBuffer) /\ NewBuffer.data = <<>>
  BY DEF NewBuffer, IsBuffer, Writable, BufferAssumption
<1>5. TypeOK
  <2>1. IsBuffer(readBuffer) /\ IsBuffer(writeBuffer)
    BY <1>4 DEF Init
  <2>2. Len(readBuffer.data) = 0 /\ Len(writeBuffer.data) = 0 /\ Len(outSock) = 0
    BY <1>3, <1>4 DEF Init
  <2>3. sends \in 0..MaxSends /\ 0 <= RecvMax /\ 0 <= SendMax /\ 0 <= SockSize
    BY <1>2 DEF Init
  <2>4. {arrived, hup, timer} \subseteq BOOLEAN
    BY DEF Init
  <2>5. /\ peer \in {"open", "closed", "reset"}
        /\ status \in {"CONNECTED", "PENDING_ERROR", "GONE"}
        /\ pc \in {"wait", "read", "decode", "decodeClose"}
    BY DEF Init
  <2> QED
    BY <2>1, <2>2, <2>3, <2>4, <2>5 DEF TypeOK
<1>6. Types
  BY <1>1, <1>3, <1>5 DEF Init, Types
<1>7. ToldInv
  BY DEF Init, ToldInv, CloseToldLast
<1>8. Messages = <<>>
  <2>1. told = <<>>
    BY DEF Init
  <2>2. [i \in DOMAIN <<>> |-> IF (<<>>)[i].type = "MESSAGE" THEN <<(<<>>)[i]>> ELSE <<>>] = <<>>
    OBVIOUS
  <2>3. FlattenSeq(<<>>) = <<>>
    BY DEF FlattenSeq
  <2> QED
    BY <2>1, <2>2, <2>3 DEF Messages
<1>9. ReadInv
  <2>1. Len(stream) \in Nat
    BY <1>2, LenProperties
  <2>2. SubSeq(stream, 1, 0) = <<>>
    BY SubSeqEmpty
  <2>3. Bytes(<<>>) = <<>>
    BY BytesOfOne
  <2>4. ((<<>> \o <<>>) \o <<>>) \o toWrite = toWrite
    <3>1. <<>> \o <<>> = <<>>
      OBVIOUS
    <3>2. <<>> \o toWrite = toWrite
      BY <1>3, ConcatEmptySeq DEF Stream
    <3> QED
      BY <3>1, <3>2
  <2>5. BytesKept
    BY <1>3, <1>4, <1>8, <2>2, <2>3, <2>4 DEF Init, BytesKept
  <2>6. MessagesAsWritten
    BY <1>3, <1>8 DEF MessagesAsWritten
  <2> QED
    BY <1>3, <1>8, <2>1, <2>5, <2>6 DEF ReadInv
<1>10. OutboundInOrder
  <2>1. <<>> \o <<>> = <<>> /\ SubSeq(<<>>, 1, 0) = <<>>
    BY SubSeqEmpty
  <2> QED
    BY <1>3, <1>4, <2>1 DEF Init, OutboundInOrder, IsPrefix
<1> QED
  BY <1>6, <1>7, <1>9, <1>10

\* What is told is told once, and CLOSE last.
LEMMA ToldStep ==
  ASSUME Types, ToldInv, [Next]_vars
  PROVE  ToldInv'
<1> DEFINE Tells(c) == told' = Append(told, c)
           close == [type |-> "CLOSE"]
<1>0. told \in Seq(Commands) /\ Len(told) \in Nat /\ DOMAIN told = 1..Len(told)
  BY LenProperties DEF Types
<1>1. ASSUME told' = told, status' = status \/ status' = "GONE",
             pc' # "wait" => status' # "GONE"
      PROVE  ToldInv'
  BY <1>1 DEF ToldInv, CloseToldLast
<1>2. ASSUME NEW c, Tells(c), status # "GONE", c.type = "CLOSE" => status' = "GONE",
             pc' # "wait" => status' # "GONE"
      PROVE  ToldInv'
  <2>1. \A i \in DOMAIN told : told[i].type # "CLOSE"
    BY <1>2 DEF ToldInv, CloseToldLast
  <2>2. /\ Len(told') = Len(told) + 1 /\ DOMAIN told' = 1..(Len(told) + 1)
        /\ \A i \in 1..Len(told) : told'[i] = told[i]
        /\ told'[Len(told) + 1] = c
    BY <1>0, <1>2
  <2>3. \A i \in 1..(Len(told) + 1) : i \in 1..Len(told) \/ i = Len(told) + 1
    BY <1>0
  <2> QED
    BY <1>0, <1>2, <2>1, <2>2, <2>3 DEF ToldInv, CloseToldLast
<1>3. ASSUME CloseSocket, status # "GONE", pc' = "wait" PROVE ToldInv'
  <2>1. Tells(close) /\ status' = "GONE"
    BY <1>3 DEF CloseSocket
  <2> HIDE DEF close
  <2> QED
    BY <1>2, <1>3, <2>1
<1> HIDE DEF Tells, close
<1>4. CASE Write \/ Receive \/ HangUp \/ UNCHANGED vars
  <2>1. told' = told /\ status' = status /\ pc' = pc
    BY <1>4 DEF Write, Receive, HangUp, readVars, vars
  <2> QED
    BY <1>1, <2>1 DEF ToldInv
<1>5. CASE Event
  BY <1>1, <1>5 DEF Event
<1>6. CASE ReadData \/ ReadAll
  BY <1>1, <1>6 DEF ReadData, ReadAll, ToldInv
<1>7. CASE ReadStops
  <2>1. status # "GONE"
    BY <1>7 DEF ReadStops, ToldInv
  <2>2. CASE arrived
    BY <1>1, <1>7, <2>1, <2>2 DEF ReadStops
  <2>3. CASE ~arrived
    BY <1>3, <1>7, <2>1, <2>3 DEF ReadStops, Closed
  <2> QED
    BY <2>2, <2>3
<1>8. CASE Decode
  <2>1. pc # "wait" /\ status # "GONE"
    BY <1>8 DEF Decode, ToldInv
  <2>2. CASE Closed
    BY <1>3, <2>1, <2>2 DEF Closed
  <2>3. CASE Finish(pc = "decodeClose")
    <3>1. Closed \/ (pc' = "wait" /\ UNCHANGED <<status, told>>)
      BY <2>3 DEF Finish
    <3> QED
      BY <1>1, <2>2, <3>1
  <2>4. CASE /\ told' = Append(told, [type |-> "MESSAGE",
                                      msg |-> RecvMessage[readBuffer.data].msg])
             /\ UNCHANGED <<status, pc>>
    <3> DEFINE c == [type |-> "MESSAGE", msg |-> RecvMessage[readBuffer.data].msg]
    <3>1. c.type # "CLOSE" /\ Tells(c)
      BY <2>4 DEF Tells
    <3> HIDE DEF c
    <3> QED
      BY <1>2, <2>1, <2>4, <3>1
  <2> QED
    BY <1>8, <2>2, <2>3, <2>4 DEF Decode
<1>9. CASE CloseCommand
  BY <1>1, <1>9 DEF CloseCommand, readVars
<1>10. CASE ErrorTimer
  <2>1. pc' = "wait"
    BY <1>10 DEF ErrorTimer, readVars
  <2>2. CASE status = "GONE"
    BY <1>1, <1>10, <2>1, <2>2 DEF ErrorTimer
  <2>3. CASE status # "GONE"
    BY <1>3, <1>10, <2>1, <2>3 DEF ErrorTimer
  <2> QED
    BY <2>2, <2>3
<1>11. ASSUME NEW m \in Replies, Send(m) PROVE ToldInv'
  <2>1. pc' = "wait" /\ status # "GONE"
    BY <1>11 DEF Send, readVars
  <2>2. CASE CloseSocket
    BY <1>3, <2>1, <2>2
  <2>3. CASE UNCHANGED told
    BY <2>1, <2>3 DEF ToldInv, CloseToldLast
  <2> QED
    BY <1>11, <2>2, <2>3 DEF Send
<1> QED
  BY <1>4, <1>5, <1>6, <1>7, <1>8, <1>9, <1>10, <1>11 DEF Next, Handle

\* A read of all that the socket holds.
LEMMA ReadDataStep ==
  ASSUME ConnectionAssumption, BufferAssumption, PacketAssumption, Types, ReadData
  PROVE  /\ IsBuffer(readBuffer') /\ readBuffer'.data = readBuffer.data \o inSock
         /\ readBuffer'.data \in Stream /\ Len(readBuffer'.data) <= RecvMax
<1> DEFINE d == readBuffer.data
<1>1. /\ RecvMax \in Nat /\ ExpandSize \in Nat /\ Word \in Nat
      /\ RecvMax + 2 * ExpandSize < Word
  BY Assumed DEF Types
<1>2. IsBuffer(readBuffer) /\ d \in Seq(Byte) /\ inSock \in Seq(Byte)
  BY DEF Types, TypeOK, IsBuffer, Stream, Byte
<1>3. Len(d) \in Nat /\ Len(inSock) \in Nat
  BY <1>2, LenProperties
<1>4. Len(d) + Len(inSock) <= RecvMax
  <2>1. ~(Len(inSock) + Len(d) > RecvMax)
    BY DEF ReadData, Exceeds, BytesToRead
  <2> QED
    BY <1>1, <1>3, <2>1
<1>5. Len(d) + Len(inSock) + 2 * ExpandSize < Word
  <2> DEFINE x == Len(d)
             y == Len(inSock)
  <2>1. x \in Nat /\ y \in Nat /\ x + y <= RecvMax
    BY <1>3, <1>4
  <2> HIDE DEF x, y
  <2>2. x + y + 2 * ExpandSize < Word
    BY <1>1, <2>1
  <2> QED
    BY <2>2 DEF x, y
<1>6. IsBuffer(readBuffer') /\ readBuffer'.data = d \o inSock
  <2>1. readBuffer' = Put(Reserve(readBuffer, Len(inSock)), inSock)
    BY DEF ReadData
  <2>2. inSock \in Stream
    BY DEF Types
  <2> QED
    BY <1>2, <1>5, <2>1, <2>2, BufferWritten
<1>7. d \o inSock \in Seq(Byte) /\ Len(d \o inSock) = Len(d) + Len(inSock)
  BY <1>2, ConcatProperties
<1> QED
  BY <1>4, <1>6, <1>7 DEF Stream

\* A message that is taken from the read buffer is the next packet's.
LEMMA DecodeStep ==
  ASSUME ConnectionAssumption, BufferAssumption, PacketAssumption, Types, ReadInv,
         NEW packet, packet = RecvMessage[readBuffer.data],
         packet.res = "MESSAGE_READY", readBuffer' = Take(readBuffer, packet.size)
  PROVE  LET k == Len(Messages)
             p == stream[k + 1]
         IN /\ k \in Nat /\ k < Len(stream) /\ p \in Packets
            /\ p.id = LoginId /\ p.pad >= 0 /\ packet.msg = p.body
            /\ Len(Wire(p)) <= MaxPacketLength
            /\ IsBuffer(readBuffer') /\ readBuffer'.data \in Stream
            /\ Len(readBuffer'.data) <= Len(readBuffer.data)
            /\ Kept(stream, k + 1, readBuffer'.data, inSock, toWrite)
<1> DEFINE k == Len(Messages)
           p == stream[k + 1]
           b == readBuffer.data
           n == RecvMessage[b].size
<1>1. stream \in Streams /\ inSock \in Stream /\ toWrite \in Stream /\ told \in Seq(Commands)
  BY DEF Types
<1>2. /\ stream \in Seq(Packets)
      /\ \A i \in DOMAIN stream : Len(Wire(stream[i])) - 4 \in Shorts
  BY <1>1, Assumed
<1>3. k \in Nat
  <2>1. MessagesOf(told) \in Seq(Commands)
    <3>1. [type |-> "CLOSE"] \in Commands
      BY DEF Commands
    <3> QED
      BY <1>1, <3>1, MessagesAppend
  <2>2. Messages = MessagesOf(told)
    BY DEF Messages, MessagesOf
  <2> QED
    BY <2>1, <2>2, LenProperties
<1>4. k <= Len(stream) /\ Kept(stream, k, b, inSock, toWrite)
  BY DEF ReadInv, BytesKept, Kept
<1>5. IsBuffer(readBuffer) /\ b \in Stream
  BY DEF Types, TypeOK, IsBuffer, Stream, Byte
<1> HIDE DEF k, b
<1>6. /\ k < Len(stream) /\ p \in Packets /\ n \in 0..Len(b)
      /\ Kept(stream, k + 1, SubSeq(b, n + 1, Len(b)), inSock, toWrite)
      /\ p.id = LoginId /\ p.pad >= 0 /\ RecvMessage[b].msg = p.body
      /\ Len(Wire(p)) <= MaxPacketLength
  <2>1. RecvMessage[b].res = "MESSAGE_READY"
    BY DEF b
  <2> QED
    BY <1>1, <1>2, <1>3, <1>4, <1>5, <2>1, PacketTaken, ZenonT(60)
<1>7. IsBuffer(readBuffer') /\ readBuffer'.data = SubSeq(b, n + 1, Len(b))
  <2> HIDE DEF n
  <2>1. n \in 0..Len(readBuffer.data) /\ readBuffer' = Take(readBuffer, n)
    BY <1>6 DEF b, n
  <2> QED
    BY <1>5, <2>1, BufferTaken DEF b
<1>8. /\ SubSeq(b, n + 1, Len(b)) \in Stream
      /\ Len(SubSeq(b, n + 1, Len(b))) = Len(b) - n
  <2> HIDE DEF n
  <2> QED
    BY <1>5, <1>6, CutInTwo, SMTT(60) DEF Stream
<1>9. Len(b) - n <= Len(b)
  BY <1>5, <1>6, LenProperties, SMTT(60) DEF Stream
<1> QED
  BY <1>3, <1>6, <1>7, <1>8, <1>9 DEF k, b

\* Sends: what goes to the socket, and what waits.
LEMMA SendStep ==
  ASSUME ConnectionAssumption, BufferAssumption, PacketAssumption, Types,
         NEW frame \in Stream
  PROVE  LET n == Direct(frame)
             rest == Len(frame) - n
         IN /\ n \in 0..Len(frame) /\ n <= SockSize - Len(outSock)
            /\ writeBuffer.data # <<>> => n = 0
            /\ SendTaken(frame) =>
                 /\ IsBuffer(writeBuffer')
                 /\ Len(writeBuffer'.data) = Len(writeBuffer.data) + rest
                 /\ Len(writeBuffer'.data) <= SendMax
<1> DEFINE n == Direct(frame)
           rest == Len(frame) - n
           d == writeBuffer.data
           room == SockSize - Len(outSock)
<1>1. /\ SendMax \in Nat /\ SockSize \in Nat /\ ExpandSize \in Nat /\ Word \in Nat
      /\ SendMax + 2 * ExpandSize < Word
  BY Assumed DEF Types
<1>2. /\ IsBuffer(writeBuffer) /\ d \in Seq(Byte) /\ outSock \in Seq(Byte)
      /\ frame \in Seq(Byte) /\ Len(d) <= SendMax /\ Len(outSock) <= SockSize
  BY DEF Types, TypeOK, IsBuffer, Stream, Byte
<1>3. Len(d) \in Nat /\ Len(outSock) \in Nat /\ Len(frame) \in Nat
  BY <1>2, LenProperties
<1>4. room \in Nat
  BY <1>1, <1>2, <1>3
<1>5. n \in 0..Len(frame) /\ n <= room /\ (d # <<>> => n = 0)
  BY <1>3, <1>4 DEF Direct, Lower
<1> HIDE DEF n
<1>6. rest \in Nat /\ rest <= Len(frame)
  BY <1>3, <1>5
<1>7. ASSUME SendTaken(frame)
      PROVE  /\ IsBuffer(writeBuffer') /\ Len(writeBuffer'.data) = Len(d) + rest
             /\ Len(writeBuffer'.data) <= SendMax
  <2>1. /\ rest = 0 \/ rest + Len(d) <= SendMax
        /\ writeBuffer' = IF rest = 0 THEN writeBuffer
                          ELSE Put(Reserve(writeBuffer, rest), SubSeq(frame, 1, rest))
    BY <1>7 DEF SendTaken, n
  <2> HIDE DEF rest
  <2>2. CASE rest = 0
    BY <1>2, <1>3, <2>1, <2>2
  <2>3. CASE rest # 0
    <3> DEFINE bytes == SubSeq(frame, 1, rest)
    <3>1. rest \in 0..Len(frame)
      BY <1>3, <1>6
    <3>2. bytes \in Seq(Byte) /\ Len(bytes) = rest
      BY <1>2, <3>1, CutInTwo
    <3> HIDE DEF bytes
    <3>3. writeBuffer' = Put(Reserve(writeBuffer, Len(bytes)), bytes)
      BY <2>1, <2>3, <3>2 DEF bytes
    <3>4. Len(d) + Len(bytes) + 2 * ExpandSize < Word
      <4> DEFINE x == Len(d)
      <4>1. x \in Nat /\ rest \in Nat /\ rest + x <= SendMax
        BY <1>3, <1>6, <2>1, <2>3
      <4> HIDE DEF x
      <4>2. x + rest + 2 * ExpandSize < Word
        BY <1>1, <4>1
      <4> QED
        BY <3>2, <4>2 DEF x
    <3>5. bytes \in Stream
      BY <3>2 DEF Stream
    <3>6. IsBuffer(writeBuffer') /\ writeBuffer'.data = d \o bytes
      BY <1>2, <3>3, <3>4, <3>5, BufferWritten
    <3>7. Len(d \o bytes) = Len(d) + rest
      BY <1>2, <3>2, ConcatProperties, ZenonT(60)
    <3>8. Len(d) + rest <= SendMax
      BY <1>1, <1>3, <1>6, <2>1, <2>3
    <3> QED
      BY <3>6, <3>7, <3>8
  <2> QED
    BY <2>2, <2>3
<1> QED
  BY <1>5, <1>7 DEF n

\* The packets the application sends.
LEMMA FrameType ==
  ASSUME ConnectionAssumption, BufferAssumption, PacketAssumption, Types,
         NEW m \in Replies
  PROVE  WriteMessage(m) \in Stream
<1> DEFINE body == EncodeLogin(m)
<1>1. body \in Seq(Byte) /\ Len(body) \in Nat
  <2>1. m \in Logins
    BY DEF PacketAssumption
  <2> QED
    BY <2>1, ReadsLogin, LenProperties DEF Stream
<1> HIDE DEF body
<1>2. LoginId \in Nat
  BY Assumed DEF Types
<1> DEFINE a == Int16(LoginId)
           b == Int16(Len(body))
<1>3. a \in Seq(Byte) /\ b \in Seq(Byte)
  BY <1>1, <1>2, IntBytes, SMTT(60) DEF Stream
<1> HIDE DEF a, b
<1>4. a \o b \in Seq(Byte)
  BY <1>3, ConcatProperties
<1>5. (a \o b) \o body \in Seq(Byte)
  BY <1>1, <1>4, ConcatProperties
<1>6. WriteMessage(m) = <<>> \/ WriteMessage(m) = (a \o b) \o body
  BY DEF WriteMessage, a, b, body
<1>7. <<>> \in Seq(Byte)
  OBVIOUS
<1> QED
  BY <1>5, <1>6, <1>7 DEF Stream


-----------------------------------------------------------------------------
(* What is sent *)

\* A prefix is what some rest follows.
LEMMA PrefixSplit ==
  ASSUME NEW S, NEW s \in Seq(S), NEW t \in Seq(S)
  PROVE  IsPrefix(s, t) <=> \E u \in Seq(S) : t = s \o u
<1>1. Len(s) \in Nat /\ Len(t) \in Nat
  BY LenProperties
<1>2. SubSeq(s, 1, Len(s)) = s
  BY SubSeqFull
<1>3. ASSUME IsPrefix(s, t) PROVE \E u \in Seq(S) : t = s \o u
  <2> DEFINE n == Len(s)
             u == SubSeq(t, n + 1, Len(t))
  <2>1. n \in 0..Len(t) /\ SubSeq(t, 1, n) = s
    BY <1>1, <1>2, <1>3 DEF IsPrefix
  <2> HIDE DEF n
  <2>2. u \in Seq(S) /\ t = SubSeq(t, 1, n) \o u
    BY <2>1, CutInTwo
  <2> QED
    BY <2>1, <2>2
<1>4. ASSUME NEW u \in Seq(S), t = s \o u PROVE IsPrefix(s, t)
  <2>1. SubSeq(t, 1, Len(s)) = s
    BY <1>4, DropConcat
  <2>2. Len(t) = Len(s) + Len(u) /\ Len(u) \in Nat
    BY <1>4, ConcatProperties, LenProperties
  <2> QED
    BY <1>1, <1>2, <2>1, <2>2 DEF IsPrefix
<1> QED
  BY <1>3, <1>4

\* The beginning x of q stays one when both get the first n items of f, and q the
\* others too: n is 0 unless x is all of q.
LEMMA SentOn ==
  ASSUME NEW x \in Seq(Byte), NEW q \in Seq(Byte), IsPrefix(x, q),
         NEW f \in Seq(Byte), NEW n \in 0..Len(f), n = 0 \/ Len(x) = Len(q)
  PROVE  /\ IsPrefix(x \o SubSeq(f, 1, n), q \o f)
         /\ x \o SubSeq(f, 1, n) \in Seq(Byte) /\ q \o f \in Seq(Byte)
         /\ Len(x \o SubSeq(f, 1, n)) = Len(x) + n
         /\ Len(q \o f) = Len(q) + Len(f)
<1> DEFINE g == SubSeq(f, 1, n)
           h == SubSeq(f, n + 1, Len(f))
<1>1. g \in Seq(Byte) /\ h \in Seq(Byte) /\ f = g \o h /\ Len(g) = n
  BY CutInTwo
<1>2. Len(x) \in Nat /\ Len(q) \in Nat
  BY LenProperties
<1>3. PICK u \in Seq(Byte) : q = x \o u
  BY PrefixSplit
<1> HIDE DEF g, h
<1>4. /\ x \o g \in Seq(Byte) /\ q \o f \in Seq(Byte) /\ u \o f \in Seq(Byte)
      /\ Len(x \o g) = Len(x) + n /\ Len(q \o f) = Len(q) + Len(f)
  BY <1>1, ConcatProperties
<1>5. \E v \in Seq(Byte) : q \o f = (x \o g) \o v
  <2>1. CASE n = 0
    <3>1. x \o g = x
      <4>1. g = <<>>
        BY <2>1, SubSeqEmpty DEF g
      <4> QED
        BY <4>1, ConcatEmptySeq
    <3>2. (x \o u) \o f = x \o (u \o f)
      BY Regroup, SMTT(60)
    <3> QED
      BY <1>3, <1>4, <3>1, <3>2
  <2>2. CASE Len(x) = Len(q)
    <3>1. Len(q) = Len(x) + Len(u) /\ Len(u) \in Nat
      BY <1>3, ConcatProperties, LenProperties
    <3>2. Len(u) = 0
      BY <1>2, <2>2, <3>1
    <3>3. u = <<>>
      BY <3>2, EmptySeq
    <3>4. q = x
      BY <1>3, <3>3, ConcatEmptySeq
    <3>5. x \o (g \o h) = (x \o g) \o h
      <4>1. x \in Seq(Byte) /\ g \in Seq(Byte) /\ h \in Seq(Byte)
        BY <1>1
      <4> QED
        BY <4>1, Regroup, SMTT(60)
    <3> QED
      BY <1>1, <3>4, <3>5
  <2> QED
    BY <2>1, <2>2
<1>6. IsPrefix(x \o g, q \o f)
  <2> DEFINE y == x \o g
             r == q \o f
  <2>1. y \in Seq(Byte) /\ r \in Seq(Byte) /\ \E v \in Seq(Byte) : r = y \o v
    BY <1>4, <1>5
  <2> HIDE DEF y, r
  <2>2. IsPrefix(y, r)
    BY <2>1, PrefixSplit
  <2> QED
    BY <2>2 DEF y, r
<1> QED
  BY <1>4, <1>6 DEF g

\* A send keeps the order, and the types of what it changes.
LEMMA SendInOrder ==
  ASSUME ConnectionAssumption, BufferAssumption, PacketAssumption, Types,
         OutboundInOrder, NEW m \in Replies, Send(m)
  PROVE  /\ outSock' \in Stream /\ Len(outSock') <= SockSize /\ accepted' \in Stream
         /\ IsBuffer(writeBuffer') /\ Len(writeBuffer'.data) <= SendMax
         /\ status' \in {"CONNECTED", "PENDING_ERROR", "GONE"} /\ timer' \in BOOLEAN
         /\ OutboundInOrder'
<1> DEFINE frame == WriteMessage(m)
           w == writeBuffer.data
<1>1. /\ outSock \in Seq(Byte) /\ received \in Seq(Byte) /\ accepted \in Seq(Byte)
      /\ w \in Seq(Byte) /\ Len(w) <= SendMax /\ IsBuffer(writeBuffer)
      /\ status \in {"CONNECTED", "PENDING_ERROR", "GONE"} /\ timer \in BOOLEAN
      /\ Len(outSock) <= SockSize
  BY DEF Types, TypeOK, IsBuffer, Stream, Byte
<1>2. frame \in Stream
  BY FrameType
<1>3. /\ received' = received /\ status = "CONNECTED"
  BY DEF Send
<1>4. CASE UNCHANGED <<outSock, writeBuffer, accepted>>
  <2>1. status' \in {"CONNECTED", "PENDING_ERROR", "GONE"} /\ timer' \in BOOLEAN
    <3>1. SUFFICES ASSUME frame # <<>>,
                          ~(peer = "reset" /\ writeBuffer.data = <<>>)
                   PROVE  /\ status' \in {"CONNECTED", "PENDING_ERROR", "GONE"}
                          /\ timer' \in BOOLEAN
      BY <1>1 DEF Send, CloseSocket, SendFails
    <3>2. SendTaken(frame) \/ SendFull(frame)
      BY <3>1 DEF Send
    <3> QED
      BY <1>1, <3>2 DEF SendTaken, SendFull
  <2>2. OutboundInOrder'
    BY <1>3, <1>4 DEF OutboundInOrder
  <2> QED
    BY <1>1, <1>4, <2>1, <2>2 DEF Stream
<1> DEFINE n == Direct(frame)
           rest == Len(frame) - n
           x == received \o outSock
<1>5. /\ n \in 0..Len(frame) /\ n <= SockSize - Len(outSock)
      /\ w # <<>> => n = 0
      /\ SendTaken(frame) =>
           /\ IsBuffer(writeBuffer') /\ Len(writeBuffer'.data) = Len(w) + rest
           /\ Len(writeBuffer'.data) <= SendMax
  BY <1>2, SendStep
<1>6. /\ frame \in Seq(Byte) /\ Len(frame) \in Nat /\ Len(w) \in Nat /\ Len(outSock) \in Nat
      /\ Len(received) \in Nat /\ Len(accepted) \in Nat /\ SockSize \in Nat
  <2>1. SockSize \in Nat
    BY Assumed DEF Types
  <2> QED
    BY <1>1, <1>2, <2>1, LenProperties DEF Stream
<1>7. x \in Seq(Byte) /\ Len(x) = Len(received) + Len(outSock)
  BY <1>1, ConcatProperties
<1>8. IsPrefix(x, accepted) /\ Len(x) + Len(w) = Len(accepted)
  BY <1>3, <1>7 DEF OutboundInOrder
<1>9. w = <<>> => Len(x) = Len(accepted)
  <2>1. w = <<>> => Len(w) = 0
    OBVIOUS
  <2> QED
    BY <1>6, <1>7, <1>8, <2>1
<1> HIDE DEF n, w, frame, x, rest
<1> DEFINE g == SubSeq(frame, 1, n)
<1>10. n = 0 \/ Len(x) = Len(accepted)
  BY <1>5, <1>9
<1>11. g \in Seq(Byte) /\ Len(g) = n
  <2>1. frame \in Seq(Byte) /\ n \in 0..Len(frame)
    BY <1>5, <1>6
  <2> QED
    BY <2>1, CutInTwo, SMTT(60)
<1>12. n \in Nat /\ rest \in Nat /\ n + rest = Len(frame)
  BY <1>5, <1>6 DEF rest
<1> HIDE DEF g
<1>13. /\ outSock \o g \in Seq(Byte) /\ Len(outSock \o g) = Len(outSock) + n
       /\ received \o (outSock \o g) = x \o g
  <2>1. (received \o outSock) \o g = received \o (outSock \o g)
    BY <1>1, <1>11, Regroup, SMTT(60)
  <2> QED
    BY <1>1, <1>11, <2>1, ConcatProperties DEF x
<1>14. Len(outSock \o g) <= SockSize
  BY <1>5, <1>6, <1>12, <1>13
<1> DEFINE lr == Len(received)
           lo == Len(outSock)
           lw == Len(w)
           lq == Len(accepted)
           lf == Len(frame)
<1>15. lr + (lo + n) + (lw + rest) = lq + lf /\ lr + (lo + n) + lw = lq + n
  <2>1. /\ lr \in Nat /\ lo \in Nat /\ lw \in Nat /\ lq \in Nat /\ lf \in Nat
        /\ (lr + lo) + lw = lq
    BY <1>6, <1>7, <1>8
  <2>2. n \in Nat /\ rest \in Nat /\ n + rest = lf
    BY <1>12
  <2> HIDE DEF lr, lo, lw, lq, lf
  <2> QED
    BY <2>1, <2>2
<1>16. CASE SendTaken(frame)
  <2>1. /\ outSock' = outSock \o g /\ accepted' = accepted \o frame
        /\ status' = status /\ timer' = timer
    BY <1>16 DEF SendTaken, g, n
  <2>2. /\ IsPrefix(x \o g, accepted \o frame) /\ accepted \o frame \in Seq(Byte)
        /\ Len(accepted \o frame) = Len(accepted) + Len(frame)
    BY <1>1, <1>5, <1>6, <1>7, <1>8, <1>10, SentOn, SMTT(60) DEF g
  <2>3. Len(writeBuffer'.data) = Len(w) + rest
    BY <1>5, <1>16
  <2>4. Len(received) + (Len(outSock) + n) + (Len(w) + rest) = Len(accepted) + Len(frame)
    BY <1>15
  <2>5. OutboundInOrder'
    BY <1>3, <1>13, <2>1, <2>2, <2>3, <2>4 DEF OutboundInOrder
  <2> QED
    BY <1>1, <1>5, <1>13, <1>14, <1>16, <2>1, <2>2, <2>5 DEF Stream
<1>17. CASE SendFull(frame)
  <2>1. /\ outSock' = outSock \o g /\ accepted' = accepted \o g
        /\ status' = "PENDING_ERROR" /\ timer' = TRUE /\ writeBuffer' = writeBuffer
    BY <1>17 DEF SendFull, g, n
  <2>2. n \in 0..Len(g) /\ SubSeq(g, 1, n) = g
    BY <1>11, <1>12, SubSeqFull
  <2>3. /\ IsPrefix(x \o g, accepted \o g) /\ accepted \o g \in Seq(Byte)
        /\ Len(accepted \o g) = Len(accepted) + n
    <3>1. /\ IsPrefix(x \o SubSeq(g, 1, n), accepted \o g) /\ accepted \o g \in Seq(Byte)
          /\ Len(accepted \o g) = Len(accepted) + Len(g)
      <4>1. /\ x \in Seq(Byte) /\ accepted \in Seq(Byte) /\ IsPrefix(x, accepted)
            /\ g \in Seq(Byte) /\ n \in 0..Len(g) /\ (n = 0 \/ Len(x) = Len(accepted))
        BY <1>1, <1>7, <1>8, <1>10, <1>11, <2>2
      <4> QED
        BY <4>1, SentOn
    <3> QED
      BY <1>11, <2>2, <3>1
  <2>4. Len(received) + (Len(outSock) + n) + Len(w) = Len(accepted) + n
    BY <1>15
  <2>5. OutboundInOrder'
    BY <1>3, <1>13, <2>1, <2>3, <2>4 DEF OutboundInOrder, w
  <2> QED
    BY <1>1, <1>13, <1>14, <2>1, <2>3, <2>5 DEF Stream, w
<1> QED
  BY <1>4, <1>16, <1>17 DEF Send, SendFails, frame

\* What is received and sent keeps its order.
LEMMA OutboundStep ==
  ASSUME ConnectionAssumption, BufferAssumption, PacketAssumption, Types,
         OutboundInOrder, [Next]_vars
  PROVE  OutboundInOrder'
<1>1. ASSUME UNCHANGED <<received, outSock, accepted, writeBuffer>>,
             status = "GONE" => status' = "GONE"
      PROVE  OutboundInOrder'
  BY <1>1 DEF OutboundInOrder
<1>2. CASE Receive
  <2>1. /\ outSock \in Seq(Byte) /\ received \in Seq(Byte)
    BY DEF Types, Stream
  <2>2. /\ received' = received \o outSock /\ outSock' = <<>>
        /\ accepted' = accepted /\ writeBuffer' = writeBuffer /\ status' = status
    BY <1>2 DEF Receive, sendVars
  <2>3. /\ received \o outSock \in Seq(Byte)
        /\ Len(received \o outSock) = Len(received) + Len(outSock)
        /\ Len(received) \in Nat /\ Len(outSock) \in Nat
    BY <2>1, ConcatProperties, LenProperties
  <2>4. (received \o outSock) \o <<>> = received \o outSock
    BY <2>3, ConcatEmptySeq
  <2>5. Len(received') + Len(outSock') = Len(received) + Len(outSock)
    BY <2>2, <2>3
  <2> QED
    BY <2>2, <2>4, <2>5 DEF OutboundInOrder
<1>3. CASE Write \/ HangUp \/ UNCHANGED vars
  BY <1>1, <1>3 DEF Write, HangUp, sendVars, vars
<1>4. CASE Event \/ ReadData \/ ReadAll
  BY <1>1, <1>4 DEF Event, ReadData, ReadAll, sendVars
<1>5. CASE ReadStops
  BY <1>1, <1>5 DEF ReadStops, Closed, CloseSocket, sendVars
<1>6. CASE Decode
  BY <1>1, <1>6 DEF Decode, Closed, CloseSocket, Finish, sendVars
<1>7. CASE CloseCommand
  BY <1>1, <1>7 DEF CloseCommand, sendVars
<1>8. CASE ErrorTimer
  BY <1>1, <1>8 DEF ErrorTimer, CloseSocket
<1>9. ASSUME NEW m \in Replies, Send(m) PROVE OutboundInOrder'
  BY <1>9, SendInOrder
<1> QED
  BY <1>2, <1>3, <1>4, <1>5, <1>6, <1>7, <1>8, <1>9 DEF Next, Handle

-----------------------------------------------------------------------------
(* What is read *)

\* The client writes a part of what it has left.
LEMMA WriteStep ==
  ASSUME ConnectionAssumption, Types, Write
  PROVE  /\ inSock' \in Stream /\ toWrite' \in Stream
         /\ inSock' \o toWrite' = inSock \o toWrite
<1>1. PICK n \in Chunks :
        /\ inSock' = inSock \o SubSeq(toWrite, 1, Lower(n, Len(toWrite)))
        /\ toWrite' = Drop(toWrite, n)
  BY DEF Write
<1>2. inSock \in Seq(Byte) /\ toWrite \in Seq(Byte) /\ n \in Nat /\ Len(toWrite) \in Nat
  BY LenProperties DEF Types, Stream, ConnectionAssumption
<1> DEFINE k == Lower(n, Len(toWrite))
           a == SubSeq(toWrite, 1, k)
           b == SubSeq(toWrite, k + 1, Len(toWrite))
<1>3. k \in 0..Len(toWrite)
  BY <1>2 DEF Lower
<1>4. toWrite' = b
  <2>1. CASE n <= Len(toWrite)
    BY <1>1, <2>1 DEF Drop, Lower
  <2>2. CASE n > Len(toWrite)
    <3>1. k = Len(toWrite)
      BY <1>2, <2>2 DEF Lower
    <3> HIDE DEF k
    <3>2. Len(toWrite) < k + 1 /\ Len(toWrite) < n + 1
      BY <1>2, <2>2, <3>1
    <3>3. b = <<>> /\ SubSeq(toWrite, n + 1, Len(toWrite)) = <<>>
      BY <1>2, <1>3, <3>2, SubSeqEmpty
    <3> QED
      BY <1>1, <3>3 DEF Drop
  <2> QED
    BY <1>2, <2>1, <2>2
<1>5. inSock' = inSock \o a
  BY <1>1
<1> HIDE DEF k
<1>6. a \in Seq(Byte) /\ b \in Seq(Byte) /\ toWrite = a \o b
  BY <1>2, <1>3, CutInTwo
<1> HIDE DEF a, b
<1>7. (inSock \o a) \o b = inSock \o (a \o b)
  <2>1. inSock \in Seq(Byte) /\ a \in Seq(Byte) /\ b \in Seq(Byte)
    BY <1>2, <1>6
  <2> QED
    BY <2>1, Regroup
<1>8. inSock \o a \in Seq(Byte)
  BY <1>2, <1>6, ConcatProperties
<1> QED
  BY <1>4, <1>5, <1>6, <1>7, <1>8 DEF Stream

\* The commands that are told.
LEMMA ToldType ==
  ASSUME ConnectionAssumption, BufferAssumption, PacketAssumption, Types, ReadInv,
         [Next]_vars
  PROVE  told' \in Seq(Commands)
<1>1. told \in Seq(Commands)
  BY DEF Types
<1>2. ASSUME CloseSocket PROVE told' \in Seq(Commands)
  <2>1. [type |-> "CLOSE"] \in Commands
    BY DEF Commands
  <2> QED
    BY <1>1, <1>2, <2>1, AppendProperties DEF CloseSocket
<1>3. CASE UNCHANGED told
  BY <1>1, <1>3
<1>4. ASSUME Decode, RecvMessage[readBuffer.data].res = "MESSAGE_READY",
             ~CloseSocket, told' # told
      PROVE  told' \in Seq(Commands)
  <2> DEFINE packet == RecvMessage[readBuffer.data]
             p == stream[Len(Messages) + 1]
  <2>1. /\ readBuffer' = Take(readBuffer, packet.size)
        /\ told' = Append(told, [type |-> "MESSAGE", msg |-> packet.msg])
    BY <1>4 DEF Decode, Closed, Finish
  <2>2. p \in Packets /\ packet.msg = p.body
    <3>1. packet.res = "MESSAGE_READY"
      BY <1>4
    <3> HIDE DEF packet
    <3> QED
      BY <2>1, <3>1, DecodeStep DEF packet
  <2>3. packet.msg \in Logins
    BY <2>2 DEF Packets
  <2>4. [type |-> "MESSAGE", msg |-> packet.msg] \in Commands
    BY <2>3 DEF Commands
  <2> HIDE DEF packet
  <2> QED
    BY <1>1, <2>1, <2>4, AppendProperties
<1>5. CASE Decode
  BY <1>2, <1>3, <1>4, <1>5 DEF Decode, Closed, Finish
<1>6. CASE ReadStops
  BY <1>2, <1>3, <1>6 DEF ReadStops, Closed
<1>7. CASE ErrorTimer
  BY <1>2, <1>3, <1>7 DEF ErrorTimer
<1>8. ASSUME NEW m \in Replies, Send(m) PROVE told' \in Seq(Commands)
  BY <1>2, <1>3, <1>8 DEF Send
<1>9. CASE Write \/ Receive \/ HangUp \/ UNCHANGED vars
  BY <1>3, <1>9 DEF Write, Receive, HangUp, vars
<1>10. CASE Event \/ ReadData \/ ReadAll \/ CloseCommand
  BY <1>3, <1>10 DEF Event, ReadData, ReadAll, CloseCommand
<1> QED
  BY <1>5, <1>6, <1>7, <1>8, <1>9, <1>10 DEF Next, Handle

\* Types are kept.
LEMMA TypesStep ==
  ASSUME ConnectionAssumption, BufferAssumption, PacketAssumption, Types, ReadInv,
         OutboundInOrder, [Next]_vars
  PROVE  Types'
<1>1. told' \in Seq(Commands)
  BY ToldType
<1>2. /\ stream \in Streams /\ toWrite \in Stream
      /\ inSock \in Stream /\ outSock \in Stream /\ received \in Stream
      /\ accepted \in Stream
  BY DEF Types
<1>3. /\ peer \in {"open", "closed", "reset"}
      /\ status \in {"CONNECTED", "PENDING_ERROR", "GONE"}
      /\ pc \in {"wait", "read", "decode", "decodeClose"}
      /\ arrived \in BOOLEAN /\ hup \in BOOLEAN /\ timer \in BOOLEAN
      /\ IsBuffer(readBuffer) /\ IsBuffer(writeBuffer)
      /\ Len(readBuffer.data) <= RecvMax /\ Len(writeBuffer.data) <= SendMax
      /\ Len(outSock) <= SockSize /\ sends \in 0..MaxSends
  BY DEF Types, TypeOK
<1>4. SockSize \in Nat /\ MaxSends \in Nat /\ RecvMax \in Nat
  BY <1>2, Assumed
<1> DEFINE Streamed == /\ stream' \in Streams /\ toWrite' \in Stream
                       /\ inSock' \in Stream /\ outSock' \in Stream
                       /\ received' \in Stream /\ accepted' \in Stream
           Flags == /\ peer' \in {"open", "closed", "reset"}
                    /\ status' \in {"CONNECTED", "PENDING_ERROR", "GONE"}
                    /\ pc' \in {"wait", "read", "decode", "decodeClose"}
                    /\ arrived' \in BOOLEAN /\ hup' \in BOOLEAN /\ timer' \in BOOLEAN
                    /\ sends' \in 0..MaxSends
           Buffers == /\ IsBuffer(readBuffer') /\ IsBuffer(writeBuffer')
                      /\ Len(readBuffer'.data) <= RecvMax
                      /\ Len(writeBuffer'.data) <= SendMax
                      /\ Len(outSock') <= SockSize
<1>5. ASSUME Streamed, Flags, Buffers PROVE Types'
  <2>1. {arrived', hup', timer'} \subseteq BOOLEAN
    BY <1>5
  <2>2. TypeOK'
    BY <1>5, <2>1 DEF TypeOK
  <2> QED
    BY <1>1, <1>5, <2>2 DEF Types
<1>6. ASSUME UNCHANGED <<readBuffer, writeBuffer, outSock>> PROVE Buffers
  BY <1>3, <1>6
<1>7. CASE Write
  <2>1. Streamed
    BY <1>2, <1>7, WriteStep DEF Write, sendVars
  <2>2. Flags
    BY <1>3, <1>7 DEF Write, readVars, sendVars
  <2>3. Buffers
    BY <1>6, <1>7 DEF Write, readVars, sendVars
  <2> QED
    BY <1>5, <2>1, <2>2, <2>3
<1>8. CASE Receive
  <2>1. received \o outSock \in Stream /\ <<>> \in Stream
    BY <1>2, ConcatProperties, EmptySeq DEF Stream
  <2>2. received' = received \o outSock /\ outSock' = <<>>
    BY <1>8 DEF Receive
  <2>3. Streamed
    BY <1>2, <1>8, <2>1, <2>2 DEF Receive, peerVars, sendVars
  <2>4. Flags
    BY <1>3, <1>8 DEF Receive, peerVars, readVars, sendVars
  <2>5. Len(<<>>) = 0
    OBVIOUS
  <2>6. readBuffer' = readBuffer /\ writeBuffer' = writeBuffer
    BY <1>8 DEF Receive, readVars, sendVars
  <2>7. Buffers
    BY <1>3, <1>4, <2>2, <2>5, <2>6
  <2> QED
    BY <1>5, <2>3, <2>4, <2>7
<1>9. CASE HangUp
  BY <1>2, <1>3, <1>5, <1>6, <1>9 DEF HangUp, readVars, sendVars
<1>10. CASE Event \/ ReadAll
  <2>1. Streamed
    BY <1>2, <1>10 DEF Event, ReadAll, peerVars, sendVars
  <2>2. Flags
    BY <1>3, <1>10 DEF Event, ReadAll, peerVars, sendVars
  <2>3. Buffers
    BY <1>6, <1>10 DEF Event, ReadAll, sendVars
  <2> QED
    BY <1>5, <2>1, <2>2, <2>3
<1>11. CASE ReadData
  <2>1. IsBuffer(readBuffer') /\ Len(readBuffer'.data) <= RecvMax
    BY <1>11, ReadDataStep
  <2>2. <<>> \in Stream
    BY EmptySeq DEF Stream
  <2>3. Streamed
    BY <1>2, <1>11, <2>2 DEF ReadData, peerVars, sendVars
  <2>4. Flags
    BY <1>3, <1>11 DEF ReadData, peerVars, sendVars
  <2>5. outSock' = outSock /\ writeBuffer' = writeBuffer
    BY <1>11 DEF ReadData, sendVars
  <2>6. Buffers
    BY <1>3, <2>1, <2>5
  <2> QED
    BY <1>5, <2>3, <2>4, <2>6
<1>12. CASE ReadStops
  <2>1. Streamed
    BY <1>2, <1>12 DEF ReadStops, peerVars, sendVars
  <2>2. Flags
    BY <1>3, <1>12 DEF ReadStops, Closed, CloseSocket, peerVars, sendVars
  <2>3. Buffers
    BY <1>6, <1>12 DEF ReadStops, sendVars
  <2> QED
    BY <1>5, <2>1, <2>2, <2>3
<1>13. CASE Decode
  <2>1. Streamed
    BY <1>2, <1>13 DEF Decode, peerVars, sendVars
  <2>2. Flags
    <3>1. /\ peer' = peer /\ arrived' = arrived /\ hup' = hup /\ timer' = timer
          /\ sends' = sends
      BY <1>13 DEF Decode, peerVars, sendVars
    <3>2. status' = status \/ status' = "GONE"
      BY <1>13 DEF Decode, Finish, Closed, CloseSocket
    <3>3. pc' = pc \/ pc' = "wait"
      BY <1>13 DEF Decode, Finish, Closed
    <3> QED
      BY <1>3, <3>1, <3>2, <3>3
  <2>3. IsBuffer(readBuffer') /\ Len(readBuffer'.data) <= RecvMax
    <3> DEFINE packet == RecvMessage[readBuffer.data]
    <3>1. CASE packet.res = "MESSAGE_READY" /\ readBuffer' = Take(readBuffer, packet.size)
      <4> HIDE DEF packet
      <4>1. IsBuffer(readBuffer') /\ Len(readBuffer'.data) <= Len(readBuffer.data)
            /\ readBuffer'.data \in Stream
        BY <3>1, DecodeStep DEF packet
      <4>2. Len(readBuffer'.data) \in Nat /\ Len(readBuffer.data) \in Nat
        <5>1. readBuffer.data \in Seq(Byte)
          BY <1>3 DEF IsBuffer, Byte
        <5> QED
          BY <4>1, <5>1, LenProperties DEF Stream
      <4>3. Len(readBuffer'.data) <= RecvMax
        BY <1>3, <1>4, <4>1, <4>2
      <4> QED
        BY <4>1, <4>3
    <3>2. CASE readBuffer' = readBuffer
      BY <1>3, <3>2
    <3> QED
      BY <1>13, <3>1, <3>2 DEF Decode
  <2>4. outSock' = outSock /\ writeBuffer' = writeBuffer
    BY <1>13 DEF Decode, sendVars
  <2>5. Buffers
    BY <1>3, <2>3, <2>4
  <2> QED
    BY <1>5, <2>1, <2>2, <2>5
<1>14. CASE CloseCommand
  <2>1. Streamed
    BY <1>2, <1>14 DEF CloseCommand, peerVars, sendVars
  <2>2. Flags
    BY <1>3, <1>14 DEF CloseCommand, peerVars, readVars, sendVars
  <2>3. Buffers
    BY <1>6, <1>14 DEF CloseCommand, readVars, sendVars
  <2> QED
    BY <1>5, <2>1, <2>2, <2>3
<1>15. CASE ErrorTimer
  <2>1. Streamed
    BY <1>2, <1>15 DEF ErrorTimer, peerVars
  <2>2. Flags
    BY <1>3, <1>15 DEF ErrorTimer, CloseSocket, peerVars, readVars
  <2>3. Buffers
    BY <1>6, <1>15 DEF ErrorTimer, readVars
  <2> QED
    BY <1>5, <2>1, <2>2, <2>3
<1>16. ASSUME NEW m \in Replies, Send(m) PROVE Types'
  <2>1. /\ outSock' \in Stream /\ Len(outSock') <= SockSize /\ accepted' \in Stream
        /\ IsBuffer(writeBuffer') /\ Len(writeBuffer'.data) <= SendMax
        /\ status' \in {"CONNECTED", "PENDING_ERROR", "GONE"} /\ timer' \in BOOLEAN
    BY <1>16, SendInOrder
  <2>2. /\ UNCHANGED <<stream, toWrite, peer, inSock, received, pc, arrived, hup, readBuffer>>
        /\ sends < MaxSends /\ sends' = sends + 1
    BY <1>16 DEF Send, peerVars, readVars
  <2>3. sends' \in 0..MaxSends
    BY <1>3, <1>4, <2>2
  <2>4. Streamed
    BY <1>2, <2>1, <2>2
  <2>5. Flags
    BY <1>3, <2>1, <2>2, <2>3
  <2>6. Buffers
    BY <1>3, <2>1, <2>2
  <2> QED
    BY <1>5, <2>4, <2>5, <2>6
<1>17. CASE UNCHANGED vars
  <2>1. Streamed
    BY <1>2, <1>17 DEF vars, peerVars, sendVars
  <2>2. Flags
    BY <1>3, <1>17 DEF vars, peerVars, readVars, sendVars
  <2>3. Buffers
    BY <1>6, <1>17 DEF vars, readVars, sendVars
  <2> QED
    BY <1>5, <2>1, <2>2, <2>3
<1> QED
  BY <1>7, <1>8, <1>9, <1>10, <1>11, <1>12, <1>13, <1>14, <1>15, <1>16, <1>17
     DEF Next, Handle

\* What was read stays so.
LEMMA ReadStep ==
  ASSUME ConnectionAssumption, BufferAssumption, PacketAssumption, Types, ReadInv,
         [Next]_vars
  PROVE  ReadInv'
<1> DEFINE k == Len(Messages)
           b == readBuffer.data
<1>1. /\ stream \in Seq(Packets) /\ inSock \in Seq(Byte) /\ toWrite \in Seq(Byte)
      /\ b \in Seq(Byte) /\ told \in Seq(Commands)
  <2>1. stream \in Streams
    BY DEF Types
  <2>2. stream \in Seq(Packets)
    BY <2>1, Assumed
  <2> QED
    BY <2>2 DEF Types, TypeOK, IsBuffer, Stream, Byte
<1>2. Messages = MessagesOf(told) /\ Messages' = MessagesOf(told')
  BY DEF Messages, MessagesOf
<1>3. Messages \in Seq(Commands) /\ k \in Nat
  <2>1. [type |-> "CLOSE"] \in Commands
    BY DEF Commands
  <2>2. MessagesOf(told) \in Seq(Commands)
    BY <1>1, <2>1, MessagesAppend
  <2> QED
    BY <1>2, <2>2, LenProperties
<1>4. k <= Len(stream) /\ Kept(stream, k, b, inSock, toWrite) /\ MessagesAsWritten
  BY DEF ReadInv, BytesKept, Kept
<1>5. stream' = stream
  BY DEF Next, Handle, Write, Receive, HangUp, Event, ReadData, ReadAll, ReadStops,
         Decode, CloseCommand, ErrorTimer, Send, vars, peerVars
<1>6. ASSUME Messages' = Messages, Kept(stream, k, b', inSock', toWrite')
      PROVE  ReadInv'
  <2>1. BytesKept'
    BY <1>5, <1>6 DEF BytesKept, Kept
  <2>2. MessagesAsWritten'
    BY <1>4, <1>5, <1>6 DEF MessagesAsWritten
  <2> QED
    BY <1>4, <1>5, <1>6, <2>1, <2>2 DEF ReadInv
<1>7. ASSUME UNCHANGED told \/ CloseSocket PROVE Messages' = Messages
  <2>1. CASE CloseSocket
    <3> DEFINE c == [type |-> "CLOSE"]
    <3>1. c \in Commands /\ c.type # "MESSAGE"
      BY DEF Commands
    <3>2. told' = Append(told, c)
      BY <2>1 DEF CloseSocket
    <3> HIDE DEF c
    <3>3. MessagesOf(Append(told, c)) = MessagesOf(told)
      BY <1>1, <3>1, MessagesAppend
    <3> QED
      BY <1>2, <3>2, <3>3
  <2> QED
    BY <1>2, <1>7, <2>1
<1>8. ASSUME UNCHANGED told \/ CloseSocket, UNCHANGED <<readBuffer, inSock, toWrite>>
      PROVE  ReadInv'
  BY <1>4, <1>6, <1>7, <1>8
<1> DEFINE a == Bytes(SubSeq(stream, 1, k))
<1>9. a \in Seq(Byte)
  <2>1. k \in 0..Len(stream)
    BY <1>1, <1>3, <1>4, LenProperties
  <2> HIDE DEF k
  <2>2. SubSeq(stream, 1, k) \in Seq(Packets)
    BY <1>1, <2>1, CutInTwo
  <2> QED
    BY <2>2, BytesType DEF Stream
<1>10. CASE Write
  <2>1. inSock' \in Seq(Byte) /\ toWrite' \in Seq(Byte)
        /\ inSock' \o toWrite' = inSock \o toWrite
    BY <1>10, WriteStep DEF Stream
  <2>2. a \o b \in Seq(Byte)
    BY <1>1, <1>9, ConcatProperties
  <2>3. ((a \o b) \o inSock') \o toWrite' = ((a \o b) \o inSock) \o toWrite
    <3> DEFINE c == a \o b
               x == inSock'
               y == toWrite'
    <3>1. c \in Seq(Byte) /\ x \in Seq(Byte) /\ y \in Seq(Byte)
      BY <2>1, <2>2
    <3> HIDE DEF a, c, x, y
    <3>2. (c \o x) \o y = c \o (x \o y)
      BY <3>1, Regroup, SMTT(60)
    <3>3. (c \o inSock) \o toWrite = c \o (inSock \o toWrite)
      <4>1. inSock \in Seq(Byte) /\ toWrite \in Seq(Byte)
        BY <1>1
      <4> QED
        BY <3>1, <4>1, Regroup, SMTT(60)
    <3>4. x \o y = inSock \o toWrite
      BY <2>1 DEF x, y
    <3> QED
      BY <3>2, <3>3, <3>4 DEF c, x, y
  <2>4. told' = told /\ readBuffer' = readBuffer
    BY <1>10 DEF Write, readVars
  <2>5. Kept(stream, k, b', inSock', toWrite')
    BY <1>4, <2>3, <2>4 DEF Kept
  <2> QED
    BY <1>6, <1>7, <2>4, <2>5
<1>11. CASE ReadData
  <2>1. b' = b \o inSock
    BY <1>11, ReadDataStep
  <2>2. told' = told /\ inSock' = <<>> /\ toWrite' = toWrite
    BY <1>11 DEF ReadData, peerVars
  <2>3. (a \o (b \o inSock)) \o <<>> = (a \o b) \o inSock
    <3> HIDE DEF a, b
    <3>1. b \o inSock \in Seq(Byte)
      BY <1>1, ConcatProperties
    <3>2. a \o (b \o inSock) \in Seq(Byte)
      BY <1>9, <3>1, ConcatProperties
    <3>3. (a \o (b \o inSock)) \o <<>> = a \o (b \o inSock)
      BY <3>2, ConcatEmptySeq
    <3>4. (a \o b) \o inSock = a \o (b \o inSock)
      BY <1>1, <1>9, Regroup
    <3> QED
      BY <3>3, <3>4
  <2>4. Kept(stream, k, b', inSock', toWrite')
    BY <1>4, <2>1, <2>2, <2>3 DEF Kept
  <2> QED
    BY <1>6, <1>7, <2>2, <2>4
<1>12. CASE Decode
  <2> DEFINE packet == RecvMessage[b]
             c == [type |-> "MESSAGE", msg |-> packet.msg]
             p == stream[k + 1]
  <2>1. inSock' = inSock /\ toWrite' = toWrite
    BY <1>12 DEF Decode, peerVars
  <2>2. CASE packet.res = "ERR" /\ Closed /\ UNCHANGED readBuffer
    BY <1>8, <2>1, <2>2 DEF Closed
  <2>3. CASE Finish(pc = "decodeClose") /\ UNCHANGED readBuffer
    BY <1>8, <2>1, <2>3 DEF Finish, Closed
  <2>4. CASE /\ packet.res = "MESSAGE_READY"
             /\ readBuffer' = Take(readBuffer, packet.size)
             /\ told' = Append(told, c)
    <3>1. /\ k < Len(stream) /\ p \in Packets /\ p.id = LoginId /\ p.pad >= 0
          /\ packet.msg = p.body /\ Len(Wire(p)) <= MaxPacketLength
          /\ Kept(stream, k + 1, b', inSock, toWrite)
      <4> DEFINE pk == packet
      <4>1. /\ pk = RecvMessage[readBuffer.data] /\ pk.res = "MESSAGE_READY"
            /\ readBuffer' = Take(readBuffer, pk.size)
        BY <2>4
      <4> HIDE DEF pk
      <4> QED
        BY <4>1, DecodeStep DEF pk
    <3>2. c.msg = p.body /\ c.type = "MESSAGE"
      BY <3>1
    <3>3. c \in Commands
      BY <3>1 DEF Commands, Packets
    <3> HIDE DEF c
    <3>4. MessagesOf(Append(told, c)) = Append(MessagesOf(told), c)
      BY <1>1, <3>2, <3>3, MessagesAppend
    <3>5. Messages' = Append(Messages, c)
      BY <1>2, <2>4, <3>4
    <3>6. /\ Len(Messages') = k + 1 /\ Messages'[k + 1] = c
          /\ \A i \in 1..k : Messages'[i] = Messages[i]
      BY <1>3, <3>3, <3>5, AppendProperties
    <3>7. BytesKept'
      BY <1>5, <2>1, <3>1, <3>6 DEF BytesKept, Kept
    <3>8. MessagesAsWritten'
      <4>1. \A i \in 1..(k + 1) : i \in 1..k \/ i = k + 1
        BY <1>3
      <4> DEFINE l == Messages'
      <4>2. /\ Len(l) = k + 1 /\ l[k + 1].msg = p.body
            /\ \A i \in 1..k : l[i].msg = Messages[i].msg
        BY <3>2, <3>6
      <4> HIDE DEF l
      <4>3. \A i \in 1..Len(l) :
              LET q == stream[i]
              IN /\ q.id = LoginId /\ q.pad >= 0 /\ l[i].msg = q.body
                 /\ Len(Wire(q)) <= MaxPacketLength
        BY <1>4, <3>1, <4>1, <4>2 DEF MessagesAsWritten
      <4> QED
        BY <1>5, <4>3 DEF MessagesAsWritten, l
    <3>9. k + 1 <= Len(stream)
      BY <1>1, <1>3, <3>1, LenProperties
    <3> QED
      BY <1>5, <3>6, <3>7, <3>8, <3>9 DEF ReadInv
  <2> QED
    BY <1>12, <2>2, <2>3, <2>4 DEF Decode
<1>13. CASE Receive \/ HangUp \/ UNCHANGED vars
  BY <1>8, <1>13 DEF Receive, HangUp, vars, peerVars, readVars
<1>14. CASE Event \/ ReadAll \/ CloseCommand
  BY <1>8, <1>14 DEF Event, ReadAll, CloseCommand, peerVars, readVars
<1>15. CASE ReadStops
  BY <1>8, <1>15 DEF ReadStops, Closed, peerVars
<1>16. CASE ErrorTimer
  BY <1>8, <1>16 DEF ErrorTimer, peerVars, readVars
<1>17. ASSUME NEW m \in Replies, Send(m) PROVE ReadInv'
  BY <1>8, <1>17 DEF Send, peerVars, readVars
<1> QED
  BY <1>10, <1>11, <1>12, <1>13, <1>14, <1>15, <1>16, <1>17 DEF Next, Handle

-----------------------------------------------------------------------------
(* The theorems *)

\* All of it together is inductive: the messages have the types of what clients
\* write because they are the clients' messages.
Inv == Types /\ ToldInv /\ ReadInv /\ OutboundInOrder

\* The invariant holds in every state.
LEMMA Invariant == Spec => []Inv
<1>1. Init => Inv
  BY InitInvs, ConnectionAssumption, BufferAssumption, PacketAssumption DEF Inv
<1>2. Inv /\ [Next]_vars => Inv'
  BY TypesStep, ToldStep, ReadStep, OutboundStep,
     ConnectionAssumption, BufferAssumption, PacketAssumption DEF Inv
<1> QED
  BY <1>1, <1>2, PTL DEF Spec

\* The variables keep their types, and the buffers their bounds, for every length
\* of the packets, however they are cut and however the buffers grow or shrink.
THEOREM TypeCorrect == Spec => []TypeOK
<1>1. Inv => TypeOK
  BY DEF Inv, Types
<1> QED
  BY <1>1, Invariant, PTL

\* The main loop is told at most once that the connection is closed, and nothing
\* after it.
THEOREM ToldLast == Spec => []CloseToldLast
<1>1. Inv => CloseToldLast
  BY DEF Inv, ToldInv
<1> QED
  BY <1>1, Invariant, PTL

\* No byte of a client is lost, repeated or cut in the wrong place,
THEOREM NoByteLost == Spec => []BytesKept
<1>1. Inv => BytesKept
  BY DEF Inv, ReadInv
<1> QED
  BY <1>1, Invariant, PTL

\* and the application gets the messages it encoded, whole, and no other, for
\* every message of the kind, every padding and every cut.
THEOREM MessagesRead == Spec => []MessagesAsWritten
<1>1. Inv => MessagesAsWritten
  BY DEF Inv, ReadInv
<1> QED
  BY <1>1, Invariant, PTL

\* What a client receives is the beginning of what was sent, in order.
THEOREM SentInOrder == Spec => []OutboundInOrder
<1>1. Inv => OutboundInOrder
  BY DEF Inv
<1> QED
  BY <1>1, Invariant, PTL

=============================================================================
