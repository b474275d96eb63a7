--------------------------- MODULE DynamicBuffer ---------------------------
(***************************************************************************)
(* The buffer of zbluenet (dynamic_buffer.cc), as operators on records: a  *)
(* block of cap bytes, of which the first read are used up and data are    *)
(* the next.  Sizes are of type size_t, and wrap.                          *)
(***************************************************************************)
EXTENDS Integers, Sequences

CONSTANTS
  InitSize,    \* size of a new buffer, 1024 in net_thread.cc
  ExpandSize,  \* unit in which it grows, 1024 too
  Word         \* size_t counts modulo Word

ASSUME BufferAssumption ==
  /\ InitSize \in Nat /\ ExpandSize \in Nat \ {0}
  /\ Word \in Nat /\ InitSize < Word

Lower(m, n) == IF m <= n THEN m ELSE n

NewBuffer == [cap |-> InitSize, read |-> 0, data |-> <<>>]

\* writableBytes
Writable(b) == b.cap - (b.read + Len(b.data))

\* Mutant: whole units only, the one that is begun is not counted.
Growth_NoSpareUnit(free, n) ==
  IF free >= n /\ free - n < ExpandSize THEN ExpandSize
  ELSE ExpandSize * (((n - free) % Word) \div ExpandSize)

\* What reserveWritableBytes adds to the size when free bytes are not used and
\* n are wanted.  With a unit or more to spare n - free wraps, and so does the
\* new size: the buffer shrinks.
Growth(free, n) ==
  IF free >= n /\ free - n < ExpandSize THEN ExpandSize
  ELSE ExpandSize * (((n - free) % Word) \div ExpandSize + 1)

\* reserveWritableBytes: a new block, unless n bytes can be written already.
Reserve(b, n) ==
  IF Writable(b) >= n THEN b
  ELSE [cap  |-> (b.cap + Growth(b.read + Writable(b), n)) % Word,
        read |-> 0,
        data |-> b.data]

\* Bytes are copied behind the data, and write counts those within the block.
Put(b, bytes) ==
  [b EXCEPT !.data = @ \o SubSeq(bytes, 1, Lower(Len(bytes), Writable(b)))]

\* read, which clears a buffer that it empties.
Take(b, n) ==
  IF n >= Len(b.data) THEN [b EXCEPT !.read = 0, !.data = <<>>]
  ELSE [b EXCEPT !.read = @ + n, !.data = SubSeq(@, n + 1, Len(@))]

IsBuffer(b) ==
  /\ b \in [cap : 0..(Word - 1), read : Nat, data : Seq(0..255)]
  /\ Writable(b) >= 0

=============================================================================
