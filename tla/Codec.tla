------------------------------- MODULE Codec -------------------------------
(***************************************************************************)
(* The encoding of messages (exchange/macro.h) and of the login message of *)
(* the demo (demo/c2s_message.cc).  A reader takes the bytes that are left *)
(* and gives a value and the rest, or fails when they are too few.         *)
(***************************************************************************)
EXTENDS Integers, Sequences

\* Big-endian integers of one, two and four bytes, as WRITE_INT8 to 32.
Int8(v)  == <<v % 256>>
Int16(v) == <<(v \div 256) % 256, v % 256>>
Int32(v) == Int16(v \div 65536) \o Int16(v)

\* WRITE_INT32V and WRITE_LENGTH: one byte, or a mark and two or four bytes.
IntV(v) ==
  IF v < 254 THEN Int8(v)
  ELSE IF v <= 65535 THEN Int8(254) \o Int16(v)
  ELSE Int8(255) \o Int32(v)

String(s) == IntV(Len(s)) \o s

\* C2SLoginRequest.encode, with as much room as it needs.
EncodeLogin(m) == String(m.account) \o String(m.token) \o IntV(m.age)

Byte   == 0..255
Stream == Seq(Byte)

\* Values of uint16_t, and those of int that are not negative,
Shorts == {n \in Nat : n <= 65535}
Ints   == {n \in Nat : n <= 2147483647}

\* and login messages, whose lengths and age are such ints.
Logins == {m \in [account : Stream, token : Stream, age : Ints] :
             Len(m.account) \in Ints /\ Len(m.token) \in Ints}

Short == [ok |-> FALSE, val |-> 0, rest |-> <<>>]

Drop(b, n) == SubSeq(b, n + 1, Len(b))

Found(v, b, n) == [ok |-> TRUE, val |-> v, rest |-> Drop(b, n)]

\* READ_INT8, READ_INT16 and READ_INT32.
ReadInt8[b \in Stream]  == IF Len(b) < 1 THEN Short ELSE Found(b[1], b, 1)
ReadInt16[b \in Stream] == IF Len(b) < 2 THEN Short ELSE Found(b[1] * 256 + b[2], b, 2)
ReadInt32[b \in Stream] ==
  IF Len(b) < 4 THEN Short
  ELSE Found(((b[1] * 256 + b[2]) * 256 + b[3]) * 256 + b[4], b, 4)

\* Mutant: the mark of the two-byte form is taken for a value.
AfterLead_MarkIsValue(lead) ==
  CASE lead.ok /\ lead.val = 255 -> ReadInt32[lead.rest]
    [] OTHER -> lead

\* READ_INT32V and READ_LENGTH, which read on behind a mark.
AfterLead(lead) ==
  CASE lead.ok /\ lead.val = 254 -> ReadInt16[lead.rest]
    [] lead.ok /\ lead.val = 255 -> ReadInt32[lead.rest]
    [] OTHER -> lead

ReadIntV[b \in Stream] == AfterLead(ReadInt8[b])

\* READ_STRING
ReadString[b \in Stream] ==
  LET length == ReadIntV[b]
  IN IF ~length.ok \/ Len(length.rest) < length.val THEN Short
     ELSE Found(SubSeq(length.rest, 1, length.val), length.rest, length.val)

\* C2SLoginRequest.decode; bytes behind the last field are left alone.
DecodeLogin[b \in Stream] ==
  LET account == ReadString[b]
      token   == ReadString[account.rest]
      age     == ReadIntV[token.rest]
  IN IF account.ok /\ token.ok /\ age.ok
     THEN Found([account |-> account.val, token |-> token.val,
                 age |-> age.val], age.rest, 0)
     ELSE Short

=============================================================================
