--------------------------- MODULE MC_Connection ---------------------------
(***************************************************************************)
(* Small packets: two good ones, one of an unknown kind, one that is cut   *)
(* and one that is too long.                                               *)
(***************************************************************************)
EXTENDS Connection

Login(account, token, age) == [account |-> account, token |-> token, age |-> age]
Packet(id, body, pad) == [id |-> id, body |-> body, pad |-> pad]

Good   == Packet(1001, Login(<<>>, <<7>>, 254), 0)
Padded == Packet(1001, Login(<<>>, <<>>, 1), 1)
Other  == Packet(1002, Login(<<>>, <<>>, 1), 0)
Cut    == Packet(1001, Login(<<>>, <<>>, 254), -1)
Long   == Packet(1001, Login(<<>>, <<>>, 1), 8)

MCStreams == { <<Good, Padded>>, <<Padded, Cut>>, <<Other>>, <<Long>> }

MCReplies == { Login(<<>>, <<>>, 2), Login(<<8, 8>>, <<8, 8>>, 65536) }

=============================================================================
