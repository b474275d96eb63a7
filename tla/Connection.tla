----------------------------- MODULE Connection -----------------------------
(***************************************************************************)
(* One connection of a net thread of zbluenet, byte by byte: the read and  *)
(* send paths of net/reactor.cc and net/epoll_reactor.cc, the framing of   *)
(* protocol/net_protocol.cc, and the callbacks of net/net_thread.cc and    *)
(* server/game_server.cc.                                                  *)
(*                                                                         *)
(* The thread waits in epoll ("wait"), reads the socket ("read") or        *)
(* decodes what it read ("decode"); commands of the main loop and timers   *)
(* run between events.  The client and the main loop act at any time.      *)
(*                                                                         *)
(* Nothing calls sendMessageThenClose, and onSocketWrite is never called,  *)
(* as no socket is watched for write events; both are left out.            *)
(***************************************************************************)
EXTENDS DynamicBuffer, Codec, SequencesExt

CONSTANTS
  LoginId,      \* id of the one kind of message that is registered
  Streams,      \* what clients write: packets of an id, a message, a padding
  Chunks,       \* numbers of bytes a client writes at once
  Replies,      \* messages the application may send
  MaxSends,     \* bound on the messages of the application
  MaxPacketLength,  \* of NetProtocol, 40960 in tcp_service.cc
  EncodeSize,   \* size of encode_buffer_, 40960
  RecvMax,      \* conn_read_buffer_max_size_, 81920
  SendMax,      \* conn_write_buffer_max_size_, 409600
  SockSize      \* bytes the socket holds for the client

ASSUME ConnectionAssumption ==
  /\ LoginId \in Shorts /\ Chunks \subseteq Nat \ {0} /\ MaxSends \in Nat
  /\ {MaxPacketLength, EncodeSize, RecvMax, SendMax, SockSize} \subseteq Nat
  /\ 4 <= EncodeSize /\ MaxPacketLength <= RecvMax
  /\ \A max \in {RecvMax, SendMax} : max + 2 * ExpandSize < Word

VARIABLES
  stream,    \* the packets of the client
  toWrite,   \* bytes of them that it has not written yet
  peer,      \* the client: "open", "closed" it, or "reset"
  inSock,    \* bytes written and not read
  outSock,   \* bytes sent and not received
  received,  \* history: bytes the client received
  status,    \* of the TcpConnection; "GONE" when it is deleted
  readBuffer,
  pc,        \* what the thread does
  arrived,   \* data_arrive of onSocketRead
  hup,       \* the event that is handled has EPOLLERR or EPOLLHUP
  writeBuffer,
  timer,     \* the timer of a failed send is set
  sends,     \* number of messages of the application
  accepted,  \* history: bytes sendMessage took
  told       \* history: commands pushed to the main loop

peerVars == <<stream, toWrite, peer>>
readVars == <<pc, arrived, hup, readBuffer>>
sendVars == <<writeBuffer, timer, sends, accepted>>
vars == <<peerVars, inSock, outSock, received, status, readVars, sendVars, told>>

\* The bytes of a packet: id, length, and the encoded message, which a client
\* may pad, as that of zblueclient does, or cut.
Wire(p) ==
  LET body    == EncodeLogin(p.body)
      payload == IF p.pad >= 0 THEN body \o [i \in 1..p.pad |-> 0]
                 ELSE SubSeq(body, 1, Len(body) + p.pad)
  IN Int16(p.id) \o Int16(Len(payload)) \o payload

\* Fields are within their types, and a packet within the field of its length.
ASSUME PacketAssumption ==
  /\ \A s \in Streams : s \in Seq([id : Shorts, body : Logins, pad : Int])
  /\ \A s \in Streams : \A i \in DOMAIN s : Len(Wire(s[i])) - 4 \in Shorts
  /\ Replies \subseteq Logins

Bytes(packets) == FlattenSeq([i \in DOMAIN packets |-> Wire(packets[i])])

Init ==
  /\ stream \in Streams /\ toWrite = Bytes(stream)
  /\ peer = "open" /\ inSock = <<>> /\ outSock = <<>> /\ received = <<>>
  /\ status = "CONNECTED"
  /\ pc = "wait" /\ arrived = FALSE /\ hup = FALSE
  /\ readBuffer = NewBuffer /\ writeBuffer = NewBuffer
  /\ timer = FALSE /\ sends = 0 /\ accepted = <<>> /\ told = <<>>

-----------------------------------------------------------------------------
(* The client and its socket *)

Write ==
  /\ peer = "open" /\ toWrite # <<>>
  /\ \E n \in Chunks :
       /\ inSock' = inSock \o SubSeq(toWrite, 1, Lower(n, Len(toWrite)))
       /\ toWrite' = Drop(toWrite, n)
  /\ UNCHANGED <<stream, peer, outSock, received, status, readVars, sendVars,
                 told>>

Receive ==
  /\ peer = "open" /\ outSock # <<>>
  /\ received' = received \o outSock /\ outSock' = <<>>
  /\ UNCHANGED <<peerVars, inSock, status, readVars, sendVars, told>>

\* The client closes the socket, or the connection breaks; either may follow.
HangUp ==
  /\ peer # "reset"
  /\ peer' \in {"closed", "reset"} \ {peer}
  /\ UNCHANGED <<stream, toWrite, inSock, outSock, received, status, readVars,
                 sendVars, told>>

-----------------------------------------------------------------------------
(* Closing *)

\* NetThread.closeSocket: the main loop is told, the reactor closes the socket.
CloseSocket ==
  /\ told' = Append(told, [type |-> "CLOSE"])
  /\ status' = "GONE"

\* Events that are left of the deleted connection are skipped.
Closed == CloseSocket /\ pc' = "wait"

-----------------------------------------------------------------------------
(* Reading *)

\* epoll reports bytes to read, the end of the stream, or an error.
Event ==
  /\ pc = "wait" /\ status # "GONE"
  /\ inSock # <<>> \/ peer # "open"
  /\ pc' = "read" /\ arrived' = FALSE /\ hup' = (peer = "reset")
  /\ UNCHANGED <<peerVars, inSock, outSock, received, status, readBuffer,
                 sendVars, told>>

\* The end of the handling of an event: a peer that has closed is closed here
\* (onPeerClose), and an error that epoll reported is handled (onSocketError).
Finish(peerClose) ==
  IF peerClose \/ hup THEN Closed
  ELSE pc' = "wait" /\ UNCHANGED <<status, told>>

BytesToRead == IF inSock = <<>> THEN 1 ELSE Len(inSock)

\* Mutant: what the buffer holds is not counted.
Exceeds_Unread == BytesToRead > RecvMax

Exceeds == BytesToRead + Len(readBuffer.data) > RecvMax

\* onSocketRead: all that is readable goes to the read buffer,
ReadData ==
  /\ pc = "read" /\ inSock # <<>> /\ ~Exceeds
  /\ readBuffer' = Put(Reserve(readBuffer, Len(inSock)), inSock)
  /\ inSock' = <<>> /\ arrived' = TRUE
  /\ UNCHANGED <<peerVars, outSock, received, status, pc, hup, sendVars, told>>

\* until nothing is left,
ReadAll ==
  /\ pc = "read" /\ inSock = <<>> /\ arrived
  /\ pc' = "decode"
  /\ UNCHANGED <<peerVars, inSock, outSock, received, status, arrived, hup,
                 readBuffer, sendVars, told>>

\* or the buffer is full, the stream has ended or recv fails: the connection is
\* closed, once what has arrived is decoded.
ReadStops ==
  /\ pc = "read" /\ \/ inSock # <<>> /\ Exceeds
                    \/ inSock = <<>> /\ ~arrived
  /\ IF arrived THEN pc' = "decodeClose" /\ UNCHANGED <<status, told>>
     ELSE Closed
  /\ UNCHANGED <<peerVars, inSock, outSock, received, arrived, hup, readBuffer,
                 sendVars>>

Waiting == [res |-> "WAITING_MORE_DATA"]
Err     == [res |-> "ERR"]

\* NetProtocol.recvMessage, without the step that takes the packet.
RecvMessage[b \in Stream] ==
  LET length == ReadInt16[Drop(b, 2)]
      body   == DecodeLogin[SubSeq(b, 5, 4 + length.val)]
  IN IF ~length.ok THEN Waiting
     ELSE IF length.val + 4 > MaxPacketLength THEN Err
     ELSE IF Len(b) < length.val + 4 THEN Waiting
     ELSE IF ReadInt16[b].val # LoginId \/ ~body.ok THEN Err
     ELSE [res |-> "MESSAGE_READY", msg |-> body.val, size |-> length.val + 4]

\* Mutant: GameServer.onRecvMessage goes on after an error.
Decode_GoesOn ==
  LET packet == RecvMessage[readBuffer.data]
  IN /\ pc \in {"decode", "decodeClose"}
     /\ IF packet.res = "ERR" THEN
          CloseSocket /\ UNCHANGED <<pc, readBuffer>>
        ELSE IF packet.res = "WAITING_MORE_DATA" THEN
          Finish(pc = "decodeClose") /\ UNCHANGED readBuffer
        ELSE
          /\ readBuffer' = Take(readBuffer, packet.size)
          /\ told' = Append(told, [type |-> "MESSAGE", msg |-> packet.msg])
          /\ UNCHANGED <<status, pc>>
     /\ UNCHANGED <<peerVars, inSock, outSock, received, arrived, hup, sendVars>>

\* Mutant: one message is decoded per event.
Decode_One ==
  LET packet == RecvMessage[readBuffer.data]
  IN /\ pc \in {"decode", "decodeClose"}
     /\ IF packet.res = "ERR" THEN Closed /\ UNCHANGED readBuffer
        ELSE IF packet.res = "WAITING_MORE_DATA" THEN
          Finish(pc = "decodeClose") /\ UNCHANGED readBuffer
        ELSE
          /\ readBuffer' = Take(readBuffer, packet.size)
          /\ told' = Append(told, [type |-> "MESSAGE", msg |-> packet.msg])
          /\ pc' = "wait" /\ UNCHANGED status
     /\ UNCHANGED <<peerVars, inSock, outSock, received, arrived, hup, sendVars>>

\* GameServer.onRecvMessage: a packet after another, to the first that is not
\* complete or that is bad.
Decode ==
  LET packet == RecvMessage[readBuffer.data]
  IN /\ pc \in {"decode", "decodeClose"}
     /\ \/ /\ packet.res = "MESSAGE_READY"
           /\ readBuffer' = Take(readBuffer, packet.size)
           /\ told' = Append(told, [type |-> "MESSAGE", msg |-> packet.msg])
           /\ UNCHANGED <<status, pc>>
        \/ packet.res = "ERR" /\ Closed /\ UNCHANGED readBuffer
        \/ /\ packet.res = "WAITING_MORE_DATA"
           /\ Finish(pc = "decodeClose") /\ UNCHANGED readBuffer
     /\ UNCHANGED <<peerVars, inSock, outSock, received, arrived, hup, sendVars>>

-----------------------------------------------------------------------------
(* Sending *)

\* The packet that NetProtocol.writeMessage makes, or nothing if the message
\* does not fit the encode buffer behind its id and length.
WriteMessage(m) ==
  LET body == EncodeLogin(m)
  IN IF Len(body) > EncodeSize - 4 THEN <<>>
     ELSE Int16(LoginId) \o Int16(Len(body)) \o body

\* A send fails: a timer of 0 ms will close the connection.
SendFails ==
  /\ status' = "PENDING_ERROR" /\ timer' = TRUE
  /\ UNCHANGED <<writeBuffer, accepted, outSock>>

\* Mutant: the socket is tried although bytes wait.
Direct_Always(frame) ==
  Lower(Len(frame), SockSize - Len(outSock))

\* Bytes go to the socket, as many as it has room for, when none wait.
Direct(frame) ==
  IF writeBuffer.data = <<>> THEN Lower(Len(frame), SockSize - Len(outSock))
  ELSE 0

\* Reactor.sendMessage: for what the socket does not take, as many bytes wait in
\* the write buffer, which are copied from the beginning of the packet, though.
SendTaken(frame) ==
  LET rest == Len(frame) - Direct(frame)
  IN /\ rest = 0 \/ rest + Len(writeBuffer.data) <= SendMax
     /\ outSock' = outSock \o SubSeq(frame, 1, Direct(frame))
     /\ writeBuffer' = IF rest = 0 THEN writeBuffer
                       ELSE Put(Reserve(writeBuffer, rest), SubSeq(frame, 1, rest))
     /\ accepted' = accepted \o frame
     /\ UNCHANGED <<status, timer>>

\* Mutant: the error is kept, and no timer is set.
SendFull_NoTimer(frame) ==
  LET rest == Len(frame) - Direct(frame)
  IN /\ rest > 0 /\ rest + Len(writeBuffer.data) > SendMax
     /\ outSock' = outSock \o SubSeq(frame, 1, Direct(frame))
     /\ accepted' = accepted \o SubSeq(frame, 1, Direct(frame))
     /\ status' = "PENDING_ERROR"
     /\ UNCHANGED <<writeBuffer, timer>>

\* unless that would exceed its size.
SendFull(frame) ==
  LET rest == Len(frame) - Direct(frame)
  IN /\ rest > 0 /\ rest + Len(writeBuffer.data) > SendMax
     /\ outSock' = outSock \o SubSeq(frame, 1, Direct(frame))
     /\ accepted' = accepted \o SubSeq(frame, 1, Direct(frame))
     /\ status' = "PENDING_ERROR" /\ timer' = TRUE
     /\ UNCHANGED writeBuffer

\* A MESSAGE command; commands to a connection that is not connected are
\* skipped.
Send(m) ==
  LET frame == WriteMessage(m)
  IN /\ pc = "wait" /\ status = "CONNECTED" /\ sends < MaxSends
     /\ sends' = sends + 1
     /\ \/ /\ frame = <<>> /\ CloseSocket
           /\ UNCHANGED <<outSock, writeBuffer, timer, accepted>>
        \/ /\ frame # <<>> /\ UNCHANGED told
           /\ IF peer = "reset" /\ writeBuffer.data = <<>> THEN SendFails
              ELSE SendTaken(frame) \/ SendFull(frame)
     /\ UNCHANGED <<peerVars, inSock, received, readVars>>

\* A CLOSE command of the main loop, which is not told.
CloseCommand ==
  /\ pc = "wait" /\ status = "CONNECTED"
  /\ status' = "GONE"
  /\ UNCHANGED <<peerVars, inSock, outSock, received, readVars, sendVars, told>>

\* onSendMessageError, which may find the connection gone.
ErrorTimer ==
  /\ pc = "wait" /\ timer
  /\ timer' = FALSE
  /\ IF status = "GONE" THEN UNCHANGED <<status, told>> ELSE CloseSocket
  /\ UNCHANGED <<peerVars, inSock, outSock, received, readVars, writeBuffer,
                 sends, accepted>>

-----------------------------------------------------------------------------

Handle == Event \/ ReadData \/ ReadAll \/ ReadStops \/ Decode

Next ==
  \/ Write \/ Receive \/ HangUp
  \/ Handle \/ CloseCommand \/ ErrorTimer
  \/ \E m \in Replies : Send(m)

\* The thread runs: it handles events, and checks its timers between them.
\* The client writes what it wants to and receives what is sent to it.
Fairness == WF_vars(Handle) /\ WF_vars(ErrorTimer) /\ WF_vars(Write)
            /\ WF_vars(Receive)

Spec == Init /\ [][Next]_vars /\ Fairness

-----------------------------------------------------------------------------
(* Properties *)

\* The messages among the commands that the main loop was told.
Messages == FlattenSeq([i \in DOMAIN told |->
                          IF told[i].type = "MESSAGE" THEN <<told[i]>> ELSE <<>>])

\* Type correctness; each buffer's data lies within its block.
TypeOK ==
  /\ peer \in {"open", "closed", "reset"}
  /\ status \in {"CONNECTED", "PENDING_ERROR", "GONE"}
  /\ pc \in {"wait", "read", "decode", "decodeClose"}
  /\ {arrived, hup, timer} \subseteq BOOLEAN
  /\ IsBuffer(readBuffer) /\ IsBuffer(writeBuffer)
  /\ Len(readBuffer.data) <= RecvMax /\ Len(writeBuffer.data) <= SendMax
  /\ Len(outSock) <= SockSize /\ sends \in 0..MaxSends

\* Nothing the client writes is lost, repeated or cut in the wrong place, in
\* whatever pieces it arrives and however the buffer grows or shrinks: behind
\* the packets that were passed on come the read buffer, the socket, and what
\* is not written.
BytesKept ==
  Bytes(SubSeq(stream, 1, Len(Messages))) \o readBuffer.data \o inSock \o toWrite
    = Bytes(stream)

\* The application is given the messages the client encoded, in order, up to
\* the first packet that is not a whole message of a registered kind and size.
MessagesAsWritten ==
  \A i \in 1..Len(Messages) :
    LET p == stream[i]
    IN /\ p.id = LoginId /\ p.pad >= 0 /\ Messages[i].msg = p.body
       /\ Len(Wire(p)) <= MaxPacketLength

\* What the client has received and what the socket holds is the beginning of
\* what the sends took, in order, and as many bytes wait as are missing, unless
\* the connection is gone.
OutboundInOrder ==
  /\ IsPrefix(received \o outSock, accepted)
  /\ status # "GONE" =>
       Len(received) + Len(outSock) + Len(writeBuffer.data) = Len(accepted)

\* The main loop is told at most once that a connection is closed, and nothing
\* about it afterwards, whatever errors come together: a bad packet, a reset,
\* a failed send and its timer.
CloseToldLast ==
  \A i \in DOMAIN told :
    told[i].type = "CLOSE" => i = Len(told) /\ status = "GONE"

\* A connection is closed in the end when a send has failed or the client is
\* gone.
TroubleCloses == status = "PENDING_ERROR" \/ peer # "open" ~> status = "GONE"

\* A client that does not hang up is read to the end: all its packets are
\* passed on, unless the connection is closed.
AllPassedOn == <>(status = "GONE" \/ Len(Messages) = Len(stream))

\* The net thread sends: what it has buffered leaves the buffer.
BufferedIsSent ==
  writeBuffer.data # <<>> ~> writeBuffer.data = <<>> \/ status = "GONE"

=============================================================================
