\* Packets of 7 to 15 bytes, those of more than 12 too long; a read buffer of
\* at most 16 bytes, a write buffer of at most 8, a socket that holds 3, an
\* encode buffer of 12; buffers begin with 2 bytes and grow by 2.
CONSTANTS
  InitSize = 2
  ExpandSize = 2
  Word = 65536
  LoginId = 1001
  Streams <- MCStreams
  Chunks = {1, 20}
  Replies <- MCReplies
  MaxSends = 2
  MaxPacketLength = 12
  EncodeSize = 12
  RecvMax = 16
  SendMax = 8
  SockSize = 3

SPECIFICATION Spec

PROPERTIES
  BufferedIsSent

CHECK_DEADLOCK FALSE
