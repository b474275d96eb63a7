\* The life of one connection: three messages, three operations.
CONSTANTS
  Conns = {c1}
  Threads = {1}
  NoConn = NoConn
  MaxMsgs = 3
  MaxOps = 3

SPECIFICATION Spec

INVARIANTS
  CallbacksInOrder
  DeliveredAsAddressed

PROPERTY GoneOnBothSides

CHECK_DEADLOCK FALSE
