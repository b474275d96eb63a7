\* Two connections, two net threads, one message of each client, two
\* operations of the application.
CONSTANTS
  Conns = {c1, c2}
  Threads = {1, 2}
  NoConn = NoConn
  MaxMsgs = 1
  MaxOps = 2

SPECIFICATION Spec
SYMMETRY Symmetry

INVARIANTS
  TypeOK
  TablesMatch
  DeliveredAsAddressed

CHECK_DEADLOCK FALSE
