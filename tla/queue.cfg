\* Two threads push three commands each; readers without a limit, with the
\* limits 1 and 2.
CONSTANTS
  Pushers = {p1, p2}
  Limits = {0, 1, 2}
  PipeSize = 2
  ReadSize = 1
  MaxPushes = 3

SPECIFICATION Spec

INVARIANTS
  TypeOK
  OnlyBacklogWaits

PROPERTIES
  ImplementsChannel
  NetThreadTakesAll

CHECK_DEADLOCK FALSE
