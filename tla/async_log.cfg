\* Two threads log three lines each, through a queue of two.
CONSTANTS
  Loggers = {l1, l2}
  Closer = closer
  Capacity = 2
  MaxLines = 3

SPECIFICATION Spec

INVARIANTS
  TypeOK
  NobodyForgotten
  FreedWhenWritten

PROPERTIES
  ImplementsChannel
  Terminates

CHECK_DEADLOCK FALSE
