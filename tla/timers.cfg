\* Six timers of two kinds that end and one that repeats, in two-tick
\* milliseconds; one is stopped.
CONSTANTS
  Kinds <- MCKinds
  Ms = 2
  MaxSleep = 2
  MaxStarts = 6
  MaxStops = 1
  LastStart = 0
  MaxClock = 5

SPECIFICATION Spec

INVARIANTS
  TypeOK
  SleepsUntilDue

PROPERTIES
  ImplementsTimers
  NoneStaysDue

CHECK_DEADLOCK FALSE
