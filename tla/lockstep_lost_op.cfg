\* Two pages send an operation each for the same step.
CONSTANTS
  Conns = {c1, c2}
  Uids = {a, b, d}
  Ops = {fire}
  NoUid = NoUid
  NoCommand = NoCommand
  LateEvents = FALSE
  OrderlyPages = TRUE
  MaxStep = 2
  MaxPending = 2

SPECIFICATION Spec
PROPERTY EveryPlayersOpInStep
