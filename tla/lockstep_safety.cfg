\* Three pages, three users: two start a game, the third joins it late, the
\* first two leave and their connections are used again.
CONSTANTS
  Conns = {c1, c2, c3}
  Uids = {a, b, d}
  Ops = {fire}
  NoUid = NoUid
  NoCommand = NoCommand
  LateEvents = TRUE
  OrderlyPages = FALSE
  MaxStep = 2
  MaxPending = 1

SPECIFICATION Spec
SYMMETRY Symmetry

INVARIANTS
  TypeOK
  StartIffTwoReady
  HistoryContiguous
  NextGameStartsFresh
  StepAgreement
  NoStepMissed
  ReadyUsersVisible
  OwnTankKept

PROPERTIES
  HistoryKeptWhilePlayed
