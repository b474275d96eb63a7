\* Three pages, one of a user who joins a started game and is not recorded; the
\* history is dropped while this page stays, and another one comes.
CONSTANTS
  Users = {a, b, c}
  NoUid = NoUid
  NoCommand = NoCommand
  Ops = {"LEFT", "FIRE"}
  Interval = 1
  FramesPerGear = 1
  MaxGear = 1
  Width = 4
  Height = 5
  Long = 2
  Short = 1
  Born <- MCBorn
  MaxTick = 1
  MaxSteps = 1
  MaxLog = 7
  MaxShots = 1

SPECIFICATION Spec
SYMMETRY Symmetry

INVARIANT PagesAgreeOnDirections
