\* Two pages that play one frame.
CONSTANTS
  Users = {a, b}
  NoUid = NoUid
  NoCommand = NoCommand
  Ops = {"LEFT", "UP", "FIRE"}
  Interval = 2
  FramesPerGear = 1
  MaxGear = 2
  Width = 4
  Height = 5
  Long = 2
  Short = 1
  Born <- MCBorn
  MaxTick = 2
  MaxSteps = 2
  MaxLog = 3
  MaxShots = 2

SPECIFICATION Spec


INVARIANT SameInputSameOutput
