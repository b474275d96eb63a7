\* Two pages play two frames in ticks of any length; users leave and come back.
CONSTANTS
  Users = {a, b}
  NoUid = NoUid
  NoCommand = NoCommand
  Ops = {"LEFT", "UP"}
  Interval = 2
  FramesPerGear = 1
  MaxGear = 2
  Width = 4
  Height = 5
  Long = 2
  Short = 1
  Born <- MCBorn
  MaxTick = 1
  MaxSteps = 2
  MaxLog = 5
  MaxShots = 0

SPECIFICATION Spec

INVARIANTS
  TypeOK
  FramesPlayedWhole

PROPERTIES
  StraightFramesAgree
  CatchesUp
