SPECIFICATION Spec
CONSTANTS
  Rot = rot
  Turn = 4
  Den = 1
  Chip = FALSE
  MaxPasses = 3
  CalStep = 1
  Tol = 0
  Jog = 0
  Fine = 1
  Mishaps = {"fault", "slip"}
  ImuStates = {"ok", "dead"}
  MoveTargets = {3}
  MoveDeltas = {}
  SyncValues = {0}
  WrapRanges <- MCHomeWraps
  SpkValues = {1}
  GuardValues = {TRUE}
  BootHomeValues = {TRUE}
  Defaults <- MCHome
PROPERTIES ZeroIsImuZero SequenceEnds StaysInWrap
