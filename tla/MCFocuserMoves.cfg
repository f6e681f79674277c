SPECIFICATION Spec
CONSTANTS
  Foc = foc
  Limit = 2
  Jog = 1
  MaxPosValues = {1, 2}
  BacklashValues = {1}
  UstepValues = {1}
  SyncValues = {}
  Defaults <- MCTakeUp
  Mishaps = {"cut", "fault", "watchdog"}
  MoveTargets = {0, 1, 2}
INVARIANTS DirectionKept
PROPERTIES StepsStayInside SaveComes
