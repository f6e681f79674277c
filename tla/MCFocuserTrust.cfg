SPECIFICATION MCSpec
CONSTANTS
  Foc = foc
  Limit = 4
  Jog = 1
  MaxPosValues = {1, 2}
  BacklashValues = {0, 1}
  UstepValues = {1, 2}
  SyncValues = {0, 1, 2, 3}
  Defaults <- MCRoom
  Mishaps = {"cut", "fault", "watchdog"}
  MoveTargets = {0, 2}
INVARIANTS TrustedRight MarkWillClear
