SPECIFICATION MCSpec
CONSTANTS
  Devices = {foc, rot}
  Temps = {0, 1, 2}
  MaxPosition = 2
  StepsPerDegree = 1
  ThresholdDegrees = 2
  MaxMoves = 2
  MaxMishaps = 1
  None = None
INVARIANTS CountsRight AllQuiet Compensated
PROPERTIES Reached CatchesUp
