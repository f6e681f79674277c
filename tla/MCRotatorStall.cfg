SPECIFICATION Spec
CONSTANTS
  Rot = rot
  Turn = 2
  Den = 2
  Chip = TRUE
  MaxPasses = 3
  CalStep = 1
  Tol = 0
  Jog = 1
  Fine = 1
  Mishaps = {"fault"}
  ImuStates = {"dead"}
  MoveTargets = {1}
  MoveDeltas <- MCDeltas
  SyncValues = {0, 1}
  WrapRanges <- MCTrustWraps
  SpkValues = {2}
  GuardValues = {FALSE}
  BootHomeValues = {FALSE}
  Defaults <- MCTrust
PROPERTIES StallShows
