CONSTANTS
  foc = foc
  rot = rot
  Axes <- MCAxes
  NoAxis = none
  Targets <- MCTargets
  Leads <- MCLeads
  IdleTicks = 2
SPECIFICATION MCSpec
INVARIANTS TypeOK OnTrack OneAxisMoves
PROPERTIES ExactEnd SoftStop IdleOffWaits MoveEnds KeepsContract
