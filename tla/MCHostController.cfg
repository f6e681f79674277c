SPECIFICATION Spec
CONSTANTS
  a = a
  b = b
  mover = mover
  halter = halter
  None = none
  Boards = {a, b}
  Callers = {mover, halter}
  Kinds <- MCKinds
  Able = {a}
  Preferred = none
  MaxFailures = 2
  MaxMishaps = 2
INVARIANTS TypeOK OkIsTrue NobodyForgotten
PROPERTIES NeverLate SameBoard HaltFirst PortFollowsWish
