SPECIFICATION Spec
CONSTANTS
  MaxFailures = 2
  MaxLine = 5
INVARIANTS OnlyIdentified CleanLine NotLockedOut
