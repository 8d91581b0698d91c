SPECIFICATION Spec
CONSTANTS
  MaxSandboxes = 2
  MaxRemovals = 0
  MaxLapses = 1
  MaxStops = 0
INVARIANT
  NewNotLostForOld
CONSTRAINT
  CaughtUp
CHECK_DEADLOCK FALSE
