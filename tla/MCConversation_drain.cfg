SPECIFICATION Spec
CONSTANTS
  MaxSubs = 2
  MaxSaid = 0
  MaxStops = 1
INVARIANTS DrainedIsSettled
CHECK_DEADLOCK FALSE
