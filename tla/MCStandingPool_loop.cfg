SPECIFICATION Spec
CONSTANTS
  Items = {i1}
  Resumers = {x1}
  MaxRuns = 5
  Bound = 1
  StartsThrow = TRUE
  MayLeave = TRUE
  MaxPublishes = 1
  MaxCrashes = 0
INVARIANTS PoisonLoopPauses
CHECK_DEADLOCK FALSE
