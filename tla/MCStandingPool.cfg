SPECIFICATION FairSpec
CONSTANTS
  Items = {i1}
  Resumers = {x1, x2}
  MaxRuns = 3
  Bound = 1
  StartsThrow = FALSE
  MayLeave = FALSE
  MaxPublishes = 1
  MaxCrashes = 1
INVARIANTS OneStandingRun HeldWhileUp
PROPERTIES StandsAgain
CHECK_DEADLOCK FALSE
