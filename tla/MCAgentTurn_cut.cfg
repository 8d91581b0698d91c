SPECIFICATION Spec
CONSTANTS
  MaxTurns = 1
  MaxSubs = 2
  MaxRestarts = 1
  MaxFaults = 0
  NudgeBudget = 1
  Calm = {}
INVARIANTS CutIsCut
CHECK_DEADLOCK FALSE
