SPECIFICATION FairSpec
CONSTANTS
  MaxTurns = 2
  MaxSubs = 3
  MaxRestarts = 1
  MaxFaults = 1
  NudgeBudget = 1
  Calm = {"watchCurrent"}
INVARIANTS OneOpenPerTurn TaskInContext CutIsCut
PROPERTIES NoForeignSweep SurfaceIsOwn TurnMovesOn AbandonedSettles
CHECK_DEADLOCK FALSE
