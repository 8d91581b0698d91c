CONSTANTS
  tests = tests
  cut = cut
  Ids = {tests, cut}
  Idempotent = {cut}
  KeepSettled = 2
  Resends = 1
  MaxCrashes = 2
  MaxRestarts = 2
  MaxLosses = 1
  MaxSpawnerEnds = 1
SPECIFICATION FairSpec
CONSTRAINT OneInvoked
INVARIANTS NoSecondFire WriteAhead OneOutcome
PROPERTIES KillHolds EffectEnds
CHECK_DEADLOCK FALSE
