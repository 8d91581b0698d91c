SPECIFICATION FairSpec
CONSTANTS
  Keys = {k1, k2}
  Callers = {c1, c2}
  Waiters = {w1}
  NoKey = NoKey
  Nobody = Nobody
  MaxRuns = 2
  MaxCrashes = 1
  MaxSaveFaults = 1
  MaxRestoreFaults = 1
CONSTRAINTS TwoFaults StartsOrWaits FirstKey
INVARIANTS OneRunPerKey StableAnswer NoOrphan ToldTheTruth
PROPERTIES EndedStaysEnded EveryWaiterTold
CHECK_DEADLOCK FALSE
