SPECIFICATION FairSpec
CONSTANTS
  MaxSandboxes = 2
  MaxRemovals = 1
  MaxLapses = 1
  MaxStops = 1
INVARIANTS
  LostIsMine
PROPERTIES
  OnePod
  KeepsPromise
  LossReported
CONSTRAINT
  OneFault
CHECK_DEADLOCK FALSE
