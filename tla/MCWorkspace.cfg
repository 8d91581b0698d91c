SPECIFICATION FairSpec
CONSTANTS
  MaxInvokes = 2
  MaxFaults = 1
INVARIANTS FreeIsMarked
PROPERTIES NoFalseLoss SparesHeld LossHeard Reaped
CHECK_DEADLOCK FALSE
