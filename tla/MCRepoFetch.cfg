SPECIFICATION FairSpec
CONSTANTS
  MaxAsks = 2
  MaxTime = 3
  MaxPushes = 2
  MaxFaults = 1
  Earliest = 2
INVARIANTS FetchedIsFresh StampIsHonest PresentIsWhole
PROPERTIES AsksAnswered
CHECK_DEADLOCK FALSE
