SPECIFICATION FairSpec
CONSTANTS
  MaxSubs = 2
  MaxSaid = 1
  MaxStops = 2
INVARIANTS OneTurnAtATime RecordReads EndedByItsPick
PROPERTIES WaiterTold KeepsPromise
CHECK_DEADLOCK FALSE
