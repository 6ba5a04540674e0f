CONSTANTS
  TrendWindow = 5
  TrendSamples = 3
  StateLogMax = 2
  RowMax = 1
  MaxProcs = 2
  MaxMoves = 2
  MaxSnapshots = 1
  NodeStates = {"connected", "full"}
  Ledgers = {1, 2}
  MaxTime = 2
  MaxPolls = 3
SPECIFICATION Spec
CHECK_DEADLOCK FALSE
INVARIANTS
  TypeOK
  NothingStale
  NoInventedTransitions
  MarkersMatchHistory
  PeakIsHighWater
  RawIsCurrent
