CONSTANTS
  MaxMessages = 2
  MaxLines = 4
  PipeSize = 2
  KeepLines = 2
  MaxHalves = 7
  ChunkHalves = 3
  HistoryLines = 1
  BufferMax = 3
  BufferKeep = 1
SPECIFICATION FairSpec
CHECK_DEADLOCK FALSE
INVARIANTS
  TypeOK
  StreamsInOrder
  LogIsCopy
  TailIsContiguous
  FiguresAreOfAttached
PROPERTIES
  DeadChildIsHeard
  StopEndsChild
