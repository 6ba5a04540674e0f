CONSTANTS
  Statuses = {"completed", "interrupted"}
  Tx = {0, 1}
  Rss = {1, 2}
  MaxSessions = 3
  MaxLines = 5
  MaxTotal = 2
SPECIFICATION Spec
CHECK_DEADLOCK FALSE
INVARIANTS
  TypeOK
  OnlyStartsAreSwallowed
  SessionsAreBlocks
  MetaFollowsLog
  TotalNeverRegresses
  PeakCoversClosed
  EntrySummarisesLog
PROPERTIES
  ImplementsHistory
