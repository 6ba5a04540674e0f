CONSTANTS
  Statuses = {"completed", "interrupted"}
  Tx = {0, 1}
  Rss = {1, 2}
  MaxSessions = 2
  MaxLines = 3
  MaxTotal = 1
SPECIFICATION Spec
CHECK_DEADLOCK FALSE
INVARIANT
  CrashLosesInFlightOnly
