CONSTANTS
  MaxEvents = 5
  MaxSessions = 3
  MaxTime = 2
  Tx = {0, 1}
  Rss = {1, 2}
  Readings = {0, 1}
  Answers <- MCAnswers
SPECIFICATION Spec
CHECK_DEADLOCK FALSE
INVARIANTS
  RunsAreAccountedFor
  DeltasTelescope
  TraceReplays
