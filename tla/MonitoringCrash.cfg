CONSTANTS
  Configs <- Tests
  NumBinaries = 2
  MaxFailures = 2
  MaxIncarnations = 2
  MaxProcesses = 2
  MaxCloses = 1
  MaxSamples = 0
SPECIFICATION Spec
CHECK_DEADLOCK FALSE
INVARIANT
  CrashIsRecorded
