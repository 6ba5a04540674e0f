CONSTANTS
  Configs <- EveryConfig
  NumBinaries = 2
  MaxFailures = 2
  MaxIncarnations = 2
  MaxProcesses = 2
  MaxCloses = 1
  MaxSamples = 1
SPECIFICATION FairSpec
CHECK_DEADLOCK FALSE
INVARIANTS
  TypeOK
  SnapshotsAreOwn
  CrashIsReal
  InterruptedMeansQuit
  QuitClosesSession
  NoOrphan
  GateOpensAgain
PROPERTIES
  ImplementsHistory
  StopEnds
  DeathEndsSession
  
