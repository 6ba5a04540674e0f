CONSTANTS
  worker = worker
  user = user
  poll1 = poll1
  poll2 = poll2
  again1 = again1
  Worker <- worker
  User <- user
  Pollers <- TwoPollers
  Reconnectors <- OneReconnector
  Retries = {0, 2}
  MaxConnections = 3
SPECIFICATION FairSpec
CHECK_DEADLOCK FALSE
INVARIANTS
  TypeOK
  NothingLeaks
  OpenMeansRead
  StreamsAreConfirmed
PROPERTIES
  LockIsHandedOn
