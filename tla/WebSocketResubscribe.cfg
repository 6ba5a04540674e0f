CONSTANTS
  worker = worker
  user = user
  poll1 = poll1
  poll2 = poll2
  again1 = again1
  Worker <- worker
  User <- user
  Pollers <- TwoPollers
  Reconnectors <- OneReconnector
  Retries = {2}
  MaxConnections = 2
SPECIFICATION Spec
CHECK_DEADLOCK FALSE
INVARIANT
  StreamsSurvive
