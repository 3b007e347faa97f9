SPECIFICATION Spec
CONSTANTS
  Oids = {1}
  Reqs = {r1}
  Ops = {"read", "write", "create", "recov"}
  Null = Null
  LocalAt <- MCLocalOne
  GatewayAt <- MCNone
  HaltAt <- MCHaltAt
  NrThreads = 2
  MaxExec = 1
  AvoidDiskfull = FALSE
  Throttle = FALSE
  Shutdown = FALSE
  MdRecovery = TRUE
  MaxEpoch = 2
  MaxStart = 3
INVARIANTS
  CompletionStillOwed
\* An idle sheep waits for the next event.
CHECK_DEADLOCK FALSE
