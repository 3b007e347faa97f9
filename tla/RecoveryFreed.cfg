SPECIFICATION Spec
CONSTANTS
  Oids = {1, 2}
  Reqs = {r1}
  Ops = {"read", "write", "create", "recov"}
  Null = Null
  LocalAt <- MCLocalAt
  GatewayAt <- MCGatewayAt
  HaltAt <- MCHaltAt
  NrThreads = 2
  MaxExec = 1
  AvoidDiskfull = FALSE
  Throttle = FALSE
  Shutdown = FALSE
  MdRecovery = FALSE
  MaxEpoch = 3
  MaxStart = 2
INVARIANTS
  NoUseAfterFree
\* An idle sheep waits for the next event.
CHECK_DEADLOCK FALSE
