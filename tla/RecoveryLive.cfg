SPECIFICATION FairSpec
CONSTANTS
  Oids = {1}
  Reqs = {r1}
  Ops = {"read"}
  Null = Null
  LocalAt <- MCLocalOne
  GatewayAt <- MCNone
  HaltAt <- MCHaltAt
  NrThreads = 2
  MaxExec = 1
  AvoidDiskfull = TRUE
  Throttle = TRUE
  Shutdown = FALSE
  MdRecovery = TRUE
  MaxEpoch = 2
  MaxStart = 2
INVARIANTS
  SleeperHasWaker
  MachineIsDriven
PROPERTIES
  SleepersWake
  RecoveryEnds
\* An idle sheep waits for the next event.
CHECK_DEADLOCK FALSE
