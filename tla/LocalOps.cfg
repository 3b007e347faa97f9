SPECIFICATION Spec
CONSTANTS
  p1 = p1
  p2 = p2
  p3 = p3
  Procs <- Three
  Members <- Three
  None = None
  Kinds = {"work", "reweight", "shutdown"}
  Status0 = "WAIT"
  MaxReq = 2
  MaxLoss = 1
  MaxLeave = 0
  MaxUpdate = 1
SYMMETRY Swap
INVARIANTS
  TypeOK
  OneOperation
  UnblockFindsItsEvent
  AnswersItsRequest
  RunningHasCause
\* The driver waits for the next event.
CHECK_DEADLOCK FALSE
