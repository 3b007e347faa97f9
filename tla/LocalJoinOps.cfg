SPECIFICATION Spec
CONSTANTS
  p1 = p1
  p2 = p2
  p3 = p3
  Procs <- Two
  Members <- Later
  None = None
  Kinds = {"work"}
  Status0 = "OK"
  MaxReq = 2
  MaxLoss = 0
  MaxLeave = 0
  MaxUpdate = 0
INVARIANTS
  OneOperation
\* The driver waits for the next event.
CHECK_DEADLOCK FALSE
