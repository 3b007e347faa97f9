SPECIFICATION FairSpec
CONSTANTS
  p1 = p1
  p2 = p2
  p3 = p3
  Procs <- Two
  Members <- Later
  None = None
  Kinds = {"work"}
  Status0 = "OK"
  MaxReq = 3
  MaxLoss = 1
  MaxLeave = 1
  MaxUpdate = 0
INVARIANTS
  ViewsAgree
PROPERTIES
  RequestsAnswered
  JoinsComplete
\* The driver waits for the next event.
CHECK_DEADLOCK FALSE
