SPECIFICATION Spec
CONSTANTS
  n1 = n1
  n2 = n2
  n3 = n3
  None = None
  Nodes <- Three
  Founders <- Three
  MaxParts = 2
  MaxOps = 4
  MaxJoin = 0
  MaxLoss = 1
  MaxLeave = 1
SYMMETRY Swap
INVARIANTS
  StillShared
\* The bounds run out.
CHECK_DEADLOCK FALSE
