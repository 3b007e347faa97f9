SPECIFICATION Spec
CONSTANTS
  n1 = n1
  n2 = n2
  n3 = n3
  None = None
  Nodes <- Three
  Founders <- One
  MaxParts = 3
  MaxOps = 2
  MaxJoin = 2
  MaxLoss = 0
  MaxLeave = 0
SYMMETRY Swap
INVARIANTS
  Exclusive
\* The bounds run out.
CHECK_DEADLOCK FALSE
