SPECIFICATION Spec
CONSTANTS
  n1 = n1
  n2 = n2
  n3 = n3
  Nodes <- Two
  Founders <- One
  Gateways = {}
  MaxEpoch = 4
  MaxDown = 2
  MaxFault = 1
  MaxUp = 4
  MaxOps = 0
SYMMETRY Swap
INVARIANTS
  SameEpochHistory
\* Sheep may stay down, and the bounds run out.
CHECK_DEADLOCK FALSE
