SPECIFICATION Spec
CONSTANTS
  n1 = n1
  n2 = n2
  n3 = n3
  Nodes <- Three
  Founders <- Two
  Gateways <- Last
  MaxEpoch = 4
  MaxDown = 2
  MaxFault = 1
  MaxUp = 4
  MaxOps = 1
SYMMETRY Swap
INVARIANTS
  TypeOK
  MembersAgree
  OrderlyHistory
  NotBehindOwnLog
PROPERTIES
  LogIsStable
\* Sheep may stay down, and the bounds run out.
CHECK_DEADLOCK FALSE
