SPECIFICATION Spec
CONSTANTS
  n1 = n1
  n2 = n2
  n3 = n3
  None = None
  Nodes <- Three
  Founders <- Two
  MaxParts = 2
  MaxOps = 3
  MaxJoin = 1
  MaxLoss = 1
  MaxLeave = 1
SYMMETRY Swap
INVARIANTS
  TypeOK
  MembersExclude
  OneOwner
  HolderIsKnown
  LocksAgree
\* The bounds run out.
CHECK_DEADLOCK FALSE
