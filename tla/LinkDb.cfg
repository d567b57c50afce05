SPECIFICATION Spec
CONSTANTS
  l1 = l1
  l2 = l2
  l3 = l3
  l4 = l4
  n1 = n1
  Ids = {l1, l2, l3, l4}
  Hash <- OneChain
  NSlots = 3
  Nodes = {n1}
  Timeout = 0
  MaxNow = 2
SYMMETRY IdSymmetry
INVARIANTS TypeOK ChainsExact
PROPERTIES ActiveKept MapHolds
CHECK_DEADLOCK FALSE
