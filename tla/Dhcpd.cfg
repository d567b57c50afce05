SPECIFICATION Spec
CONSTANTS
  a = a
  b = b
  c = c
  Clients = {a, b, c}
  NSlots = 2
  LeaseTime = 2
  Base = 8
  Net = 1
  Host = 2
  Tail = 4
  MaxNow = 3
  MaxStarts = 2
SYMMETRY Symmetry
INVARIANTS TypeOK UniqueSinceStart
PROPERTY KeepsAddress
CHECK_DEADLOCK FALSE
