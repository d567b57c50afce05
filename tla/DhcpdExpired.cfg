SPECIFICATION Spec
CONSTANTS
  a = a
  b = b
  c = c
  Clients = {a, b, c}
  NSlots = 2
  LeaseTime = 2
  Base = 8
  Net = 1
  Host = 2
  Tail = 4
  MaxNow = 3
  MaxStarts = 1
SYMMETRY Symmetry
PROPERTY OfferHonoured
CHECK_DEADLOCK FALSE
