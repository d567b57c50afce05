SPECIFICATION StreamFairSpec
CONSTANTS
  Sessions <- TwoSessions
  MaxFrame = 2
  MaxNetbuf = 12
  Window = 2
  HeapFails = TRUE
INVARIANTS WholeInOrder NoneLost
PROPERTY NetbufFinishes
