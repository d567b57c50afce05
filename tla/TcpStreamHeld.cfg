SPECIFICATION StreamFairSpec
CONSTANTS
  Sessions <- OneSession
  MaxFrame = 2
  MaxNetbuf = 10
  Window = 2
  HeapFails = FALSE
PROPERTY HeldGoesOut
