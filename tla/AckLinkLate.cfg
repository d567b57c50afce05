SPECIFICATION Spec
CONSTANTS
  Mod = 8
  Win = 4
  ShiftBits = 2
  N = 4
  FirstSeqs <- Start
  Slots = 2
  MaxRetries = 2
  DedupWin = 1
  AckFids = 1
  MaxAir = 1
  MaxAcks = 1
  MaxRestarts = 0
  StartKnown = TRUE
  Stales = FALSE
  Evicts = FALSE
CHECK_DEADLOCK FALSE
INVARIANT NeverTwice
