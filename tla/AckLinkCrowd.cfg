SPECIFICATION Spec
CONSTANTS
  Mod = 8
  Win = 4
  ShiftBits = 2
  N = 3
  FirstSeqs <- Shift
  Slots = 2
  MaxRetries = 1
  DedupWin = 2
  AckFids = 2
  MaxAir = 2
  MaxAcks = 1
  MaxRestarts = 1
  StartKnown = FALSE
  Stales = TRUE
  Evicts = TRUE
CHECK_DEADLOCK FALSE
INVARIANTS
  AtMostOnce
  AckedNumberDelivered
