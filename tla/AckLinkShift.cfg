SPECIFICATION Spec
CONSTANTS
  Mod = 8
  Win = 4
  ShiftBits = 2
  N = 4
  FirstSeqs <- Start
  Slots = 2
  MaxRetries = 0
  DedupWin = 1
  AckFids = 1
  MaxAir = 2
  MaxAcks = 1
  MaxRestarts = 0
  StartKnown = TRUE
  Stales = FALSE
  Evicts = FALSE
CHECK_DEADLOCK FALSE
INVARIANT AckedWasDelivered
