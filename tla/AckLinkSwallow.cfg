SPECIFICATION Spec
CONSTANTS
  Mod = 8
  Win = 4
  ShiftBits = 4
  N = 3
  FirstSeqs <- Start
  Slots = 2
  MaxRetries = 1
  DedupWin = 2
  AckFids = 2
  MaxAir = 1
  MaxAcks = 1
  MaxRestarts = 1
  StartKnown = TRUE
  Stales = FALSE
  Evicts = FALSE
CHECK_DEADLOCK FALSE
INVARIANT AckedWasDelivered
