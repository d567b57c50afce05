SPECIFICATION Spec
CONSTANTS
  Mod = 8
  Win = 3
  ShiftBits = 2
  N = 4
  FirstSeqs <- StartAndWrap
  Slots = 2
  MaxRetries = 1
  DedupWin = 2
  AckFids = 2
  MaxAir = 2
  MaxAcks = 1
  MaxRestarts = 0
  StartKnown = TRUE
  Stales = FALSE
  Evicts = FALSE
CHECK_DEADLOCK FALSE
INVARIANTS
  TypeOK
  MarkedWasDelivered
PROPERTIES
  NewestStays
  DeliveryHolds
