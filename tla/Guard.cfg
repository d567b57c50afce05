SPECIFICATION FairSpec
CONSTANTS
  LastChunk = 1
  FwTimeout = 2
  WedgeTmo = 1
  ContendTmo = 2
  RebootTmo = 3
  Strikes = 2
  MaxQueue = 1
INVARIANTS
  AckedIsFlashed
PROPERTIES
  RebootOnlyWhenMute
  SessionSurvives
  ForsakenRestarts
