SPECIFICATION FairSpec
CONSTANTS
  MaxFrames = 4
  MaxClients = 2
  RingBytes = 6
  PkgBytes = 2
  FrameLen = 2
  Burst = 2
  StallLimit = 1
CHECK_DEADLOCK FALSE
INVARIANTS
  TypeOK
  BufferOwnedOnce
  HostSeesOwnFrames
PROPERTIES
  RingDrains
