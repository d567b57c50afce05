SPECIFICATION Spec
CONSTANTS
  NSlots = 3
  NPeers = 2
  Macs = {m1, m2, m3}
  NoMac = NoMac
  MaxSub = 2
  MinWindow = 2
  MaxWindow = 3
  RetryLimit = 1
SYMMETRY Sym
INVARIANTS
  TypeOK
  CountersMatch
  StagingOwned
  SendingPinned
  PeerPinned
  PeersUnique
  WindowReopens
