SPECIFICATION FairSpec
CONSTANTS
  NSlots = 2
  NPeers = 2
  Macs = {m1, m2}
  NoMac = NoMac
  MaxSub = 2
  MinWindow = 2
  MaxWindow = 2
  RetryLimit = 1
PROPERTY SlotsDrainWithRetries
