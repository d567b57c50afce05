SPECIFICATION Spec
CONSTANTS
  Senders = {a, b}
  Tasks = {t1, t2}
  None = None
  MaxPayload = 2
  MaxTotal = 3
  Timeout = 1
  Uuids = 4
  Lens = {1, 3, 6, 7}
  MaxPackets = 3
  MaxBoots = 1
  MaxAir = 1
SYMMETRY Symmetry
INVARIANTS
  TypeOK
  WholeOfOneSender
PROPERTIES
  UndisturbedIsDelivered
