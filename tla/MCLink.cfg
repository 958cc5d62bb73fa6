SPECIFICATION FairSpec
CONSTANTS
  d1 = d1
  d2 = d2
  n1 = n1
  n2 = n2
  None = None
  Device <- MCDevice
  Neighbour <- MCNeighbour
  Dev <- MCDev
  RingSize = 1
  MaxPackets = 3
  MaxTries = 2
INVARIANT BuffersAccountedFor
INVARIANT InOrder
INVARIANT EntriesConsistent
PROPERTY EveryPacketEnds
