SPECIFICATION Spec
CONSTANTS
  SeqMod = 16
  Iss = 14
  PeerIss = 14
  PathMtu = 2
  MaxWindow = 4
  WinAlign = 2
  AppWins = {0, 4}
  PeerLen = 3
  PeerWins = {2}
  XmitResults = {"sent"}
  BareSyn = "never"
  MaxWrite = 0
  MaxRxQueue = 3
  MaxTries = 1
INVARIANT StreamConsistent
INVARIANT AckNotForgotten
PROPERTY WindowNeverShrinks
PROPERTY ImplementsByteStream
CHECK_DEADLOCK FALSE
