SPECIFICATION FairSpec
CONSTANTS
  SeqMod = 16
  Iss = 14
  PeerIss = 14
  PathMtu = 2
  MaxWindow = 4
  WinAlign = 2
  AppWins = {4}
  PeerLen = 1
  PeerWins = {0, 2}
  XmitResults = {"sent", "noiob", "txerr"}
  BareSyn = "crossed"
  MaxWrite = 2
  MaxRxQueue = 1
  MaxTries = 1
INVARIANT SeqMatchesQueue
INVARIANT PendingExact
 
INVARIANT NoSilentStall
PROPERTY ConnectionResolves
CHECK_DEADLOCK FALSE
