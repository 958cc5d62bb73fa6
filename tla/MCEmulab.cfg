CONSTANTS
  Mono = Mono
  Null = Null
  b1 = b1
  e1 = e1
  s1 = s1
  Bootinfo <- MCBootinfo
  Event <- MCEvent
  Socket <- MCSocket
  Object <- MCObject
  Static <- MCStatic
  Intf <- MCIntf
  MaxTries = 3
SPECIFICATION FairSpec
INVARIANT NoStaleSetting
INVARIANT RequestsConsistent
PROPERTY SettledOnceReported
PROPERTY EmulabEnds
