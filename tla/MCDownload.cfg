CONSTANTS
  Mono = Mono
  Null = Null
  d1 = d1
  h1 = h1
  h2 = h2
  n1 = n1
  m1 = m1
  t1 = t1
  t2 = t2
  Downloader <- MCDownloader
  Http <- MCHttp
  Named <- MCNamed
  Mux <- MCMux
  Tcp <- MCTcp
  Object <- MCObject
  Static <- MCStatic
  Intf <- MCIntf
  Setups <- MCSetups
  MaxStack = 18
SPECIFICATION FairSpec
INVARIANT LinksConsistent
INVARIANT CallsAreSafe
INVARIANT JobStatusIsReason
INVARIANT TransferSurvives
PROPERTY EverythingIsFreed
