SPECIFICATION FairSpec
CONSTANTS
  Downloads <- MCDownloads
  DefaultBlk = 2
  OptionBlk = 3
  WireMod = 4
  MTFTP_MAX_TIMEOUTS = 3
  MaxTries = 3
  MaxSessions = 2
  MaxRx = 6
INVARIANT SuccessIsWhole
INVARIANT BlocksConsistent
PROPERTY TftpEnds
