CONSTANTS
  d1 = d1
  d2 = d2
  None = None
  Any = Any
  Device = {d1, d2}
  Packets <- MCPackets
  PxebsLists <- MCPxebsLists
  Timings <- MCTimings
  DEFAULT_MIN_TIMEOUT = 1
  MaxLate = 1
SPECIFICATION FairSpec
INVARIANT SessionConsistent
PROPERTY LeaseIsOffered
PROPERTY BreaksBeforeFailure
PROPERTY WaitEnds
