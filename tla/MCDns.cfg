CONSTANTS
  Name <- MCName
  Zone <- MCZone
  Glue <- MCGlue
  Requests <- MCRequests
  MaxRecursion = 3
  MaxTimeout = 3
  Malformed = Malformed
SPECIFICATION FairSpec
INVARIANT AddressOfName
INVARIANT SearchedInOrder
PROPERTY DnsEnds
