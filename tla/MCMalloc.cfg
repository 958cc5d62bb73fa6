SPECIFICATION FairSpec
CONSTANTS
  MinBlock = 2
  HeapSize = 11
  HeapStarts = {4, 5}
  Sizes = {1, 4}
  Aligns = {1, 4}
  OffsetSets <- MCOffsetSets
INVARIANT HeapConsistent
PROPERTY AllocReturns
