SPECIFICATION FairSpec
CONSTANTS
  Documents = {d1}
  Indexers = {w1, w2}
  Tries = 3
  MaxFaults = 4
INVARIANTS
  TypeOK
  LostForAReason
PROPERTIES
  MappingStays
  EveryDocumentSettles
CHECK_DEADLOCK FALSE
