SPECIFICATION FairSpec
CONSTANTS
  r1 = r1
  r2 = r2
  r3 = r3
  k1 = k1
  NoKey = NoKey
  Keys = {k1}
  Requests = {r1, r2, r3}
  KeyOf <- MCNoKeys
  ClientStamps = TRUE
  OutboxWorkers = {w1}
  BATCH_SIZE = 2
  MaxFaults = 2
INVARIANTS
  PublishOrderKept
PROPERTIES
  EveryEventIsPublished
CHECK_DEADLOCK FALSE
