SPECIFICATION Spec
CONSTANTS
  r1 = r1
  r2 = r2
  r3 = r3
  k1 = k1
  NoKey = NoKey
  Keys = {k1}
  Requests = {r1, r2, r3}
  KeyOf <- MCKeys
  ClientStamps = FALSE
  OutboxWorkers = {w1, w2}
  BATCH_SIZE = 2
  MaxFaults = 2
INVARIANTS
  PublishedWasSent
  CopiesNeedFaults
  RepliesAgree
  AcceptedIsStored
PROPERTIES
  ImplementsEventLog
CHECK_DEADLOCK FALSE
