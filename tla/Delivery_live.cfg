SPECIFICATION FairSpec
CONSTANTS
  Events = {e1}
  Subs = {s1}
  Consumers = {c1}
  Endless = {}
  Replays = {}
  ManualRetries = {}
  Slots = {k1}
  NoOffset <- MCNoOffset
  InitialOffset = 0
  MaxResends = 1
  MaxLog = 1
  MaxFaults = 1
  MaxRetryFaults = 1
  Builds = {"repaired"}
  MAX_ATTEMPTS = 2
  RETRY_DELAY_MS <- MCOne
INVARIANTS
  LooseEndsNeedFaults
PROPERTIES
  EveryDeliverySettles
CHECK_DEADLOCK FALSE
