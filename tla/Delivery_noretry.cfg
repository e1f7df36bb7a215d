SPECIFICATION FairSpec
CONSTANTS
  Events = {e1}
  Subs = {s1}
  Consumers = {c1}
  Endless = {}
  Replays = {}
  ManualRetries = {}
  Slots = {k1}
  NoOffset <- MCNoOffset
  InitialOffset = 0
  MaxResends = 0
  MaxLog = 1
  MaxFaults = 0
  MaxRetryFaults = 0
  Builds = {"node"}
  MAX_ATTEMPTS = 5
  RETRY_DELAY_MS <- MCSchedule
PROPERTIES
  EveryDeliverySettles
CHECK_DEADLOCK FALSE
