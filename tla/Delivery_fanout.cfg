SPECIFICATION Spec
CONSTANTS
  Events = {e1}
  Subs = {s1, s2}
  Consumers = {c1, c2}
  Endless = {}
  Replays = {}
  ManualRetries = {}
  Slots = {k1}
  NoOffset <- MCNoOffset
  InitialOffset = 0
  MaxResends = 0
  MaxLog = 2
  MaxFaults = 1
  MaxRetryFaults = 0
  Builds = {"node"}
  MAX_ATTEMPTS = 3
  RETRY_DELAY_MS <- MCShort
SYMMETRY MCSymmetry
INVARIANTS
  AtLeastOnce
  EveryRedeliveryHasCause
PROPERTIES
  OffsetMovesForward
CHECK_DEADLOCK FALSE
