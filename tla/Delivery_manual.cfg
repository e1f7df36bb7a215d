SPECIFICATION Spec
CONSTANTS
  Events = {e1}
  Subs = {s1}
  Consumers = {c1}
  Endless = {}
  Replays = {r1}
  ManualRetries = {m1, m2}
  Slots = {k1, k2}
  NoOffset <- MCNoOffset
  InitialOffset = 0
  MaxResends = 1
  MaxLog = 0
  MaxFaults = 0
  MaxRetryFaults = 0
  Builds = {"repaired"}
  MAX_ATTEMPTS = 2
  RETRY_DELAY_MS <- MCOne
SYMMETRY MCSymmetry
INVARIANTS
  NamedSubscriptionsExist
  ResolvedWhenRedelivered
  EveryRerunHasCause
PROPERTIES
  ImplementsLedger
CHECK_DEADLOCK FALSE
