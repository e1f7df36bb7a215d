SPECIFICATION Spec
CONSTANTS
  Events = {e1}
  Subs = {s1}
  Consumers = {c1}
  Endless = {}
  Replays = {}
  ManualRetries = {}
  Slots = {k1, k2}
  NoOffset <- MCNoOffset
  InitialOffset = 0
  MaxResends = 0
  MaxLog = 1
  MaxFaults = 0
  MaxRetryFaults = 2
  Builds = {"vitest", "repaired"}
  MAX_ATTEMPTS = 3
  RETRY_DELAY_MS <- MCShort
SYMMETRY MCSymmetry
INVARIANTS
  TypeOK
  RetryHasCause
  DeadLetterBacked
  LogMatchesHistory
  EveryRerunHasCause
  NothingForgotten
  NamedSubscriptionsExist
PROPERTIES
  ResolvedIsFinal
CHECK_DEADLOCK FALSE
