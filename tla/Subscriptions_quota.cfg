SPECIFICATION Spec
CONSTANTS
  s3 = s3
  t1 = t1
  t2 = t2
  Subs = {s1, s2}
  Topics = {t1, t2}
  TopicOf <- MCTopicOf
  Drops = {d1}
  Target <- MCTarget
  maxSubscriptions = 1
INVARIANTS
  QuotaHolds
CHECK_DEADLOCK FALSE
