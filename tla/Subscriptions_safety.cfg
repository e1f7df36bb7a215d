SPECIFICATION Spec
CONSTANTS
  s3 = s3
  t1 = t1
  t2 = t2
  Subs = {s1, s2, s3}
  Topics = {t1, t2}
  TopicOf <- MCTopicOf
  Drops = {d1, d2}
  Target <- MCTarget
  maxSubscriptions = 2
INVARIANTS
  TypeOK
  SerialCreationsKeepQuota
  DeletionTakesPriorSubscriptions
  GoneForAReason
CHECK_DEADLOCK FALSE
