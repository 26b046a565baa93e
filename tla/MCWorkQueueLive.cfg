SPECIFICATION FairSpec
CONSTANTS
  t1 = t1
  t2 = t2
  t3 = t3
  w1 = w1
  w2 = w2
  None = None
  Ticket = {t1, t2}
  Task = {"k1", "k2"}
  Worker = {w1}
  Class <- MCClass
  Tier <- MCTier
  LocalOnly = "local_only"
  AllowedTiers <- MCAllowedTiers
  RequireRedaction = {"low"}
  ClassOf <- PairPublic
  CloudSafe = {t1, t2}
  TaskOf <- PairTask
  MaxAttempts = 1
  LeaseSeconds = 1
  MaxExtend = 1
  MaxCrashes = 1
PROPERTIES
  MirrorCatchesUp
  DependentsReleased
  ExpiredLeaseRecovered
