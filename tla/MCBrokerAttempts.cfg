SPECIFICATION Spec
CONSTANTS
  t1 = t1
  t2 = t2
  w1 = w1
  b1 = b1
  b2 = b2
  None = None
  Broker = {b1, b2}
  Ticket = {t1}
  Task = {"k1"}
  Worker = {w1}
  Class <- MCClass
  Tier <- MCTier
  LocalOnly = "local_only"
  AllowedTiers <- MCAllowedTiers
  RequireRedaction = {}
  ClassOf <- SoloClass
  CloudSafe = {t1}
  TaskOf <- SoloTask
  MaxAttempts = 2
  LeaseSeconds = 1
  MaxExtend = 1
INVARIANTS
  AttemptsBounded
