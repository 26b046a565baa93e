SPECIFICATION Spec
CONSTANTS
  t1 = t1
  t2 = t2
  t3 = t3
  w1 = w1
  w2 = w2
  None = None
  Ticket = {t1, t2, t3}
  Task = {"k1"}
  Worker = {w1}
  Class <- MCClass
  Tier <- MCTier
  LocalOnly = "local_only"
  AllowedTiers <- MCAllowedTiers
  RequireRedaction = {"low"}
  ClassOf <- TripleClass
  CloudSafe = {t1, t2}
  TaskOf <- TripleTask
  MaxAttempts = 1
  LeaseSeconds = 1
  MaxExtend = 2
  MaxCrashes = 0
INVARIANTS
  IInv
  NoLaundering
