SPECIFICATION Spec
CONSTANTS
  t1 = t1
  t2 = t2
  w1 = w1
  b1 = b1
  b2 = b2
  None = None
  Broker = {b1, b2}
  Ticket = {t1, t2}
  Task = {"k1", "k2"}
  Worker = {w1}
  Class <- MCClass
  Tier <- MCTier
  LocalOnly = "local_only"
  AllowedTiers <- MCAllowedTiers
  RequireRedaction = {}
  ClassOf <- PairClass
  CloudSafe = {t1, t2}
  TaskOf <- PairTask
  MaxAttempts = 1
  LeaseSeconds = 1
  MaxExtend = 1
SYMMETRY Symmetry
INVARIANTS
  Acyclic
  DependencyGate
  MirrorTruthful
