SPECIFICATION MCSpec
CONSTANTS
  owned = owned  rented = rented  free = free  paid = paid
  Provider <- MCProvider
  KindOf <- MCKindOf
  PrivacyOf <- MCPrivacyOf
  Trusted = {rented}
  RequestCap = 1
  CallCost = 1
  None = None
  t1 = t1  t2 = t2
  RTask = {t1, t2}
  Submissions <- MCSubmissions
  Statuses <- MCStatuses
  RemoteWorker = {w1}
  RemoteTier <- MCRemoteTier
  GuardEnforces = FALSE
  MaxBoxes = 2
  MaxBudget = 1
  Caller = {c1, c2, c3}
  MaxEnqueues = 2
INVARIANTS PrivacyBoundary SpendConfirmed OneBox NoOrphanTask
PROPERTY Settles
CHECK_DEADLOCK FALSE
