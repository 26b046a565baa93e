SPECIFICATION MCSpec
CONSTANTS
  m1 = m1
  m2 = m2
  r1 = r1
  r2 = r2
  s1 = s1
  s2 = s2
  p1 = p1
  p2 = p2
  NoManager = NoManager
  Manager = {m1, m2}
  Review = {r1}
  Session = {s1}
  Process = {p1, p2}
  MaxCalls = 4
  MaxDecisions = 1
  MaxRows = 1
  MaxAdmitted = 1
  Relaunch = {"l1", "l2"}
  RepoFile = {"a", "b"}
  StoreUser = {"u1", "u2"}
  CasAttempts = 2
  MaxLogs = 3
CHECK_DEADLOCK FALSE
SYMMETRY Symmetry
INVARIANTS  CompletionEvidenced TokenDiesWithShell LogsTellAll WorkspaceSafe Attribution
PROPERTIES VerdictStands
