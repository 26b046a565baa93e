SPECIFICATION Spec
CONSTANTS
  s1 = s1
  s2 = s2
  s3 = s3
  p1 = p1
  p2 = p2
  Subtask = {s1, s2, s3}
  Proc = {p1, p2}
  MaxCalls = 4
  MaxCrashes = 1
CHECK_DEADLOCK FALSE
SYMMETRY Symmetry
INVARIANTS
  StartsAllowed
  RunOnce
  NoZombieResult
PROPERTIES
  TerminalIsFinal
