SPECIFICATION FairSpec
CONSTANTS
  s1 = s1
  s2 = s2
  s3 = s3
  p1 = p1
  p2 = p2
  Subtask = {s1, s2}
  Proc = {p1, p2}
  MaxCalls = 3
  MaxCrashes = 0
CHECK_DEADLOCK FALSE
PROPERTIES
  DependentsEnd
