SPECIFICATION MCSpec
CONSTANTS
  c1 = c1  c2 = c2  d1 = d1  d2 = d2
  y1 = y1  y2 = y2
  baseline = baseline presidio = presidio
  Caller = {"s1","s2","s3"}
  Model = {"m1", "m2"}
  DefaultModel = "m1"
  MaxActiveSequences = 2
  Claim = {c1, c2}
  LockedNote = {d1, d2}
  Text = {"t1", "t2", "t3", "t4"}
  TextOf <- MCTextOf
  KeyOf <- MCKeyOf
  Content <- MCContent
  Supersedes <- MCSupersedes
  ScopeOf <- MCScopeOf
  Adapters = {"authority", "broad", "graph"}
  AskedProfile = {"project_evolution", "broad_project_rag"}
  Engine = {baseline, presidio}
  Detects <- MCDetects
  RequiredEngine = {baseline}
  Passage = {"key", "name", "order"}
  Kind <- MCKind
  DecisionTries = 2
  WorkerTries = 2
  File = {"f1", "f2"}
  MaxSteps = 2
  MaxSubtasks = 1
  MaxCrashes = 1
  Observed = {"o1", "o2"}
  ObservedTier <- MCObservedTier
  PublishId = {"p1"}
  PublishTier = {"repo_sensitive", "unparseable"}
  HealthStatus = {"unreachable"}
  MaxLog = 3
  MaxMoves = 1
  MaxRestarts = 1
  Page = 2
  ShadowPass = {"p1", "p2"}
  RoutedSubtask = {"r1"}
  SubtaskTier <- MCSubtaskTier
  ModelClass = {"deterministic_rule", "inference_box_general", "cloud_general"}
  BatchLimit = 2
  MaxRoutings = 2
  Preparation = {"q1"}
  DeclaredTools = 2
  RemoteCall = {"k1", "k2"}
  MaxConcurrentTasks = 1
  MaxPosts = 1
  Syncer = {y1, y2}
  Parked = {"s1"}
  RouteLocation = {"cloud"}
  MaxIssues = 2
  MaxParkings = 2
INVARIANTS SlotsRespected WorkflowSafe LoopSafe BusSafe ShadowSafe RunsSafe
PROPERTIES PackFaithful LinearSafe
SYMMETRY Symmetry
CHECK_DEADLOCK FALSE
