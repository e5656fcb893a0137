SPECIFICATION SeamSpec
CONSTANTS
  s1 = s1  s2 = s2  t1 = t1  t2 = t2  x = x  y = y  r1 = r1  r2 = r2  g1 = g1
  CallRequest <- MCRequest
  Setting <- MCSetting
  Response <- MCResponse
  Fragment <- MCFragment
  NoText = NoText  Adversary = Adversary  Secret = Secret
  MediaLimit = 2
  CaptureLimit = 2
  MaxCloses = 2
  Plan <- MCPlan
  NoPlan = NoPlan
  Block <- MCBlock
  Invocation <- MCInvocation
  ToolCall <- MCCall
  Session = {s1, s2}
  Tool = {t1, t2}
  Argument = {x, y}
  Worker = {w1, w2}
  MaxEvents = 3
  Capacity = 1
  MaxInstalls = 2
  MaxCalls = 2
  ToolName = {t1, t2}
  Model = {g1}
  RiskOf <- MCRisk
  CategoryOf <- MCCategory
  Observation <- MCObservation
  Manifest <- MCManifest
  Recorder = {w1, w2}
  MaxProfiles = 2
  MaxObserved = 2
  QueueSize = 1
  MaxBackoff = 2
  MaxFailures = 1
  Attack <- MCAttack
  Profiled <- MCProfiled
  Target <- MCTarget
  Hand = {w1, w2}
  DefaultMax = 2
  MaxHits = 3
  MaxLoads = 2
  Logger = {w1, w2}
  MaxLogged = 4
  Unencodable = {2}
SYMMETRY Workers
INVARIANT NothingUnchecked
INVARIANT AuditHonest
INVARIANT MocksHold
INVARIANT ProfileTold
INVARIANT InjectionsTold
INVARIANT EventsHandedOver
PROPERTY ImplementsDelivery
PROPERTY SinkDelivers
CHECK_DEADLOCK FALSE
