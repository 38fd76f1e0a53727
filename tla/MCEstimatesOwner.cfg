SPECIFICATION MCSpec
CONSTANTS
  p1 = p1
  None = None
  Pods = {p1}
  Forecasts = {300, 18000}
  Horizon = 1800
  MaxAge = 1
  MinSpan = 1
  RaiseAfter = 1
  ClearAfter = 1
  MaxGap = 1
  EventMaxAge = 1
  RestartWindow = 1
  CrashLoopRestarts = 2
  ReplicasSustained = 1
  PodTTL = 1
  MaxCount = 1
  Oldest = 3
  Together <- Pairs
  Indexes = {2, 12}
  MaxFusedR = 10
  Lag = 1
  Stale = 2
  MinBuckets = 2
  EventCap = 1
  LastBucket = 5
  PodNames <- MCPodNames
  ReplicaSetOf <- MCReplicaSetOf
  Deployments = {"web", "web-api"}
  DeploymentOf <- MCDeploymentOf
  NamedAfter <- MCNamedAfter
  ChangesKept = 2
  MaxSteps = 4
  Apps <- MCApps
  Targets = {"sa", "sb", "sc"}
  Doors = {"d"}
  Declarations <- MCDeclarations
  Selections <- MCSelections
  MaxEdits = 1
  Unmarked = Unmarked
  Never = Never
  r1 = r1
  r2 = r2
  r3 = r3
  Replicas = {r1, r2, r3}
  VersionOf <- TwoReleases
  Paces = {0, 4}
  Outlooks = {300, 3600}
  Floor = 1
  Factor = 3
  MinReadings = 1
  YoungUntil = 1
  RateWindow = 1
  SustainFor = 1
  SteadyAfter = 1
  MinGroup = 3
  FarthestOut = 7200
  SilentFor = 1
  ProfileTTL = 1
  Eldest = 2
  MaxReads = 2
  Remembered = {"w1", "w2"}
  Shapes = {"s"}
  Debounce = 2
  DebtWindow = 2
  LastTurn = 2
  NoPoll = NoPoll
  Unread = Unread
  Roles <- MCRoles
  Profile = "standard"
  MaxReplicas = 1
  MaxUpsets = 2
CHECK_DEADLOCK FALSE
INVARIANT
  OwnerIsTheController
