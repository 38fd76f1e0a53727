SPECIFICATION InfraSpec
CONSTANTS
  Objects <- MCObjects
  KindOf <- MCKindOf
  NamespaceOf <- MCNamespaceOf
  Statuses <- MCStatuses
  Cluster = ""
  Servings <- MCServings
  MaxEvents = 1
  Gone = Gone
INVARIANTS
  PressureFollowsTheTrouble
PROPERTIES
  TroubleReachesTheNamespace
CHECK_DEADLOCK FALSE
