SPECIFICATION MCSpec
CONSTANTS
  web1 = web1
  web2 = web2
  web = web
  None = None
  Pods = {web1, web2}
  Workloads = {web}
  Owner <- MCOwner
  Served = {TRUE, FALSE}
  StoreAnswers = {TRUE, FALSE}
  HistoryLimit = 2
  OutcomeLimit = 1
  PodTTL = 0
  Retention = 2
  MaxClock = 3
  MaxRestarts = 2
  Nil = Nil
  Watched = {"w1", "w2"}
  NamespaceOf <- MCNamespaceOf
  Chosen = {"w1", "w2"}
  Scopes = {"namespace", "pod"}
  Situations <- MCSituations
  Alertmanagers <- MCAlertmanagers
  AlertInterval = 3
  AlertTTL = 9
  MaxTurns = 2
CHECK_DEADLOCK FALSE
INVARIANTS
  NoPhantomFailure
  DiskHoldsHistory
  EveryFailureScored
  ForecastIsOfThisCycle
  AlertsAlwaysFollow
SYMMETRY Symmetric
