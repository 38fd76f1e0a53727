CONSTANTS
    Hosts <- MCHosts
    KeyHost <- MCKeyHost
    Metrics = {"cpu"}
    Values = {0, 2}
    DefaultRules <- MCRules
    ActionRules <- MCActionRules
    RingCap = 1
    ChanCap = 1
    QueueCap = 3
    Interval = 2
    RefireAfter = 3
    FiredTTL = 3
    Cooldown = 2
    Destinations <- MCDestinations
    MinTier = 2
    Edition = "autopilot"
    MaxTime = 5
    MaxAnomalies = 2
    Windows <- MCWindows
    Receivers = {r1, r2}
    Resources <- MCResources
    OwnerOf <- MCOwnerOf
    HostLabels = {"", "n2"}
    MetricNames = {"cpu"}
    SeriesLimit = 1
    CounterValues = {0, 1, 2}
    RateWindow = 2
    SampleTimes = {1, 2, 3, 4, 5}
    LogSources = {"a", "b"}
    BucketSize = 2
    LineTimes = {1, 2, 3, 4}
    MaxLines = 3
    Workloads = {w1}
    Observers = {o1, o2}
    Readers = {c1}
    LogIndexes = {0, 200, 400}
    SubCap = 1
    LogCap = 2
    MaxObserved = 4
    Publishers = {p1, p2}
    Topics = {"a", "b"}
    Interests <- MCInterests
    BusCap = 2
    MaxEvents = 4
    MaxSubs = 1
    Levels = {0, 100}
    Overrides <- MCOverrides
    InfraWired = TRUE
    CallsSeen = FALSE
    BaselineAt = 3
    FatigueFrom = 50
    Lambda = 10
    MaxIntervals = 2
SPECIFICATION MCSpec
CHECK_DEADLOCK FALSE
INVARIANTS
    SeriesWithinLimit
    DerivedSamplesAreTrue
    CriticalIsHandedOver
    NewestIsResolvable
    HealthOfTheMeasured
    EveryCrossingIsLogged
PROPERTIES
    FeedsAreLossy
