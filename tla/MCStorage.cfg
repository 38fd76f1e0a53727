SPECIFICATION MCSpec
CONSTANTS
    Families = {"metric", "kpi", "infra"}
    Series = {s1}
    MaxTime = 5
    MaxSamples = 2
    Lateness = {0, 2}
    PurgeEdges = {3}
    BatchSize = 1
    Bucket <- MCBucket
    CompactAfter <- MCCompactAfter
    RowTTL <- MCRowTTL
    Spans <- MCSpans
    Refs <- MCRefs
    Required = 1
    SnapshotTTL = 1
    Healths <- MCHealths
    Restarts = {0}
    CrashLoop = 3
    LastTick = 3
CHECK_DEADLOCK FALSE
INVARIANTS
    CountedOnce
    RecentIsRead
    PurgeReachesEveryTier
    FleetListsTheFleet
