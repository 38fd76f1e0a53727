------------------------------ MODULE Storage ------------------------------
(***************************************************************************)
(* The time series of internal/storage: raw samples, the two tiers of      *)
(* rollups a compaction writes, the purge of the ingest API and the reads  *)
(* that choose a tier.  Writers, one compaction, one purge and crashes     *)
(* interleave; what one Badger transaction does is one step.               *)
(*                                                                         *)
(* A value is the set of samples it is the average of.  A tier is          *)
(* <<family, level>>: <<"kpi", 0>> is the prefix "kpi:", <<"kpi", 1>> is   *)
(* "kr5:" and <<"kpi", 2>> is "kr1h:".                                     *)
(***************************************************************************)
EXTENDS Integers, FiniteSets, Sequences

CONSTANTS
    Families,       \* among "metric", "kpi" and "infra"
    Series,         \* a host and a metric, a KPI and a workload, an object
    MaxTime,        \* the last instant of the model
    MaxSamples,     \* how many samples writers store
    Lateness,       \* how old a sample may be when it is stored
    PurgeEdges,     \* the instants a purge may name as its ends
    BatchSize,      \* 1000: keys one transaction of a purge deletes
    Bucket,         \* <<5 min, 1 h>>: the width of the rollup of each level
    CompactAfter,   \* <<2 h, 12 h>>: the age at which a level is rolled up
    RowTTL,         \* <<7 d, 35 d, 400 d>>: the retention of each level
    Spans           \* <<6 h, 7 d>>: the widest window each level answers

ASSUME StorageAssumption ==
    /\ Families \subseteq {"metric", "kpi", "infra"}
    /\ {MaxTime, MaxSamples} \cup Lateness \cup PurgeEdges \subseteq Nat /\ BatchSize \in Nat \ {0}
    /\ Bucket \in [1..2 -> Nat \ {0}] /\ CompactAfter \in [1..2 -> Nat]
    /\ RowTTL \in [1..3 -> Nat] /\ Spans \in [1..2 -> Nat]

VARIABLES
    instant,    \* wall clock
    rows,       \* the database: key -> [val, expires]
    compaction, \* the pass in progress, or Idle
    purge,      \* the purge request in progress, or Idle
    kept,       \* what the properties ask for: samples stored that no purge deleted,
    seen,       \* samples ever stored,
    again       \* and those of them that were delivered again

storageVars == <<instant, rows, compaction, purge, kept, seen, again>>
asked == <<kept, seen, again>>

Idle == [running |-> FALSE, todo |-> <<>>, keys |-> {}, buckets |-> {}]
Key(tier, s, at) == [tier |-> tier, series |-> s, at |-> at]
RowsOf(tier) == {k \in DOMAIN rows : k.tier = tier}
Floor(at, width) == at - (at % width)

StorageInit ==
    /\ instant = 0 /\ rows = <<>> /\ kept = {} /\ seen = {} /\ again = {}
    /\ compaction = Idle /\ purge = Idle

-----------------------------------------------------------------------------
\* A sample written over the same key replaces it.
Set(tier, s, at, val) ==
    rows' = [k \in DOMAIN rows \cup {Key(tier, s, at)} |->
                IF k = Key(tier, s, at) THEN [val |-> val, expires |-> instant + RowTTL[tier[2] + 1]] ELSE rows[k]]

\* Receivers and the demo seed give their own time stamps, the past included.
Put(f, s, at) ==
    /\ Cardinality(seen) + Cardinality(again) < MaxSamples
    /\ Set(<<f, 0>>, s, at, {<<f, s, at>>})
    /\ kept' = kept \cup {<<f, s, at>>} /\ seen' = seen \cup {<<f, s, at>>}
    /\ again' = again \cup (seen \cap {<<f, s, at>>})
    /\ UNCHANGED <<instant, compaction, purge>>

PutMetric(s, at) == "metric" \in Families /\ Put("metric", s, at)
PutKPI(s, at) == "kpi" \in Families /\ Put("kpi", s, at)
PutInfraSignal(s, at) == "infra" \in Families /\ Put("infra", s, at)

\* An instant of the model is long against a pass.  Badger drops an expired
\* row when it likes; no read sees one.
StorageTick ==
    /\ ~compaction.running /\ ~purge.running
    /\ instant < MaxTime /\ instant' = instant + 1
    /\ rows' = [k \in {j \in DOMAIN rows : rows[j].expires > instant + 1} |-> rows[k]]
    /\ UNCHANGED <<compaction, purge, asked>>

-----------------------------------------------------------------------------
(* Reads.                                                                  *)

RangeQuery(tier, s, from, to) == {k \in RowsOf(tier) : k.series = s /\ from <= k.at /\ k.at <= to}

RangeQueryKPI(level, s, from, to) == RangeQuery(<<"kpi", level>>, s, from, to)

GetMetricRange(f, s, from, to) == RangeQuery(<<f, 0>>, s, from, to)

\* Raw rows, or the first rollups when the window has no raw row at all.
GetKPIRange(s, from, to) ==
    LET raw == RangeQueryKPI(0, s, from, to)
    IN  IF raw # {} THEN raw ELSE RangeQueryKPI(1, s, from, to)

GetRangeTiered(f, s, from, to) ==
    CASE to - from <= Spans[1] -> IF f = "kpi" THEN GetKPIRange(s, from, to) ELSE GetMetricRange(f, s, from, to)
      [] to - from > Spans[1] /\ to - from <= Spans[2] -> RangeQuery(<<f, 1>>, s, from, to)
      [] OTHER -> RangeQuery(<<f, 2>>, s, from, to)

Samples(keys) == UNION {rows[k].val : k \in keys}

-----------------------------------------------------------------------------
(* Compaction: the tiers in the order of Compact, with the cutoffs of its  *)
(* start; of each tier one View, then one transaction per bucket.          *)

Tier(f, level) == IF f \in Families THEN <<<<f, level>>>> ELSE <<>>

CompactOrder ==
    Tier("metric", 0) \o Tier("kpi", 0) \o Tier("metric", 1) \o Tier("kpi", 1)
        \o Tier("infra", 0) \o Tier("infra", 1)

Compact ==
    /\ ~compaction.running
    /\ compaction' = [running |-> TRUE, todo |-> CompactOrder, buckets |-> {}, now |-> instant]
    /\ purge' = IF purge.running THEN [purge EXCEPT !.alone = FALSE] ELSE purge
    /\ UNCHANGED <<instant, rows, asked>>

\* The bucket of the next level a row of a tier is averaged into.
BucketOf(k) == Key(<<k.tier[1], k.tier[2] + 1>>, k.series, Floor(k.at, Bucket[k.tier[2] + 1]))

\* Faulty variant: the rows the cutoff should leave alone.
OldRowsAlsoRecent(tier, now) == {k \in RowsOf(tier) : k.at <= now}
OldRows(tier, now) == {k \in RowsOf(tier) : k.at < now - CompactAfter[tier[2] + 1]}

CompactView ==
    /\ compaction.running /\ compaction.buckets = {} /\ compaction.todo # <<>>
    /\ LET old == OldRows(Head(compaction.todo), compaction.now)
           members(b) == {k \in old : BucketOf(k) = b}
       IN  compaction' = [compaction EXCEPT !.todo = Tail(@),
              !.buckets = {[dest |-> b, src |-> members(b), val |-> Samples(members(b))] : b \in {BucketOf(k) : k \in old}}]
    /\ UNCHANGED <<instant, rows, purge, asked>>

\* Faulty variant: the deletes are left to a later transaction.
RollUpThenDelete(b) ==
    rows' = [k \in DOMAIN rows \cup {b.dest} |->
                IF k = b.dest THEN [val |-> b.val, expires |-> instant + RowTTL[k.tier[2] + 1]] ELSE rows[k]]
\* One transaction writes the average and deletes what it averages.
RollUp(b) ==
    rows' = [k \in (DOMAIN rows \cup {b.dest}) \ b.src |->
                IF k = b.dest THEN [val |-> b.val, expires |-> instant + RowTTL[k.tier[2] + 1]] ELSE rows[k]]

CompactBucket(b) ==
    /\ b \in compaction.buckets
    /\ RollUp(b)
    /\ compaction' = [compaction EXCEPT !.buckets = @ \ {b}]
    /\ UNCHANGED <<instant, purge, asked>>

\* A transaction the database refuses is logged and its bucket left for the
\* next pass.
CompactError(b) ==
    /\ compaction' = [compaction EXCEPT !.buckets = @ \ {b}]
    /\ UNCHANGED <<instant, rows, purge, asked>>

CompactEnd ==
    /\ compaction.running /\ compaction.buckets = {} /\ compaction.todo = <<>>
    /\ compaction' = Idle
    /\ UNCHANGED <<instant, rows, purge, asked>>

-----------------------------------------------------------------------------
(* Purge: of each tier one View, then transactions of BatchSize keys.      *)

\* Faulty variant: the raw samples only.
PurgeRawTier(type) ==
    (IF type \in {"signals", "all"} THEN Tier("metric", 0) ELSE <<>>)
        \o (IF type \in {"kpis", "all"} THEN Tier("kpi", 0) ELSE <<>>)
PurgeTiers(type) ==
    (IF type \in {"signals", "all"} THEN Tier("metric", 0) ELSE <<>>)
        \o (IF type \in {"kpis", "all"} THEN Tier("kpi", 0) \o Tier("kpi", 1) \o Tier("kpi", 2) ELSE <<>>)

\* A window without an end is read as one that ends now.  `alone` and `before`
\* are only told for the properties: no compaction ran beside the purge, and
\* the samples stored before it began.
IngestPurge(type, from, to) ==
    /\ ~purge.running
    /\ purge' = [running |-> TRUE, type |-> type, todo |-> PurgeTiers(type), keys |-> {},
                 from |-> from, to |-> to, alone |-> ~compaction.running, before |-> seen]
    /\ UNCHANGED <<instant, rows, compaction, asked>>

Purging(k) == purge.from <= k.at /\ k.at <= purge.to

PurgeView ==
    /\ purge.running /\ purge.keys = {} /\ purge.todo # <<>>
    /\ purge' = [purge EXCEPT !.todo = Tail(@), !.keys = {k \in RowsOf(Head(purge.todo)) : Purging(k)}]
    /\ UNCHANGED <<instant, rows, compaction, asked>>

PurgeBatch(batch) ==
    /\ batch # {} /\ batch \subseteq purge.keys
    /\ Cardinality(batch) = IF Cardinality(purge.keys) < BatchSize THEN Cardinality(purge.keys) ELSE BatchSize
    /\ kept' = kept \ Samples(batch \cap DOMAIN rows)
    /\ rows' = [k \in DOMAIN rows \ batch |-> rows[k]]
    /\ purge' = [purge EXCEPT !.keys = @ \ batch]
    /\ UNCHANGED <<instant, compaction, seen, again>>

\* A refused one ends the request.
PurgeError ==
    /\ purge.keys # {}
    /\ purge' = Idle
    /\ UNCHANGED <<instant, rows, compaction, asked>>

PurgeEnd ==
    /\ purge.running /\ purge.keys = {} /\ purge.todo = <<>>
    /\ purge' = Idle
    /\ UNCHANGED <<instant, rows, compaction, asked>>

\* A crash loses the two passes; Badger keeps every committed transaction.
StorageCrash ==
    /\ compaction.running \/ purge.running
    /\ compaction' = Idle /\ purge' = Idle
    /\ UNCHANGED <<instant, rows, asked>>

StorageNext ==
    \/ \E s \in Series, late \in {l \in Lateness : l <= instant} :
        PutMetric(s, instant - late) \/ PutKPI(s, instant - late) \/ PutInfraSignal(s, instant - late)
    \/ StorageTick
    \/ Compact \/ CompactView \/ CompactEnd
    \/ \E b \in compaction.buckets : CompactBucket(b) \/ CompactError(b)
    \/ \E type \in {"signals", "kpis", "all"}, from \in {0} \cup PurgeEdges, to \in {instant} \cup PurgeEdges : IngestPurge(type, from, to)
    \/ PurgeView \/ PurgeError \/ PurgeEnd
    \/ \E batch \in SUBSET purge.keys : PurgeBatch(batch)
    \/ StorageCrash

StorageSpec == StorageInit /\ [][StorageNext]_storageVars

-----------------------------------------------------------------------------
(* Properties.                                                             *)

\* A sample that was delivered once is in one row at most, whichever tier it
\* has reached: a compaction that is cut short never leaves a sample beside
\* the average made of it ("to prevent double-averaging on crash-restart").
CountedOnce ==
    \A j, k \in DOMAIN rows : j # k => rows[j].val \cap rows[k].val \subseteq again

\* A window that reaches back no further than the age of compaction reads
\* every sample of it that was stored and not purged, and nothing else.
RecentIsRead ==
    \A f \in Families, s \in Series :
        LET from == instant - CompactAfter[1]
            recent == {x \in kept : x[1] = f /\ x[2] = s /\ from <= x[3]}
        IN  CompactAfter[1] <= Spans[1] => Samples(GetRangeTiered(f, s, from, instant)) = recent

\* When a purge of KPIs that no compaction ran beside has gone through its
\* tiers, no row in its window holds a sample stored before it began.
PurgeReachesEveryTier ==
    purge.running /\ purge.todo = <<>> /\ purge.keys = {} /\ purge.alone /\ purge.type # "signals" =>
        \A k \in DOMAIN rows : k.tier[1] = "kpi" /\ Purging(k) => rows[k].val \cap purge.before \subseteq again
=============================================================================
