------------------------------- MODULE Fusion -------------------------------
(***************************************************************************)
(* The fused rupture index of one host (internal/fusion) and the log       *)
(* bursts that feed it (internal/correlator).  Four pipelines write a      *)
(* value and its time stamp; three readers combine those that are fresh.   *)
(* An instant is one bucket of the burst detector.                         *)
(***************************************************************************)
EXTENDS Integers, FiniteSets, Sequences, FiniteSetsExt, Functions

CONSTANTS
    Indexes,        \* values of a pipeline
    MaxFusedR,      \* 10
    Lag,            \* 30 s: how far apart metrics, logs and traces may be
    Stale,          \* 5 min: the age at which a value no longer counts
    MinBuckets,     \* 5: buckets of logs a baseline needs
    EventCap,       \* 256: burst events the channel holds
    LastBucket

ASSUME FusionAssumption ==
    /\ Indexes \subseteq Nat /\ {MaxFusedR, Lag, Stale, MinBuckets, LastBucket} \subseteq Nat
    /\ EventCap \in Nat \ {0}

VARIABLES
    now,
    host,       \* pipeline -> the value and time stamp it wrote last; stamp 0: none
    series,     \* the log lines of the host: buckets seen, the last, the burst under way
    bursts      \* burst events on their way to the log watcher: their start

fusionVars == <<now, host, series, bursts>>

Compared == {"metric", "log", "trace"}
Pipelines == Compared \cup {"infra"}
Unset == [val |-> 0, ts |-> 0]

FusionInit ==
    /\ now = 1 /\ bursts = <<>>
    /\ host = [p \in Pipelines |-> Unset]
    /\ series = [n |-> 0, bucket |-> 0, inBurst |-> FALSE, start |-> 0]

-----------------------------------------------------------------------------
(* Writers.                                                                *)

SetR(p, v, ts) == host' = [host EXCEPT ![p] = [val |-> v, ts |-> ts]]

SetMetricR(v) == SetR("metric", v, now) /\ UNCHANGED <<now, series, bursts>>
SetTraceR(v) == SetR("trace", v, now) /\ UNCHANGED <<now, series, bursts>>
SetInfraR(v) == SetR("infra", v, now) /\ UNCHANGED <<now, series, bursts>>

\* A line of level error or warn.  Whether its bucket stands out of the
\* baseline is arbitrary; the event is made when the burst has ended.
ObserveLine(isBurst) ==
    LET rolled == series.n = 0 \/ series.bucket # now
        n == IF rolled /\ series.n < MinBuckets THEN series.n + 1 ELSE series.n
        known == n >= MinBuckets
        begins == known /\ isBurst /\ ~series.inBurst
        ends == known /\ series.inBurst /\ ~isBurst
    IN  /\ series' = [n |-> n, bucket |-> now, inBurst |-> begins \/ (series.inBurst /\ ~ends),
                      start |-> IF begins THEN now ELSE IF ends THEN 0 ELSE series.start]
        /\ bursts' = IF ends /\ Len(bursts) < EventCap THEN Append(bursts, series.start) ELSE bursts
        /\ UNCHANGED <<now, host>>

\* The log watcher stamps the value with the start of the burst.
LogWatcher(v) ==
    /\ bursts # <<>>
    /\ SetR("log", v, Head(bursts)) /\ bursts' = Tail(bursts)
    /\ UNCHANGED <<now, series>>

FusionTick ==
    /\ now < LastBucket /\ now' = now + 1
    /\ UNCHANGED <<host, series, bursts>>

-----------------------------------------------------------------------------
(* Readers.                                                                *)

ActiveIn(d) == {p \in Pipelines : d[p].ts # 0}
FreshValues == [p \in Pipelines |-> IF now - host[p].ts > Stale THEN Unset ELSE host[p]]

\* Faulty variant: the base weights, with the one of infra left dangling.
BaseWeight(p, active) == CASE p = "metric" -> 42 [] p = "infra" -> 30 [] OTHER -> 14
\* Parts of the whole: of 100 without infra, renormalised over the active with it.
Weight(p, active) ==
    IF "infra" \in active THEN CASE p = "metric" -> 42 [] p = "infra" -> 30 [] OTHER -> 14
    ELSE CASE Cardinality(active) = 1 -> 100
           [] active = Compared -> IF p = "metric" THEN 60 ELSE 20
           [] active = {"log", "trace"} -> 50
           [] OTHER -> IF p = "metric" THEN 75 ELSE 25

Weights(active) == [p \in active |-> Weight(p, active)]
Parts(active) == IF "infra" \in active THEN SumFunctionOnSet(Weights(active), active) ELSE 100

\* Infra alone says nothing.
Fused(d) ==
    LET active == ActiveIn(d)
        weighed == [p \in active |-> Weights(active)[p] * d[p].val]
    IN  [ok |-> active \notin {{}, {"infra"}},
         num |-> IF active = {"infra"} THEN 0 ELSE SumFunctionOnSet(weighed, active),
         den |-> Parts(active)]

LatestStamp == Max({0} \cup {host[p].ts : p \in Compared})
LagTooLarge == \E p \in Compared : host[p].ts # 0 /\ LatestStamp - host[p].ts > Lag

\* FusedR looks for lag before it looks for staleness, and takes the zero of a
\* host with infra alone for a value.
FusedR ==
    LET f == Fused(FreshValues)
    IN  IF LagTooLarge \/ ActiveIn(FreshValues) = {} THEN [ok |-> FALSE, num |-> 0, den |-> 1]
        ELSE [ok |-> TRUE, num |-> Min({f.num, MaxFusedR * f.den}), den |-> f.den]

\* The first of the highest, stale ones included.
Order == <<"metric", "log", "trace", "infra">>
DominantPipeline ==
    LET highest == {i \in 1..4 : host[Order[i]].val > 0 /\ \A p \in Pipelines : host[p].val <= host[Order[i]].val}
    IN  IF highest = {} THEN "" ELSE Order[Min(highest)]

\* These two have neither the lag check nor the cap.
StateByWorkload ==
    LET f == Fused(FreshValues)
    IN  [num |-> IF f.ok THEN f.num ELSE 0, den |-> f.den, dominant |-> DominantPipeline]
Snapshot == Fused(FreshValues)

FusionNext ==
    \/ \E v \in Indexes : SetMetricR(v) \/ SetTraceR(v) \/ SetInfraR(v) \/ LogWatcher(v)
    \/ \E isBurst \in BOOLEAN : ObserveLine(isBurst)
    \/ FusionTick

FusionSpec == FusionInit /\ [][FusionNext]_fusionVars

-----------------------------------------------------------------------------
(* Properties.                                                             *)

Between(f, vals, cap) == Min(vals \cup {cap}) * f.den <= f.num /\ f.num <= Max(vals) * f.den

\* Whatever subset of the pipelines is fresh, the fused value is an average of
\* their values: a pipeline that is absent or stale neither pulls it down nor
\* holds it up ("never left dangling over an absent signal"), and the reader
\* that caps it agrees with the two that do not.
FusedWithinItsSignals ==
    LET fresh == ActiveIn(FreshValues)
        vals == {FreshValues[p].val : p \in fresh}
    IN  fresh \notin {{}, {"infra"}} =>
            /\ Snapshot.ok /\ Between(Snapshot, vals, Max(vals))
            /\ StateByWorkload.num = Snapshot.num /\ StateByWorkload.den = Snapshot.den
            /\ FusedR.ok => /\ Between(FusedR, vals, MaxFusedR)
                            /\ FusedR.num * Snapshot.den = Min({Snapshot.num, MaxFusedR * Snapshot.den}) * FusedR.den
=============================================================================
