------------------------------- MODULE Ingest -------------------------------
(***************************************************************************)
(* How an OTLP sample finds its workload and its place among the series    *)
(* (internal/ingest).  Requests run concurrently; the budget of series is  *)
(* a concurrent map and a counter beside it, with no lock over the two.    *)
(* The informer learns which controller owns a pod while samples arrive.   *)
(***************************************************************************)
EXTENDS Integers, FiniteSets

CONSTANTS
    Receivers,      \* requests under way at a time
    Resources,      \* [ns, kind, name, pod, service, k8sNode, hostName], "" for absent
    OwnerOf,        \* <<ns, pod>> -> [kind, name] of the controller
    HostLabels,     \* the hosts that series of Prometheus name
    MetricNames,
    SeriesLimit     \* 50000

ASSUME IngestAssumption == SeriesLimit \in Nat \ {0}

VARIABLES
    resolvable, \* the pods whose owner the informer knows
    active,     \* activeSeries
    seriesCount,
    receiver,   \* receiver -> where it is in checkCardinality, and with what
    sampled       \* the workloads the pipeline has samples of

ingestVars == <<resolvable, active, seriesCount, receiver, sampled>>

NoRequestYet == [at |-> "idle", series |-> <<>>]

IngestInit ==
    /\ resolvable = {} /\ active = {} /\ seriesCount = 0 /\ sampled = {}
    /\ receiver = [r \in Receivers |-> NoRequestYet]

-----------------------------------------------------------------------------
(* Whose sample it is.                                                     *)

FirstNonEmpty(a, b) == IF a # "" THEN a ELSE b
NodeOf(res) == FirstNonEmpty(res.k8sNode, res.hostName)
Ref(res, kind, name) == [ns |-> FirstNonEmpty(res.ns, "default"), kind |-> kind, name |-> name]
PodOf(res) == <<FirstNonEmpty(res.ns, "default"), res.pod>>

\* A sample about nothing but a node is dropped.
NodeOnly(res) == res.kind = "" /\ res.pod = "" /\ res.service = "" /\ res.k8sNode # ""

\* resolveFleetWorkloadRef: an explicit controller, else the owner of the pod,
\* else the pod itself, a service or a host.
FleetRef(res) ==
    CASE res.kind # "" -> Ref(res, res.kind, res.name)
      [] res.kind = "" /\ PodOf(res) \in resolvable -> Ref(res, OwnerOf[PodOf(res)].kind, OwnerOf[PodOf(res)].name)
      [] OTHER -> Ref(res, "host", FirstNonEmpty(res.pod, FirstNonEmpty(res.service, NodeOf(res))))

\* extractWorkloadRef, which logs and traces use: it does not look at the pod.
ExtractRef(res) ==
    IF res.kind # "" THEN Ref(res, res.kind, res.name)
    ELSE Ref(res, "host", FirstNonEmpty(res.service, NodeOf(res)))

-----------------------------------------------------------------------------
InformerLearns(pod) ==
    /\ resolvable' = resolvable \cup {pod} /\ resolvable' # resolvable
    /\ UNCHANGED <<active, seriesCount, receiver, sampled>>

InformerForgets(pod) ==
    /\ resolvable' = resolvable \ {pod} /\ resolvable' # resolvable
    /\ UNCHANGED <<active, seriesCount, receiver, sampled>>

Goes(r, at) == receiver' = [receiver EXCEPT ![r].at = at]

Receive(r, res, metric) ==
    /\ receiver[r].at = "idle" /\ ~NodeOnly(res)
    /\ receiver' = [receiver EXCEPT ![r] = [at |-> "load", series |-> <<FleetRef(res), metric>>]]
    /\ UNCHANGED <<resolvable, active, seriesCount, sampled>>

\* A series of Prometheus remote write is filed under its host alone, whatever
\* namespace and deployment its labels name.
ReceiveSeries(r, label, metric) ==
    /\ receiver[r].at = "idle"
    /\ receiver' = [receiver EXCEPT ![r] =
            [at |-> "load", series |-> <<[ns |-> "", kind |-> "", name |-> FirstNonEmpty(label, "unknown")], metric>>]]
    /\ UNCHANGED <<resolvable, active, seriesCount, sampled>>

\* ingestLogs: the samples derived from log lines enter the pipeline under the
\* key of the resource, and no limit is checked.
ReceiveLines(res) ==
    /\ sampled' = sampled \cup {ExtractRef(res)} /\ sampled' # sampled
    /\ UNCHANGED <<resolvable, active, seriesCount, receiver>>

\* checkCardinality: a series already there, ...
LoadSeries(r) ==
    /\ receiver[r].at = "load"
    /\ Goes(r, IF receiver[r].series \in active THEN "accepted" ELSE "count")
    /\ UNCHANGED <<resolvable, active, seriesCount, sampled>>

\* ... else the counter against the limit, ...
\* Faulty variant: one series too many.
WithinLimitOrOne(n) == n <= SeriesLimit
WithinLimit(n) == n < SeriesLimit

LoadCount(r) ==
    /\ receiver[r].at = "count"
    /\ IF WithinLimit(seriesCount) THEN Goes(r, "store") ELSE receiver' = [receiver EXCEPT ![r] = NoRequestYet]
    /\ UNCHANGED <<resolvable, active, seriesCount, sampled>>

\* ... then the series and the counter, each on its own: two requests with the
\* first sample of one series count it twice.
StoreSeries(r) ==
    /\ receiver[r].at = "store" /\ Goes(r, "add")
    /\ active' = active \cup {receiver[r].series}
    /\ UNCHANGED <<resolvable, seriesCount, sampled>>

AddSeries(r) ==
    /\ receiver[r].at = "add" /\ Goes(r, "accepted")
    /\ seriesCount' = seriesCount + 1
    /\ UNCHANGED <<resolvable, active, sampled>>

\* The pipeline takes the sample.
Accept(r) ==
    /\ receiver[r].at = "accepted"
    /\ sampled' = sampled \cup {receiver[r].series[1]}
    /\ receiver' = [receiver EXCEPT ![r] = NoRequestYet]
    /\ UNCHANGED <<resolvable, active, seriesCount>>

IngestNext ==
    \/ \E pod \in DOMAIN OwnerOf : InformerLearns(pod) \/ InformerForgets(pod)
    \/ \E res \in Resources : ReceiveLines(res)
    \/ \E r \in Receivers :
        \/ \E metric \in MetricNames :
            \/ \E res \in Resources : Receive(r, res, metric)
            \/ \E label \in HostLabels : ReceiveSeries(r, label, metric)
        \/ LoadSeries(r) \/ LoadCount(r) \/ StoreSeries(r) \/ AddSeries(r) \/ Accept(r)

IngestSpec == IngestInit /\ [][IngestNext]_ingestVars

-----------------------------------------------------------------------------
(* Properties.                                                             *)

Where(where) == {r \in Receivers : receiver[r].at = where}

\* The check of the limit and the two writes are three steps: the series may
\* exceed the limit, by the requests that raced at most, whatever the owners of
\* the pods became in between; the counter never lags behind but for those that
\* are about to add to it; and the pipeline knows no workload that is not
\* accounted for, or that log lines brought past the limit.
SeriesWithinLimit ==
    /\ Cardinality(active) <= SeriesLimit + Cardinality(Receivers) - 1
    /\ Cardinality(active) <= seriesCount + Cardinality(Where("add"))
    /\ sampled \subseteq {s[1] : s \in active} \cup {ExtractRef(res) : res \in Resources}
=============================================================================
