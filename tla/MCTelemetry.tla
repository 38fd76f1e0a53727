---------------------------- MODULE MCTelemetry ----------------------------
(* What telemetry goes through before somebody is told: parts that hand     *)
(* over finished values and share no state, each checked on its own.        *)
(*   ingest    the budget of series of concurrent requests                  *)
(*   logs      log lines counted into samples                               *)
(*   rates     the rate of a counter                                        *)
(*   alerting  two rules on one metric of two hosts, one of them named by   *)
(*             its port, custom action rules, a channel of one alert, two   *)
(*             destinations, a maintenance window                           *)
(*   signals   the health of a workload                                     *)
(*   log, bus  the log of its ruptures and the bus they are announced on    *)
EXTENDS Ingest, LogBuckets, CounterRates, Alerting, WorkloadSignals, EventLog, EventBus
VARIABLE part

MCHosts == {"web", "10.0.0.1:9100"}
MCKeyHost == [h \in MCHosts |-> IF h = "web" THEN "web" ELSE "10.0.0.1"]
MCRules == <<[name |-> "high", metric |-> "cpu", threshold |-> 1, severity |-> "critical"],
             [name |-> "warm", metric |-> "cpu", threshold |-> 2, severity |-> "warning"]>>
MCActionRules == <<[profile |-> "plateau", minR |-> 1, action |-> "page"],
                   [profile |-> "", minR |-> 6, action |-> "scale"]>>
MCDestinations == <<"slack", "webhook">>
MCWindows == {[workload |-> "*", from |-> 2, until |-> 2]}

\* A controller, a pod of it, a node, and a service.
Resource(ns, kind, name, pod, service, k8sNode) ==
    [ns |-> ns, kind |-> kind, name |-> name, pod |-> pod, service |-> service, k8sNode |-> k8sNode, hostName |-> ""]
MCResources == {Resource("a", "Deployment", "web", "", "", ""), Resource("a", "", "", "web-1", "", "n1"),
                Resource("", "", "", "", "", "n1"), Resource("", "", "", "", "svc", "n1")}
MCOwnerOf == [p \in {<<"a", "web-1">>} |-> [kind |-> "Deployment", name |-> "web"]]

MCInterests == {{"a"}}
MCOverrides == <<[matches |-> FALSE, weight |-> [DefaultWeights EXCEPT !["fatigue"] = 100]],
                 [matches |-> TRUE, weight |-> [DefaultWeights EXCEPT !["infraStress"] = 20, !["mood"] = 0]]>>

parts == {"ingest", "logs", "rates", "alerting", "signals", "log", "bus"}
allVars == <<part, ingestVars, bucketVars, rateVars, alertingVars,
             signalVars, logVars, busVars>>

MCInit ==
    /\ part \in parts
    /\ IngestInit /\ BucketsInit /\ RatesInit /\ AlertingInit
    /\ SignalsInit /\ LogInit /\ BusInit
MCNext ==
    \/ part = "ingest" /\ IngestNext
       /\ UNCHANGED <<part, bucketVars, rateVars, alertingVars, signalVars, logVars, busVars>>
    \/ part = "logs" /\ BucketsNext
       /\ UNCHANGED <<part, ingestVars, rateVars, alertingVars, signalVars, logVars, busVars>>
    \/ part = "rates" /\ RatesNext
       /\ UNCHANGED <<part, ingestVars, bucketVars, alertingVars, signalVars, logVars, busVars>>
    \/ part = "alerting" /\ AlertingNext
       /\ UNCHANGED <<part, ingestVars, bucketVars, rateVars, signalVars, logVars, busVars>>
    \/ part = "signals" /\ SignalsNext
       /\ UNCHANGED <<part, ingestVars, bucketVars, rateVars, alertingVars, logVars, busVars>>
    \/ part = "log" /\ LogNext
       /\ UNCHANGED <<part, ingestVars, bucketVars, rateVars, alertingVars, signalVars, busVars>>
    \/ part = "bus" /\ BusNext
       /\ UNCHANGED <<part, ingestVars, bucketVars, rateVars, alertingVars, signalVars, logVars>>
MCSpec == MCInit /\ [][MCNext]_allVars

\* HealthOfWhatIsMeasured of WorkloadSignals (Analyzer.Update), where there is
\* something to measure: the other parts leave the workload untouched.
HealthOfTheMeasured == part = "signals" => HealthOfWhatIsMeasured

\* What the collector makes of telemetry tells what happened: no log line is
\* lost or counted twice (internal/pipeline/logs), and no reset of a counter
\* shows in its rate (counterRates of internal/pipeline/metrics).
DerivedSamplesAreTrue == LinesAreConserved /\ RateSpansNoReset

\* The two feeds of events, the channel of a subscriber of the event log
\* (internal/events) and the queue before the bus (internal/eventbus), lose
\* events at most, and never repeat or reorder them.
FeedsAreLossy == StreamIsALossyFeed /\ BusIsALossyFeed
=============================================================================
