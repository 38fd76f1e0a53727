# Ruptura in TLA+

TLA+ models of Ruptura, an engine that predicts failures of Kubernetes
workloads, and of the operator that deploys it; TLC runs that check them on small
instances; TLAPS proofs of what matters most for every instance.

Paths without a prefix are under `src/workdir/`. Every definition of a module
that stands for code is listed in `PROJECT.json` with its lines.

## 1. The system

Two programs that never talk to each other but through Kubernetes.

**The operator** (`operator/`) is a polling loop. It lists the `RupturaInstance`
objects, and reconciles each from the copy it listed: a sequence of API calls, the
first of which claims a `Lease` so that one operator works on an instance at a time.

**The engine** (`cmd/ruptura`, `internal/`) is one process of many goroutines
around shared, locked structures:

```
 Prometheus/Thanos --- poll (30 s) --> failuremodes.Tracker --> API: state of each workload
 Kubernetes API ------ list + watch -> discovery.Informer ----> analyzer fleet <-- prune once
 OTLP, remote write -- ingest -------> pipeline -> analyzer -> fusion -> events, explain
                          `- log lines -> bursts ---------------^
 anomaly detector ---- alerter -> channel -> action engine -> bus, webhooks
 states of failing workloads --------> Alertmanager
 failures, outcomes, metrics --------> BadgerDB (storage)
```

### Inventory

State, operations, what is hard, what makes it correct, and the modules. "-": left out,
with the reason in section 7. `PROJECT.json` says of each what is left out of its module.

| Component | State | Operations | Hard | Correct when | Modules |
|---|---|---|---|---|---|
| Ownership lease (`operator/ownership.go`) | Lease: holder, renewTime, resourceVersion | claim: GET, then POST or PUT; delete by cleanup | races of operators, a clock sampled before the GET, a reconcile longer than the lease | one operator at a time; no early takeover; a dead holder is replaced | `Lease` |
| Reconcile loop (`operator/controller.go`, `main.go`, `k8s.go`) | the instance, its finalizers, status, ten objects | list, reconcile, cleanup, status | every call may fail; stale copies; edits, deletion, restarts in between | nothing stored without the finalizer; nothing left behind; the key is stable; a valid spec converges | `Reconcile` |
| Inputs of an instance (`operator/inputs.go`) | digest in the pod template; Secrets and ConfigMaps | read each value, check, hash, roll out | a rotation between two reads or after the rollout | the engine ends up with what is stored | `OperatorInputs` |
| Failure history (`internal/failuremodes/tracker.go`, `trackrecord.go`, `cmd/ruptura/failuremodes.go`) | pods and counters, failures, forecasts, outcomes; the same on disk | poll, observe, record, save, prune, restore | crashes between two writes, refused writes, missing samples, replaced pods | no failure invented; memory and disk agree; each failure scored; a warning serves one failure | `FailureHistory` |
| Detectors and ranking (`condition.go`, `saturation.go`, `events.go`, `replicas.go`, `rollout_oom.go`, `recurrence.go`, `Worst`) | per pod: window, estimate, condition, events, exits; per workload: replicas, rollout | observe each kind, prune, rank, show | readings that stop and return; one rank in one file, its meaning in another | trouble is shown; conditions follow readings; forecasts are fresh | `Estimates` |
| Releases (`release.go`, `divergence.go`) | versions, replicas, profiles, marks | observe, compare, prune | replicas replaced between two reads; marks that outlive a comparison | only what held for minutes is told | `Releases` |
| Roles (`cmd/ruptura/inputs.go`, `internal/sources`, `internal/normalize`) | frames of the last poll | one query per role | outages, rotated credentials, a cluster that moves between queries | what is told was read; a calm poll is exact | `RoleInputs` |
| Alert delivery (`internal/alertmanager`, `cmd/ruptura/alerts.go`) | expiry at the receiver | post to each every minute | slow or failing receivers, one after the other | active alerts stay, cleared ones end | `AlertDelivery` |
| Discovery (`internal/discovery/informer.go`, `watcher.go`; fleet in `analyzer.go`) | known, the fleet, one goroutine per kind | list, watch, register, unregister, prune | lists against watches, two locks per event, a prune beside running watches | what exists is registered; the prune spares the living | `Discovery` |
| Pod and metadata caches (`metadata.go`, `cache.go`, `changes.go`) | pods, owners, specs, recent changes | list and watch, ResolvePodOwner | a relist deletes nothing; an owner found by name prefix in map order | the cache is the cluster; a pod resolves to its owner | `PodOwners` |
| Call graph (`internal/callgraph`) | edges | refresh, callers | lists of a changing cluster, cycles | every caller, nearest first, once | `CallGraph` |
| Process (`cmd/ruptura/main.go`, `ingest.Stop`, `FlushSnapshots`) | deferred calls, goroutines, listeners | start, signal, drain, flush, close | a signal at any moment, receivers that still answer | it exits; nothing answered or owed is lost | `Lifecycle` |
| Infrastructure (`internal/collector/infra`) | signals, group snapshots, pressure | probe, list, watch, tick, propagate | two locks, broken watches, one pass in a fixed order | pressure is the worst way trouble takes; standing trouble is told | `InfraSignals`, `InfraRegistry` |
| Storage (`internal/storage`) | Badger rows of three tiers | put, compact, purge, read a window | transactions interleave, crashes between them, cutoffs inside buckets | a sample counts once; a recent window is complete; a purge purges | `Storage` |
| Snapshots and fleet (`analyzer.go`, `storage.go`, `api/handlers_ui.go`) | latest snapshot of a workload under two keys | tick, register, unregister, list | two reads that are not one; two workloads of one name | each workload once | `Snapshots` |
| Alerter, actions, webhooks (`internal/alerter`, `internal/actions/engine`, `internal/notify`) | alerts, index, channel, queue | evaluate, resolve, forward, approve, reject, post | a rule fired again, a full channel, eviction | critical anomalies are handed over; the newest alert is the one resolved | `Alerting` |
| Ingestion (`internal/ingest`) | series and their count, pod owners | one OTLP or remote-write request | a check, a store and an add with no lock over the three | the budget holds but for the race | `Ingest` |
| Logs, rates (`internal/pipeline`) | buckets, samples of a counter | a line, a flush; a sample | late lines, edges, resets | no line twice or never; no rate over a reset | `LogBuckets`, `CounterRates` |
| Analyzer signals (`analyzer.go`) | fatigue, baselines | update | data that is missing | missing data is never a zero | `WorkloadSignals` |
| Fusion and bursts (`internal/fusion`, `internal/correlator`) | four values with times; ring of buckets | set one, read fused, a line | lag, staleness, three readers that differ | a value of the fresh signals | `Fusion` |
| Rupture memory (`fingerprint.go`, `business.go`) | fingerprints, near misses | feed, match, forget | debounce across workloads and deletions | each rupture is remembered | `RuptureMemory` |
| Event log, bus (`internal/events`, `internal/eventbus`) | ring, subscribers; queue, flusher | observe, push, subscribe; publish, flush, close | state under the lock, event after it; a full queue | each crossing once; losses, never disorder | `EventLog`, `EventBus`, `LossyFeed` |
| Arbitration, safety, providers, context, explanations, telemetry, CLI, client, console, packaging | caches, counters | read | - | - | - |

## 2. The modules

| Module | Models | Checked in |
|---|---|---|
| `Lease` | the ownership protocol | `MCLease` |
| `Reconcile` | the reconcile loop; EXTENDS `Lease` and conjoins its actions with its own | `MCReconcile`, `MCOperators` |
| `OperatorInputs` | Secrets and ConfigMaps an instance names, and their way into the engine | `MCOperators` |
| `FailureHistory` | what is remembered of failures, in memory and on disk | `MCFailureHistory` |
| `AlertDelivery` | failures, the alerts made of them, and Alertmanagers that forget | `MCFailureHistory` |
| `Estimates` | from readings to the state shown | `MCEstimates` |
| `Releases` | growth compared between releases and between replicas | `MCEstimates` |
| `RoleInputs` | the poll of roles, from the query to the tracker | `MCEstimates` |
| `RuptureMemory` | fingerprints, near misses, recovery debt | `MCEstimates` |
| `Fusion` | the fused index and the bursts of logs that feed it | `MCEstimates` |
| `PodOwners` | the caches of Deployments and pods, changes, ResolvePodOwner | `MCEstimates` |
| `CallGraph` | the refresh of the graph, and who a failure can hit | `MCEstimates` |
| `Discovery` | the informer, the fleet and the prune | `MCDiscovery` |
| `Lifecycle` | runWithContext from its first line to its last deferred call | `MCDiscovery` |
| `InfraSignals`, `InfraRegistry` | the signal of every kind of object and propagation, as operators; collectors and registry | `MCInfra` |
| `Storage`, `Snapshots` | samples in three tiers; the latest snapshot of each workload and the fleet | `MCStorage` |
| `Ingest`, `LogBuckets`, `CounterRates`, `WorkloadSignals`, `Alerting`, `EventLog`, `EventBus` | the way of telemetry, from a request to a notification | `MCTelemetry` |
| `LossyFeed` | abstract: what a feed of events promises | `EventLog`, `EventBus` |
| `ReconcileProofs`, `FailureHistoryProofs`, `DiscoveryProofs`, `EstimatesProofs`, `StorageProofs`, `TelemetryProofs`, `InfraProofs` | theorems (section 4) | |
| `FoldLemmas` | lemmas: induction over naturals and finite sets, and what the folds of the community modules compute | |

**Composition and refinement.** Two abstract specifications are implemented by others.
`Lease` is a component and what `site/docs/install.md` promises of ownership; a theorem
says that `Reconcile`, with all its calls and failures, is one of its implementations
(`Reconcile` conjoins its steps with those of `Lease`). `LossyFeed` is what both feeds of
events promise, no producer is held up and nothing is repeated or reordered; `EventLog`
(the channel of a subscriber, for each reader) and `EventBus` (the queue before NATS)
instantiate it with a mapping of their state; the run `telemetry` has it as a
property, and theorems say it of any capacity and any number of readers and publishers. The modules of one MC module otherwise share no state, as in the code: the
values handed from one to the next are arguments of an action or arbitrary. They are
checked side by side rather than in product: a variable `part` chooses one, the others
stand still. A property of one part begins with `part = ... =>` where it would cost
something to look at it in the states of the others.

A definition with a comment "Faulty variant" belongs to no specification. It is
what a plausible mistake would make of the definition below it, and shows which property
would notice.

### Operator

**Lease.** One action per step of `claim`: `Begin` samples the clock, `ReadLease`
decides, `PostLease` creates, `PutLease` replaces the version that was read. `fresh[o]`
stands for the resourceVersion: true while the Lease o read is the one stored; any
accepted write makes it false for all. `Stop` is every way a reconcile ends. Time is
kept as ages (`lag`, `age`), so no clock grows; ages stop at `Horizon`, after which
every claim in flight sees an expired Lease. `Release` is the deletion by cleanup.
Clocks of operators are taken to run together.

**Reconcile.** `todo[o]` is the rest of the sequence of calls that `reconcile` or
`cleanup` makes for the copy that `runLoop` listed. `ReconcileCalls` and `CleanupCalls`
are those sequences in the order of the code. Each call is an action; `Fail` ends the
reconcile at any call, `Restart` replaces the process and probes the Route API again,
`Environment` is what users and another controller do to the instance. The content
of an object is its spec (Deployment), its key (Secret), or just "applied". The answers
the API server owes (`Denied`) are those of Kubernetes. A Lease may be left from before.

**OperatorInputs.** `Rule` and its kin are the rules of `prometheusRules` and
`otlpRules` for every value a spec may declare, with those `checkInputs` refuses. A pass
reads one value per step; `Rotate` changes an object between any two. The value of an
object is its generation, so a certificate and a key match when they are of one.
`Digest` is the hash of what was read, `ApplyDeployment` puts it in the template,
`EngineStarts` is a Recreate rollout that mounts what is stored by then.

### What is told of a workload

**FailureHistory.** A poll (`PollStart`) takes its time and its readings at once, and
observes the pods one by one. A counter that grew is a failure: memory is changed and
the outcome saved (`RecordFailure`), then the failure itself (`SaveFailure`); the two
are apart because a crash may come between. The tracker's lock is held across both, so
nothing but a crash, the cluster and the clock moves while `unsaved` is set. A poll may miss the
restarts sample of a pod and read zero (`Reading`); `missed` counts the samples that told
less than the counter. `Restart` is a crash and the restore. Each write may be refused, and
the sets `refused` and `unscored` remember which; these three are there only so that
properties can say so.

**AlertDelivery.** A round takes the failures once and posts them to each Alertmanager
in turn; a unit of time is the timeout of one post, and a post may take that long.
`Alerts` is `sendAlerts` with the scopes, the selector and the labels of `client.go`;
`held` is what a receiver has, each with the age of its last post.

**Estimates.** One action per observation of the tracker, on ages in place of times. The
slope that `Saturation` fits is an arbitrary verdict over `Verdicts`; that it is only
given for a window that is long enough, and forgotten at a restart, is modelled. The
restart counter of a pod is read twice, as in the code: by the tracker at every reading
(`Counted`, `count`) and by the forecast at readings with usage (`Empties`, `satCount`). It may
read anything at any time, as pods are replaced under their names and samples missing;
`fell` remembers, for the property, that it was seen to fall since the window began.
`AllEstimates`, `Worst`, `Shown`, `Listed` and `States` are the pure functions from the
tracker's state to the row of the fleet. A release comparison and the rhythm of
failures are inputs of the ranking, quantified over in the property.

**Releases.** `PollReleases` is `observe` with `prune`, `ReadReleases` is a call of
`Worst`: it compares, moves the marks `since` and `divergentSince` and reports. Paces
are small integers, arbitrary at each read. `run` (how long each pod has been found
without a break) is there for the property only.

**RoleInputs.** `BeginPoll`, one `CollectRole` per role of the profile, `EndPoll` that
feeds the tracker. `ReadUser` and the request are two steps: `authorizer` reads the
two files of basic authentication one after the other. `witness` remembers which values
were true during the poll, for the property.

**RuptureMemory, Fusion, PodOwners, CallGraph.** A tick feeds fused values
(`UpdateFusedR`, `MaybeRecord`); the four pipelines set values with times and three
readers combine what is fresh, as fractions; two loops list and watch, and a name
prefix resolves an owner; a refresh lists one kind after the other while the cluster is
edited, and `Callers` searches breadth first.

### Process, fleet and infrastructure

**Discovery.** `pc[k]` is where the goroutine of kind k is: listing, handling the items
of a list, or watching. `stream[k]` holds what the API server will send to a watch that
starts at the version of the list. `Track` writes `known`, `Call` writes the fleet,
under two locks and so in two steps. The prune is four more steps of one goroutine.
`Telemetry` registers what it is about, living or not. `missed` holds the workloads
whose deletion fell between two watches; the code has no such set.

**Lifecycle.** `stage` is the line of `runWithContext`, `deferred` its stack of deferred
calls, which run from its head when it returns. A request at a receiver is answered in a
step of its own; `SaveLog` on a closed store loses its line without an error ("late").
The ticker of the analyzer stores one snapshot per step; `FlushSnapshots` reads the set
once and writes one per step.

**InfraSignals, InfraRegistry.** `SignalOf` has one case per kind of object, with the
thresholds of its collector, in thousandths. A goroutine per kind lists and watches as
in Discovery. A tick is `Aggregate` (all groups, under the registry's lock) and then one
`Propagate` per namespace, under another. `PropagateGroup`, `Blast` are the two algorithms of
`propagation.go` over the fixed graph of groups.

### Storage and telemetry

**Storage.** The value of a row is the set of samples it is the average of, so that what
counts twice shows. What one Badger transaction does is one step: a compaction reads
(`Compact`), then writes average and deletions per bucket (`RollUp`), a purge collects
keys per tier and deletes them in batches; a crash ends either. **Snapshots** has the
ticker, the two keys of the map, and the two reads of `buildFleet`.

**Alerting** takes an anomaly from the consensus of the detectors through throttle, ring
and tick to the alerter, its channel, the goroutine that forwards, the queue and the
webhooks. A tick goes through `AllHosts`, what the pipeline makes of the keys of its series:
`KeyHost` is the cut at the first colon, which leaves of "10.0.0.1:9100" the address. **Ingest** finds the workload of a sample and takes a place among the series in
the three steps of `checkCardinality`. **LogBuckets** and **CounterRates** are the
samples made of lines and counters. **WorkloadSignals** says which signals a tick
measures and how they weigh; each value is arbitrary. **EventLog** and **EventBus** have
one action for each locked section.

## 3. The runs

`tlc -config X.cfg M`. The passing runs take from half a minute to a few minutes, the
others seconds. "Fails" marks a run whose property, taken from a comment or document of
the repository, the code does not keep.

| Run | Configuration | Question |
|---|---|---|
| `lease` | `MCLease.cfg` | Three operators of three namespaces: is only one inside, is nobody early, does the last one alive take over? |
| `reconcile_one` | `MCReconcileOne.cfg` | One operator that fails and restarts anywhere, a user who edits, deletes and gives refused specs: finalizer, leftovers, convergence, deletion. |
| `reconcile_two` | `MCOperators.cfg` | Two operators that keep to their lease: API key and status. Secrets rotated at any time: what does the engine run with? |
| `history` | `MCFailureHistory.cfg` | Two replicas, missing samples, refused writes, crashes anywhere: is a failure invented, lost, not scored, credited twice? Two Alertmanagers: who holds which alerts? |
| `estimates` | `MCEstimates.cfg` | Seven parts: is trouble shown, do conclusions follow readings; fused index, caches, callers, releases, memory, roles. |
| `fleet` | `MCDiscovery.cfg` | Two kinds, changes at any time, watches that break: is anything lost, does the prune spare the living? A signal at any step: is anything lost on the way out? |
| `infra` | `MCInfra.cfg` | Sixteen kinds, any of them unwell: does the namespace show it, and exactly as much? |
| `storage` | `MCStorage.cfg` | Compactions, purges, crashes: counted once, read, purged? Two workloads of one name: listed once? |
| `telemetry` | `MCTelemetry.cfg` | Seven parts: series, log lines, rates, alerts, health, the log of ruptures, the bus. |
| `stale_forecast` | `MCEstimatesStale.cfg` | Fails: restart readings of a pod that is down keep its old forecast fresh. |
| `wrong_owner` | `MCEstimatesOwner.cfg` | Fails: a pod of `web-api` is told to belong to `web`. |
| `collector_runs_on` | `MCDiscoveryCollector.cfg` | Fails: the store is closed before the goroutine of its garbage collection has stopped. |

### What each property says

Operator.
- `OneOperatorAtATime`, `TakeoverOnlyAfterExpiry`, `SurvivorTakesOver`: the three
  promises of the lease. The first needs a reconcile that ends within the lease, an
  assumption the code does not enforce (section 5).
- `FinalizerCoversObjects`: whatever is stored of an instance, the instance carries the
  finalizer that will delete it. `NothingLeftBehind`: the finalizer comes off only when
  every object and the Lease are gone.
- `Converges`, `DeletionCompletes`: liveness, once faults cease.
- `KeyIsStable`: a stored API key is never replaced by another. `StatusTellsDeployment`:
  a status that reports an engine names the spec that engine runs.
- `RotationAlwaysReachesEngine`: after a reconcile that began after the last change, and
  the rollout it caused, the engine runs with what the objects hold.

What is told of a workload.
- `NoPhantomFailure`: failures counted never exceed restarts that happened and samples that
  were read as zero.
  `DiskHoldsHistory`: memory and disk hold the same failures, but for those a limit, an
  expiry or a refused write explains. `EveryFailureScored`: a saved failure has its
  outcome. `ForecastIsOfThisCycle`: a standing forecast is younger than every failure.
- `AlertsAlwaysFollow`: an alert that is repeated never expires for one lost post,
  whoever else cannot be reached; one that cleared ends within the time to live and a
  round.
- `TroubleIsAlwaysShown`: whatever else is known, trouble in progress or a forecast inside
  the horizon never shows as healthy. `EstimatesFollowReadings`: throttling rises and
  clears only on a run of readings without a gap, and no forecast is fitted across a
  restart, also one that was seen only while the pod was down, unless the counter was seen
  to fall since the window began.
- `ReleasesAlwaysSustained`: a regression or divergence that is told was found at every
  read that compared the pod since `SustainFor` at least.
- `PollsTellTheCluster`: every value of a poll was true during it; a poll without outage
  or rotation misses no role; replicas told missing are missing if the cluster stood
  still.
- `RupturesAlwaysRemembered`: a rupture has a fingerprint of its workload no older than
  the debounce, one per debounce; a deletion leaves no debt.
- `FusedAlwaysWithin`: the fused value lies between the least and the greatest of the
  fresh signals, and the three readers agree.
- `CacheIsTheCluster`: a watch with nothing left to read knows the cluster, but for
  deletions no watch was open for; a recorded change is a new specification, once.
- `CallersAreAlwaysFound`: Callers is the set of all that can reach the target, nearest
  first, against a definition by levels, for every graph of three workloads.

Process, fleet, infrastructure.
- `KnownIsTheCluster`, `SettledStaysRegistered`, `LivingIsRegistered`: what a watch that has
  nothing left to read knows; what the prune never takes; what ends up registered.
- `ShutdownIsClean`: no answered line is lost to a closed store, the flush that ends
  without an error has the snapshots of the signal or later ones, the process exits.
- `PressureFollowsTheTrouble`: the one pass of `propagation.go` gives each group the
  greatest pressure along any way of the graph, and a pressure has a source in the blast
  radius that the other algorithm computes. `TroubleReachesTheNamespace`: liveness.

Storage and telemetry.
- `CountedOnce`: a sample delivered once lies in one row at most. `RecentIsRead`: a window
  no older than the age of compaction reads exactly what was stored and not purged.
  `PurgeReachesEveryTier`: a purge of KPIs leaves nothing of its window in any tier.
- `FleetListsTheFleet`: an answer lists each workload once, two of one name as two.
- `SeriesWithinLimit`: the limit may be passed by the requests that raced, never more.
- `DerivedSamplesAreTrue`: no log line is counted twice or never; a rate covers the whole
  window and no reset.
- `CriticalIsHandedOver`: a critical anomaly of an interval reaches the alerter at the next
  tick, unless the ring was overrun or the name of its host has a colon. `NewestIsResolvable`: the index names the newest
  alert of a rule, the one that is resolved.
- `HealthOfTheMeasured`: the score lies between the best and the worst of what is measured.
- `EveryCrossingIsLogged`: each change of band is one event, however observers
  interleave; the log is the newest of them. `FeedsAreLossy`: refinement of `LossyFeed`.

### Bounds

Every bound is a CONSTANT with "bound:" in its comment. Durations are shrunk to one or two
steps each so that "just before" and "just after" each are a step away, and keep their
order (what is longer in the code stays longer, where a comparison depends on it).

- Lease: durations of 2, 1 and 2 ticks; every order of boundary events occurs, the
  exact expiry included. Three operators, because a third may take over between the read
  and the write of the second. Ages saturate at `Horizon`, beyond which no comparison
  changes.
- Reconcile: three changes by others (two with two operators). Two valid specs differ
  in the two choices that change the calls, and one is refused.
- OperatorInputs: two objects, two rotations or edits, seven declarations of the metric
  source and four of the receiver, valid and refused: the smallest that has a pair in one
  object, a lone value, and each refusal.
- FailureHistory: four instants, two restarts, two replicas (symmetric), any of whose samples
  may be missing; the limits of
  two failures and one outcome are passed. Retention of two ticks expires failures inside
  a behaviour; a PodTTL of nought prunes a pod that misses one poll.
- AlertDelivery: an interval of three posts and a time to live of three intervals, as in the
  code; two receivers, two changes of what fails.
- Estimates: thresholds of one poll, ages up to three, past every sum of thresholds. A restart
  counter of none or one: it grows, falls, and grows again. One
  pod: Worst is a maximum over pods. At most two kinds of readings in one behaviour; every
  pair is tried.
- Releases: one replica of the old release and two of the new, the least that has both a
  comparison and siblings; two reads. Two paces: none, and more than `Factor` times `Floor`.
- Fusion: two values, one above and one below the cap, five instants: past lag and
  staleness. PodOwners: a Deployment whose name begins with the other's, four steps of the
  cluster. CallGraph: three workloads, one edit; every graph of them, cycles included.
  RuptureMemory: three ticks, past the debounce. RoleInputs: four roles of both levels and
  two profiles, two upsets.
- Discovery: one workload of each of two kinds, one host, three changes. A page of one item
  holds all of a kind: the runs check fleets that fit into one page (`OnePage` in the
  theorem). Lifecycle: one line, two snapshots, two ticks: a tick before and one during
  the flush.
- Infra: one or two kinds at a time, every report each can make; one change after the
  start, and watches that break before, in and after it.
- Storage: six instants with buckets of two and four, two deliveries, batches of one key.
  Snapshots: two workloads of one name and namespace, three ticks.
- Telemetry: rings, channels and logs of one or two entries, so that each overflows; two
  requests or publishers; as many values as a property needs to tell apart. Alerting: a host with
  a colon in its name and one without, five instants with ticks at two and four.

### Fairness

- Lease: the poll ticker fires (`Begin`), the clock runs, a reconcile ends. The three
  calls of a claim are strongly fair: a call to the API server that is made again
  on every loop succeeds once. Nothing is assumed of `Release` or `Kill`.
- Reconcile: `<>[][~Fault]_vars`, the usual "once faults cease"; then the loop and
  the calls it is at are weakly fair, because `runLoop` never stops and every call has a
  timeout, and the other controller finishes its work. Edits are bounded, not fair.
- Discovery: each goroutine takes its steps; a watch ends, because the code asks for
  `timeoutSeconds=300`; the prune goes on. Handling of events is not assumed fair:
  whatever a watch does not deliver, the next list does.
- Lifecycle: the main goroutine takes its steps and a request that was begun is answered
  (a client that never ends its request would hold Stop for ever, section 5). Ticks,
  the collector, clients and the signal are not fair.
- Infrastructure: lists are answered, watches are read or end, the ticker ticks and the tick
  ends; the same goroutines as in Discovery.
- The other modules claim no liveness.

`CHECK_DEADLOCK FALSE` is where a bound of the model stops the clock or the changes.

## 4. The proofs

`tlapm` proves each for every value of the constants that satisfies the named
assumption of the module and the hypotheses below. Where a part of an MC module is meant
(`part = ... =>`), the theorem is about `MCSpec`: the other parts leave its state alone.

| Theorem | States | Hypotheses | Rests on |
|---|---|---|---|
| `LeaseTypeCorrect`, `TakeoverIsLate` | types; `TakeoverOnlyAfterExpiry` | - | `ClaimInv` |
| `OneOperator` | `OneOperatorAtATime` | `ClaimLimit <= WorkLimit <= LeaseDuration`, a namespace for each operator | `ClaimInv`, `OwnerInv` |
| `ReconcileImplementsLease`, `OneReconcilerAtATime` | the reconcile loop refines `Lease`; `OneOperatorAtATime` of it | as above for the second | one case per action |
| `FinalizerAlwaysCovers`, `CleanupLeavesNothing` | `FinalizerCoversObjects`, `NothingLeftBehind` | one operator, a probe with one answer | `TodoInv`, `CoverInv`, `LeaseInv` |
| `KeyIsNeverOverwritten`, `StatusAlwaysTells` | `KeyIsStable`, `StatusTellsDeployment` | those of `OneOperator` | `TodoInv`, `RunInv`, `OneOperator` |
| `RotationsReachEngine` | `RotationAlwaysReachesEngine` | - | `InputsInv` |
| `HistoryType`, `FailuresAreScored`, `ForecastsAreOfThisCycle` | `TypeOK`, `EveryFailureScored`, `ForecastIsOfThisCycle` | - | `HistoryInv` |
| `NoFailureIsInvented` | `NoPhantomFailure` | - | `CountedInv` |
| `DiskAlwaysHoldsHistory` | `DiskHoldsHistory` | - | `SavedInv` |
| `DiscoveryType`, `SettledStays` | `TypeOK`; `SettledStaysRegistered` | `OnePage` for the second | `DiscoveryInv` |
| `InformerKnows` | `KnownIsTheCluster` | `OnePage` | `InformerInv` |
| `AnsweredStayWritten`, `FlushesKeepWhatIsOwed` | `AnsweredIsWritten`, `FlushKeepsWhatWasOwed` (two parts of `ShutdownIsClean`) | - | `ProcessInv` |
| `CacheAlwaysTheCluster` | `CacheIsTheCluster` | - | `OwnersInv` |
| `RupturesStayRemembered` | `RupturesAlwaysRemembered` | - | `MemoryInv` |
| `ReleasesStaySustained` | `ReleasesAlwaysSustained` | - | `ReleasesInv` |
| `PollsAlwaysTell` | `PollsTellTheCluster` | both replica counts are among the roles | `RolesInv` |
| `TroubleAlwaysShows` | `TroubleIsAlwaysShown` | no forecast ties with a condition outside the horizon | `PodTypes` |
| `EstimatesAlwaysFollow` | `EstimatesFollowReadings` | - | `ReadingsInv`, `RunAgrees` |
| `FusedStaysWithin` | `FusedAlwaysWithin` | - | `FusionInv`, `WeightedSum` |
| `CallersStayFound` | `CallersAreAlwaysFound` | `Apps` lists each workload once | `GraphInv`, `Search`, `RecursionIsDefined` |
| `PressureStaysTrue` | `PressureFollowsTheTrouble` | finitely many objects, counts of reports | `PressureInv`, `PropPressureIs` |
| `AlertsStayAndEnd` | `AlertsAlwaysFollow` | - | `DeliveryInv` |
| `FleetIsListed` | `FleetListsTheFleet` | finitely many workloads | `SnapshotsInv` |
| `SamplesTellTheTruth` | `DerivedSamplesAreTrue` | - | `BucketInv`, `RateInv` |
| `CrossingsAreLogged` | `EveryCrossingIsLogged` | finitely many observers | `LogInv` |
| `CriticalsAreHandedOver` | `CriticalIsHandedOver` | finitely many hosts | `HandInv` |
| `NewestStaysResolvable` | `NewestIsResolvable` | finitely many hosts | `ResolvableInv` |
| `MissingIsNeverAZero` | `HealthOfTheMeasured` | - | `HealthInv`, `WeightedSum` |
| `SamplesAreCountedOnce` | `CountedOnce` | - | `CountingInv` |
| `RecentSamplesAreRead` | `RecentIsRead` | `RowTTL[1] > CompactAfter[1]` | `RecentInv` |
| `PurgesReachEveryTier` | `PurgeReachesEveryTier` | - | `PurgeInv`, `TiersReached` |
| `SeriesStayWithinLimit` | `SeriesWithinLimit` | finitely many requests at a time | `IngestInv` |
| `FeedKeepsOrder`, `FeedNeverGoesBack` | what may still arrive of a feed is younger than what arrived; no step goes back | - | `FeedInv` |
| `BusImplementsFeed`, `StreamImplementsFeed`, `FeedsLoseAtMost` | `EventBus` and each stream of `EventLog` refine `LossyFeed`: `FeedsAreLossy` | - | `BusInv`, `StreamInv` |

**The hypotheses, and what the code has to say of them.**
- *One operator*, for the finalizer: with two, a copy that was listed before the other
  finished cleanup is reconciled for an instance that is gone (section 5). *A probe with one
  answer*: a process that asks about the Route API at a bad moment leaves the Route
  behind at cleanup (section 5).
- *`WorkLimit <= LeaseDuration`*: the code does not enforce it (section 5).
- *`OnePage`*: a list of more than 500 items is cut (section 5).
- *No tie*: a forecast one second past `CriticalETF` has the rank of throttling
  (`Urgency` in `Estimates`), and of the two the tracker may keep either; the workload is
  shown as healthy if it keeps a forecast outside the horizon. With a horizon above the
  critical ten minutes, as the default is, there is none; `RUPTURA_HORIZON` may be set
  below.
- *`RowTTL[1] > CompactAfter[1]`*: seven days and two hours. Rows that expire before they are
  old enough to be compacted would be missing from the window.
- *Counts of reports*: those of a policy report and of a machine pool are natural numbers, and a
  pool has no more degraded machines than machines. `mcpSignal` does not clamp that
  ratio, the only one of the signals that is not clamped; the machine-config operator
  counts degraded machines among a pool's own.
- *Finite sets* of pods, requests, observers, hosts, objects and workloads: cardinalities, and the
  order a map is gone through in, are of finite sets.
- Constants have the types the code gives them: default rules, Alertmanagers and overrides of
  weights are sequences, weights are natural numbers, a workload is of one of the
  kinds that discovery and the receivers give. That a round is shorter than the interval
  (`DeliveryAssumption`) is not enforced by the code (section 5).
- Values that stand for "none" (`None`, `Never`, `Unmarked`, `NoPoll`, `NoRun`) are assumed to
  be none of the values they are beside, pods and Deployments to have names of their
  own in `PodOwners`, sources of an instance to name objects. TLC evaluates each assumption.

**Lease.** `TakeoverOnlyAfterExpiry` is about the moment of the write, the decision
was at the read. `ClaimInv` carries it over: a PUT in flight whose version is still
stored (`fresh`) was justified when it read (`PutJustified`), and time only makes the
Lease older. `OwnerInv` then says that an operator at work is the one stored and the
Lease is no older than its claim (`HolderIsStored`), so that another's claim cannot
find it expired while the reconcile is within its limit.

**Reconcile.** What is left of a reconcile (`todo`) has a shape: the finalizer before any
object, the Lease and the finalizer after every deletion, the status last (`TodoInv`).
`CoverInv` follows: whatever is stored is either covered by the finalizer or about to be
deleted by the calls that precede its removal. `LeaseInv` says the same of the Lease, which
the reconcile that runs cleanup has just renewed and alone may write: once its deletion has
been answered it stays away until that reconcile ends, and the removal of the finalizer
comes after it. That the Lease always goes with the instance is not true (section 5). The key and the status need another
fact, that the Secret and the Deployment change only by the calls of the operator that is
inside, so that what it read at `GetSecret` still holds when it applies: here the
exclusion of the lease protocol is used as a lemma.

**OperatorInputs.** Generations only grow. A pass that finds the digest of today's values in
the template knows that an engine started with the template has nothing older, and there
is nothing newer: this is why a rollout that reads a later value than its reconcile did
no harm.

**FailureHistory.** `EveryFailureScored` is not inductive: the failure about to be
saved must be known to have its outcome (`UnsavedIsScored`). `ForecastIsOfThisCycle`
needs that no failure lies ahead of the clock on which the next forecast is noted
(`NotAhead`), in memory or on disk, as a restart brings the disk back into memory.
`NoPhantomFailure` is a sum over pods: for each, the failures counted are at most the
restarts up to the counter that the tracker has seen, or will have seen when it has observed
what is left of the poll, and one for every sample that told less than that counter
(`Owed`). `SavedInv` follows a failure from memory to disk and back through
the limit, the retention, a refused write and the crash between the two saves.

**Discovery and the caches.** `EventsAreTouched`: a watch speaks only of workloads that came
or went. `LastingIsKnown`: what never changed is, while its kind is handled, in the list or
known, and is among what the prune took for known. For `KnownIsTheCluster` and
`CacheIsTheCluster` the last event about an object decides: who knows the state at the
version of the list, and hears the rest of the stream, knows the cluster. A deletion that
falls between two watches is in no stream, which is why both are stated but for
`missed` and `stale`.

**Lifecycle.** At each line of `runWithContext` the deferred calls are one known list and
the store is open or not (`StagesInv`). Once Stop is deferred, a call that comes after a
receiver's is reached only when that receiver is closed and quiet (`DoorsInv`), and a
store is closed only by a later call: no answer can find it closed. Of the flush, each
workload's snapshot is on disk, or a later one is, or one that is late enough waits to be
written (`FlushInv`): a snapshot in memory is never replaced by an older one, and the
signal comes before the copy is taken.

**Conditions and forecasts.** What is kept of a condition is three ages, what it claims is about the log of
readings: a run that was read recently stands in the log, from its first reading on, with
nothing else between and no long silence (`Stands`). A new reading begins a run or carries
it on, time moves both along (`RunGoesOn`, `RunAges`), and a run that has lasted is what
the readings agree on (`RunAgrees`). Ages stop at `Oldest`, so a run may have begun
before the log does. For forecasts: while the counter was not seen to fall, what the forecast
read last is no more than what the tracker read last, so a restart the tracker has counted
since makes the next reading with usage empty the window, and the window begins after the
last restart (`WindowsFollowRestarts`).

**Estimates.** Memory: the last fingerprint of a workload is no older than its last rupture
unless the debounce explains it. Releases: a mark is at most as old as the run of reads
that found the pod. Roles: what a poll has read so far was true since it began, or the
witness has noted why not. `TroubleIsShown` is no invariant of the steps but a
property of the ranking: for any state of the pods that is well typed, the least rank of what
is told shows no healthier than any trouble does. That a least rank exists is
`LeastOfNaturals`, from the well-foundedness of the naturals.

**Storage.** `CountedOnce` needs what is planned and not yet written: an average shares samples
only with the rows its own transaction deletes, and with no other average. `RecentIsRead`: a
recent sample is in its raw row and in no other, and both rollups and the rows a pass is
about to delete lie further back, as the clock stands still for a pass.
`PurgeReachesEveryTier`: each row of the window is of a tier still to be read, among the keys
to delete, or of samples stored since.

**Alerts.** `AlertsAlwaysFollow` is about time and so are its parts: a round that is under way
ends before the next tick (`RoundInv`: the targets left are fewer than the units to it);
an alert of the last post that was answered has all of its time left but what has passed
since, which is under two intervals while no more than one post was lost (`ToldInv`);
and of an alert whose failure cleared, the time left and the time since together stay below
the time to live and one round (`GoneInv`).

**Snapshots.** Under its own key a workload is found once it was stored, for no other
writes that key (a host's is of no kind): `SnapsKeptInv`. Of a request, the snapshots
still to enrich and the hosts listed so far share out the workloads that were fresh at the
first read, one place each (`Lists`); the second read appends what of the waiting ones is
not among them, in the order of a set that `SetToSeq` gives.

**Logs, rates, crossings.** The lines counted of a source are those of its samples together
with those of its open bucket (`BucketInv`). What is kept of a counter are its readings from
some place on, all but the first of them younger than the window and none below the one
before it, so the first decides (`RateInv`). A crossing is in the log as often as it was
told, if the observers that still owe it are counted with it; and the log is the
newest `LogCap` of all that was logged (`LogInv`).

**Alerter.** An anomaly with fewer than `RingCap` published after it is at that place from the
end of the ring; one of the interval under way is there when the tick takes it up
(`HandInv`). Folds of `Query` and `Evaluate` are unrolled by the lemmas of `FoldLemmas`: a run
over a sequence is a function on its prefixes. Of what was raised there is one entry per
identifier, and the index names an alert that is active and the newest of its rule and
host (`ResolvableInv`).

**Callers.** The graph of an instant is whatever the lists of a refresh made of it; the search
is a loop over it. After each round (`Search`) what was found is found once and without
the target, those still to be asked come after those that were, what was found
are the callers of those asked, and none is farther from the target than its place
allows. When nobody is left to ask the found ones are closed under calling, which is
what `HitWithin` is the least of; its levels are prefixes of what was found.

**Propagation.** The one pass over the groups in a fixed order is a recursive function; its
equation has one solution (`HearingIs`), a greatest number over the edges that end in
each group. The greatest over the nine ways is the same because a tenth rounded down
keeps the order (`TenthsKeepOrder`): it does not matter that the pass takes the greater
before it rounds. `HeardFromOne`: what a group hears comes along one way, so the source of
that way alone presses as much, and less than a source reaches nobody hears
(`HeardKeepsOrder`). `PressureInv` then is about the registry: what is signalled lies
between 0 and 1, and a namespace has the pressure of its snapshots unless its turn is still
to come, in which case the pressure is that of some earlier health of the groups.

**Means.** `FusedAlwaysWithin` and `HealthOfTheMeasured` say that a weighted mean lies between
the least and the greatest of what it is taken of. `WeightedSum` proves it of
`SumFunctionOnSet`, for any finite set and natural weights; the rest is that some
weight is not zero, and that integer division keeps the order (`QuotientBetween`).

**Induction over data.** The library states it with an operator as a parameter, which
the provers cannot instantiate. `FoldLemmas` states it with a set in the operator's place
(`EveryNatural`, `EverySubset`), and derives from it that a fold over a finite set is
defined, which is not obvious: `MapThenFoldSet` CHOOSEs a function that a
recursive equation has to have.

**Feeds.** `FeedInOrder` with the types and `last <= offered` is inductive: the event
delivered is the least that waits. For the refinements, the queue and the outbox together
(a channel, for the log) are increasing, younger than what was delivered, and no newer than
what was offered; the eviction by a publisher that finds the queue full takes the oldest,
a loss of the abstract feed.

**Ingest.** Every series over the limit is owed to a request between its check and its
store, so there are no more of them than requests.

**Model-checked only.** Liveness (`SurvivorTakesOver`, `Converges`, `DeletionCompletes`,
`LivingIsRegistered`, `TroubleReachesTheNamespace`, the third part of `ShutdownIsClean`)
is beyond the prover. `PressureInv` was looked at by TLC but for its existence of a health
(1001 values for each of seven groups).

## 5. Where the code and its words differ

Three runs show a disagreement; `PROJECT.json` "findings" quotes both sides. The following
were met while modelling and have no run of their own: a run for each would take the place
of runs that show what holds.

Operator:
- `reconcile` claims the Lease once, with the clock of its start, and then makes up to
  fourteen calls of up to 15 s each without renewing it; `ownership.go:8-10` says that
  another operator takes over only after it expires. A reconcile that outlasts the lease
  shares the instance, and the second operator may then write another API key over the
  first's (`controller.go:580` says never: the GET and the apply are apart).
- `routeAPIAvailable` is asked once per process and takes any error for "no"; cleanup then
  leaves four objects (`controller.go:69` says it deletes all).
- `patchFinalizers` (`k8s.go:180`) sends the whole list computed from the listed copy: a
  finalizer another controller added since is dropped, while `controller.go:58` speaks
  of removing its own.
- The Lease is created before the finalizer is registered (`controller.go:116`, `134`). One
  operator that reconciles a copy of an instance deleted in the meantime, or of one that only
  another controller's finalizer still holds, creates a Lease that nothing deletes,
  as the model does; `site/docs/install.md:35` says that everything the operator created is
  removed, and `ownership_test.go:170` tests that cleanup deletes the Lease. `NothingLeftBehind`
  is about the cleanup only. With two operators
  the copy may also be one listed before the other finished cleanup.
- Two pods of one operator namespace, as in a rolling update, share an identity and
  both hold the Lease; `site/docs/install.md` says one operator at a time.
- An edit that `validateSpec` refuses makes a running instance `Failed`, "Nothing is
  deployed" (`controller.go:492`), while its engine goes on.
- cleanup deletes the ServiceAccount that all instances of a namespace share
  (`controller.go:104`).
- The digest of the inputs returns to an old one when a Secret does: an engine that took
  the value in between is not restarted. `OperatorInputs` never puts a value back.

Failures and what is shown of them:
- A missing restarts sample is a counter of zero (`thanos.go:336`), and the next one a
  failure that never was; `ARCHITECTURE.md:52` says missing data is never a zero.
  `NoPhantomFailure` counts such samples, and would fail in `history` if it did not.
- The tracker and the forecast keep a restart counter each (`tracker.go:57-66`,
  `saturation.go:70-74`), the second only of readings with usage. After a pod is replaced
  under its name the tracker may know the new counter while the forecast still compares with
  the old, higher one: a restart of the new pod then leaves the window as it was. A
  replacement alone never empties it, so a forecast may be fitted to readings of the pod before.
  `EstimatesFollowReadings` says nothing once the counter was seen to fall.
- Two failures of one poll have one time and one `ff:` key: a restart restores one, which
  changes the rhythm that `restoreFailureHistory` means to keep
  (`cmd/ruptura/failuremodes.go:106`). The outcomes share an `fo:` key across workloads.
  A restored history is not cut to the limit until the next failure.
- A forecast that is withdrawn stays noted, and an old one may be credited to a
  failure it did not foresee; one noted on the API's clock during a poll gives a negative
  lead.
- An OOM kill ranks behind a forecast of hours, which is neither shown nor listed, though
  `rollout_oom.go:16` "keeps an OOM visible".
- Missing replicas and a stalled rollout outrank a forecast of four to ten minutes, and the
  state shown is degraded where the forecast alone would be critical;
  `tracker.go:163-165` says that an imminent failure outranks a condition in progress.
- A regression hides the saturation forecast of every pod of its version
  (`tracker.go:191`), though Worst "returns the most urgent fresh estimate across pods and
  modes".
- The marks `since` and `divergentSince` stay while a pod is not compared, so that a
  regression can be reported at the first read after; `release.go:18` says it must hold for
  five minutes. The newest version is the one observed last, a rollback's included.
- `observeReplicas` reads desired and available by two queries: one poll may show a gap the
  cluster never had, which `replicasSustained` filters.
- Prometheus input and failure modes stay off for the life of the process when the token or
  CA cannot be read at its start; the CA and client certificate are read once.

Alert delivery:
- `alertLabels` (`internal/alertmanager/client.go:91`) says that a change of state updates
  the alert instead of opening a second one; the severity follows the state and is a label,
  so it opens one, beside the old for up to three minutes.
- With six or more slow Alertmanagers a round outlasts its interval and one lost post lets
  an active alert expire. Under the scope of a namespace two workloads' failures of one mode
  are one alert.

Fleet and caches:
- `KnownRefs` returns what "exists in the cluster right now" (`informer.go:179-182`); a
  deletion between two watches is never heard of, for a relist only adds. The same holds of
  the metadata cache and of every infrastructure collector. No list checks its status code.
- The prune reads what is known and then what is registered (`main.go:252`, `256`): a
  workload created in between is unregistered until its next event.
- The "paginated LIST" (`watcher.go:96`) asks for 500 items and never for the next
  page; the prune then unregisters the workloads beyond it that telemetry registered.
- Telemetry of a deleted workload registers it again after the only prune there is,
  the drift that `main.go:240-248` says is fixed.
- A rollout while no watch is open is no change.
- An error on a later page of routes or ingresses drops entries of the call graph silently.
- A silent workload's snapshot is stored again at every tick, so the "dead-pod eviction"
  never happens; a workload that gets its first telemetry between the two reads of the
  fleet is missing from that answer; `handleRupture` by host returns either of two
  workloads of one name.

Process:
- The collector of garbage is harmless in `collector_runs_on` only because Badger's Close
  waits for it. A gRPC port that cannot be opened returns before Stop is deferred, while the
  HTTP listener answers: its log lines are lost. A tick in progress at the signal stores
  snapshots after FlushSnapshots, though `storage.go:108` says "no data loss on graceful
  shutdown"; no code reads the flushed keys back. The receivers have no read timeout and
  Stop has no deadline: a client that never ends its request holds the exit.

Infrastructure:
- A tick publishes nothing while no object has a signal. What the Propagator holds of a
  namespace that is gone stays. A namespace without an object of its own is never
  propagated, although `builder.go` says that what belongs to the cluster applies to all. An
  API that cannot be read at start is left out for good.

Storage:
- `Compact` has no caller but tests, though `retention.go` speaks of a background goroutine.
  A cutoff inside a bucket makes the second compaction overwrite the first average; raw
  samples older than two hours are compacted while windows of up to six hours read only raw
  ones; a compaction beside a purge writes back what the purge deleted; a purge of "signals"
  leaves its rollups; a sample delivered again after its bucket was compacted counts twice.
- `QueryLogs` returns the oldest lines up to its limit, reversed, though it says "newest
  first"; two lines of a service in one nanosecond are one.

Telemetry:
- `AllHosts` (`internal/pipeline/metrics/engine.go:124`) cuts host names at the first colon,
  though it "returns the distinct host names". Remote write files a series under its instance
  label (`ingest/remotewrite.go:69`), usually address and port: the tick asks for the anomalies
  of the address, `Query` compares the whole name (`anomaly_engine.go:358`), and no critical
  anomaly of such a host is handed over. `CriticalIsHandedOver` excepts them, and would fail in
  `telemetry` if it did not. The tick updates the analyzer under the name that is left, and the lists
  of the API that go through `AllHosts` (`handlers_ui.go:325`, `handlers_extra.go:69`) use it
  too. The model takes no host's name to begin with a colon.
- An alert that finds the channel full is dropped and counted, and stays active: the action
  engine never hears of it, and the rule does not fire again for a minute.
- `alerter.go:62` "max 1/rule/host": a rule that fires again after a minute has a second
  alert, and the first is never resolved. An acknowledged alert stays for ever. An anomaly
  with a late time stamp is evaluated by no tick. Default rules never reach the action
  engine; the emergency stop is consulted by nothing.
- `fusion.go:103` compares the lag before it drops what is stale: one old log or trace value
  makes FusedR fail for good, though `fusion.go:195-199` says that a single active pipeline
  is authoritative; StateByWorkload and Snapshot pass MaxFusedR. Logs are keyed by service
  and metrics by workload, so that the two never meet in one host.
- A near miss is counted after a rupture, against `business.go:43-45`.
- Publish, "non-blocking" in its comment, may block (`eventbus.go:171-177`); posts that fail
  are dropped, and main never wires the NATS bus. Transitions are looked for only while
  somebody asks for ruptures.
- `ts.IsZero()` after `time.Unix(0, 0)` is never true, so logs without a time are of 1970; a
  gauge sent as an integer is ingested as zero or as the point before; samples made of logs
  pass the limit of series; a pod whose owner is not known yet leaves a workload behind that
  nothing removes.
- The baseline of 96 observations, 24 hours in the comments, is 24 minutes.

## 6. Plan

Done: the components of section 2; `Lease` as an abstract specification with a theorem;
`LossyFeed` with a run and theorems; a theorem for every property of the passing runs that is
not liveness.

What is left:
1. Two instances that share a namespace, and finalizers of others.
2. Lists of more than one page in `Discovery`, with the claim that then still holds.
3. Arbitration and safety, should the engine come to call them.

## 7. What is not modelled, and why

- **Numbers.** Slopes, robust deviations, Holt-Winters, ARIMA, the formulas of signals, risk
  numbers: floating point, which TLC has not. Where one decides something, it is an
  arbitrary verdict.
- **Formats.** OTLP, remote write, dogstatsd, JSON, manifests, texts: conversions without a
  state.
- **Code nothing calls.** Arbitration, safety, providers' execution, grouping, silences,
  editing of rules, topology.go, correlator.Engine, the second OTLP server, DogStatsD: a
  model of an order of calls would be an invention.
- **Access to the outside.** The CLI, the client, the console, charts and bundles.
- **In the modelled parts:** two instances that share a namespace; clocks that run apart;
  a listing of the disk that fails half way; two polls at one instant; a value that is put
  back in a Secret; spans, tokens and contexts of the store, one get or put each.
