--------------------------- MODULE InfraRegistry ---------------------------
(***************************************************************************)
(* The infrastructure collectors and the registry that aggregates them     *)
(* (internal/collector/infra, dag/registry.go, dag/propagator.go).         *)
(*                                                                         *)
(* Each collector is probed once, when the registry starts; one that fails *)
(* is left out for good.  Every kind of an active collector has a goroutine *)
(* that lists and watches for ever and writes the signal of each object.   *)
(* Every 30 seconds the registry aggregates the signals into one snapshot  *)
(* per group and namespace, publishes them, and then propagates namespace  *)
(* by namespace under another lock: a reader can see the new health with   *)
(* the old pressure.                                                       *)
(*                                                                         *)
(* A list that asks for 500 items is complete here; the paging it lacks is *)
(* modelled in Discovery, whose loop these are copies of.  The rows the    *)
(* registry writes to the store at the end of a tick are left out: nothing *)
(* reads them back into it.                                                *)
(***************************************************************************)
EXTENDS InfraSignals, Sequences, SequencesExt

CONSTANTS
  Objects,     \* the objects there may be
  KindOf,      \* KindOf[o]: the kind of object o
  NamespaceOf, \* NamespaceOf[o]: its namespace, or Cluster
  Statuses,    \* Statuses[k]: what an object of kind k can report
  Cluster,     \* the namespace "" of what belongs to the whole cluster
  Servings,    \* the sets of kinds an API server may have and let the engine read
  MaxEvents,   \* bound: changes of the cluster
  Gone

VARIABLES
  served,      \* the kinds this one has
  objects,     \* what the cluster's objects report, Gone when there is none
  events,      \* how often that changed
  probed,      \* every collector has answered its probe or failed to
  active,      \* Registry.active
  loop,        \* what the goroutine of a kind does: "off", "list", "watch"
  queue,       \* what it has still to handle: listed items, then events
  signals,     \* the collectors' signals, Gone for an object without one
  snapshots,   \* Registry.groupSnapshots: <<group, namespace>> -> snapshot
  propagating, \* the namespaces the tick under way has still to propagate
  pressure     \* Propagator.results: namespace -> PropPressure and BlastRadius

clusterVars == <<served, objects, events>>
watchVars == <<loop, queue, signals>>
registryVars == <<snapshots, propagating, pressure>>
infraVars == <<clusterVars, probed, active, watchVars, registryVars>>

Collectors ==
  {"node", "clusteroperator", "mcp", "networking", "storage", "admission", "operator", "tenancy"}

(***************************************************************************)
(* The collectors: the group of each, the kind its probe lists, the kinds  *)
(* it watches, and the signal of one of its objects.                       *)
(***************************************************************************)
GroupOf(c) ==
  CASE c \in {"node", "clusteroperator", "mcp"} -> "controlplane"
    [] c = "networking" -> "network"
    [] c = "operator"   -> "operators"
    [] OTHER            -> c

ProbedKind(c) ==
  CASE c = "node"            -> "Node"
    [] c = "clusteroperator" -> "ClusterOperator"
    [] c = "mcp"             -> "MachineConfigPool"
    [] c = "networking"      -> "Service"
    [] c = "storage"         -> "PersistentVolumeClaim"
    [] c = "admission"       -> "PolicyReport"
    [] c = "operator"        -> "Subscription"
    [] c = "tenancy"         -> "ResourceQuota"

Optional == {"Route", "Ingress"}

KindsOf(c) ==
  CASE c = "networking" -> {"Service", "Endpoints", "NetworkPolicy"} \cup Optional
    [] c = "storage"    -> {"PersistentVolumeClaim", "PersistentVolume", "StorageClass"}
    [] c = "admission"  -> {"PolicyReport", "ValidatingWebhookConfiguration"}
    [] c = "operator"   -> {"Subscription", "ClusterServiceVersion", "InstallPlan",
                            "CustomResourceDefinition"}
    [] c = "tenancy"    -> {"ResourceQuota", "LimitRange", "Namespace"}
    [] OTHER            -> {ProbedKind(c)}

Kinds == UNION {KindsOf(c) : c \in Collectors}
CollectorOf(o) == CHOOSE c \in Collectors : KindOf[o] \in KindsOf(c)
Of(k) == {o \in Objects : KindOf[o] = k}

(***************************************************************************)
(* There are finitely many objects, and each is of a kind some collector   *)
(* watches.  The counts of a report and of a pool are naturals, and a pool *)
(* counts its degraded machines among its machines: mcpSignal does not     *)
(* clamp that ratio.                                                       *)
(***************************************************************************)
ASSUME InfraAssumption ==
  /\ MaxEvents \in Nat
  /\ IsFiniteSet(Objects)
  /\ \A o \in Objects :
       /\ KindOf[o] \in Kinds
       /\ \A status \in Statuses[KindOf[o]] :
            LET report == status[2] IN
            /\ status[1] = KindOf[o]
            /\ status[1] = "MachineConfigPool" =>
                 /\ report \in [machines : Nat, updated : Nat, unavailable : Nat, degraded : Nat]
                 /\ report.degraded <= report.machines
            /\ status[1] = "PolicyReport" => report \in [pass : Nat, fail : Nat, warn : Nat, error : Nat]

\* a status is a pair of the kind and what the object reports
SignalOf(o, status) ==
  LET c == CollectorOf(o)
      kind == status[1]
      report == status[2]
  IN
  CASE c = "node"            -> NodeSignal(report)
    [] c = "clusteroperator" -> CoSignal(report)
    [] c = "mcp"             -> McpSignal(report)
    [] c = "networking"      -> NetSignal(kind, report)
    [] c = "storage"         -> StorageSignal(kind, report)
    [] c = "admission"       -> AdmissionSignal(kind, report)
    [] c = "operator"        -> OperatorSignal(kind, report)
    [] c = "tenancy"         -> TenancySignal(kind, report)

Present == {o \in Objects : KindOf[o] \in served}

InfraInit ==
  /\ served \in Servings
  /\ objects \in {[o \in Objects |-> IF o \in Present THEN f[o] ELSE Gone] :
                    f \in {f \in [Present -> UNION {Statuses[k] : k \in served} \cup {Gone}] :
                             \A o \in Present : f[o] \in Statuses[KindOf[o]] \cup {Gone}}}
  /\ events = 0
  /\ probed = FALSE /\ active = {}
  /\ loop = [k \in Kinds |-> "off"]
  /\ queue = [k \in Kinds |-> <<>>]
  /\ signals = [o \in Objects |-> Gone]
  /\ snapshots = <<>> /\ propagating = {} /\ pressure = <<>>

(***************************************************************************)
(* The cluster: the watch of a kind delivers every change after its list.  *)
(***************************************************************************)
ClusterChange(o) ==
  /\ KindOf[o] \in served /\ events < MaxEvents
  /\ \E status \in (Statuses[KindOf[o]] \cup {Gone}) \ {objects[o]} :
       /\ objects' = [objects EXCEPT ![o] = status]
       /\ queue' = [queue EXCEPT ![KindOf[o]] =
                      IF loop[KindOf[o]] = "watch"
                        THEN Append(@, [type |-> "event", ref |-> o, status |-> status])
                        ELSE @]
  /\ events' = events + 1
  /\ UNCHANGED <<served, probed, active, loop, signals, registryVars>>

(***************************************************************************)
(* Registry.Run: every collector is probed, and none is started before all *)
(* have answered.  A probe fails when the API is not there, and when it    *)
(* happens not to answer.  Ruptura watches the optional kinds of the       *)
(* network only when they answer too.                                      *)
(***************************************************************************)
Probe ==
  /\ ~probed /\ probed' = TRUE
  /\ \E failing \in SUBSET {c \in Collectors : ProbedKind(c) \in served} :
       active' = {c \in Collectors : ProbedKind(c) \in served} \ failing
  /\ UNCHANGED <<clusterVars, watchVars, registryVars>>

StartCollector(c) ==
  /\ probed /\ c \in active
  /\ \A k \in KindsOf(c) : loop[k] = "off"
  /\ \E failing \in SUBSET (KindsOf(c) \cap Optional \cap served) :
       loop' = [k \in Kinds |->
                  IF k \in KindsOf(c) \ failing /\ (k \in Optional => k \in served)
                    THEN "list" ELSE loop[k]]
  /\ UNCHANGED <<clusterVars, probed, active, queue, signals, registryVars>>

(***************************************************************************)
(* The goroutine of a kind.  A list that fails is tried again.  A watch    *)
(* may end at any time, with events it has not delivered.                  *)
(***************************************************************************)
ListAll(k) ==
  /\ loop[k] = "list" /\ k \in served
  /\ loop' = [loop EXCEPT ![k] = "watch"]
  /\ \E order \in SetToSeqs({o \in Of(k) : objects[o] # Gone}) :
       queue' = [queue EXCEPT ![k] =
                   [i \in DOMAIN order |->
                      [type |-> "item", ref |-> order[i], status |-> objects[order[i]]]]]
  /\ UNCHANGED <<clusterVars, probed, active, signals, registryVars>>

Upsert(o, status) ==
  signals' = [signals EXCEPT ![o] = IF status = Gone THEN Gone ELSE SignalOf(o, status)]

Handle(k) ==
  /\ queue[k] # <<>>
  /\ Upsert(Head(queue[k]).ref, Head(queue[k]).status)
  /\ queue' = [queue EXCEPT ![k] = Tail(@)]
  /\ UNCHANGED <<clusterVars, probed, active, loop, registryVars>>

\* Faulty variant: the watch is opened again without a list.
WatchStreamReopens(k) ==
  /\ loop[k] = "watch" /\ ~ \E i \in DOMAIN queue[k] : queue[k][i].type = "item"
  /\ queue' = [queue EXCEPT ![k] = <<>>]
  /\ UNCHANGED <<clusterVars, probed, active, loop, signals, registryVars>>

WatchStream(k) ==
  /\ loop[k] = "watch" /\ ~ \E i \in DOMAIN queue[k] : queue[k][i].type = "item"
  /\ loop' = [loop EXCEPT ![k] = "list"]
  /\ queue' = [queue EXCEPT ![k] = <<>>]
  /\ UNCHANGED <<clusterVars, probed, active, signals, registryVars>>

(***************************************************************************)
(* Registry.tick: aggregate and publish, then propagate each namespace.    *)
(* Nothing is published when no object has a signal: the last snapshots    *)
(* stay.  A namespace no object lives in is not propagated, and the last   *)
(* pressure of one that was stays.                                         *)
(***************************************************************************)
Reporting == {o \in Objects : signals[o] # Gone}
Place(o) == <<GroupOf(CollectorOf(o)), NamespaceOf[o]>>

Snapshot(place) ==
  LET members == {o \in Reporting : Place(o) = place} IN
  [health |-> 1000 - Max({signals[o].value : o \in members}),
   spread |-> MapThenSumSet(LAMBDA o : signals[o].value, members) \div Cardinality(members),
   count  |-> Cardinality(members)]

Aggregate ==
  /\ probed /\ propagating = {} /\ Reporting # {}
  /\ snapshots' = [place \in {Place(o) : o \in Reporting} |-> Snapshot(place)]
  /\ propagating' = {NamespaceOf[o] : o \in Reporting} \ {Cluster}
  /\ UNCHANGED <<clusterVars, probed, active, watchVars, pressure>>

\* BuildNamespaceInput: the worst of the cluster's and the namespace's snapshot of each group
Activation(ns) ==
  [g \in Groups |->
     LET stress == {1000 - snapshots[p].health :
                      p \in {p \in DOMAIN snapshots : p[1] = g /\ p[2] \in {Cluster, ns}}}
     IN IF stress = {} THEN 0 ELSE Max(stress)]

Turned(ns) == ns \in propagating /\ propagating' = propagating \ {ns}

Propagate(ns) ==
  /\ Turned(ns)
  /\ LET activation == Activation(ns)
         result == [pressed |-> PropPressure(activation), blast |-> BlastRadius(activation)]
     IN pressure' = [n \in DOMAIN pressure \cup {ns} |-> IF n = ns THEN result ELSE pressure[n]]
  /\ UNCHANGED <<clusterVars, probed, active, watchVars, snapshots>>

(***************************************************************************)
(* What a reader gets: the analyzer and the API.                           *)
(***************************************************************************)
NamespaceSnapshot(ns) ==
  LET Stress(gs) == {1000 - snapshots[p].health :
                       p \in {p \in DOMAIN snapshots : p[1] \in gs /\ p[2] = ns}}
      Worst(values) == Max(values \cup {0})
  IN [networkHealth     |-> 1000 - Worst(Stress({"network"})),
      storageRisk       |-> Worst(Stress({"storage"})),
      admissionPressure |-> Worst(Stress({"admission"})),
      infraStress       |-> Worst({1000 - snapshots[p].health :
                                     p \in {p \in DOMAIN snapshots : p[2] \in {Cluster, ns}}}),
      propPressure      |-> IF ns \in DOMAIN pressure THEN pressure[ns].pressed["workload"] ELSE 0]

\* handleSignalsByKind: the nodes, the pools and the cluster operators
SignalsByKind(kind) ==
  {o \in Reporting : KindOf[o] = kind /\ CollectorOf(o) \in active}

\* the rows the API lists: all of them, or one group's by namespace
InfraGroups ==
  {[group |-> p[1], namespace |-> p[2], health |-> snapshots[p].health,
    spread |-> snapshots[p].spread, count |-> snapshots[p].count] : p \in DOMAIN snapshots}

InfraNetwork   == {row \in InfraGroups : row.group = "network"}
InfraStorage   == {row \in InfraGroups : row.group = "storage"}
InfraAdmission == {row \in InfraGroups : row.group = "admission"}
InfraTenancy   == {row \in InfraGroups : row.group = "tenancy"}

\* handlePropagation
PropagationShown == [ns \in DOMAIN pressure |-> pressure[ns].pressed["workload"]]

(***************************************************************************)
(* Each collector has its own copy of the loop, for its own kinds.         *)
(***************************************************************************)
Watched(c) == \E k \in KindsOf(c) : ListAll(k) \/ Handle(k) \/ WatchStream(k)

NodeCollector       == Watched("node")
CoCollector         == Watched("clusteroperator")
McpCollector        == Watched("mcp")
NetworkingCollector == Watched("networking")
StorageCollector    == Watched("storage")
AdmissionCollector  == Watched("admission")
OperatorCollector   == Watched("operator")
TenancyCollector    == Watched("tenancy")

InfraNext ==
  \/ \E o \in Objects : ClusterChange(o)
  \/ Probe
  \/ \E c \in Collectors : StartCollector(c)
  \/ NodeCollector \/ CoCollector \/ McpCollector \/ NetworkingCollector
  \/ StorageCollector \/ AdmissionCollector \/ OperatorCollector \/ TenancyCollector
  \/ Aggregate
  \/ \E ns \in {NamespaceOf[o] : o \in Objects} \ {Cluster} : Propagate(ns)

\* the API server answers a list in the end, a watch is read, the ticker ticks and
\* the tick comes to its end: only Propagate takes a namespace's turn
InfraFairness ==
  /\ WF_infraVars(Probe)
  /\ \A c \in Collectors : WF_infraVars(StartCollector(c))
  /\ \A k \in {KindOf[o] : o \in Objects} : WF_infraVars(ListAll(k)) /\ WF_infraVars(Handle(k))
  /\ WF_infraVars(Aggregate)
  /\ \A ns \in {NamespaceOf[o] : o \in Objects} \ {Cluster} : WF_propagating(Turned(ns))

-----------------------------------------------------------------------------
(***************************************************************************)
(* Correctness.                                                            *)
(***************************************************************************)
\* the ways from a group to the workloads, none longer than two edges, and what a
\* group presses along one
Ways ==
  {<<e>> : e \in {e \in CanonicalEdges : e.to = "workload"}} \cup
  {way \in CanonicalEdges \X CanonicalEdges : way[1].to = way[2].from /\ way[2].to = "workload"}

WayPressure(activation, way) ==
  LET first == (activation[way[1].from] * way[1].omega) \div 10
  IN IF Len(way) = 1 THEN first ELSE (first * way[2].omega) \div 10

\* Between two ticks, what presses on the workloads of a namespace that has
\* objects is the worst way of the graph from a group that is unwell, its own
\* weight and that of every group between (ComputePropPressure, one pass in a
\* fixed order).
PressureIsTheWorstWay ==
  propagating = {} =>
    \A ns \in {p[2] : p \in DOMAIN snapshots} \ {Cluster} :
      LET activation == Activation(ns) IN
      PropagationShown[ns] = Max({WayPressure(activation, way) : way \in Ways})

\* A group is under pressure exactly when it is in the blast radius of a group
\* that is unwell: the two algorithms, one over all the groups and one over each
\* source alone, tell the same story, also in a pressure that is out of date.
PressureHasASource ==
  \A ns \in DOMAIN pressure : \A g \in Groups :
    pressure[ns].pressed[g] >= 200 <=>
      \E src \in DOMAIN pressure[ns].blast : g \in pressure[ns].blast[src]

\* The pressure that is shown for a namespace (Propagator.Propagate): the
\* greatest along any way, and none without a source.
PressureFollowsTheTrouble == PressureIsTheWorstWay /\ PressureHasASource

\* the rows of the API an object counts in
RowsOf(o) ==
  LET group == GroupOf(CollectorOf(o)) IN
  CASE group = "network"   -> InfraNetwork
    [] group = "storage"   -> InfraStorage
    [] group = "admission" -> InfraAdmission
    [] group = "tenancy"   -> InfraTenancy
    [] OTHER               -> {row \in InfraGroups : row.group = group}

\* what the readers are told of object o is what it reports
Told(o) ==
  /\ signals[o] = SignalOf(o, objects[o])
  /\ o \in SignalsByKind(KindOf[o])
  /\ \E row \in RowsOf(o) :
       row.namespace = NamespaceOf[o] /\ row.health <= 1000 - signals[o].value
  /\ \A ns \in {NamespaceOf[p] : p \in Objects} \ {Cluster} :
       NamespaceOf[o] \in {Cluster, ns} =>
         NamespaceSnapshot(ns).infraStress >= signals[o].value

\* In the end every object of a kind that is watched shows as it is, with its
\* group's row, and the stress of its namespace, or of every namespace when it belongs to the
\* cluster, is at least its own: watches may break and events be lost.
TroubleReachesTheNamespace ==
  \A o \in Objects : <>[](loop[KindOf[o]] # "off" /\ objects[o] # Gone => Told(o))
==============================================================================
