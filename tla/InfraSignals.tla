---------------------------- MODULE InfraSignals ----------------------------
(***************************************************************************)
(* What each infrastructure collector says of one object: the value and    *)
(* the severity of its signal (internal/collector/infra/*/collector.go),   *)
(* and how the health of the object groups of a namespace propagates       *)
(* (propagation.go, dag/builder.go).                                       *)
(*                                                                         *)
(* Values are thousandths.  A condition is a pair <<type, status>>, and an *)
(* object's conditions are a set of them.  Messages and time stamps are    *)
(* left out.                                                               *)
(***************************************************************************)
EXTENDS Integers, Sequences, FiniteSets, FiniteSetsExt

Sig(value, severity) == [value |-> value, severity |-> severity]
Stable == Sig(0, "stable")

(***************************************************************************)
(* The control plane.                                                      *)
(***************************************************************************)
NodeSignal(cond) ==
  CASE <<"Ready", "True">> \notin cond -> Sig(1000, "critical")
    [] <<"Ready", "True">> \in cond
       /\ {<<"DiskPressure", "True">>, <<"MemoryPressure", "True">>} \cap cond # {} ->
         Sig(700, "warning")
    [] OTHER -> IF <<"PIDPressure", "True">> \in cond THEN Sig(500, "elevated") ELSE Stable

CoSignal(cond) ==
  IF <<"Available", "False">> \in cond THEN Sig(1000, "critical")
  ELSE IF <<"Degraded", "True">> \in cond THEN Sig(800, "critical")
  ELSE IF <<"Progressing", "True">> \in cond THEN Sig(300, "elevated")
  ELSE Stable

Within(low, v, high) == IF v < low THEN low ELSE IF v > high THEN high ELSE v

McpSignal(pool) ==
  LET total == IF pool.machines = 0 THEN 1 ELSE pool.machines
      Ratio(n) == (1000 * n) \div total
  IN
  IF pool.degraded > 0
    THEN Sig(IF Ratio(pool.degraded) < 400 THEN 400 ELSE Ratio(pool.degraded), "critical")
  ELSE IF pool.unavailable > 0
    THEN Sig(Within(300, Ratio(pool.unavailable), 800), "warning")
  ELSE IF pool.updated < pool.machines THEN Sig(300, "elevated")
  ELSE Stable

(***************************************************************************)
(* The network.                                                            *)
(***************************************************************************)
EndpointsSignal(ep) ==
  IF ep.ready = 0 /\ ep.notReady > 0 THEN Sig(700, "warning")
  ELSE IF ep.notReady > ep.ready THEN Sig(400, "elevated")
  ELSE Stable

\* the conditions of each router the route has been offered to
RouteSignal(routers) ==
  IF routers = {} \/ \E cond \in routers : <<"Admitted", "True">> \in cond
    THEN Stable ELSE Sig(700, "warning")

IngressSignal(addresses) == IF addresses = 0 THEN Sig(400, "elevated") ELSE Stable

NetSignal(kind, status) ==
  CASE kind = "Endpoints" -> EndpointsSignal(status)
    [] kind = "Route"     -> RouteSignal(status)
    [] kind = "Ingress"   -> IngressSignal(status)
    [] OTHER              -> Stable

(***************************************************************************)
(* Storage.                                                                *)
(***************************************************************************)
PvcSignal(phase) ==
  CASE phase = "Lost"    -> Sig(1000, "critical")
    [] phase = "Pending" -> Sig(500, "elevated")
    [] phase = "Bound"   -> Stable
    [] OTHER             -> Sig(300, "elevated")

PvSignal(phase) ==
  CASE phase = "Failed"   -> Sig(1000, "critical")
    [] phase = "Released" -> Sig(500, "elevated")
    [] OTHER              -> Stable

StorageSignal(kind, phase) ==
  CASE kind = "PersistentVolumeClaim" -> PvcSignal(phase)
    [] kind = "PersistentVolume"      -> PvSignal(phase)
    [] OTHER                          -> Stable

(***************************************************************************)
(* Admission: the counts of a policy report.                               *)
(***************************************************************************)
PolicyReportSignal(summary) ==
  LET total == summary.pass + summary.fail + summary.warn + summary.error
      ratio == (1000 * summary.fail) \div total
  IN
  IF total = 0 \/ (summary.fail = 0 /\ summary.error = 0) THEN Stable
  ELSE IF summary.fail = 0 THEN Sig(500, "warning")
  ELSE Sig(ratio, IF ratio > 700 THEN "critical" ELSE IF ratio > 300 THEN "warning" ELSE "elevated")

AdmissionSignal(kind, status) ==
  IF kind = "PolicyReport" THEN PolicyReportSignal(status) ELSE Stable

(***************************************************************************)
(* Operators installed by OLM.                                             *)
(***************************************************************************)
SubscriptionSignal(state) ==
  CASE state = "AtLatestKnown"  -> Stable
    [] state = "UpgradePending" -> Sig(200, "elevated")
    [] OTHER                    -> Sig(500, "warning")

CsvSignal(phase) ==
  CASE phase = "Succeeded"                     -> Stable
    [] phase = "Failed"                        -> Sig(1000, "critical")
    [] phase \in {"Installing", "InstallReady"} -> Sig(200, "elevated")
    [] phase = "Pending"                       -> Sig(300, "elevated")
    [] OTHER                                   -> Sig(500, "warning")

InstallPlanSignal(phase) ==
  CASE phase = "Complete" -> Stable
    [] phase = "Failed"   -> Sig(800, "critical")
    [] OTHER              -> Sig(200, "elevated")

\* no Established condition counts as established
CrdSignal(cond) ==
  IF \E c \in cond : c[1] = "Established" /\ c[2] # "True" THEN Sig(700, "warning") ELSE Stable

OperatorSignal(kind, status) ==
  CASE kind = "Subscription"             -> SubscriptionSignal(status)
    [] kind = "ClusterServiceVersion"    -> CsvSignal(status)
    [] kind = "InstallPlan"              -> InstallPlanSignal(status)
    [] kind = "CustomResourceDefinition" -> CrdSignal(status)
    [] OTHER                             -> Stable

(***************************************************************************)
(* Tenancy: a quota's resources are the pairs [used, hard] that parse.     *)
(***************************************************************************)
ResourceQuotaSignal(resources) ==
  LET AtLeast(percent) == \E r \in resources : r.hard > 0 /\ 100 * r.used >= percent * r.hard
  IN IF AtLeast(95) THEN Sig(800, "warning")
     ELSE IF AtLeast(85) THEN Sig(500, "elevated")
     ELSE Stable

NamespaceSignal(phase) == IF phase = "Terminating" THEN Sig(600, "warning") ELSE Stable

TenancySignal(kind, status) ==
  CASE kind = "ResourceQuota" -> ResourceQuotaSignal(status)
    [] kind = "Namespace"     -> NamespaceSignal(status)
    [] OTHER                  -> Stable

(***************************************************************************)
(* Propagation: what the activation of each group presses on the groups    *)
(* that depend on it.  The registry gives every group a noise of 0         *)
(* (dag/registry.go:238), so the amplification is 1.                       *)
(***************************************************************************)
Groups == {"controlplane", "operators", "admission", "tenancy", "storage", "network", "workload"}

\* canonicalEdges, the weights in tenths
Edge(from, to, omega) == [from |-> from, to |-> to, omega |-> omega]
CanonicalEdges ==
  {Edge("controlplane", "workload", 10), Edge("controlplane", "network", 9),
   Edge("network", "workload", 9), Edge("storage", "workload", 8),
   Edge("admission", "workload", 7), Edge("admission", "network", 6),
   Edge("operators", "storage", 6), Edge("operators", "network", 6),
   Edge("operators", "workload", 5)}

\* Faulty variant: the sink is processed before the groups between it and the sources.
TopoOrderSinkFirst ==
  <<"controlplane", "operators", "admission", "tenancy", "workload", "storage", "network">>

TopoOrder ==
  <<"controlplane", "operators", "admission", "tenancy", "storage", "network", "workload">>

Turn(g) == CHOOSE i \in DOMAIN TopoOrder : TopoOrder[i] = g

\* ComputePropPressure: each group in its turn hears the groups it depends on, with
\* their own activation or what they have heard by then, whichever is worse.
PropPressure(activation) ==
  LET Heard[i \in 1..Len(TopoOrder)] ==
        LET Effective(g) == Max({activation[g], IF Turn(g) < i THEN Heard[Turn(g)] ELSE 0})
            pressures == {(Effective(e.from) * e.omega) \div 10 :
                            e \in {e \in CanonicalEdges : e.to = TopoOrder[i]}}
        IN Min({1000, Max(pressures \cup {0})})
  IN [g \in Groups |-> Heard[Turn(g)]]

Alone(activation, src) == [g \in Groups |-> IF g = src THEN activation[g] ELSE 0]

\* ComputeBlastRadius: the groups each activated source reaches on its own
BlastRadius(activation) ==
  [src \in {g \in Groups : activation[g] >= 200} |->
     LET reached == PropPressure(Alone(activation, src))
     IN {g \in Groups \ {src} : reached[g] >= 200}]
==============================================================================
