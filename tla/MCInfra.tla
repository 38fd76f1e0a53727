------------------------------ MODULE MCInfra ------------------------------
(* One object of every kind that can be unwell, one or two kinds served. *)
EXTENDS InfraRegistry

MCKinds ==
  {"Node", "ClusterOperator", "MachineConfigPool", "Service", "Endpoints", "Route", "Ingress",
   "PersistentVolumeClaim", "PersistentVolume", "PolicyReport", "Subscription",
   "ClusterServiceVersion", "InstallPlan", "CustomResourceDefinition", "ResourceQuota", "Namespace"}

MCObjects == MCKinds
MCKindOf == [k \in MCObjects |-> k]
MCNamespaceOf ==
  [k \in MCObjects |->
     IF k \in {"Node", "ClusterOperator", "MachineConfigPool", "PersistentVolume",
               "CustomResourceDefinition"} THEN "" ELSE IF k = "Endpoints" THEN "other" ELSE "shop"]

Report(p, f, w, e) == [pass |-> p, fail |-> f, warn |-> w, error |-> e]
Pool(m, u, n, d) == [machines |-> m, updated |-> u, unavailable |-> n, degraded |-> d]

Reports == [k \in MCKinds |->
  CASE k = "Node" -> {{<<"Ready", "True">>}, {<<"Ready", "False">>},
                      {<<"Ready", "True">>, <<"PIDPressure", "True">>},
                      {<<"Ready", "True">>, <<"DiskPressure", "True">>}}
    [] k = "ClusterOperator" -> {{<<"Available", "False">>, <<"Degraded", "True">>},
                      {<<"Degraded", "True">>}, {<<"Progressing", "True">>}, {}}
    [] k = "MachineConfigPool" -> {Pool(0, 0, 0, 0), Pool(9, 9, 0, 1), Pool(3, 2, 3, 0), Pool(3, 2, 0, 0)}
    [] k = "Endpoints" -> {[ready |-> 0, notReady |-> 2], [ready |-> 1, notReady |-> 2], [ready |-> 2, notReady |-> 1]}
    [] k = "Route" -> {{}, {{<<"Admitted", "False">>}}, {{<<"Admitted", "False">>}, {<<"Admitted", "True">>}}}
    [] k = "Ingress" -> {0, 1}
    [] k = "PersistentVolumeClaim" -> {"Lost", "Pending", "Bound", "Resizing"}
    [] k = "PersistentVolume" -> {"Failed", "Released", "Bound"}
    [] k = "PolicyReport" -> {Report(4, 0, 1, 0), Report(0, 0, 0, 1), Report(1, 3, 0, 1), Report(9, 1, 0, 0)}
    [] k = "Subscription" -> {"AtLatestKnown", "UpgradePending", "UpgradeFailed"}
    [] k = "ClusterServiceVersion" -> {"Succeeded", "Failed", "Installing", "Pending", "Unknown"}
    [] k = "InstallPlan" -> {"Complete", "Failed", "Installing"}
    [] k = "CustomResourceDefinition" -> {{}, {<<"Established", "False">>}}
    [] k = "ResourceQuota" -> {{[used |-> 9, hard |-> 10], [used |-> 0, hard |-> 0]},
                               {[used |-> 20, hard |-> 20]}, {}}
    [] k = "Namespace" -> {"Active", "Terminating"}
    [] OTHER -> {"present"}]

MCStatuses == [k \in MCKinds |-> {<<k, report>> : report \in Reports[k]}]

\* each kind at least once, after the kind its collector probes
MCServings ==
  {{"Node"}, {"ClusterOperator"}, {"MachineConfigPool", "PolicyReport"}, {"Service", "Endpoints"}, {"Service", "Route"},
   {"Service", "Ingress"}, {"PersistentVolumeClaim", "PersistentVolume"},
   {"Subscription", "ClusterServiceVersion"}, {"Subscription", "InstallPlan"},
   {"Subscription", "CustomResourceDefinition"}, {"ResourceQuota", "Namespace"}}

InfraSpec == InfraInit /\ [][InfraNext]_infraVars /\ InfraFairness
==============================================================================
