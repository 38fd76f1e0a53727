----------------------------- MODULE MCEstimates -----------------------------
(* What is told of a workload: parts that share no state, each checked on   *)
(* its own.                                                                 *)
(*   estimates  one pod; forecasts in minutes, in the hour, and hours away  *)
(*   fusion     the fused index, over five buckets of logs                  *)
(*   owners     a Deployment whose name begins with the name of another     *)
(*   calls      three workloads, each behind a service, calls of any shape  *)
(*   releases   a release before, and replicas of the one after it          *)
(*   memory     two workloads, ruptures of one shape                        *)
(*   roles      one Deployment with a pod, the roles of the tracker         *)
EXTENDS Estimates, Fusion, PodOwners, CallGraph, Releases, RuptureMemory, RoleInputs
CONSTANTS p1, r1, r2, r3
VARIABLE part

Pairs == {S \in SUBSET Kinds : Cardinality(S) = 2}

MCPodNames == {"web-1-x", "web-api-1-x"}
MCReplicaSetOf == [p \in MCPodNames |-> IF p = "web-1-x" THEN "web-1" ELSE "web-api-1"]
MCDeploymentOf == [r \in {"web-1", "web-api-1"} |-> IF r = "web-1" THEN "web" ELSE "web-api"]
MCNamedAfter == {<<"web-1", "web">>, <<"web-api-1", "web-api">>, <<"web-api-1", "web">>}

MCApps == <<"a", "b", "c">>
MCDeclarations == {{}, {"sa"}, {"sb"}, {"sc"}}
MCSelections == {[t \in {"sa", "sb", "sc"} |-> CASE t = "sa" -> {"a"} [] t = "sb" -> {"b"} [] t = "sc" -> {"c"}]}

MCRole(name, level, profile) == [name |-> name, level |-> level, profile |-> profile]
MCRoles == <<MCRole("replicas.desired", "workload", "minimal"),
             MCRole("replicas.available", "workload", "minimal"),
             MCRole("replicas.unavailable", "workload", "minimal"),
             MCRole("container.oom", "pod", "standard")>>

TwoReleases == [p \in Replicas |-> IF p = r1 THEN "v1" ELSE "v2"]

MCInit ==
    /\ part \in {"estimates", "fusion", "owners", "calls", "releases", "memory", "roles"}
    /\ Init /\ FusionInit /\ PodOwnersInit /\ GraphInit
    /\ ReleasesInit /\ MemoryInit /\ InputsStart
    \* The parts that are not checked start in one way.
    /\ part # "estimates" => arriving = {"memory", "throttling"}
    /\ part # "roles" => source
    /\ part # "calls" => \A a \in DOMAIN declared : declared[a] = {}

Rest == <<releaseVars, memoryVars, inputsVars>>
MCNext ==
    \/ part = "estimates" /\ Next /\ UNCHANGED <<part, fusionVars, podOwnerVars, graphVars, Rest>>
    \/ part = "fusion" /\ FusionNext /\ UNCHANGED <<part, vars, podOwnerVars, graphVars, Rest>>
    \/ part = "owners" /\ PodOwnersNext /\ UNCHANGED <<part, vars, fusionVars, graphVars, Rest>>
    \/ part = "calls" /\ GraphNext /\ UNCHANGED <<part, vars, fusionVars, podOwnerVars, Rest>>
    \/ /\ part = "releases" /\ ReleasesNext
       /\ UNCHANGED <<part, vars, fusionVars, podOwnerVars, graphVars, memoryVars, inputsVars>>
    \/ /\ part = "memory" /\ MemoryNext
       /\ UNCHANGED <<part, vars, fusionVars, podOwnerVars, graphVars, releaseVars, inputsVars>>
    \/ /\ part = "roles" /\ RolesNext
       /\ UNCHANGED <<part, vars, fusionVars, podOwnerVars, graphVars, releaseVars, memoryVars>>
MCSpec == MCInit /\ [][MCNext]_<<part, vars, fusionVars, podOwnerVars, graphVars, Rest>>

\* The invariants of a part, looked at in its own states only: TroubleIsShown
\* (Tracker.Worst and applyEstimate), FusedWithinItsSignals (fusion.go), and
\* CallersAreAllItCanHit (graph.go).
TroubleIsAlwaysShown == part = "estimates" => TroubleIsShown
FusedAlwaysWithin == part = "fusion" => FusedWithinItsSignals
CallersAreAlwaysFound == part = "calls" => CallersAreAllItCanHit

\* RupturesAreRemembered (fingerprint.go), PollTellsTheCluster (inputs.go).
RupturesAlwaysRemembered == part = "memory" => RupturesAreRemembered
PollsTellTheCluster == part = "roles" => PollTellsTheCluster

\* ReleasesAreSustained (release.go, divergence.go).
ReleasesAlwaysSustained == part = "releases" => ReleasesAreSustained
=============================================================================
