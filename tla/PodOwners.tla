----------------------------- MODULE PodOwners -----------------------------
(***************************************************************************)
(* Which workload a pod belongs to and what changed lately: the metadata   *)
(* cache of internal/discovery (cache.go, changes.go) and the two loops    *)
(* that fill it (metadata.go), one for Deployments and one for pods.  A    *)
(* ReplicaSet is not watched: its Deployment is told from its name.        *)
(***************************************************************************)
EXTENDS Integers, SequencesExt

CONSTANTS
    PodNames,       \* pods of Deployments
    ReplicaSetOf,   \* pod -> ReplicaSet
    Deployments,
    DeploymentOf,   \* ReplicaSet -> the Deployment that made it
    NamedAfter,     \* <<ReplicaSet, Deployment>>: the one's name is "<the other's>-..."
    ChangesKept,    \* 512
    MaxSteps        \* bound: what happens in the cluster

ASSUME PodOwnersAssumption ==
    /\ {ChangesKept, MaxSteps} \subseteq Nat
    /\ PodNames \cap Deployments = {}
    /\ \A p \in PodNames : <<ReplicaSetOf[p], DeploymentOf[ReplicaSetOf[p]]>> \in NamedAfter

VARIABLES
    podsThere, specs,   \* the cluster: its pods, and Deployment -> generation
    steps,
    loop,               \* loop -> at "list", "items" or "watch", what it has left to handle
    podCache, metas,    \* the cache: pods, and Deployment -> generation
    changes,            \* recordChange: Deployments, oldest first
    rolled, stale       \* told: Deployment -> new specifications, and what was
                        \* deleted while no watch was open for it

podOwnerVars == <<podsThere, specs, steps, loop, podCache, metas, changes, rolled, stale>>
cacheVars == <<podCache, metas, changes>>

Loops == {"pods", "deployments"}
PutMeta(d, gen) == metas' = [e \in DOMAIN metas \cup {d} |-> IF e = d THEN gen ELSE metas[e]]

PodOwnersInit ==
    /\ podsThere = {} /\ specs = <<>> /\ steps = 0
    /\ loop = [l \in Loops |-> [at |-> "list", left |-> <<>>]]
    /\ podCache = {} /\ metas = <<>> /\ changes = <<>>
    /\ rolled = [d \in Deployments |-> 0] /\ stale = {}

-----------------------------------------------------------------------------
(* The cluster.  A watch is sent every event after its list.               *)

Announce(l, event) ==
    /\ steps < MaxSteps /\ steps' = steps + 1
    /\ loop' = IF loop[l].at = "list" THEN loop ELSE [loop EXCEPT ![l].left = Append(@, event)]
    /\ UNCHANGED <<cacheVars, stale>>

Put(obj, gen) == [type |-> "put", obj |-> obj, gen |-> gen, watched |-> TRUE]
Gone(obj) == [type |-> "gone", obj |-> obj, gen |-> 0, watched |-> TRUE]

PodStarted(p) ==
    /\ p \notin podsThere /\ podsThere' = podsThere \cup {p}
    /\ Announce("pods", Put(p, 0)) /\ UNCHANGED <<specs, rolled>>

PodEnded(p) ==
    /\ p \in podsThere /\ podsThere' = podsThere \ {p}
    /\ Announce("pods", Gone(p)) /\ UNCHANGED <<specs, rolled>>

\* A new Deployment has generation 1, another specification the next.
Applied(d) ==
    LET gen == IF d \in DOMAIN specs THEN specs[d] + 1 ELSE 1
    IN  /\ specs' = [e \in DOMAIN specs \cup {d} |-> IF e = d THEN gen ELSE specs[e]]
        /\ rolled' = [rolled EXCEPT ![d] = @ + 1]
        /\ Announce("deployments", Put(d, gen)) /\ UNCHANGED podsThere

StatusMoved(d) ==
    /\ d \in DOMAIN specs
    /\ Announce("deployments", Put(d, specs[d])) /\ UNCHANGED <<podsThere, specs, rolled>>

Removed(d) ==
    /\ d \in DOMAIN specs /\ specs' = [e \in DOMAIN specs \ {d} |-> specs[e]]
    /\ Announce("deployments", Gone(d)) /\ UNCHANGED <<podsThere, rolled>>

-----------------------------------------------------------------------------
(* The loops.  A list only adds to the cache.                              *)

FromList(x) == [x EXCEPT !.watched = FALSE]

ListAll(l) ==
    /\ loop[l].at = "list"
    /\ LET there == IF l = "pods" THEN {Put(p, 0) : p \in podsThere} ELSE {Put(d, specs[d]) : d \in DOMAIN specs}
           cached == IF l = "pods" THEN podCache ELSE DOMAIN metas
       IN  /\ loop' = [loop EXCEPT ![l] = [at |-> "watch", left |-> SetToSeq({FromList(x) : x \in there})]]
           /\ stale' = stale \cup (cached \ {x.obj : x \in there})
    /\ UNCHANGED <<podsThere, specs, steps, cacheVars, rolled>>

\* Faulty variant: a status counts as a change.
IsChangeOrStatus(d, gen) == d \in DOMAIN metas
IsChange(d, gen) == d \in DOMAIN metas /\ metas[d] # gen

RecordChange(x) ==
    changes' = IF x.type = "put" /\ x.watched /\ IsChange(x.obj, x.gen)
               THEN LET all == Append(changes, x.obj)
                    IN  SubSeq(all, IF Len(all) > ChangesKept THEN 2 ELSE 1, Len(all))
               ELSE changes

\* An item of the list, then an event of the watch.
Handle(l) ==
    /\ loop[l].left # <<>>
    /\ LET x == Head(loop[l].left)
       IN  /\ IF l = "pods"
              THEN /\ podCache' = IF x.type = "put" THEN podCache \cup {x.obj} ELSE podCache \ {x.obj}
                   /\ UNCHANGED <<metas, changes>>
              ELSE /\ RecordChange(x)
                   /\ IF x.type = "put" THEN PutMeta(x.obj, x.gen)
                      ELSE metas' = [e \in DOMAIN metas \ {x.obj} |-> metas[e]]
                   /\ UNCHANGED podCache
           /\ stale' = stale \ {x.obj}
    /\ loop' = [loop EXCEPT ![l].left = Tail(@)]
    /\ UNCHANGED <<podsThere, specs, steps, rolled>>

\* The watch ends, or the list fails, and what was not handled is lost.
Breaks(l) ==
    /\ loop[l].at = "watch" /\ loop' = [loop EXCEPT ![l] = [at |-> "list", left |-> <<>>]]
    /\ UNCHANGED <<podsThere, specs, steps, cacheVars, rolled, stale>>

PodOwnersNext ==
    \/ \E p \in PodNames : PodStarted(p) \/ PodEnded(p)
    \/ \E d \in Deployments : Applied(d) \/ StatusMoved(d) \/ Removed(d)
    \/ \E l \in Loops : ListAll(l) \/ Handle(l) \/ Breaks(l)

PodOwnersSpec == PodOwnersInit /\ [][PodOwnersNext]_podOwnerVars

-----------------------------------------------------------------------------
(* Readers.                                                                *)

\* The Deployment found first, in the order a map happens to give; of several
\* names that fit, any.
ResolvePodOwner(p) ==
    IF p \notin podCache THEN {}
    ELSE {d \in DOMAIN metas : <<ReplicaSetOf[p], d>> \in NamedAfter}

PodsForWorkload(d) == {p \in podCache : <<ReplicaSetOf[p], d>> \in NamedAfter}
GetWorkloadMeta(d) == IF d \in DOMAIN metas THEN [ok |-> TRUE, gen |-> metas[d], pods |-> PodsForWorkload(d)]
                      ELSE [ok |-> FALSE, gen |-> 0, pods |-> {}]

-----------------------------------------------------------------------------
(* Properties.                                                             *)

Quiet(l) == loop[l].at = "watch" /\ loop[l].left = <<>>
Times(d) == Cardinality({i \in DOMAIN changes : changes[i] = d})

\* A cache whose watch has nothing left to say holds the cluster, and besides
\* only what was deleted while no watch was open; and a recent change (what the
\* evidence of a failure names) is a new specification, told once: no status,
\* no second list and no watch that begins again makes one.
CacheIsTheCluster ==
    /\ Quiet("pods") => podsThere \subseteq podCache /\ podCache \ podsThere \subseteq stale
    /\ Quiet("deployments") =>
        /\ \A d \in DOMAIN specs : GetWorkloadMeta(d).gen = specs[d]
        /\ DOMAIN metas \ DOMAIN specs \subseteq stale
    /\ \A d \in Deployments : Times(d) <= rolled[d]

\* ResolvePodOwner "returns the owning Deployment/StatefulSet/DaemonSet for a
\* pod already observed by the pod watch loop" (cache.go).
OwnerIsTheController ==
    \A p \in podCache : ResolvePodOwner(p) \subseteq {DeploymentOf[ReplicaSetOf[p]]}
=============================================================================
