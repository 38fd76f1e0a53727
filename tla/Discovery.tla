------------------------------ MODULE Discovery ------------------------------
(***************************************************************************)
(* How the engine learns which workloads exist: the informer               *)
(* (internal/discovery/watcher.go, informer.go), the fleet of the analyzer *)
(* it registers them in (internal/analyzer/analyzer.go), telemetry that    *)
(* registers what it is about, and the one prune after the first lists     *)
(* (cmd/ruptura/main.go).                                                  *)
(*                                                                         *)
(* One goroutine per kind lists and then watches, for ever.  What it hears *)
(* it writes twice, under two locks: in `known`, then in the fleet.  The   *)
(* prune runs on a goroutine of its own and takes both locks one after the *)
(* other, many times.                                                      *)
(***************************************************************************)
EXTENDS Integers, Sequences, FiniteSets

CONSTANTS
  Kinds,        \* the kinds watched: Deployment, StatefulSet, DaemonSet
  Workloads,    \* workloads of those kinds
  Hosts,        \* what telemetry alone registers, of no kind watched
  KindOf,       \* KindOf[w]: the kind of workload w
  Page,         \* items the API server answers to one list (limit=500)
  MaxChanges,   \* bound: changes of the cluster
  None

ASSUME DiscoveryAssumption ==
  /\ KindOf \in [Workloads -> Kinds]
  /\ Workloads \cap Hosts = {}
  /\ None \notin Workloads \cup {"put", "deleted"}
  /\ Page \in Nat \ {0}
  /\ MaxChanges \in Nat

VARIABLES
  cluster,   \* the workloads that exist
  changes,   \* how often that changed
  touched,   \* the workloads that came or went after the start
  pc,        \* what the goroutine of a kind does: "list", "items", "watch"
  items,     \* the items of its list it has not yet handled
  stream,    \* the events after its list it has not yet handled
  hand,      \* what it has written in known and not yet in the fleet
  listed,    \* the kinds whose first list is complete
  missed,    \* the workloads whose deletion no watch reported
  known,     \* Informer.known
  fleet,     \* Analyzer.workloads: "none", "pending" or "reporting"
  prune      \* the prune: its step, the known it took, the refs to judge

clusterVars == <<cluster, changes, touched>>
informerVars == <<pc, items, stream, hand, listed, missed, known>>
vars == <<clusterVars, informerVars, fleet, prune>>

Refs == Workloads \cup Hosts
Of(k) == {w \in Workloads : KindOf[w] = k}
Events == [type : {"put", "deleted"}, ref : Workloads]
Idle == [type |-> None, ref |-> None]

TypeOK ==
  /\ cluster \subseteq Workloads /\ touched \subseteq Workloads
  /\ missed \subseteq Workloads /\ known \subseteq Workloads
  /\ changes \in 0..MaxChanges
  /\ pc \in [Kinds -> {"list", "items", "watch"}]
  /\ items \in [Kinds -> SUBSET Workloads]
  /\ stream \in [Kinds -> Seq(Events)]
  /\ hand \in [Kinds -> Events \cup {Idle}]
  /\ listed \subseteq Kinds
  /\ fleet \in [Refs -> {"none", "pending", "reporting"}]
  /\ prune \in [at : {"waiting", "refs", "judging", "done"},
                known : SUBSET Workloads, left : SUBSET Refs]

Init ==
  /\ cluster \in SUBSET Workloads /\ changes = 0 /\ touched = {}
  /\ pc = [k \in Kinds |-> "list"]
  /\ items = [k \in Kinds |-> {}]
  /\ stream = [k \in Kinds |-> <<>>]
  /\ hand = [k \in Kinds |-> Idle]
  /\ listed = {} /\ missed = {} /\ known = {}
  /\ fleet = [r \in Refs |-> "none"]
  /\ prune = [at |-> "waiting", known |-> {}, left |-> {}]

(***************************************************************************)
(* The cluster.  The API server keeps, for a watch that starts at the      *)
(* version of a list, every change after that list.  A MODIFIED event is   *)
(* handled as an ADDED one and is not told apart.                          *)
(***************************************************************************)
(* Faulty variant: the watch starts when it is opened, not at the version of the list. *)
ReportWatchingOnly(type, w) ==
  stream' = [stream EXCEPT ![KindOf[w]] =
               IF pc[KindOf[w]] # "watch" THEN @
               ELSE Append(@, [type |-> type, ref |-> w])]

Report(type, w) ==
  stream' = [stream EXCEPT ![KindOf[w]] =
               IF pc[KindOf[w]] = "list" THEN @
               ELSE Append(@, [type |-> type, ref |-> w])]

Change(type, w) ==
  /\ changes < MaxChanges
  /\ changes' = changes + 1
  /\ touched' = touched \cup {w}
  /\ Report(type, w)
  /\ UNCHANGED <<pc, items, hand, listed, missed, known, fleet, prune>>

Created(w) ==
  /\ w \notin cluster
  /\ cluster' = cluster \cup {w}
  /\ Change("put", w)

Deleted(w) ==
  /\ w \in cluster
  /\ cluster' = cluster \ {w}
  /\ Change("deleted", w)

(***************************************************************************)
(* The goroutine of a kind.  A list that fails leaves everything as it was *)
(* and is tried again, so only one that succeeds is a step.  The answer    *)
(* has at most Page items: the code never asks for the next page.          *)
(***************************************************************************)
Smaller(m, n) == IF m < n THEN m ELSE n

Answers(k) ==
  LET all == cluster \cap Of(k) IN
  {page \in SUBSET all : Cardinality(page) = Smaller(Page, Cardinality(all))}

List(k) ==
  /\ pc[k] = "list"
  /\ \E page \in Answers(k) :
       /\ items' = [items EXCEPT ![k] = page]
       /\ missed' = (missed \ Of(k)) \cup ((known \cap Of(k)) \ page)
  /\ pc' = [pc EXCEPT ![k] = "items"]
  /\ stream' = [stream EXCEPT ![k] = <<>>]
  /\ UNCHANGED <<clusterVars, hand, listed, known, fleet, prune>>

\* wrappedAdd and wrappedDelete, first half: trackKnown or untrackKnown
Track(k, e) ==
  /\ known' = IF e.type = "put" THEN known \cup {e.ref} ELSE known \ {e.ref}
  /\ missed' = missed \ {e.ref}
  /\ hand' = [hand EXCEPT ![k] = e]

HandleItem(k) ==
  /\ pc[k] = "items" /\ hand[k] = Idle
  /\ \E w \in items[k] :
       /\ Track(k, [type |-> "put", ref |-> w])
       /\ items' = [items EXCEPT ![k] = @ \ {w}]
  /\ UNCHANGED <<clusterVars, pc, stream, listed, fleet, prune>>

\* the list is handled; the first one is reported to syncWG
Listed(k) ==
  /\ pc[k] = "items" /\ hand[k] = Idle /\ items[k] = {}
  /\ pc' = [pc EXCEPT ![k] = "watch"]
  /\ listed' = listed \cup {k}
  /\ UNCHANGED <<clusterVars, items, stream, hand, missed, known, fleet, prune>>

HandleEvent(k) ==
  /\ pc[k] = "watch" /\ hand[k] = Idle /\ stream[k] # <<>>
  /\ Track(k, Head(stream[k]))
  /\ stream' = [stream EXCEPT ![k] = Tail(@)]
  /\ UNCHANGED <<clusterVars, pc, items, listed, fleet, prune>>

(* Faulty variant: the watch is opened again without a list. *)
WatchReopens(k) ==
  /\ pc[k] = "watch" /\ hand[k] = Idle
  /\ stream' = [stream EXCEPT ![k] = <<>>]
  /\ UNCHANGED <<clusterVars, pc, items, hand, listed, missed, known, fleet, prune>>

\* timeoutSeconds, 410 Gone, a broken connection: what was not read is lost
WatchEnds(k) ==
  /\ pc[k] = "watch" /\ hand[k] = Idle
  /\ pc' = [pc EXCEPT ![k] = "list"]
  /\ stream' = [stream EXCEPT ![k] = <<>>]
  /\ UNCHANGED <<clusterVars, items, hand, listed, missed, known, fleet, prune>>

(***************************************************************************)
(* The fleet of the analyzer.                                              *)
(***************************************************************************)
RegisterWorkload(w) ==
  fleet' = [fleet EXCEPT ![w] = IF @ = "none" THEN "pending" ELSE @]

UnregisterWorkload(r) == fleet' = [fleet EXCEPT ![r] = "none"]

\* second half of wrappedAdd and wrappedDelete: onAdd or onDelete
Call(k) ==
  /\ hand[k] # Idle
  /\ IF hand[k].type = "put"
       THEN RegisterWorkload(hand[k].ref)
       ELSE UnregisterWorkload(hand[k].ref)
  /\ hand' = [hand EXCEPT ![k] = Idle]
  /\ UNCHANGED <<clusterVars, pc, items, stream, listed, missed, known, prune>>

\* Update: readings of a workload arrive, of one that is gone as well
Telemetry(r) ==
  /\ fleet[r] # "reporting"
  /\ fleet' = [fleet EXCEPT ![r] = "reporting"]
  /\ UNCHANGED <<clusterVars, informerVars, prune>>

(***************************************************************************)
(* The prune, once, after the first list of every kind.                    *)
(***************************************************************************)
(* Faulty variant: the first kind to finish is taken for all. *)
AnyListed == listed # {}

FirstSyncDone == listed = Kinds

TakeKnown ==
  /\ prune.at = "waiting"
  /\ FirstSyncDone
  /\ prune' = [prune EXCEPT !.at = "refs", !.known = known]
  /\ UNCHANGED <<clusterVars, informerVars, fleet>>

TakeRefs ==
  /\ prune.at = "refs"
  /\ prune' = [prune EXCEPT !.at = "judging",
                            !.left = {r \in Refs : fleet[r] # "none"}]
  /\ UNCHANGED <<clusterVars, informerVars, fleet>>

Unconfirmed(r) == r \in Workloads /\ r \notin prune.known

Judge(r) ==
  /\ prune.at = "judging" /\ r \in prune.left
  /\ IF Unconfirmed(r) THEN UnregisterWorkload(r) ELSE UNCHANGED fleet
  /\ prune' = [prune EXCEPT !.left = @ \ {r}]
  /\ UNCHANGED <<clusterVars, informerVars>>

PruneDone ==
  /\ prune.at = "judging" /\ prune.left = {}
  /\ prune' = [prune EXCEPT !.at = "done", !.known = {}]
  /\ UNCHANGED <<clusterVars, informerVars, fleet>>

Loop(k) ==
  \/ List(k)
  \/ HandleItem(k)
  \/ Listed(k)
  \/ HandleEvent(k)
  \/ WatchEnds(k)
  \/ Call(k)

Prune == TakeKnown \/ TakeRefs \/ PruneDone \/ \E r \in Refs : Judge(r)

Next ==
  \/ \E w \in Workloads : Created(w) \/ Deleted(w)
  \/ \E k \in Kinds : Loop(k)
  \/ \E r \in Refs : Telemetry(r)
  \/ Prune

Spec == Init /\ [][Next]_vars

\* goroutines that are never starved; a watch ends, for timeoutSeconds=300
FairSpec ==
  /\ Spec
  /\ \A k \in Kinds :
       /\ WF_vars(List(k)) /\ WF_vars(HandleItem(k)) /\ WF_vars(Listed(k))
       /\ WF_vars(Call(k)) /\ WF_vars(WatchEnds(k))
  /\ WF_vars(Prune)

(***************************************************************************)
(* Properties                                                              *)
(***************************************************************************)

(* Nothing is lost between a list and its watch (watcher.go 55-96): while  *)
(* a goroutine has nothing left to handle, the informer knows of its kind  *)
(* what exists, and beyond that only what was deleted with no watch open.  *)
CaughtUp(k) ==
  pc[k] = "watch" /\ stream[k] = <<>> /\ hand[k] = Idle

KnownIsTheCluster ==
  \A k \in Kinds : CaughtUp(k) =>
    /\ (known \ missed) \cap Of(k) = cluster \cap Of(k)
    /\ missed \subseteq known

(* The prune waits for the first list of every kind (informer.go 129-151,  *)
(* main.go 240-248): a workload that was there from the start, like a host *)
(* of no watched kind, never loses its registration or its readings.       *)
SettledStaysRegistered ==
  [][\A r \in Refs \ touched' :
       (fleet[r] # "none" /\ r \in cluster \cup Hosts) =>
         fleet'[r] \in {fleet[r], "reporting"}]_vars

(* Whatever the prune, the telemetry and the lost watches did meanwhile,   *)
(* a workload that stays in the cluster is registered for good after a     *)
(* while (watchResource relists for ever, watcher.go 59-94).               *)
LivingIsRegistered ==
  \A w \in Workloads :
    <>[](w \in cluster) => <>[](fleet[w] # "none")
==============================================================================
