----------------------------- MODULE Snapshots -----------------------------
(***************************************************************************)
(* The latest snapshot of every workload and who reads it: the 15-second   *)
(* ticker of cmd/ruptura/main.go (hosts of the pipeline, the analyzer,     *)
(* then the store), the map of internal/storage under two keys, discovery  *)
(* that registers workloads before their telemetry, and the fleet that the *)
(* API assembles from both while all of this goes on.                      *)
(***************************************************************************)
EXTENDS Integers, FiniteSets, SequencesExt

CONSTANTS
    Refs,           \* workloads: [ns, kind, name, node], node "" but of a bare host
    Required,       \* 96: observations before a workload is active
    SnapshotTTL,    \* 5 min: the age at which a snapshot is stale
    Healths,        \* health scores, in hundredths; Unmeasured: unavailable
    Restarts,       \* container restarts of the pods of a workload
    CrashLoop,      \* 3: the restarts that make a workload critical
    LastTick

ASSUME SnapshotsAssumption ==
    /\ Required \in Nat \ {0} /\ {SnapshotTTL, CrashLoop, LastTick} \subseteq Nat
    /\ Restarts \subseteq Nat
    \* The kinds that discovery and the receivers give.
    /\ \A w \in Refs : w.kind \in {"Deployment", "StatefulSet", "DaemonSet", "Job", "host"}

Unmeasured == -1

VARIABLES
    wall,
    ingested,   \* the workloads the pipeline has samples of
    analyzed,   \* Analyzer.workloads: ref -> pending, its observations
    store,      \* Store.snapshots: key -> the snapshot; a key is a ref or a host name
    ticker,     \* what the analyzer ticker has still to do, and holds
    fleet       \* the request for the fleet under way, if any

snapVars == <<wall, ingested, analyzed, store, ticker, fleet>>

\* The key of a host: a workload's own key is the workload.
HostKey(w) == [ns |-> "", kind |-> "", name |-> IF w.node # "" THEN w.node ELSE w.name, node |-> ""]
NoRef == [ns |-> "", kind |-> "", name |-> "", node |-> ""]
NoSnap == [ref |-> NoRef, at |-> 0, health |-> Unmeasured]
Resting == [due |-> {}, snap |-> NoSnap, last |-> 0]
NoRequest == [at |-> "idle"]
StorePut(f, k, v) == [x \in DOMAIN f \cup {k} |-> IF x = k THEN v ELSE f[x]]
StoreDrop(f, k) == [x \in DOMAIN f \ {k} |-> f[x]]

\* A start of the engine: the snapshots a shutdown flushed are not read back.
Started == /\ ingested' = {} /\ analyzed' = <<>> /\ store' = <<>>
           /\ ticker' = Resting /\ fleet' = NoRequest

SnapInit == /\ wall = 1 /\ ingested = {} /\ analyzed = <<>> /\ store = <<>>
            /\ ticker = Resting /\ fleet = NoRequest

-----------------------------------------------------------------------------
(* Writers.                                                                *)

Sampled(w) ==
    /\ w \notin ingested /\ ingested' = ingested \cup {w}
    /\ UNCHANGED <<wall, analyzed, store, ticker, fleet>>

\* RegisterWorkload and UnregisterWorkload, called by discovery.
Register(w) ==
    /\ w \notin DOMAIN analyzed
    /\ analyzed' = StorePut(analyzed, w, [pending |-> TRUE, seen |-> 0])
    /\ UNCHANGED <<wall, ingested, store, ticker, fleet>>

Unregister(w) ==
    /\ w \in DOMAIN analyzed
    /\ analyzed' = StoreDrop(analyzed, w)
    /\ UNCHANGED <<wall, ingested, store, ticker, fleet>>

\* The tick goes through every workload that ever had a sample.
SnapTick ==
    /\ ticker.due = {} /\ ticker.snap = NoSnap /\ ticker.last < wall
    /\ ticker' = [ticker EXCEPT !.due = ingested, !.last = wall]
    /\ UNCHANGED <<wall, ingested, analyzed, store, fleet>>

\* Analyzer.Update: a deleted workload is there again.
SnapUpdate(w, health) ==
    /\ w \in ticker.due /\ ticker.snap = NoSnap
    /\ LET was == IF w \in DOMAIN analyzed THEN analyzed[w].seen ELSE 0
           snap == [ref |-> w, at |-> wall, health |-> health]
       IN  /\ analyzed' = StorePut(analyzed, w, [pending |-> FALSE, seen |-> Min({was + 1, Required})])
           /\ ticker' = [ticker EXCEPT !.due = @ \ {w}, !.snap = snap]
    /\ UNCHANGED <<wall, ingested, store, fleet>>

\* Under both keys, which two workloads of one name share but for their own.
StoreSnapshot ==
    /\ ticker.snap # NoSnap
    /\ store' = StorePut(StorePut(store, HostKey(ticker.snap.ref), ticker.snap), ticker.snap.ref, ticker.snap)
    /\ ticker' = [ticker EXCEPT !.snap = NoSnap]
    /\ UNCHANGED <<wall, ingested, analyzed, fleet>>

SnapAdvance ==
    /\ wall < LastTick /\ wall' = wall + 1
    /\ UNCHANGED <<ingested, analyzed, store, ticker, fleet>>

SnapRestart == Started /\ UNCHANGED wall

-----------------------------------------------------------------------------
(* Readers.                                                                *)

Calibration(w) ==
    IF w \notin DOMAIN analyzed THEN [status |-> "calibrating", percent |-> 0]
    ELSE IF analyzed[w].seen >= Required THEN [status |-> "active", percent |-> 100]
    ELSE [status |-> "calibrating", percent |-> Min({99, (analyzed[w].seen * 100) \div Required})]

FreshIn(s) == {s[k] : k \in {k \in DOMAIN s : wall - s[k].at <= SnapshotTTL}}

\* AllSnapshots: of the entries of one workload the first the map gives.
\* Faulty variant: of the entries of one host.
AllSnapshotsByHost == {pick \in SUBSET FreshIn(store) :
    \A s \in FreshIn(store) : Cardinality({p \in pick : HostKey(p.ref) = HostKey(s.ref)}) = 1}
AllSnapshots == {pick \in SUBSET FreshIn(store) :
    \A s \in FreshIn(store) : Cardinality({p \in pick : p.ref = s.ref}) = 1}

LatestSnapshot(key) == IF key \in DOMAIN store THEN store[key] ELSE NoSnap

\* A namespace and a name without a kind: the first kind that has a snapshot.
KindsTried == <<"Deployment", "StatefulSet", "DaemonSet", "Job", "host">>
RuptureByName(ns, name) ==
    LET named(k) == {w \in Refs : w.ns = ns /\ w.name = name /\ w.kind = KindsTried[k]}
        found == {k \in DOMAIN KindsTried : \E w \in named(k) : LatestSnapshot(w) # NoSnap}
    IN  IF found = {} THEN NoSnap ELSE LatestSnapshot(CHOOSE w \in named(Min(found)) : w \in DOMAIN store)

SnapshotState(snap, percent, restarts) ==
    IF restarts >= CrashLoop THEN "critical"
    ELSE IF percent < 100 \/ snap.health = Unmeasured THEN "calibrating"
    ELSE IF snap.health >= 70 THEN "healthy"
    ELSE IF snap.health >= 40 THEN "degraded"
    ELSE "critical"

Listed(host, state) == [host |-> host, state |-> state]

\* buildFleet, first the snapshots of the store ...
FleetBegin ==
    /\ fleet.at = "idle"
    /\ \E all \in AllSnapshots :
        fleet' = [at |-> "listing", left |-> all, hosts |-> <<>>,
                  fresh |-> {s.ref : s \in FreshIn(store)}]
    /\ UNCHANGED <<wall, ingested, analyzed, store, ticker>>

\* ... each with what the analyzer says of it by now ...
FleetEnrich(snap, restarts) ==
    /\ fleet.at = "listing" /\ snap \in fleet.left
    /\ fleet' = [fleet EXCEPT !.left = @ \ {snap},
        !.hosts = Append(@, Listed(snap.ref, SnapshotState(snap, Calibration(snap.ref).percent, restarts)))]
    /\ UNCHANGED <<wall, ingested, analyzed, store, ticker>>

\* ... then the workloads that wait for telemetry and are not yet listed.
Pending == {w \in DOMAIN analyzed : analyzed[w].pending}

FleetPending(restarts) ==
    /\ fleet.at = "listing" /\ fleet.left = {}
    /\ LET known == {fleet.hosts[i].host : i \in DOMAIN fleet.hosts}
           state == IF restarts >= CrashLoop THEN "critical" ELSE "pending_telemetry"
           more == SetToSeq(Pending \ known)
       IN  fleet' = [at |-> "answered", fresh |-> fleet.fresh, pending |-> Pending,
                     hosts |-> fleet.hosts \o [i \in DOMAIN more |-> Listed(more[i], state)]]
    /\ UNCHANGED <<wall, ingested, analyzed, store, ticker>>

FleetServed ==
    /\ fleet.at = "answered" /\ fleet' = NoRequest
    /\ UNCHANGED <<wall, ingested, analyzed, store, ticker>>

SnapNext ==
    \/ \E w \in Refs :
        Sampled(w) \/ Register(w) \/ Unregister(w) \/ \E health \in Healths : SnapUpdate(w, health)
    \/ SnapTick \/ StoreSnapshot \/ SnapAdvance \/ SnapRestart
    \/ FleetBegin \/ FleetServed
    \/ \E restarts \in Restarts :
        FleetPending(restarts) \/ (fleet.at = "listing" /\ \E s \in fleet.left : FleetEnrich(s, restarts))

SnapSpec == SnapInit /\ [][SnapNext]_snapVars

-----------------------------------------------------------------------------
(* Properties.                                                             *)

HowOften(w) == Cardinality({i \in DOMAIN fleet.hosts : fleet.hosts[i].host = w})

\* An answer of the fleet (buildFleet, two reads that are not one) lists every
\* workload with a fresh snapshot when the request began, and every one that
\* waits for telemetry when it ended, exactly once and nothing else: two
\* workloads of one name are two, and one deleted and found again between the
\* two reads is one.  Each that had a snapshot opens under its own key, and
\* under its name one of that name (handleRuptureByWorkload).
FleetListsTheFleet ==
    fleet.at = "answered" =>
        /\ \A w \in Refs : HowOften(w) = IF w \in fleet.fresh \cup fleet.pending THEN 1 ELSE 0
        /\ \A w \in fleet.fresh :
            /\ LatestSnapshot(w).ref = w
            /\ LET opened == RuptureByName(w.ns, w.name).ref IN opened.ns = w.ns /\ opened.name = w.name
=============================================================================
