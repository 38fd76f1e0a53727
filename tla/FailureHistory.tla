--------------------------- MODULE FailureHistory ---------------------------
(***************************************************************************)
(* What the engine remembers of past failures: the failures of a workload  *)
(* and how early each one was announced (internal/failuremodes/tracker.go, *)
(* trackrecord.go), fed by the poll of cmd/ruptura/failuremodes.go and     *)
(* saved under ff: and fo: keys (internal/storage/storage.go).             *)
(*                                                                         *)
(* A poll takes its time once, joins three queries, and observes one pod   *)
(* after the other.  A restart counter that grew between two observations  *)
(* is a failure of the workload.  A failure is added to memory, its        *)
(* outcome saved, then the failure saved, all inside the tracker's lock;   *)
(* the API notes forecasts in between polls, on a clock of its own.        *)
(***************************************************************************)
EXTENDS Integers, Sequences, FiniteSets, Functions

CONSTANTS
  Pods,
  Workloads,
  Owner,         \* Owner[p]: the workload of pod p
  Served,        \* may the restarts query have a sample for a pod with usage
  StoreAnswers,  \* what the store may answer to a write
  HistoryLimit,  \* maxRestartHistory: failures kept per workload
  OutcomeLimit,  \* maxTrackRecord: outcomes kept in memory
  PodTTL,        \* failureModePodTTL, in ticks
  Retention,     \* failureTTL, in ticks
  MaxClock,      \* bound: the ticks of a behaviour
  MaxRestarts,   \* bound: the restarts of a workload
  None

ASSUME FailureHistoryAssumption ==
  /\ IsFiniteSet(Pods)
  /\ Owner \in [Pods -> Workloads]
  /\ Served \subseteq BOOLEAN /\ Served # {}
  /\ StoreAnswers \subseteq BOOLEAN /\ StoreAnswers # {}
  /\ HistoryLimit \in Nat \ {0}
  /\ OutcomeLimit \in Nat \ {0}
  /\ PodTTL \in Nat /\ Retention \in Nat
  /\ MaxClock \in Nat /\ MaxRestarts \in Nat
  /\ None \notin Int /\ None \notin Workloads \X Int

VARIABLES
  clock,
  count,       \* the restart counter Kubernetes reports for a pod
  restarted,   \* how often the pods of a workload have really restarted
  missed,      \* how often a poll took a missing sample for a counter of zero
  pods,        \* the pods the tracker knows: last counter, when seen
  failures,    \* the failure times of a workload, in memory
  forecasts,   \* when the coming failure of a workload was first announced
  outcomes,    \* failures and their lead, in memory
  saved,       \* the failure times of a workload, on disk (ff:)
  scored,      \* the leads on disk, by the time of the failure (fo:)
  poll,        \* the poll: its time and the readings left to observe
  unsaved,     \* the failure whose outcome is saved and itself is not
  refused,     \* failures the store refused to save
  unscored     \* times of the failures whose outcome it refused

trackerVars == <<pods, failures, forecasts, outcomes>>
diskVars == <<saved, scored, refused, unscored>>
vars == <<clock, count, restarted, missed, trackerVars, diskVars, poll, unsaved>>

Times == 0..MaxClock
Readings == UNION {[S -> 0..MaxRestarts] : S \in SUBSET Pods}
NoReadings == [p \in {} |-> 0]
NoPoll == [at |-> -1, open |-> FALSE, left |-> NoReadings]
Failure == Workloads \X Times

TypeOK ==
  /\ clock \in Times
  /\ count \in [Pods -> 0..MaxRestarts]
  /\ restarted \in [Workloads -> 0..MaxRestarts]
  /\ missed \in [Workloads -> Nat]
  /\ pods \in [Pods -> [restarts : 0..MaxRestarts, seen : Times] \cup {None}]
  /\ failures \in [Workloads -> Seq(Times)]
  /\ forecasts \in [Workloads -> Times \cup {None}]
  /\ outcomes \in Seq([at : Times, lead : Int])
  /\ Len(outcomes) <= OutcomeLimit
  /\ saved \in [Workloads -> SUBSET Times]
  /\ scored \in [Times -> Int \cup {None}]
  /\ poll \in [at : Times \cup {-1}, open : BOOLEAN, left : Readings]
  /\ unsaved \in Failure \cup {None}
  /\ refused \subseteq Failure
  /\ unscored \subseteq Times

Init ==
  /\ clock = 0
  /\ count = [p \in Pods |-> 0]
  /\ restarted = [w \in Workloads |-> 0]
  /\ missed = [w \in Workloads |-> 0]
  /\ pods = [p \in Pods |-> None]
  /\ failures = [w \in Workloads |-> <<>>]
  /\ forecasts = [w \in Workloads |-> None]
  /\ outcomes = <<>>
  /\ saved = [w \in Workloads |-> {}]
  /\ scored = [t \in Times |-> None]
  /\ poll = NoPoll
  /\ unsaved = None
  /\ refused = {}
  /\ unscored = {}

----------------------------------------------------------------------------
(***************************************************************************)
(* The cluster.                                                            *)
(***************************************************************************)
Tick ==
  /\ clock < MaxClock
  /\ clock' = clock + 1
  /\ UNCHANGED <<count, restarted, missed, trackerVars, diskVars, poll, unsaved>>

PodRestarts(p) ==
  /\ restarted[Owner[p]] < MaxRestarts
  /\ count' = [count EXCEPT ![p] = @ + 1]
  /\ restarted' = [restarted EXCEPT ![Owner[p]] = @ + 1]
  /\ UNCHANGED <<clock, missed, trackerVars, diskVars, poll, unsaved>>

(* A replacement under the same name, as a StatefulSet makes one. *)
PodReplaced(p) ==
  /\ count[p] > 0
  /\ count' = [count EXCEPT ![p] = 0]
  /\ UNCHANGED <<clock, restarted, missed, trackerVars, diskVars, poll, unsaved>>

----------------------------------------------------------------------------
(***************************************************************************)
(* A poll.                                                                 *)
(***************************************************************************)
(* Collect: a pod with usage but no restarts sample is given no restarts;  *)
(* a pod with neither is not in the result.                                *)
Reading(p) == {count[p]} \cup (IF FALSE \in Served THEN {0} ELSE {})

Misread(r, w) == {p \in DOMAIN r : Owner[p] = w /\ r[p] # count[p]}

PollStart ==
  /\ ~poll.open
  /\ clock > poll.at
  /\ \E r \in Readings :
       /\ \A p \in DOMAIN r : r[p] \in Reading(p)
       /\ poll' = [at |-> clock, open |-> TRUE, left |-> r]
       /\ missed' = [w \in Workloads |-> missed[w] + Cardinality(Misread(r, w))]
  /\ UNCHANGED <<clock, count, restarted, trackerVars, diskVars, unsaved>>

(* Faulty variant: the oldest are kept. *)
Oldest(s, limit) == SubSeq(s, 1, limit)

Newest(s, limit) == SubSeq(s, Len(s) - limit + 1, Len(s))
Trim(s, limit) == IF Len(s) > limit THEN Newest(s, limit) ELSE s

(* Faulty variant: a pod not yet counted is taken to have had no restart. *)
GrewFromNothing(p, restarts) ==
  restarts > (IF pods[p] = None THEN 0 ELSE pods[p].restarts)

(* recordRestarts: the first counter of a pod is history, not a failure. *)
Grew(p, restarts) == pods[p] # None /\ restarts > pods[p].restarts

Lead(w, at) == IF forecasts[w] = None THEN 0 ELSE at - forecasts[w]

(* Faulty variant: the warning stands for the failures after as well. *)
KeepForecast(w) == forecasts

ForgetForecast(w) == [forecasts EXCEPT ![w] = None]

(* Faulty variant: only a warned failure is scored on disk. *)
SaveWarnedOutcome(at, lead) ==
  /\ scored' = IF lead > 0 THEN [scored EXCEPT ![at] = lead] ELSE scored
  /\ UNCHANGED unscored

(* PutOutcome: the last failure of a poll takes the key. *)
SaveOutcome(at, lead) ==
  \/ /\ TRUE \in StoreAnswers
     /\ scored' = [scored EXCEPT ![at] = lead]
     /\ UNCHANGED unscored
  \/ /\ FALSE \in StoreAnswers
     /\ unscored' = unscored \cup {at}
     /\ UNCHANGED scored

RecordFailure(w, at) ==
  /\ failures' = [failures EXCEPT ![w] = Trim(Append(@, at), HistoryLimit)]
  /\ outcomes' = Trim(Append(outcomes, [at |-> at, lead |-> Lead(w, at)]),
                      OutcomeLimit)
  /\ forecasts' = ForgetForecast(w)
  /\ SaveOutcome(at, Lead(w, at))
  /\ unsaved' = <<w, at>>
  /\ UNCHANGED <<saved, refused>>

Observe(p) ==
  /\ p \in DOMAIN poll.left
  /\ unsaved = None
  /\ pods' = [pods EXCEPT ![p] = [restarts |-> poll.left[p], seen |-> poll.at]]
  /\ IF Grew(p, poll.left[p])
     THEN RecordFailure(Owner[p], poll.at)
     ELSE UNCHANGED <<failures, forecasts, outcomes, diskVars, unsaved>>
  /\ poll' = [poll EXCEPT !.left = Restrict(@, DOMAIN @ \ {p})]
  /\ UNCHANGED <<clock, count, restarted, missed>>

SaveFailure ==
  /\ unsaved # None
  /\ \/ /\ TRUE \in StoreAnswers
        /\ saved' = [saved EXCEPT ![unsaved[1]] = @ \cup {unsaved[2]}]
        /\ UNCHANGED refused
     \/ /\ FALSE \in StoreAnswers
        /\ refused' = refused \cup {unsaved}
        /\ UNCHANGED saved
  /\ unsaved' = None
  /\ UNCHANGED <<clock, count, restarted, missed, trackerVars, scored, unscored,
                 poll>>

(* Prune; the throttling readings and events of a pod may keep it. *)
Stale(p) == pods[p] # None /\ pods[p].seen < poll.at - PodTTL

PollEnd ==
  /\ poll.open
  /\ poll.left = NoReadings
  /\ unsaved = None
  /\ \E dropped \in SUBSET {p \in Pods : Stale(p)} :
       pods' = [p \in Pods |-> IF p \in dropped THEN None ELSE pods[p]]
  /\ poll' = [poll EXCEPT !.open = FALSE]
  /\ UNCHANGED <<clock, count, restarted, missed, failures, forecasts, outcomes,
                 diskVars, unsaved>>

----------------------------------------------------------------------------
(* The API answers with an estimate that names a coming failure. *)
NoteForecast(w) ==
  /\ unsaved = None
  /\ forecasts[w] = None
  /\ forecasts' = [forecasts EXCEPT ![w] = clock]
  /\ UNCHANGED <<clock, count, restarted, missed, pods, failures, outcomes,
                 diskVars, poll, unsaved>>

----------------------------------------------------------------------------
(***************************************************************************)
(* The engine dies at any point and starts again on the same store.        *)
(***************************************************************************)
(* What the store lists for the times S: the keys of Badger are in order.  *)
OldestFirst(S) ==
  {s \in [1..Cardinality(S) -> S] : \A i, j \in DOMAIN s : i < j => s[i] < s[j]}
Kept(S) == {t \in S : clock - t < Retention}

Restart ==
  /\ pods' = [p \in Pods |-> None]
  /\ forecasts' = [w \in Workloads |-> None]
  /\ \E restored \in [Workloads -> UNION {OldestFirst(Kept(saved[w])) : w \in Workloads}] :
       /\ \A w \in Workloads : restored[w] \in OldestFirst(Kept(saved[w]))
       /\ failures' = restored
  /\ \E times \in OldestFirst(Kept({t \in Times : scored[t] # None})) :
       outcomes' = Trim([i \in DOMAIN times |->
                           [at |-> times[i], lead |-> scored[times[i]]]],
                        OutcomeLimit)
  /\ poll' = [NoPoll EXCEPT !.at = poll.at]
  /\ unsaved' = None
  /\ UNCHANGED <<clock, count, restarted, missed, diskVars>>

Next ==
  \/ Tick
  \/ \E p \in Pods : PodRestarts(p) \/ PodReplaced(p) \/ Observe(p)
  \/ PollStart
  \/ SaveFailure
  \/ PollEnd
  \/ \E w \in Workloads : NoteForecast(w)
  \/ Restart

Spec == Init /\ [][Next]_vars

----------------------------------------------------------------------------
(***************************************************************************)
(* Properties.                                                             *)
(***************************************************************************)
(* Every failure counted against a workload is a restart its pods really   *)
(* had, but for one at most per sample that was missing and read as zero:  *)
(* whatever the order of readings, missing readings, prunes, replacements  *)
(* and restarts of the engine, none is counted twice.                      *)
(* (recordRestarts, Prune, RestoreFailures; Collect, thanos.go:336)        *)
NoPhantomFailure ==
  \A w \in Workloads : Len(failures[w]) <= restarted[w] + missed[w]

(* What the tracker answers from is what a restart would restore: a        *)
(* failure in memory is on disk, unless it is being saved or its write was *)
(* refused, and a failure on disk is in memory, unless it expired or the   *)
(* limit dropped it in favour of newer ones. (recordFailure and its        *)
(* recorder, restoreFailureHistory)                                        *)
DiskHoldsHistory ==
  \A w \in Workloads :
    /\ \A t \in Range(failures[w]) :
         t \in saved[w] \/ <<w, t>> = unsaved \/ <<w, t>> \in refused
    /\ \A t \in saved[w] \ Range(failures[w]) :
         \/ clock - t >= Retention
         \/ /\ Len(failures[w]) >= HistoryLimit
            /\ \A u \in Range(failures[w]) : t < u

(* A failure on disk has been scored: a crash between the two writes loses *)
(* a failure, and never leaves one the track record does not know.         *)
(* (recordFailure: recordOutcome before the failure recorder)              *)
EveryFailureScored ==
  \A w \in Workloads : \A t \in saved[w] : scored[t] # None \/ t \in unscored

(* A warning is credited to the next failure and no later one: a forecast  *)
(* that stands was noted after the last failure. (recordOutcome deletes    *)
(* it, NoteForecast keeps the first)                                       *)
ForecastIsOfThisCycle ==
  \A w \in Workloads :
    \A t \in Range(failures[w]) : forecasts[w] = None \/ forecasts[w] >= t
=============================================================================
