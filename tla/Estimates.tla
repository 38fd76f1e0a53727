------------------------------ MODULE Estimates ------------------------------
(***************************************************************************)
(* From readings to the state shown for one workload: the detectors of     *)
(* internal/failuremodes (saturation, condition, events, replicas,         *)
(* rollouts, OOM kills, crash loops), their ranking in Tracker.Worst, and  *)
(* what the API makes of it (internal/api/handlers_failuremodes.go).       *)
(*                                                                         *)
(* Every time stamp is kept as its age in polls: the detectors only ever   *)
(* compare ages.  The trend fitted to memory readings is an arbitrary      *)
(* verdict, a time to failure or none; times to failure are in seconds.    *)
(***************************************************************************)
EXTENDS Integers, Sequences, FiniteSets

CONSTANTS
  Pods,               \* the pods of the workload
  Forecasts,          \* times to failure a trend may give
  Horizon,            \* RUPTURA_HORIZON: how far ahead a forecast degrades
  MaxAge,             \* estimateMaxAge
  MinSpan,            \* saturationMinSpan
  RaiseAfter,         \* conditionRaiseAfter
  ClearAfter,         \* conditionClearAfter
  MaxGap,             \* conditionMaxGap
  EventMaxAge,        \* startupEventMaxAge, crashBackOffMaxAge
  RestartWindow,      \* restartWindow, oomRecentWindow
  CrashLoopRestarts,  \* recentCrashLoopRestarts
  ReplicasSustained,  \* replicasSustained
  PodTTL,             \* failureModePodTTL
  Oldest,             \* bound: ages from here on are all the same
  MaxCount,           \* bound: what the restart counter of a pod may read
  Together,           \* bound: the kinds of readings that arrive together
  None

Kinds == {"memory", "restarts", "throttling", "events", "oom", "replicas", "rollout"}

ASSUME EstimatesAssumption ==
  /\ Forecasts \subseteq Nat
  /\ Horizon \in Nat /\ Oldest \in Nat
  /\ None \notin Int
  /\ \A limit \in {MaxAge + ReplicasSustained, RaiseAfter + MaxGap, ClearAfter + MaxGap,
                   EventMaxAge, RestartWindow, PodTTL, MinSpan} :
       limit \in Nat /\ limit < Oldest
  /\ CrashLoopRestarts \in Nat \ {0} /\ MaxCount \in Nat
  /\ RaiseAfter \in Nat /\ ClearAfter \in Nat /\ MaxGap \in Nat \ {0}
  /\ Together \subseteq SUBSET Kinds

CriticalETF == 600
RiskHorizon == 3600

VARIABLES
  pods,      \* the pods the tracker knows: the forecast, the start of the
             \* window it is fitted to, the last reading, the condition,
             \* recent restarts, the last exit, start-up and back-off events;
             \* the restart counter as the tracker read it last (count), and
             \* as the saturation did, which reads it with usage only
             \* (satCount); told for the properties: it was seen to fall since
             \* the window began (fell)
  replicas,  \* replicas missing: since when, last seen
  rollout,   \* rollout stalled: last seen
  made,      \* the age of each pod's forecast, as it was computed
  readings,  \* the throttling readings of each pod, by age
  arriving   \* the kinds of readings that arrive in this behaviour

vars == <<pods, replicas, rollout, made, readings, arriving>>

Ages == 0..Oldest
NewPod == [etf |-> None, from |-> None, seen |-> None,
           cond |-> [run |-> None, below |-> None, last |-> None, active |-> FALSE],
           restarts |-> <<>>, oom |-> FALSE, stuck |-> None, backOff |-> None,
           count |-> None, satCount |-> None, fell |-> FALSE]
Unknown == [p \in Pods |-> None]

Init ==
  /\ pods = Unknown
  /\ replicas = None
  /\ rollout = None
  /\ made = Unknown
  /\ readings = [p \in Pods |-> [a \in Ages |-> "none"]]
  /\ arriving \in Together

----------------------------------------------------------------------------
(***************************************************************************)
(* Time.                                                                   *)
(***************************************************************************)
Older(a) == IF a = None \/ a = Oldest THEN a ELSE a + 1

OlderCond(c) ==
  [c EXCEPT !.run = Older(@), !.below = Older(@), !.last = Older(@)]

OlderPod(s) ==
  [s EXCEPT !.from = Older(@), !.seen = Older(@), !.stuck = Older(@),
            !.backOff = Older(@), !.cond = OlderCond(@),
            !.restarts = [i \in DOMAIN @ |-> Older(@[i])]]

Tick ==
  /\ pods' = [p \in Pods |-> IF pods[p] = None THEN None ELSE OlderPod(pods[p])]
  /\ replicas' = IF replicas = None THEN None
                 ELSE [since |-> Older(replicas.since), seen |-> Older(replicas.seen)]
  /\ rollout' = Older(rollout)
  /\ made' = [p \in Pods |-> Older(made[p])]
  /\ readings' = [p \in Pods |->
                    [a \in Ages |-> IF a = 0 THEN "none" ELSE readings[p][a - 1]]]
  /\ UNCHANGED arriving

----------------------------------------------------------------------------
(***************************************************************************)
(* Readings.                                                               *)
(***************************************************************************)
Pod(p) == IF pods[p] = None THEN NewPod ELSE pods[p]
Within(a, limit) == a # None /\ a <= limit

(* The bounded list of restart times; only the latest decide anything. *)
Recent(times) ==
  IF Len(times) > CrashLoopRestarts THEN Tail(times) ELSE times

(* What a restart counter may read: it falls when the pod is replaced under *)
(* its name, or when a sample is missing and is taken for zero.            *)
Counts == 0..MaxCount

(* recordRestarts, against the last counter of any reading. *)
Counted(s, n) ==
  [s EXCEPT !.restarts = IF s.count # None /\ n > s.count THEN Recent(Append(@, 0)) ELSE @,
            !.fell = s.from # None /\ (@ \/ n < s.count),
            !.count = n]

(* Faulty variant: one counter for both, so that a restart that was seen    *)
(* while the pod was down is old news when the usage is back.              *)
EmptiesByTracker(s, n) == s.count # None /\ n > s.count

(* Saturation.Observe empties its window when the counter grew since the    *)
(* last reading with usage.                                                *)
Empties(s, n) == s.satCount # None /\ n > s.satCount

Windowed(s, n, limited) ==
  LET kept == IF Empties(s, n) THEN None ELSE s.from
  IN  [Counted(s, n) EXCEPT !.from = IF limited /\ kept = None THEN 0 ELSE kept,
                            !.fell = @ /\ ~Empties(s, n),
                            !.satCount = n]

(* Observe: a reading with usage, and a memory limit or none. *)
Verdicts(s) ==
  {None} \cup (IF s.from # None /\ s.from >= MinSpan THEN Forecasts ELSE {})

Observe(p) ==
  \E n \in Counts, limited \in BOOLEAN :
    LET s == Windowed(Pod(p), n, limited)
    IN  \E etf \in (IF limited THEN Verdicts(s) ELSE {None}) :
          /\ pods' = [pods EXCEPT ![p] = [s EXCEPT !.etf = etf, !.seen = 0]]
          /\ made' = [made EXCEPT ![p] = IF etf = None THEN None ELSE 0]
          /\ UNCHANGED <<replicas, rollout, readings, arriving>>

(* ObserveRestarts: a pod that is down has restarts and no usage. *)
ObserveRestarts(p) ==
  \E n \in Counts :
    /\ pods' = [pods EXCEPT ![p] = [Counted(Pod(p), n) EXCEPT !.seen = 0]]
    /\ UNCHANGED <<replicas, rollout, made, readings, arriving>>

(* Faulty variant: a silence counts as part of the run. *)
ContinuedAnyway(c) == c

(* Condition.Observe *)
Continued(c) ==
  IF c.last # None /\ c.last > MaxGap
  THEN [c EXCEPT !.run = None, !.below = None] ELSE c

Hot(c) ==
  LET run == IF c.run = None THEN 0 ELSE c.run
  IN  [run |-> run, below |-> None, last |-> 0,
       active |-> c.active \/ run >= RaiseAfter]

Cool(c) ==
  LET below == IF c.below = None THEN 0 ELSE c.below
  IN  [run |-> None, below |-> below, last |-> 0,
       active |-> c.active /\ below < ClearAfter]

ObserveCondition(p) ==
  /\ readings[p][0] = "none"
  /\ \E hot \in BOOLEAN :
       LET c == Continued(Pod(p).cond)
       IN  /\ pods' = [pods EXCEPT ![p] =
                         [Pod(p) EXCEPT !.cond = IF hot THEN Hot(c) ELSE Cool(c)]]
           /\ readings' = [readings EXCEPT ![p][0] = IF hot THEN "hot" ELSE "cool"]
  /\ UNCHANGED <<replicas, rollout, made, arriving>>

(* ObserveEvent: events are listed again at each poll, the newest counts. *)
Newer(a, b) == IF b = None THEN TRUE ELSE a < b

ObserveEvent(p) ==
  /\ \E a \in Ages :
       \/ /\ Newer(a, Pod(p).stuck)
          /\ pods' = [pods EXCEPT ![p] = [Pod(p) EXCEPT !.stuck = a]]
       \/ /\ Newer(a, Pod(p).backOff)
          /\ pods' = [pods EXCEPT ![p] = [Pod(p) EXCEPT !.backOff = a]]
  /\ UNCHANGED <<replicas, rollout, made, readings, arriving>>

ObserveOOM(p) ==
  /\ \E oom \in BOOLEAN : pods' = [pods EXCEPT ![p] = [Pod(p) EXCEPT !.oom = oom]]
  /\ UNCHANGED <<replicas, rollout, made, readings, arriving>>

ObserveReplicas ==
  /\ \/ replicas' = None
     \/ replicas' = [since |-> IF replicas = None THEN 0 ELSE replicas.since, seen |-> 0]
  /\ UNCHANGED <<pods, rollout, made, readings, arriving>>

ObserveRollout ==
  /\ rollout' \in {None, 0}
  /\ UNCHANGED <<pods, replicas, made, readings, arriving>>

(* Prune, at the end of each poll. *)
Silent(s) == \A a \in {s.seen, s.cond.last, s.stuck, s.backOff} : ~Within(a, PodTTL)

Prune(p) ==
  /\ pods[p] # None
  /\ Silent(pods[p])
  /\ pods' = [pods EXCEPT ![p] = None]
  /\ made' = [made EXCEPT ![p] = None]
  /\ UNCHANGED <<replicas, rollout, readings, arriving>>

Restart ==
  /\ pods' = Unknown
  /\ replicas' = None
  /\ rollout' = None
  /\ made' = Unknown
  /\ UNCHANGED <<readings, arriving>>

Next ==
  \/ Tick
  \/ \E p \in Pods :
       \/ "memory" \in arriving /\ Observe(p)
       \/ "restarts" \in arriving /\ ObserveRestarts(p)
       \/ "throttling" \in arriving /\ ObserveCondition(p)
       \/ "events" \in arriving /\ ObserveEvent(p)
       \/ "oom" \in arriving /\ ObserveOOM(p)
       \/ Prune(p)
  \/ "replicas" \in arriving /\ ObserveReplicas
  \/ "rollout" \in arriving /\ ObserveRollout
  \/ Restart

Spec == Init /\ [][Next]_vars

----------------------------------------------------------------------------
(***************************************************************************)
(* Tracker.Worst.                                                          *)
(***************************************************************************)
InProgress(mode) == [mode |-> mode, etf |-> 0]
Forecast(mode, etf) == [mode |-> mode, etf |-> etf]

(* Faulty variant: a stalled rollout ranks behind any forecast. *)
RolloutLast(e) ==
  CASE e.mode = "startup_stuck" -> 60
    [] e.mode = "replicas_unavailable" -> 120
    [] e.mode = "cpu_throttling" -> CriticalETF + 1
    [] e.mode \in {"rollout_stuck", "oom_killed"} -> 24 * 3600
    [] OTHER -> e.etf

Urgency(e) ==
  CASE e.mode = "startup_stuck" -> 60
    [] e.mode = "replicas_unavailable" -> 120
    [] e.mode = "rollout_stuck" -> 180
    [] e.mode = "cpu_throttling" -> CriticalETF + 1
    [] e.mode = "oom_killed" -> 24 * 3600
    [] OTHER -> e.etf

Fresh(s) == s.etf # None /\ Within(s.seen, MaxAge)
Latest(times) == times[Len(times)]
KilledLately(s) == s.oom /\ s.restarts # <<>> /\ Within(Latest(s.restarts), RestartWindow)

When(condition, e) == IF condition THEN {e} ELSE {}

PodEstimates(p, explained) ==
  LET s == Pod(p)
  IN  When(Fresh(s) /\ p \notin explained, Forecast("saturation", s.etf))
      \cup When(s.cond.active /\ Within(s.cond.last, MaxAge), InProgress("cpu_throttling"))
      \cup When(KilledLately(s), InProgress("oom_killed"))
      \cup When(Within(s.stuck, EventMaxAge), InProgress("startup_stuck"))

Missing ==
  /\ replicas # None
  /\ replicas.seen <= MaxAge
  /\ replicas.since - replicas.seen >= ReplicasSustained

(* The comparison of releases and the rhythm of past failures are inputs:  *)
(* a regression or a divergence takes the place of the saturation of the   *)
(* pods it explains.                                                       *)
Releases == [mode : {"release_regression", "replica_divergence"},
             etf : Forecasts, of : SUBSET Pods] \cup {None}
Rhythms == Forecasts \cup {None}

AllEstimates(release, rhythm) ==
  LET explained == IF release = None THEN {} ELSE release.of
  IN  (UNION {PodEstimates(p, explained) : p \in Pods})
      \cup When(Missing, InProgress("replicas_unavailable"))
      \cup When(Within(rollout, MaxAge), InProgress("rollout_stuck"))
      \cup When(release # None, Forecast(release.mode, release.etf))
      \cup When(rhythm # None, Forecast("recurrent_failure", rhythm))

Worst(estimates) ==
  {e \in estimates : \A other \in estimates : Urgency(e) <= Urgency(other)}

----------------------------------------------------------------------------
(***************************************************************************)
(* The API.                                                                *)
(***************************************************************************)
RecentRestarts ==
  Cardinality({r \in Pods \X (1..CrashLoopRestarts) :
                 /\ r[2] \in DOMAIN Pod(r[1]).restarts
                 /\ Pod(r[1]).restarts[r[2]] <= RestartWindow})

(* stateRestarts, applyCrashLoop *)
CrashLoop ==
  \/ RecentRestarts >= CrashLoopRestarts
  \/ \E p \in Pods : Within(Pod(p).backOff, EventMaxAge)

Degraded(state) == IF state = "critical" THEN "critical" ELSE "degraded"

(* applyEstimate, less the risk shown beside the state. *)
Shown(state, e) ==
  CASE e.mode \in {"startup_stuck", "oom_killed"} -> "critical"
    [] e.mode \in {"replicas_unavailable", "cpu_throttling", "rollout_stuck"} ->
         Degraded(state)
    [] e.mode \in {"release_regression", "replica_divergence"}
       /\ e.etf > CriticalETF -> Degraded(state)
    [] OTHER ->
         IF e.etf <= CriticalETF THEN "critical"
         ELSE IF e.etf <= Horizon THEN Degraded(state) ELSE state

(* reportedEstimate *)
Listed(e) ==
  ~(e.mode = "saturation" /\ e.etf > RiskHorizon /\ e.etf > Horizon)

(* A row of the fleet: what it may show for a state of the health score. *)
States(base, worst) ==
  LET state == IF CrashLoop THEN "critical" ELSE base
  IN  IF worst = {} THEN {state} ELSE {Shown(state, e) : e \in worst}

----------------------------------------------------------------------------
(***************************************************************************)
(* Properties.                                                             *)
(***************************************************************************)
(* The readings of the last `span` polls all agree, but for silences of    *)
(* less than MaxGap.                                                       *)
Agree(log, value, span) ==
  \E first \in Ages :
    /\ first >= span
    /\ log[first] = value
    /\ \A a \in 0..first : log[a] \in {value, "none"}
    /\ \A a \in 0..(first - MaxGap) : \E b \in a..(a + MaxGap - 1) : log[b] = value

(* Throttling is raised only by readings that stayed above the threshold   *)
(* for RaiseAfter, and cleared only by readings that stayed below it for   *)
(* ClearAfter: no silence, prune or restart stands in for readings.        *)
(* (Condition.Observe)                                                     *)
Active(p) == Pod(p).cond.active
ThrottleFollowsReadings ==
  [][ \A p \in Pods :
        /\ ~Active(p) /\ Active(p)' => Agree(readings'[p], "hot", RaiseAfter)
        /\ Active(p) /\ pods'[p] # None /\ ~Active(p)' =>
             Restart \/ Agree(readings'[p], "cool", ClearAfter) ]_vars

(* Trouble in progress, or a forecast inside the horizon, is never shown   *)
(* as healthy, whatever else is known of the workload: the order in which  *)
(* Worst ranks the modes agrees with what applyEstimate makes of each.     *)
Trouble(e) ==
  \/ e.mode \in {"startup_stuck", "replicas_unavailable", "rollout_stuck", "cpu_throttling"}
  \/ e.mode # "oom_killed" /\ e.etf <= Horizon
TroubleIsShown ==
  \A release \in Releases, rhythm \in Rhythms :
    LET estimates == AllEstimates(release, rhythm)
        worst == Worst(estimates)
    IN  (\E e \in estimates : Trouble(e)) =>
          \A base \in {"healthy", "calibrating", "pending_telemetry"} :
            States(base, worst) \subseteq {"degraded", "critical"}

(* A forecast rests on readings of after the last restart of the pod, be   *)
(* it one that was seen only while the pod was down and had no usage,      *)
(* unless its counter was seen to fall in between: the counter of a pod    *)
(* that was replaced under its name is compared with that of the one       *)
(* before, and a restart of the new one may leave the window as it was.    *)
(* (recordRestarts, Saturation.Observe)                                    *)
ForecastStartsOver ==
  [][ \A p \in Pods :
        made[p] # 0 /\ made'[p] = 0 /\ ~Pod(p)'.fell =>
          LET restarts == Pod(p)'.restarts
          IN  restarts = <<>> \/ Latest(restarts) >= MinSpan ]_vars

(* What is concluded from readings is concluded from those that were read   *)
(* since it began: the two above.                                          *)
EstimatesFollowReadings == ThrottleFollowsReadings /\ ForecastStartsOver

(* A forecast is shown only if it was computed within MaxAge.  (tracker.go *)
(* on estimateMaxAge)                                                      *)
ForecastIsFresh ==
  \A p \in Pods : Fresh(Pod(p)) => Within(made[p], MaxAge)
=============================================================================
