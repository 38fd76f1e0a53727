--------------------------- MODULE WorkloadSignals ---------------------------
(***************************************************************************)
(* The signals of one workload (internal/analyzer): which of them its      *)
(* telemetry of a tick measures, how they add up to the health score, what *)
(* accumulates (fatigue, the adaptive baseline).                           *)
(* Values are in hundredths.  The formula of a signal is an arbitrary      *)
(* value; whether it is measured is not.                                   *)
(***************************************************************************)
EXTENDS Integers, FiniteSets, FiniteSetsExt, SequencesExt

CONSTANTS
    Levels,         \* values of a signal, within 0..100
    Overrides,      \* configured weights in order: [matches |-> BOOLEAN, weight |-> [...]]
    InfraWired,     \* whether an infra registry is set
    CallsSeen,      \* whether traces give the workload a caller
    BaselineAt,     \* 96: updates before the baseline is used
    FatigueFrom,    \* 30: the stress above which fatigue grows
    Lambda,         \* 5: what it loses in a nominal interval
    MaxIntervals    \* 2: the nominal intervals an update stands for at most

ASSUME SignalsAssumption ==
    /\ Levels \subseteq 0..100 /\ {BaselineAt, MaxIntervals} \subseteq Nat \ {0}
    /\ {FatigueFrom, Lambda} \subseteq 0..100 /\ {InfraWired, CallsSeen} \subseteq BOOLEAN

VARIABLES
    fatigue,
    seen,       \* updates, up to BaselineAt
    baseline    \* signal -> how many values its baseline has, up to 2

signalVars == <<fatigue, seen, baseline>>

Inputs == {"cpu", "memory", "latency", "errors", "timeouts", "uptime", "requests"}
Weighed == {"stress", "fatigue", "mood", "pressure", "humidity", "contagion", "infraStress", "networkHealth"}
Adaptive == {"stress", "mood", "pressure", "humidity", "contagion"}

SignalsInit == fatigue = 0 /\ seen = 0 /\ baseline = [s \in Adaptive |-> 0]

-----------------------------------------------------------------------------
(* What is measured, from the metrics there are and the pressure that      *)
(* propagates to the namespace.                                            *)

Measured(got, pressed) ==
    {s \in Weighed \cup {"resilience", "throughput"} :
        CASE s \in {"stress", "fatigue"} -> got \cap {"cpu", "memory", "latency", "errors", "timeouts"} # {}
          [] s = "mood" -> {"uptime", "requests", "errors", "timeouts"} \subseteq got
          [] s = "pressure" -> got \cap {"latency", "errors"} # {}
          [] s = "humidity" -> {"errors", "timeouts", "requests"} \subseteq got
          [] s = "contagion" -> CallsSeen \/ {"errors", "cpu"} \subseteq got \/ (InfraWired /\ pressed)
          [] s \in {"infraStress", "networkHealth"} -> InfraWired
          [] s = "resilience" -> /\ {"uptime", "requests", "errors", "timeouts"} \subseteq got
                                 /\ CallsSeen \/ "cpu" \in got \/ (InfraWired /\ pressed)
          [] s = "throughput" -> "requests" \in got}

\* Faulty variant: what is absent counts as a signal without penalty.
MeanOverAll(in, weight, penalty) ==
    LET total == SumFunctionOnSet(weight, Weighed)
    IN  IF in = {} \/ total = 0 THEN [ok |-> FALSE, val |-> 0]
        ELSE [ok |-> TRUE, val |-> SumFunction([s \in in |-> weight[s] * penalty[s]]) \div total]
WeightedMean(in, weight, penalty) ==
    LET total == SumFunctionOnSet(weight, in)
    IN  IF total = 0 THEN [ok |-> FALSE, val |-> 0]
        ELSE [ok |-> TRUE, val |-> SumFunction([s \in in |-> weight[s] * penalty[s]]) \div total]

DefaultWeights == [stress |-> 25, fatigue |-> 20, mood |-> 20, pressure |-> 15, humidity |-> 10,
                   contagion |-> 10, infraStress |-> 0, networkHealth |-> 0]

\* A configured weight is a share.  (Nothing refuses a negative one, and of a
\* workload that has one nothing is claimed.)
ASSUME WeightsAssumption ==
    \A i \in DOMAIN Overrides : i \in Nat /\ \A s \in Weighed : Overrides[i].weight[s] \in Nat

Weights == LET matching == {i \in DOMAIN Overrides : Overrides[i].matches}
           IN  IF matching = {} THEN DefaultWeights ELSE Overrides[Min(matching)].weight

\* Once the baseline is ready, a signal that has one is judged against it:
\* `relative` is what that gives.  Fatigue is what has accumulated.
Relative(s) == seen = BaselineAt /\ s \in Adaptive /\ baseline[s] >= 2
Penalty(s, penalty, relative) ==
    CASE s = "fatigue" -> fatigue [] s # "fatigue" /\ Relative(s) -> relative[s] [] OTHER -> penalty[s]

Health(in, penalty, relative) ==
    LET mean == WeightedMean(in \cap Weighed, Weights, [s \in Weighed |-> Penalty(s, penalty, relative)])
    IN  [ok |-> mean.ok, val |-> IF mean.ok THEN 100 - mean.val ELSE 0]

-----------------------------------------------------------------------------
(* The name of a value: of the bounds of its signal, the first it is under *)
(* (above, where high is good).                                            *)

Rising(v, bounds, names) ==
    names[IF \E i \in DOMAIN bounds : v < bounds[i] THEN Min({i \in DOMAIN bounds : v < bounds[i]}) ELSE Len(names)]
Falling(v, bounds, names) ==
    names[IF \E i \in DOMAIN bounds : v > bounds[i] THEN Min({i \in DOMAIN bounds : v > bounds[i]}) ELSE Len(names)]

StateOf(s, v) ==
    CASE s = "stress" -> Rising(v, <<30, 60, 80>>, <<"calm", "nervous", "stressed", "panic">>)
      [] s = "fatigue" -> Rising(v, <<30, 60, 80>>, <<"rested", "tired", "exhausted", "burnout">>)
      [] s = "mood" -> Falling(v, <<75, 50, 25, 10>>, <<"happy", "content", "neutral", "sad", "depressed">>)
      [] s = "pressure" -> IF v < 45 THEN "improving" ELSE Falling(v, <<70, 55>>, <<"storm_approaching", "rising", "stable">>)
      [] s = "humidity" -> Rising(v, <<10, 30, 50>>, <<"dry", "humid", "very_humid", "storm">>)
      [] s = "contagion" -> Rising(v, <<30, 60, 80>>, <<"low", "moderate", "epidemic", "pandemic">>)
      [] s = "resilience" -> Falling(v, <<70, 40, 20>>, <<"robust", "stable", "fragile", "critical">>)
      [] s = "entropy" -> Rising(v, <<10, 30, 60>>, <<"ordered", "fluctuating", "chaotic", "turbulent">>)
      [] s = "velocity" -> Rising(v, <<10, 30, 60>>, <<"steady", "shifting", "accelerating", "volatile">>)
      [] s = "throughput" -> Falling(v, <<50, 20>>, <<"collapsing", "declining", "stable">>)
      [] s = "health_score" -> Falling(v, <<80, 60, 40, 20>>, <<"excellent", "good", "fair", "poor", "critical">>)

KPI(s, reading) == IF reading.ok THEN StateOf(s, reading.val) ELSE "unavailable"

-----------------------------------------------------------------------------
(* Update, as far as it leaves something behind.                           *)

Clamp(v) == Max({0, Min({100, v})})

Update(got, pressed, stress, intervals) ==
    LET in == Measured(got, pressed)
    IN  /\ fatigue' = IF "stress" \in in THEN Clamp(fatigue + stress - FatigueFrom - Lambda * intervals) ELSE fatigue
        /\ seen' = Min({seen + 1, BaselineAt})
        /\ baseline' = [s \in Adaptive |-> IF s \in in THEN Min({baseline[s] + 1, 2}) ELSE baseline[s]]

SignalsNext ==
    \E got \in SUBSET Inputs, pressed \in BOOLEAN, stress \in Levels, intervals \in 1..MaxIntervals :
        Update(got, pressed, stress, intervals)

SignalsSpec == SignalsInit /\ [][SignalsNext]_signalVars

-----------------------------------------------------------------------------
(* Properties.                                                             *)

\* What the metrics of a tick can measure.
Ticks == {Measured(got, pressed) : got \in SUBSET Inputs, pressed \in BOOLEAN}

\* One signal differs from the rest, and so does what the baseline makes of it.
Cases == {[s \in Weighed |-> IF s = odd THEN u ELSE v] : odd \in Weighed, u \in Levels, v \in Levels}
Opposite(penalty) == [s \in Weighed |-> 100 - penalty[s]]

\* "Missing data is never a zero" (ARCHITECTURE.md): whatever subset of the
\* metrics a tick has, however tired the workload and however much baseline each
\* signal has of its own, the health score is unavailable only if no signal that
\* weighs is measured, and else lies between the best and the worst of those.
HealthOfWhatIsMeasured ==
    \A in \in Ticks, penalty \in Cases :
        LET health == Health(in, penalty, Opposite(penalty))
            vals == {Penalty(s, penalty, Opposite(penalty)) : s \in {s \in in \cap Weighed : Weights[s] > 0}}
        IN  /\ health.ok <=> vals # {}
            /\ health.ok => 100 - Max(vals) <= health.val /\ health.val <= 100 - Min(vals)
            /\ KPI("health_score", health) = "unavailable" <=> vals = {}
=============================================================================
