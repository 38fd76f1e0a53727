---------------------------- MODULE AlertDelivery ----------------------------
(***************************************************************************)
(* From the failures of the fleet to the alerts of each Alertmanager       *)
(* (internal/api/handlers_failures.go, cmd/ruptura/alerts.go,              *)
(* internal/alertmanager/client.go): every minute the failures are read    *)
(* and posted to each Alertmanager in turn, each time with an end a few    *)
(* minutes away.                                                           *)
(*                                                                         *)
(* A unit of time is the timeout of one post.                              *)
(***************************************************************************)
EXTENDS Integers, FiniteSets, Sequences

CONSTANTS
  Watched,       \* the workloads
  NamespaceOf,   \* the namespace of each
  Chosen,        \* those whose labels match the level selector
  Scopes,        \* the levels results may be reported at
  Situations,    \* what may be known of a workload: the estimate, whether it
                 \* is in a crash loop, its state
  Alertmanagers, \* a sequence: the configured targets
  AlertInterval, \* alertInterval
  AlertTTL,      \* alertTTL
  MaxTurns,      \* bound: changes of situation
  Nil

Posted == {Alertmanagers[i] : i \in DOMAIN Alertmanagers}

(* Three intervals, and posts that take less than one altogether.          *)
ASSUME DeliveryAssumption ==
  /\ Alertmanagers \in Seq(Posted)
  /\ AlertInterval \in Nat /\ Len(Alertmanagers) < AlertInterval
  /\ AlertTTL = 3 * AlertInterval

VARIABLES
  scope,      \* RUPTURA_LEVEL_SCOPE
  situation,  \* what the fleet knows of each workload
  turns,      \* changes of situation so far
  wait,       \* until the ticker fires
  fired,      \* a tick is waiting to be taken
  sending,    \* the round under way: alerts, targets left, whether the post
              \* under way has taken its unit
  held,       \* the alerts active at each Alertmanager, and how long for
  told,       \* the alerts of the last post each answered, and posts lost since
  gone        \* for how long each alert has had no failure

deliveryVars == <<scope, situation, turns, wait, fired, sending, held, told, gone>>

----------------------------------------------------------------------------
(***************************************************************************)
(* The failures of the fleet.                                              *)
(***************************************************************************)
Predicted == {"saturation", "recurrent_failure", "release_regression", "replica_divergence"}

(* oomExplained *)
OOMExplained(est) ==
  /\ est # Nil
  /\ \/ est.mode = "oom_killed"
     \/ est.mode = "recurrent_failure" /\ est.oom

(* failureResult: an anomaly alone is no failure. *)
FailureResult(w) ==
  LET s == situation[w]
      result(mode, pod, kind) ==
        [mode |-> mode, state |-> s.state, kind |-> kind, level |-> "workload",
         target |-> w, workload |-> w, pod |-> pod]
  IN  IF s.crashLoop /\ ~OOMExplained(s.est) THEN result("crash_loop", Nil, "detected")
      ELSE IF s.est = Nil THEN Nil
      ELSE result(s.est.mode, s.est.pod,
                  IF s.est.mode \in Predicted THEN "predicted" ELSE "detected")

(* scopeResult *)
Scoped(result) ==
  IF scope = "pod" /\ result.pod # Nil
  THEN [result EXCEPT !.level = "pod", !.target = result.pod]
  ELSE IF scope = "namespace"
  THEN [result EXCEPT !.level = "namespace", !.target = NamespaceOf[result.workload]]
  ELSE result

(* selectFailures, before the scope is applied. *)
Selected == {FailureResult(w) : w \in Chosen} \ {Nil}

(* Failures *)
Failures == {Scoped(result) : result \in Selected}

(* alertLabels: what tells one alert from another. *)
SeverityLabel(state) == IF state = "critical" THEN "critical" ELSE "warning"
AlertOf(result) ==
  [name |-> result.mode, severity |-> SeverityLabel(result.state), level |-> result.level,
   target |-> result.target, kind |-> result.kind]
Alerts == {AlertOf(result) : result \in Failures}

----------------------------------------------------------------------------
Well == [est |-> Nil, crashLoop |-> FALSE, state |-> "healthy"]

DeliveryInit ==
  /\ scope \in Scopes
  /\ situation = [w \in Watched |-> Well]
  /\ turns = 0
  /\ wait = AlertInterval
  /\ fired = FALSE
  /\ sending = Nil
  /\ held = [c \in Posted |-> {}]
  /\ told = [c \in Posted |-> [alerts |-> {}, lost |-> 0]]
  /\ gone = {}

(* The fleet changes: what buildFleet makes of the detectors. *)
TakeTurn(w) ==
  /\ turns < MaxTurns
  /\ \E s \in Situations :
       /\ s # situation[w]
       /\ situation' = [situation EXCEPT ![w] = s]
  /\ turns' = turns + 1
  /\ UNCHANGED <<scope, wait, fired, sending, held, told>>
  /\ gone' = {g \in gone : g.alert \notin Alerts'}

(* startAlerts: a tick is taken as soon as the round before it is done; a  *)
(* tick that finds one waiting is dropped.                                 *)
StartRound ==
  /\ fired /\ sending = Nil
  /\ fired' = FALSE
  /\ sending' = [alerts |-> Alerts, left |-> Alertmanagers, slow |-> FALSE]
  /\ UNCHANGED <<scope, situation, turns, wait, held, told, gone>>

(* Faulty variant: an Alertmanager that cannot be reached ends the round. *)
StopAtError(left, ok) == IF ok THEN Tail(left) ELSE <<>>

(* sendAlerts: an error is logged, and the next target is tried. *)
AfterSend(left, ok) == Tail(left)

RoundAfter(ok) ==
  IF AfterSend(sending.left, ok) = <<>> THEN Nil
  ELSE [alerts |-> sending.alerts, left |-> AfterSend(sending.left, ok), slow |-> FALSE]

(* What an Alertmanager makes of a post: an alert it knows by its labels   *)
(* gets the new end.                                                       *)
Received(c) ==
  {h \in held[c] : h.alert \notin sending.alerts}
  \cup [alert : sending.alerts, left : {IF sending.slow THEN AlertTTL - 1 ELSE AlertTTL}]

(* Client.Send answered; no alerts make no request. *)
Send(c) ==
  /\ sending # Nil /\ Head(sending.left) = c
  /\ held' = [held EXCEPT ![c] = Received(c)]
  /\ told' = [told EXCEPT ![c] = [alerts |-> sending.alerts, lost |-> 0]]
  /\ sending' = RoundAfter(TRUE)
  /\ UNCHANGED <<scope, situation, turns, wait, fired, gone>>

(* Refused, lost, or out of time with or without effect. *)
SendFails(c) ==
  /\ sending # Nil /\ Head(sending.left) = c /\ sending.alerts # {}
  /\ \E reached \in {sending.slow, FALSE} :
       held' = IF reached THEN [held EXCEPT ![c] = Received(c)] ELSE held
  /\ told' = [told EXCEPT ![c].lost = IF @ = 2 THEN 2 ELSE @ + 1]
  /\ sending' = RoundAfter(FALSE)
  /\ UNCHANGED <<scope, situation, turns, wait, fired, gone>>

(* A unit of time passes: a post takes no more than one. *)
GoneFor(a) == LET at == {g.age : g \in {h \in gone : h.alert = a}}
           IN  IF at = {} THEN 0 ELSE CHOOSE n \in at : TRUE
Seen == Alerts \cup {g.alert : g \in gone} \cup UNION {{h.alert : h \in held[c]} : c \in Posted}
                \cup (IF sending = Nil THEN {} ELSE sending.alerts)

UnitPasses ==
  /\ sending # Nil => ~sending.slow
  /\ sending = Nil => ~fired
  /\ wait' = IF wait = 1 THEN AlertInterval ELSE wait - 1
  /\ fired' = (fired \/ wait = 1)
  /\ sending' = IF sending = Nil THEN Nil ELSE [sending EXCEPT !.slow = TRUE]
  /\ held' = [c \in Posted |-> {[h EXCEPT !.left = @ - 1] : h \in {g \in held[c] : g.left > 1}}]
  /\ gone' = {[alert |-> a, age |-> GoneFor(a) + 1] :
                a \in {b \in Seen \ Alerts : GoneFor(b) <= AlertTTL + Len(Alertmanagers)}}
  /\ UNCHANGED <<scope, situation, turns, told>>

DeliveryNext ==
  \/ \E w \in Watched : TakeTurn(w)
  \/ StartRound
  \/ \E c \in Posted : Send(c) \/ SendFails(c)
  \/ UnitPasses

DeliverySpec == DeliveryInit /\ [][DeliveryNext]_deliveryVars

----------------------------------------------------------------------------
ActiveAt(c) == {h.alert : h \in held[c]}

(* An alert that is repeated never expires for a single lost post, whoever *)
(* else cannot be reached.  (alertmanager/client.go on alertTTL)           *)
RepeatedAlertsStay == \A c \in Posted : told[c].lost <= 1 => told[c].alerts \subseteq ActiveAt(c)

(* An alert whose failure has cleared, or changed its labels, ends within  *)
(* the time to live and the length of a round.  (client.go on alertTTL)    *)
ClearedAlertsEnd ==
  \A c \in Posted : \A a \in ActiveAt(c) : GoneFor(a) < AlertTTL + Len(Alertmanagers)

AlertsFollowFailures == RepeatedAlertsStay /\ ClearedAlertsEnd
=============================================================================
