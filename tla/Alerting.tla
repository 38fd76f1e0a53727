------------------------------ MODULE Alerting ------------------------------
(***************************************************************************)
(* From a detected anomaly to a notification: the detectors' consensus and *)
(* its throttle and ring (internal/pipeline/metrics), the 15 second tick   *)
(* that hands critical anomalies to the alerter (cmd/ruptura/main.go), the *)
(* alerter's rules, dedup and channel (internal/alerter), the goroutine    *)
(* that forwards alerts, the action queue (internal/actions/engine) and    *)
(* the webhooks (internal/notify).                                         *)
(***************************************************************************)
EXTENDS Integers, FiniteSets, Sequences, SequencesExt

CONSTANTS
    Hosts, Metrics,
    KeyHost,        \* of each host, what comes before the first colon of a key
                    \* "host:metric": the host, unless its name has a colon
    Values,         \* what an anomalous sample reads
    DefaultRules,   \* the alerter's rules: [name, metric, threshold, severity]
    ActionRules,    \* the action rules: [profile, minR, action]
    RingCap,        \* 1000: anomalies the ring keeps
    ChanCap,        \* 256: alerts the channel holds
    QueueCap,       \* 256: recommendations the queue keeps
    Interval,       \* 15 s: the tick
    RefireAfter,    \* 1 min: the dedup of the alerter
    FiredTTL,       \* 5 min: when it forgets a firing
    Cooldown,       \* 5 min: the throttle of an anomaly that goes on
    Destinations,   \* the webhooks configured
    MinTier,        \* 2: the lowest tier that is notified
    Edition,        \* community or autopilot
    MaxTime, MaxAnomalies, Windows

ASSUME AlertingAssumption ==
    /\ {Interval, RingCap, ChanCap, QueueCap} \subseteq Nat \ {0}
    /\ {RefireAfter, FiredTTL, Cooldown, MinTier, MaxTime, MaxAnomalies} \subseteq Nat
    /\ DefaultRules \in Seq(Range(DefaultRules))
    /\ DOMAIN KeyHost = Hosts

VARIABLES
    time,
    throttle,   \* series -> the last anomaly published of it
    ring,       \* the anomalies kept, oldest first
    ticked,     \* this instant's tick has run
    windows,    \* maintenance windows
    al,         \* the alerter: active, ruleHostIdx, fired, ch, dropped, the next
                \* id, and (told) the rule and host of every alert raised
    queue, rejected,
    sending,    \* what the forwarder still has to post: <<recommendation, destination>>
    pushed,     \* told for the properties: every anomaly published,
    handed      \* and those the alerter was given

pipelineVars == <<throttle, ring, pushed>>
alertingVars == <<time, pipelineVars, ticked, windows, al, queue, rejected, sending, handed>>

Newest(s, n) == IF Len(s) > n THEN SubSeq(s, Len(s) - n + 1, Len(s)) ELSE s
Without(f, keys) == [k \in DOMAIN f \ keys |-> f[k]]
With(f, key, v) == [k \in DOMAIN f \cup {key} |-> IF k = key THEN v ELSE f[k]]

AlertingInit ==
    /\ time = 0 /\ ticked = FALSE /\ throttle = <<>> /\ ring = <<>> /\ windows = {}
    /\ al = [active |-> <<>>, idx |-> <<>>, fired |-> <<>>, ch |-> <<>>, dropped |-> 0, next |-> 1, raised |-> <<>>]
    /\ queue = <<>> /\ rejected = {} /\ sending = <<>> /\ pushed = {} /\ handed = {}

-----------------------------------------------------------------------------
(* Detection.  `methods` are the detectors that fired on a deviation that  *)
(* is not negligible, in their order; the numbers they compute are inputs. *)

Consensus(methods) == IF methods = <<"seasonal">> THEN <<>> ELSE methods
Severity(methods) == IF Len(methods) >= 2 THEN "critical" ELSE "warning"

Allowed(series, sev, ts) ==
    series \in DOMAIN throttle =>
        \/ sev = "critical" /\ throttle[series].severity # "critical"
        \/ ts - throttle[series].ts >= Cooldown

Observe(host, metric, value, methods, ts) ==
    LET agreed == Consensus(methods)
        ev == [host |-> host, metric |-> metric, value |-> value, severity |-> Severity(agreed), ts |-> ts]
    IN  /\ Cardinality(pushed) < MaxAnomalies
        /\ agreed # <<>> /\ Allowed(<<host, metric>>, ev.severity, ts)
        /\ throttle' = With(throttle, <<host, metric>>, [severity |-> ev.severity, ts |-> ts])
        /\ ring' = Newest(Append(ring, ev), RingCap)
        /\ pushed' = pushed \cup {[ev |-> ev, at |-> time, ticked |-> ticked, n |-> Cardinality(pushed)]}
        /\ UNCHANGED <<time, ticked, windows, al, queue, rejected, sending, handed>>

\* Those of the elements of s that are in X, in their order.
Among(s, X) == FoldLeft(LAMBDA kept, x : IF x \in X THEN Append(kept, x) ELSE kept, <<>>, s)

RecentAnomalies(host, since) == Among(ring, {ev \in Range(ring) : ev.ts >= since /\ ev.host = host})

-----------------------------------------------------------------------------
(* The alerter.                                                            *)

IsSuppressed(host) == \E w \in windows : w.from <= time /\ time <= w.until /\ w.workload \in {"*", host}

AddMaintenanceWindow(w) ==
    /\ w \notin windows /\ windows' = windows \cup {w}
    /\ UNCHANGED <<time, pipelineVars, ticked, al, queue, rejected, sending, handed>>

RemoveMaintenanceWindow(w) ==
    /\ w \in windows /\ windows' = windows \ {w}
    /\ UNCHANGED <<time, pipelineVars, ticked, al, queue, rejected, sending, handed>>

\* Faulty variant: the eviction forgets the alert as well.
EvictWithIndex(a) ==
    LET old == {k \in DOMAIN a.fired : time - a.fired[k] > FiredTTL}
    IN  [a EXCEPT !.fired = Without(@, old), !.idx = Without(@, old)]
Evict(a) == [a EXCEPT !.fired = Without(@, {k \in DOMAIN @ : time - @[k] > FiredTTL})]

\* A new alert; the channel is never waited for.
Fire(a, key, alert) ==
    [a EXCEPT !.active = With(@, a.next, alert), !.idx = With(@, key, a.next), !.fired = With(@, key, time),
              !.ch = IF Len(@) < ChanCap THEN Append(@, alert) ELSE @,
              !.dropped = IF Len(a.ch) < ChanCap THEN @ ELSE @ + 1,
              !.next = @ + 1, !.raised = Append(@, key)]

Recently(a, key) == key \in DOMAIN a.fired /\ time - a.fired[key] < RefireAfter

Resolve(a, key) ==
    IF key \notin DOMAIN a.idx THEN a
    ELSE LET id == a.idx[key]
             gone == {i \in {id} \cap DOMAIN a.active : a.active[i].status = "active"}
         IN  [a EXCEPT !.active = Without(@, gone), !.idx = Without(@, {key}), !.fired = Without(@, {key})]

EvaluateRule(a, rule, ev) ==
    LET key == <<rule.name, ev.host>>
    IN  IF rule.metric # ev.metric THEN a
        ELSE IF ev.value < rule.threshold THEN Resolve(a, key)
        ELSE IF Recently(a, key) THEN a
        ELSE Fire(a, key, [id |-> a.next, rule |-> rule.name, host |-> ev.host, metric |-> ev.metric, status |-> "active",
                           severity |-> rule.severity, score |-> ev.value \div rule.threshold])

Evaluate(a, ev) ==
    IF IsSuppressed(ev.host) THEN a
    ELSE FoldLeft(LAMBDA b, rule : EvaluateRule(b, rule, ev), Evict(a), DefaultRules)

Acknowledge(id) ==
    /\ id \in DOMAIN al.active /\ al.active[id].status # "acknowledged"
    /\ al' = [al EXCEPT !.active[id].status = "acknowledged"]
    /\ UNCHANGED <<time, pipelineVars, ticked, windows, queue, rejected, sending, handed>>

Delete(id) ==
    /\ id \in DOMAIN al.active
    /\ al' = [al EXCEPT !.active = Without(@, {id})]
    /\ UNCHANGED <<time, pipelineVars, ticked, windows, queue, rejected, sending, handed>>

GetActive == {id \in DOMAIN al.active : al.active[id].status = "active"}

-----------------------------------------------------------------------------
(* The tick: the critical anomalies of the last interval, host by host.    *)

\* Faulty variant: it looks back less than the tick is long.
Criticals == {ev \in Range(ring) : ev.severity = "critical"}
CriticalOfHalf(host, now) == Among(RecentAnomalies(host, now - Interval + 1), Criticals)
Critical(host, now) == Among(RecentAnomalies(host, now - Interval), Criticals)

\* The pipeline lists the hosts of its series by cutting their keys, in any
\* order.
AllHosts == {KeyHost[h] : h \in Hosts}

Tick ==
    /\ time % Interval = 0 /\ ~ticked
    /\ \E order \in SetToSeqs(AllHosts) :
        LET evs == FlattenSeq([i \in DOMAIN order |-> Critical(order[i], time)])
        IN  /\ al' = FoldLeft(Evaluate, al, evs)
            /\ handed' = handed \cup Range(evs)
    /\ ticked' = TRUE
    /\ UNCHANGED <<time, pipelineVars, windows, queue, rejected, sending>>

\* The body of a tick is short against the interval.
Advance ==
    /\ time < MaxTime /\ (time % Interval = 0 => ticked)
    /\ time' = time + 1 /\ ticked' = FALSE
    /\ UNCHANGED <<pipelineVars, windows, al, queue, rejected, sending, handed>>

-----------------------------------------------------------------------------
(* The forwarder, the action engine and the webhooks.                      *)

Profile(score) == IF score <= 5 THEN "plateau" ELSE "spike"

\* The confidence of an anomaly is always 0.75, which is the second tier.
RecommendFromAnomaly(alert) ==
    LET rules == SelectSeq(ActionRules, LAMBDA r : r.profile \in {"", Profile(alert.score)} /\ alert.score >= r.minR)
    IN  [i \in DOMAIN rules |-> [id |-> <<alert.id, rules[i].action>>, host |-> alert.host, tier |-> 2, approved |-> FALSE]]

Enqueue(recs) == queue' = Newest(queue \o recs, QueueCap)

\* One recommendation after the other, and of each the destinations in order.
Forward ==
    /\ al.ch # <<>> /\ sending = <<>>
    /\ LET alert == Head(al.ch)
           recs == IF alert.severity = "critical" THEN RecommendFromAnomaly(alert) ELSE <<>>
       IN  /\ al' = [al EXCEPT !.ch = Tail(@)]
           /\ Enqueue(recs)
           /\ sending' = FoldLeft(LAMBDA s, rec : s \o (IF rec.tier < MinTier THEN <<>>
                                  ELSE [d \in 1..Len(Destinations) |-> <<rec.id, Destinations[d]>>]), <<>>, recs)
    /\ UNCHANGED <<time, pipelineVars, ticked, windows, rejected, handed>>

\* A destination that fails is reported and does not stop the next.
Notify ==
    /\ sending # <<>>
    /\ sending' = Tail(sending)
    /\ UNCHANGED <<time, pipelineVars, ticked, windows, al, queue, rejected, handed>>

PendingActions == SelectSeq(queue, LAMBDA rec : rec.id \notin rejected)

Approve(id) ==
    /\ \E i \in DOMAIN queue : queue[i].id = id /\ ~queue[i].approved
    /\ LET first == CHOOSE i \in DOMAIN queue : queue[i].id = id /\ \A j \in 1..(i - 1) : queue[j].id # id
       IN  queue' = [queue EXCEPT ![first].approved = TRUE]
    /\ UNCHANGED <<time, pipelineVars, ticked, windows, al, rejected, sending, handed>>

Reject(id) ==
    /\ rejected' = rejected \cup {id}
    /\ UNCHANGED <<time, pipelineVars, ticked, windows, al, queue, sending, handed>>

\* Only the autopilot edition approves; only what is pending is rejected.
HandleActions(id) ==
    \/ Edition = "autopilot" /\ Approve(id)
    \/ id \in {PendingActions[i].id : i \in DOMAIN PendingActions} /\ Reject(id)

HandleSuppressions(w) == AddMaintenanceWindow(w) \/ RemoveMaintenanceWindow(w)

AlertingNext ==
    \/ \E h \in Hosts, m \in Metrics, v \in Values, methods \in {<<"zscore">>, <<"seasonal">>, <<"zscore", "mad">>} :
        \E ts \in {time, time - Interval - 1} : Observe(h, m, v, methods, ts)
    \/ \E w \in Windows : HandleSuppressions(w)
    \/ \E id \in DOMAIN al.active : Acknowledge(id) \/ Delete(id)
    \/ Tick \/ Advance \/ Forward
    \/ Notify
    \/ \E i \in DOMAIN queue : HandleActions(queue[i].id)

AlertingSpec == AlertingInit /\ [][AlertingNext]_alertingVars

-----------------------------------------------------------------------------
(* Properties.                                                             *)

NextTick(p) == IF p.at % Interval = 0 /\ ~p.ticked THEN p.at ELSE p.at - (p.at % Interval) + Interval
Past(t) == t < time \/ (t = time /\ ticked)
After(p) == {q \in pushed : q.n > p.n}

HandedOver(p) ==
    p.ev.severity = "critical" /\ Past(NextTick(p)) /\ p.ev.ts >= NextTick(p) - Interval /\ Cardinality(After(p)) < RingCap
        => p.ev \in handed

\* A critical anomaly that is published in the interval it happened in is
\* handed to the alerter by the next tick, unless the ring was overrun first,
\* or the name of its host has a colon: no anomaly falls between two ticks.
\* (the ticker of runWithContext, AllHosts, AnomalyStore)
CriticalIsHandedOver == \A p \in pushed : KeyHost[p.ev.host] = p.ev.host => HandedOver(p)

\* The alert that a rule raised last for a host is the one the index names, as
\* long as it is active: when the condition clears, it is that alert which is
\* resolved.  (Older ones of the rule are never resolved.)
NewestIsResolvable ==
    \A id \in GetActive :
        LET alert == al.active[id]
        IN  (\A other \in 1..(al.next - 1) : other > id => al.raised[other] # <<alert.rule, alert.host>>)
                => <<alert.rule, alert.host>> \in DOMAIN al.idx /\ al.idx[<<alert.rule, alert.host>>] = id
=============================================================================
