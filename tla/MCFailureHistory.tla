-------------------------- MODULE MCFailureHistory --------------------------
(* What has failed, and who is told: parts that share no state, each        *)
(* checked on its own.                                                      *)
(*   history   two replicas of one workload, alike but for their names      *)
(*   delivery  two workloads of a namespace, two Alertmanagers              *)
EXTENDS FailureHistory, AlertDelivery, TLC

CONSTANTS web1, web2, web
VARIABLE part

MCOwner == [p \in Pods |-> web]
Symmetric == Permutations({web1, web2})

Saturating(crashing, state) ==
  [est |-> [mode |-> "saturation", pod |-> "p", oom |-> FALSE], crashLoop |-> crashing, state |-> state]
MCSituations == {Well, Saturating(FALSE, "degraded"), Saturating(TRUE, "critical")}
MCNamespaceOf == [w \in Watched |-> "shop"]
MCAlertmanagers == <<"m1", "m2">>

MCInit ==
    /\ part \in {"history", "delivery"}
    /\ Init /\ DeliveryInit
    \* The part that is not checked starts in one way.
    /\ part # "delivery" => scope = "namespace"
MCNext ==
    \/ part = "history" /\ Next /\ UNCHANGED <<part, deliveryVars>>
    \/ part = "delivery" /\ DeliveryNext /\ UNCHANGED <<part, vars>>
MCSpec == MCInit /\ [][MCNext]_<<part, vars, deliveryVars>>

\* AlertsFollowFailures (cmd/ruptura/alerts.go), looked at in its own states.
AlertsAlwaysFollow == part = "delivery" => AlertsFollowFailures
=============================================================================
