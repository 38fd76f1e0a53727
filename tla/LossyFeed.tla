----------------------------- MODULE LossyFeed -----------------------------
(***************************************************************************)
(* What the two feeds of events promise, the queue before NATS             *)
(* (internal/eventbus) and the channel of a subscriber of the event log    *)
(* (internal/events): no producer is held up, so an event may be lost, but *)
(* what arrives arrives once and in the order it was offered.  Events are  *)
(* numbered in that order.                                                 *)
(***************************************************************************)
EXTENDS Integers

VARIABLES
    offered,    \* how many events were offered
    waiting,    \* those that may still arrive
    last        \* the last that arrived

FeedInit == offered = 0 /\ waiting = {} /\ last = 0

\* An event that finds no room is never going to arrive.
Offer ==
    /\ offered' = offered + 1
    /\ waiting' \in {waiting, waiting \cup {offered'}}
    /\ UNCHANGED last

Deliver ==
    /\ last' \in waiting /\ \A e \in waiting : last' <= e
    /\ waiting' = waiting \ {last'}
    /\ UNCHANGED offered

Lose ==
    /\ waiting' \subseteq waiting
    /\ UNCHANGED <<offered, last>>

FeedNext == Offer \/ Deliver \/ Lose

feedVars == <<offered, waiting, last>>
FeedStep == FeedNext \/ UNCHANGED feedVars

FeedSpec == FeedInit /\ [][FeedNext]_feedVars

\* What a consumer may rely on: an event still to come is younger than the
\* last that came.
FeedInOrder == waiting \subseteq (last + 1)..offered
=============================================================================
