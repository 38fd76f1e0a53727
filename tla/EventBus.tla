------------------------------ MODULE EventBus ------------------------------
(***************************************************************************)
(* The NATS bus of internal/eventbus with the local bus inside it.         *)
(* Publishers call the local subscribers, then put the event into a        *)
(* bounded outbox that one flusher empties.  An event is the number it got *)
(* when it entered the outbox.                                             *)
(***************************************************************************)
EXTENDS Integers, FiniteSets, Sequences, Functions

CONSTANTS
    Publishers,
    Topics,         \* what is published
    Interests,       \* what subscribers ask for: a prefix is the set of its topics
    BusCap,         \* 4096: events the outbox holds
    MaxEvents,      \* how many events enter the outbox
    MaxSubs         \* how many subscriptions are made

ASSUME EventBusAssumption ==
    /\ BusCap \in Nat \ {0} /\ {MaxEvents, MaxSubs} \subseteq Nat
    /\ \A p \in Interests : p \subseteq Topics

VARIABLES
    subs,       \* the local subscriptions, oldest first: <<id, prefix>>
    subSeq,     \* the id given last
    publisher,  \* publisher -> where it is in Publish
    outbox,
    enqueued,   \* how many events entered the outbox
    flusher,    \* its state, and the events it holds
    sent,       \* the last event posted to NATS
    stopping    \* of "context" is done and outbox is "closed", what happened

busVars == <<subs, subSeq, publisher, outbox, enqueued, flusher, sent, stopping>>
localVars == <<subs, subSeq>>

NotPublishing == [at |-> "idle", calls |-> <<>>]

BusInit ==
    /\ subs = <<>> /\ subSeq = 0
    /\ publisher = [p \in Publishers |-> NotPublishing]
    /\ outbox = <<>> /\ enqueued = 0 /\ sent = 0
    /\ flusher = [at |-> "select", pending |-> <<>>]
    /\ stopping = {}

-----------------------------------------------------------------------------
(* The local bus.                                                          *)

BusSubscribe(prefix) ==
    /\ subSeq < MaxSubs /\ subSeq' = subSeq + 1
    /\ subs' = Append(subs, <<subSeq', prefix>>)
    /\ UNCHANGED <<publisher, outbox, enqueued, flusher, sent, stopping>>

\* The cancel function of a subscription; a second call does nothing.
BusCancel(id) ==
    /\ subs' = SelectSeq(subs, LAMBDA s : s[1] # id) /\ subs' # subs
    /\ UNCHANGED <<subSeq, publisher, outbox, enqueued, flusher, sent, stopping>>

\* The handlers are collected under the lock and called after it.
Publish(p, topic) ==
    /\ publisher[p].at = "idle" /\ "closed" \notin stopping /\ enqueued < MaxEvents
    /\ publisher' = [publisher EXCEPT ![p] =
        [at |-> "calling", calls |-> SelectSeq(subs, LAMBDA s : topic \in s[2])]]
    /\ UNCHANGED <<localVars, outbox, enqueued, flusher, sent, stopping>>

CallHandler(p) ==
    /\ publisher[p].at = "calling" /\ publisher[p].calls # <<>>
    /\ publisher' = [publisher EXCEPT ![p].calls = Tail(@)]
    /\ UNCHANGED <<localVars, outbox, enqueued, flusher, sent, stopping>>

-----------------------------------------------------------------------------
(* The outbox.  A publisher that finds it full takes one event out and then*)
(* puts its own in: two steps, and it waits for each.                      *)

Put(p) ==
    /\ Len(outbox) < BusCap /\ enqueued < MaxEvents
    /\ outbox' = Append(outbox, enqueued + 1) /\ enqueued' = enqueued + 1
    /\ publisher' = [publisher EXCEPT ![p] = NotPublishing]

EnterQueue(p) ==
    /\ publisher[p].at = "calling" /\ publisher[p].calls = <<>>
    /\ \/ Put(p)
       \/ /\ Len(outbox) = BusCap
          /\ publisher' = [publisher EXCEPT ![p].at = "taking"]
          /\ UNCHANGED <<outbox, enqueued>>
    /\ UNCHANGED <<localVars, flusher, sent, stopping>>

\* Faulty variant: the oldest goes to the back.
Rotated(q) == IF Len(q) > 1 THEN Append(Tail(q), Head(q)) ELSE Tail(q)
Dropped(q) == Tail(q)

TakeOldest(p) ==
    /\ publisher[p].at = "taking" /\ outbox # <<>>
    /\ outbox' = Dropped(outbox)
    /\ publisher' = [publisher EXCEPT ![p].at = "putting"]
    /\ UNCHANGED <<localVars, enqueued, flusher, sent, stopping>>

PutOwn(p) ==
    /\ publisher[p].at = "putting"
    /\ Put(p)
    /\ UNCHANGED <<localVars, flusher, sent, stopping>>

-----------------------------------------------------------------------------
(* The flusher: receives, and on each tick posts what it holds.            *)

FlusherReceive ==
    /\ flusher.at = "select" /\ outbox # <<>>
    /\ flusher' = [flusher EXCEPT !.pending = Append(@, Head(outbox))]
    /\ outbox' = Tail(outbox)
    /\ UNCHANGED <<localVars, publisher, enqueued, sent, stopping>>

FlushTick ==
    /\ flusher.at = "select" /\ flusher.pending # <<>>
    /\ flusher' = [flusher EXCEPT !.at = "posting"]
    /\ UNCHANGED <<localVars, publisher, outbox, enqueued, sent, stopping>>

\* Whether NATS took the event or not, it is not posted again.
PublishOne(ok) ==
    /\ flusher.at \in {"posting", "draining"} /\ flusher.pending # <<>>
    /\ sent' = IF ok THEN Head(flusher.pending) ELSE sent
    /\ flusher' = [flusher EXCEPT !.pending = Tail(@)]
    /\ UNCHANGED <<localVars, publisher, outbox, enqueued, stopping>>

BatchDone ==
    /\ flusher.pending = <<>>
    /\ flusher' = [flusher EXCEPT !.at = CASE @ = "posting" -> "select" [] @ = "draining" -> "ended" [] OTHER -> @]
    /\ flusher' # flusher
    /\ UNCHANGED <<localVars, publisher, outbox, enqueued, sent, stopping>>

\* The context ends: what the flusher holds is lost, the outbox stays.
ContextDone ==
    /\ "context" \notin stopping /\ stopping' = stopping \cup {"context"}
    /\ UNCHANGED <<localVars, publisher, outbox, enqueued, flusher, sent>>

FlusherReturns ==
    /\ "context" \in stopping /\ flusher.at = "select"
    /\ flusher' = [at |-> "ended", pending |-> <<>>]
    /\ UNCHANGED <<localVars, publisher, outbox, enqueued, sent, stopping>>

\* Nobody publishes on a bus that is being closed: a send would panic.
BusClose ==
    /\ "closed" \notin stopping /\ \A p \in Publishers : publisher[p] = NotPublishing
    /\ stopping' = stopping \cup {"closed"}
    /\ UNCHANGED <<localVars, publisher, outbox, enqueued, flusher, sent>>

\* The closed outbox is empty: a last batch.
QueueEnds ==
    /\ "closed" \in stopping /\ flusher.at = "select" /\ outbox = <<>>
    /\ flusher' = [flusher EXCEPT !.at = "draining"]
    /\ UNCHANGED <<localVars, publisher, outbox, enqueued, sent, stopping>>

BusNext ==
    \/ \E prefix \in Interests : BusSubscribe(prefix)
    \/ \E id \in 1..subSeq : BusCancel(id)
    \/ \E p \in Publishers :
        \/ \E topic \in Topics : Publish(p, topic)
        \/ CallHandler(p) \/ EnterQueue(p) \/ TakeOldest(p) \/ PutOwn(p)
    \/ FlusherReceive \/ FlushTick \/ BatchDone
    \/ \E ok \in BOOLEAN : PublishOne(ok)
    \/ ContextDone \/ FlusherReturns \/ BusClose \/ QueueEnds

BusSpec == BusInit /\ [][BusNext]_busVars

-----------------------------------------------------------------------------
(* Properties.                                                             *)

Feed == INSTANCE LossyFeed WITH
    offered <- enqueued,
    waiting <- Range(flusher.pending) \cup Range(outbox),
    last <- sent

\* What reaches NATS reaches it once and in the order of the outbox, whatever
\* publishers take out of it, whichever post fails and however the bus ends.
BusIsALossyFeed == Feed!FeedSpec
=============================================================================
