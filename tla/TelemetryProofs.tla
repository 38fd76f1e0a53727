-------------------------- MODULE TelemetryProofs --------------------------
(***************************************************************************)
(* What holds of the parts of MCTelemetry for any number of requests,      *)
(* publishers, readers and events and any capacity: the two feeds of       *)
(* events implement LossyFeed, the budget of series is overrun by the      *)
(* requests under way at most, log lines and rates tell the truth, every   *)
(* crossing of a band is logged, critical anomalies reach the alerter,     *)
(* which can resolve what it raised last, and a score is one of what was   *)
(* measured.                                                               *)
(***************************************************************************)
EXTENDS MCTelemetry, LossyFeed, FoldLemmas, FunctionTheorems

(* Of sequences of numbers. *)
Increasing(s) == \A i, j \in 1..Len(s) : i < j => s[i] < s[j]

LEMMA RangeOfAppend ==
  ASSUME NEW s \in Seq(Nat), NEW x \in Nat
  PROVE  Append(s, x) \in Seq(Nat) /\ Range(Append(s, x)) = Range(s) \cup {x}
  <1>1. /\ Append(s, x) \in Seq(Nat) /\ Len(Append(s, x)) = Len(s) + 1 /\ Len(s) \in Nat
        /\ DOMAIN s = 1..Len(s) /\ DOMAIN Append(s, x) = 1..(Len(s) + 1)
        /\ \A i \in 1..Len(s) : Append(s, x)[i] = s[i]
        /\ Append(s, x)[Len(s) + 1] = x
    OBVIOUS
  <1>2. Range(Append(s, x)) \subseteq Range(s) \cup {x}
    <2> SUFFICES ASSUME NEW i \in 1..(Len(s) + 1) PROVE Append(s, x)[i] \in Range(s) \cup {x}
      BY <1>1 DEF Range
    <2>1. i \in 1..Len(s) \/ i = Len(s) + 1
      BY <1>1
    <2> QED
      BY <1>1, <2>1 DEF Range
  <1>3. Range(s) \cup {x} \subseteq Range(Append(s, x))
    <2>1. 1..Len(s) \subseteq 1..(Len(s) + 1) /\ Len(s) + 1 \in 1..(Len(s) + 1)
      BY <1>1
    <2> QED
      BY <1>1, <2>1 DEF Range
  <1> QED
    BY <1>1, <1>2, <1>3

LEMMA RangeOfTail ==
  ASSUME NEW s \in Seq(Nat), s # <<>>
  PROVE  /\ Tail(s) \in Seq(Nat) /\ Head(s) \in Nat
         /\ Range(s) = {Head(s)} \cup Range(Tail(s))
  <1>1. /\ Tail(s) \in Seq(Nat) /\ Len(s) \in Nat \ {0} /\ Len(Tail(s)) = Len(s) - 1
        /\ Head(s) = s[1] /\ DOMAIN s = 1..Len(s) /\ DOMAIN Tail(s) = 1..(Len(s) - 1)
        /\ \A i \in 1..(Len(s) - 1) : Tail(s)[i] = s[i + 1]
        /\ \A i \in 1..Len(s) : s[i] \in Nat
    OBVIOUS
  <1>2. Range(s) \subseteq {Head(s)} \cup Range(Tail(s))
    <2> SUFFICES ASSUME NEW i \in 1..Len(s), i # 1 PROVE s[i] \in Range(Tail(s))
      BY <1>1 DEF Range
    <2>1. i - 1 \in 1..(Len(s) - 1) /\ (i - 1) + 1 = i
      BY <1>1
    <2> QED
      BY <1>1, <2>1 DEF Range
  <1>3. {Head(s)} \cup Range(Tail(s)) \subseteq Range(s)
    <2>1. \A i \in 1..(Len(s) - 1) : i + 1 \in 1..Len(s)
      BY <1>1
    <2>2. 1 \in 1..Len(s)
      BY <1>1
    <2> QED
      BY <1>1, <2>1, <2>2 DEF Range
  <1> QED
    BY <1>1, <1>2, <1>3

LEMMA IncreasingAppend ==
  ASSUME NEW s \in Seq(Nat), NEW x \in Nat, Increasing(s), \A e \in Range(s) : e < x
  PROVE  Increasing(Append(s, x))
  <1>1. /\ Len(Append(s, x)) = Len(s) + 1 /\ Len(s) \in Nat
        /\ \A i \in 1..Len(s) : Append(s, x)[i] = s[i]
        /\ Append(s, x)[Len(s) + 1] = x /\ DOMAIN s = 1..Len(s)
    OBVIOUS
  <1>2. \A i \in 1..Len(s) : s[i] < x
    BY <1>1 DEF Range
  <1> SUFFICES ASSUME NEW i \in 1..(Len(s) + 1), NEW j \in 1..(Len(s) + 1), i < j
               PROVE  Append(s, x)[i] < Append(s, x)[j]
    BY <1>1 DEF Increasing
  <1>3. i \in 1..Len(s) /\ (j \in 1..Len(s) \/ j = Len(s) + 1)
    BY <1>1
  <1> QED
    BY <1>1, <1>2, <1>3 DEF Increasing

LEMMA IncreasingTail ==
  ASSUME NEW s \in Seq(Nat), s # <<>>, Increasing(s)
  PROVE  Increasing(Tail(s)) /\ \A e \in Range(Tail(s)) : Head(s) < e
  <1>1. /\ Len(s) \in Nat \ {0} /\ Len(Tail(s)) = Len(s) - 1
        /\ Head(s) = s[1] /\ DOMAIN Tail(s) = 1..(Len(s) - 1)
        /\ \A i \in 1..(Len(s) - 1) : Tail(s)[i] = s[i + 1]
    OBVIOUS
  <1>2. \A i \in 1..(Len(s) - 1) : i + 1 \in 1..Len(s) /\ 1 < i + 1 /\ 1 \in 1..Len(s)
    BY <1>1
  <1>3. \A i, j \in 1..(Len(s) - 1) : i < j => s[i + 1] < s[j + 1]
    <2> SUFFICES ASSUME NEW i \in 1..(Len(s) - 1), NEW j \in 1..(Len(s) - 1), i < j
                 PROVE  s[i + 1] < s[j + 1]
      OBVIOUS
    <2>1. i + 1 < j + 1
      BY <1>1
    <2> QED
      BY <1>2, <2>1 DEF Increasing
  <1>4. \A i \in 1..(Len(s) - 1) : s[1] < s[i + 1]
    BY <1>2 DEF Increasing
  <1> QED
    BY <1>1, <1>3, <1>4 DEF Increasing, Range

----------------------------------------------------------------------------
(* The queue before NATS.  What the flusher holds is older than the outbox, *)
(* both are in order, and all of it is younger than the last event posted. *)
BusInv ==
  /\ enqueued \in Nat /\ sent \in 0..enqueued /\ outbox \in Seq(Nat)
  /\ flusher \in [at : {"select", "posting", "draining", "ended"}, pending : Seq(Nat)]
  /\ Increasing(flusher.pending) /\ Increasing(outbox)
  /\ \A e \in Range(flusher.pending), f \in Range(outbox) : e < f
  /\ \A e \in Range(flusher.pending) \cup Range(outbox) : sent < e /\ e <= enqueued

LEMMA EmptyIsOrdered == <<>> \in Seq(Nat) /\ Increasing(<<>>) /\ Range(<<>>) = {}
  BY DEF Increasing, Range

LEMMA BusStarts == BusInit => BusInv /\ Feed!FeedInit
  <1> SUFFICES ASSUME BusInit PROVE BusInv /\ Feed!FeedInit
    OBVIOUS
  <1>1. enqueued = 0 /\ sent = 0 /\ outbox = <<>> /\ flusher = [at |-> "select", pending |-> <<>>]
    BY DEF BusInit
  <1>2. flusher.pending = <<>> /\ Range(flusher.pending) \cup Range(outbox) = {}
    BY <1>1, EmptyIsOrdered
  <1>3. flusher \in [at : {"select", "posting", "draining", "ended"}, pending : Seq(Nat)]
    BY <1>1, EmptyIsOrdered
  <1>4. Increasing(flusher.pending) /\ Increasing(outbox) /\ outbox \in Seq(Nat)
    BY <1>1, <1>2, EmptyIsOrdered
  <1>5. BusInv
    BY <1>1, <1>2, <1>3, <1>4 DEF BusInv
  <1>6. Feed!FeedInit
    BY <1>1, <1>2 DEF Feed!FeedInit
  <1> QED
    BY <1>5, <1>6

LEMMA RangeIsNat == ASSUME NEW s \in Seq(Nat) PROVE Range(s) \subseteq Nat
  BY DEF Range

(* A publisher that finds room offers the feed an event.                   *)
LEMMA PutOffers ==
  ASSUME BusInv, NEW p \in Publishers, Put(p), UNCHANGED <<flusher, sent>>
  PROVE  BusInv' /\ Feed!Offer
  <1>1. outbox' = Append(outbox, enqueued + 1) /\ enqueued' = enqueued + 1 /\ enqueued + 1 \in Nat
    BY DEF Put, BusInv
  <1>2. \A e \in Range(flusher.pending) \cup Range(outbox) : e \in Nat /\ sent < e /\ e < enqueued + 1
    BY RangeIsNat DEF BusInv
  <1>3. outbox' \in Seq(Nat) /\ Range(outbox') = Range(outbox) \cup {enqueued + 1}
    BY <1>1, RangeOfAppend DEF BusInv
  <1>4. Increasing(outbox')
    BY <1>1, <1>2, IncreasingAppend DEF BusInv
  <1>5. sent \in 0..(enqueued + 1) /\ sent < enqueued + 1
    BY DEF BusInv
  <1>6. BusInv'
    BY <1>1, <1>2, <1>3, <1>4, <1>5, SMTT(30) DEF BusInv
  <1>7. Feed!Offer
    BY <1>1, <1>3 DEF Feed!Offer
  <1> QED
    BY <1>6, <1>7

(* The flusher or a publisher takes the oldest event of the outbox.        *)
LEMMA OutboxShrinks ==
  ASSUME BusInv, outbox # <<>>
  PROVE  /\ Tail(outbox) \in Seq(Nat) /\ Head(outbox) \in Nat /\ Increasing(Tail(outbox))
         /\ Range(outbox) = {Head(outbox)} \cup Range(Tail(outbox))
         /\ \A e \in Range(Tail(outbox)) : Head(outbox) < e
  BY RangeOfTail, IncreasingTail DEF BusInv

(* Every step of the bus is a step of the feed, or none: TakeOldest loses   *)
(* an event and FlusherReceive moves one, PublishOne delivers one or loses  *)
(* it, and FlusherReturns loses all that the flusher holds.                 *)
LEMMA BusSteps == BusInv /\ [BusNext]_busVars => BusInv' /\ Feed!FeedStep
<1> SUFFICES ASSUME BusInv, [BusNext]_busVars PROVE BusInv' /\ Feed!FeedStep
  OBVIOUS
<1>0. ASSUME UNCHANGED <<outbox, enqueued, sent>>, UNCHANGED flusher.pending,
             flusher' \in [at : {"select", "posting", "draining", "ended"}, pending : Seq(Nat)]
      PROVE  BusInv' /\ Feed!FeedStep
  BY <1>0 DEF BusInv, Feed!FeedStep, Feed!feedVars
<1>1. ASSUME NEW p \in Publishers, EnterQueue(p) \/ PutOwn(p) PROVE BusInv' /\ Feed!FeedStep
  <2>1. CASE UNCHANGED <<outbox, enqueued, flusher, sent>>
    BY <2>1, <1>0 DEF BusInv
  <2>2. CASE Put(p) /\ UNCHANGED <<flusher, sent>>
    BY <2>2, PutOffers DEF Feed!FeedStep, Feed!FeedNext
  <2> QED
    BY <1>1, <2>1, <2>2 DEF EnterQueue, PutOwn
<1>2. ASSUME NEW p \in Publishers, TakeOldest(p) PROVE BusInv' /\ Feed!FeedStep
  <2>1. /\ outbox # <<>> /\ outbox' = Tail(outbox)
        /\ enqueued' = enqueued /\ flusher' = flusher /\ sent' = sent
    BY <1>2 DEF TakeOldest, Dropped
  <2>2. BusInv'
    BY <2>1, OutboxShrinks DEF BusInv
  <2>3. Feed!Lose
    BY <2>1, OutboxShrinks DEF Feed!Lose
  <2> QED
    BY <2>2, <2>3 DEF Feed!FeedStep, Feed!FeedNext
<1>3. CASE FlusherReceive
  <2>1. /\ outbox # <<>> /\ outbox' = Tail(outbox) /\ enqueued' = enqueued /\ sent' = sent
        /\ flusher' = [flusher EXCEPT !.pending = Append(flusher.pending, Head(outbox))]
    BY <1>3 DEF FlusherReceive
  <2>2. /\ flusher' \in [at : {"select", "posting", "draining", "ended"}, pending : Seq(Nat)]
        /\ flusher'.pending = Append(flusher.pending, Head(outbox))
    <3>1. Append(flusher.pending, Head(outbox)) \in Seq(Nat)
      BY <2>1, OutboxShrinks, RangeOfAppend DEF BusInv
    <3> QED
      BY <2>1, <3>1 DEF BusInv
  <2>3. Head(outbox) \in Range(outbox)
    BY <2>1, OutboxShrinks
  <2>4. /\ Range(flusher'.pending) = Range(flusher.pending) \cup {Head(outbox)}
        /\ Increasing(flusher'.pending)
    BY <2>1, <2>2, <2>3, OutboxShrinks, RangeOfAppend, IncreasingAppend DEF BusInv
  <2>5. Range(flusher'.pending) \cup Range(outbox') = Range(flusher.pending) \cup Range(outbox)
    BY <2>1, <2>4, OutboxShrinks
  <2>6. \A e \in Range(flusher'.pending), f \in Range(outbox') : e < f
    BY <2>1, <2>4, OutboxShrinks DEF BusInv
  <2>7. BusInv'
    BY <2>1, <2>2, <2>4, <2>5, <2>6, OutboxShrinks DEF BusInv
  <2> QED
    BY <2>1, <2>5, <2>7 DEF Feed!FeedStep, Feed!feedVars
<1>4. ASSUME NEW ok \in BOOLEAN, PublishOne(ok) PROVE BusInv' /\ Feed!FeedStep
  <2> DEFINE first == Head(flusher.pending)
             others == Tail(flusher.pending)
  <2>1. /\ flusher.pending # <<>> /\ flusher.pending \in Seq(Nat)
        /\ outbox' = outbox /\ enqueued' = enqueued
        /\ sent' = IF ok THEN first ELSE sent
        /\ flusher' = [flusher EXCEPT !.pending = others]
    BY <1>4 DEF PublishOne, BusInv
  <2>2. /\ others \in Seq(Nat) /\ first \in Nat /\ Increasing(others)
        /\ Range(flusher.pending) = {first} \cup Range(others)
        /\ \A e \in Range(others) : first < e
    BY <2>1, RangeOfTail, IncreasingTail DEF BusInv
  <2>3. /\ flusher' \in [at : {"select", "posting", "draining", "ended"}, pending : Seq(Nat)]
        /\ flusher'.pending = others
    BY <2>1, <2>2 DEF BusInv
  <2>4. /\ \A e \in Range(outbox) : first < e /\ e \in Nat
        /\ sent < first /\ first <= enqueued /\ \A e \in Range(others) : e \in Nat
    BY <2>1, <2>2, RangeIsNat DEF BusInv
  <2>5. sent' \in 0..enqueued' /\ \A e \in Range(others) \cup Range(outbox) : sent' < e
    BY <2>1, <2>2, <2>4 DEF BusInv
  <2>6. BusInv'
    BY <2>1, <2>2, <2>3, <2>5 DEF BusInv
  <2>7. CASE ok
    <3>1. Range(others) \cup Range(outbox) = (Range(flusher.pending) \cup Range(outbox)) \ {first}
      BY <2>2, <2>4
    <3>2. \A e \in Range(flusher.pending) \cup Range(outbox) : first <= e
      BY <2>2, <2>4
    <3>3. Feed!Deliver
      BY <2>1, <2>2, <2>3, <2>7, <3>1, <3>2 DEF Feed!Deliver
    <3> QED
      BY <2>6, <3>3 DEF Feed!FeedStep, Feed!FeedNext
  <2>8. CASE ~ok
    <3>1. Feed!Lose
      BY <2>1, <2>2, <2>3, <2>8 DEF Feed!Lose
    <3> QED
      BY <2>6, <3>1 DEF Feed!FeedStep, Feed!FeedNext
  <2> QED
    BY <2>7, <2>8
<1>5. CASE FlusherReturns
  <2>1. /\ flusher' = [at |-> "ended", pending |-> <<>>]
        /\ outbox' = outbox /\ enqueued' = enqueued /\ sent' = sent
    BY <1>5 DEF FlusherReturns
  <2>2. /\ flusher' \in [at : {"select", "posting", "draining", "ended"}, pending : Seq(Nat)]
        /\ flusher'.pending = <<>>
    BY <2>1, EmptyIsOrdered
  <2>3. BusInv'
    BY <2>1, <2>2, EmptyIsOrdered DEF BusInv
  <2>4. Feed!Lose
    BY <2>1, <2>2, EmptyIsOrdered DEF Feed!Lose
  <2> QED
    BY <2>3, <2>4 DEF Feed!FeedStep, Feed!FeedNext
<1>6. CASE FlushTick \/ BatchDone \/ QueueEnds
  <2>1. UNCHANGED <<outbox, enqueued, sent>>
    BY <1>6 DEF FlushTick, BatchDone, QueueEnds
  <2>2. /\ flusher'.pending = flusher.pending
        /\ flusher' \in [at : {"select", "posting", "draining", "ended"}, pending : Seq(Nat)]
    BY <1>6 DEF FlushTick, BatchDone, QueueEnds, BusInv
  <2> QED
    BY <2>1, <2>2, <1>0
<1>7. CASE UNCHANGED <<outbox, enqueued, flusher, sent>>
  BY <1>7, <1>0 DEF BusInv
<1>8. CASE UNCHANGED busVars
  BY <1>7, <1>8 DEF busVars
<1> QED
  BY <1>1, <1>2, <1>3, <1>4, <1>5, <1>6, <1>7, <1>8
     DEF BusNext, BusSubscribe, BusCancel, Publish, CallHandler, ContextDone, BusClose

(* What reaches NATS reaches it once and in the order of Publish: the       *)
(* publishers, the outbox and the flusher of internal/eventbus together     *)
(* implement LossyFeed, for any number of publishers and any capacity.      *)
THEOREM BusImplementsFeed == BusSpec => BusIsALossyFeed
<1>1. BusInv /\ [BusNext]_busVars => [Feed!FeedNext]_<<enqueued, Range(flusher.pending) \cup Range(outbox), sent>>
  BY BusSteps DEF Feed!FeedStep, Feed!feedVars
<1> QED
  BY <1>1, BusStarts, BusSteps, PTL DEF BusSpec, BusIsALossyFeed, Feed!FeedSpec, Feed!feedVars

----------------------------------------------------------------------------
(* The streams of the event log.  A channel holds ids in order, younger     *)
(* than what its client read; no client read an id that was not given.      *)
StreamInv ==
  /\ seq \in Nat /\ read \in [Readers -> 0..seq]
  /\ DOMAIN subscribers \subseteq Readers
  /\ \A c \in DOMAIN subscribers :
        /\ subscribers[c] \in Seq(Nat) /\ Increasing(subscribers[c])
        /\ \A e \in Range(subscribers[c]) : read[c] < e /\ e <= seq

LEMMA StreamStarts == LogInit => StreamInv /\ \A c \in Readers : Stream(c)!FeedInit
<1> SUFFICES ASSUME LogInit PROVE StreamInv /\ \A c \in Readers : Stream(c)!FeedInit
  OBVIOUS
<1>1. seq = 0 /\ read = [c \in Readers |-> 0] /\ DOMAIN subscribers = {}
  BY DEF LogInit
<1>2. StreamInv
  BY <1>1 DEF StreamInv
<1>3. \A c \in Readers : Stream(c)!FeedInit
  BY <1>1 DEF Stream!FeedInit
<1> QED
  BY <1>2, <1>3

(* The event is offered to every stream, and finds room in it or not.       *)
LEMMA PushOffers ==
  ASSUME StreamInv, NEW ev, Push(ev), UNCHANGED read
  PROVE  StreamInv' /\ \A c \in Readers : Stream(c)!Offer
<1>1. /\ seq \in Nat /\ seq' = seq + 1 /\ read' = read
      /\ subscribers' = [c \in DOMAIN subscribers |->
            IF Len(subscribers[c]) < SubCap THEN Append(subscribers[c], seq + 1) ELSE subscribers[c]]
  BY DEF Push, StreamInv
<1>2. ASSUME NEW c \in DOMAIN subscribers
      PROVE  /\ Append(subscribers[c], seq + 1) \in Seq(Nat)
             /\ Increasing(Append(subscribers[c], seq + 1))
             /\ Range(Append(subscribers[c], seq + 1)) = Range(subscribers[c]) \cup {seq + 1}
  <2>1. subscribers[c] \in Seq(Nat) /\ Increasing(subscribers[c]) /\ seq + 1 \in Nat
    BY <1>1 DEF StreamInv
  <2>2. \A e \in Range(subscribers[c]) : e < seq + 1
    BY <1>1, <2>1, RangeIsNat DEF StreamInv
  <2> QED
    BY <2>1, <2>2, RangeOfAppend, IncreasingAppend
<1>3. ASSUME NEW c \in DOMAIN subscribers
      PROVE  /\ subscribers'[c] \in Seq(Nat) /\ Increasing(subscribers'[c])
             /\ Range(subscribers'[c]) \in {Range(subscribers[c]), Range(subscribers[c]) \cup {seq + 1}}
  <2>1. CASE Len(subscribers[c]) < SubCap
    BY <1>1, <1>2, <2>1
  <2>2. CASE ~(Len(subscribers[c]) < SubCap)
    BY <1>1, <2>2 DEF StreamInv
  <2> QED
    BY <2>1, <2>2
<1>4. ASSUME NEW c \in DOMAIN subscribers
      PROVE  \A e \in Range(subscribers'[c]) : read'[c] < e /\ e <= seq'
  <2>1. read[c] \in 0..seq /\ \A e \in Range(subscribers[c]) : e \in Nat /\ read[c] < e /\ e <= seq
    BY RangeIsNat DEF StreamInv
  <2>2. seq \in Nat /\ seq' = seq + 1 /\ read'[c] = read[c]
    BY <1>1 DEF StreamInv
  <2>3. ASSUME NEW e \in Range(subscribers[c])
        PROVE  read'[c] < e /\ e <= seq'
    BY <2>1, <2>2
  <2>4. read'[c] < seq + 1 /\ seq + 1 <= seq'
    BY <2>1, <2>2
  <2> QED
    BY <1>3, <2>3, <2>4
<1>5. StreamInv'
  BY <1>1, <1>3, <1>4 DEF StreamInv
<1>6. ASSUME NEW c \in Readers PROVE Stream(c)!Offer
  BY <1>1, <1>3 DEF Stream!Offer
<1> QED
  BY <1>5, <1>6

(* A step of the log is for every stream a step of the feed, or none: a     *)
(* client that leaves loses what its channel holds, and one that comes back *)
(* starts with an empty one.                                                *)
LEMMA StreamSteps ==
  StreamInv /\ [LogNext]_logVars => StreamInv' /\ \A c \in Readers : Stream(c)!FeedStep
<1> SUFFICES ASSUME StreamInv, [LogNext]_logVars
             PROVE  StreamInv' /\ \A c \in Readers : Stream(c)!FeedStep
  OBVIOUS
<1>1. CASE UNCHANGED <<seq, subscribers, read>>
  <2>1. StreamInv'
    BY <1>1 DEF StreamInv
  <2>2. \A c \in Readers : Stream(c)!FeedStep
    BY <1>1 DEF Stream!FeedStep, Stream!feedVars
  <2> QED
    BY <2>1, <2>2
<1>2. ASSUME NEW o \in Observers, Log(o) PROVE StreamInv' /\ \A c \in Readers : Stream(c)!FeedStep
  <2>1. CASE \E ev : Push(ev)
    BY <1>2, <2>1, PushOffers DEF Log, Stream!FeedStep, Stream!FeedNext
  <2> QED
    BY <1>1, <1>2, <2>1 DEF Log
<1>3. ASSUME NEW c \in Readers, Subscribe(c) PROVE StreamInv' /\ \A d \in Readers : Stream(d)!FeedStep
  <2>1. /\ c \notin DOMAIN subscribers /\ seq' = seq /\ read' = read
        /\ subscribers' = [d \in DOMAIN subscribers \cup {c} |-> IF d = c THEN <<>> ELSE subscribers[d]]
    BY <1>3 DEF Subscribe, NewChannel
  <2>2. /\ DOMAIN subscribers' = DOMAIN subscribers \cup {c} /\ subscribers'[c] = <<>>
        /\ \A d \in DOMAIN subscribers : subscribers'[d] = subscribers[d]
    BY <2>1
  <2>3. StreamInv'
    BY <2>1, <2>2, EmptyIsOrdered DEF StreamInv
  <2>4. \A d \in Readers : Stream(d)!FeedStep
    BY <2>1, <2>2, EmptyIsOrdered DEF Stream!FeedStep, Stream!feedVars
  <2> QED
    BY <2>3, <2>4
<1>4. ASSUME NEW c \in Readers, Unsubscribe(c) PROVE StreamInv' /\ \A d \in Readers : Stream(d)!FeedStep
  <2>1. /\ seq' = seq /\ read' = read /\ DOMAIN subscribers' = DOMAIN subscribers \ {c}
        /\ \A d \in DOMAIN subscribers \ {c} : subscribers'[d] = subscribers[d]
    BY <1>4 DEF Unsubscribe
  <2>2. StreamInv'
    BY <2>1 DEF StreamInv
  <2>3. \A d \in Readers : Stream(d)!Lose
    BY <2>1 DEF Stream!Lose
  <2> QED
    BY <2>2, <2>3 DEF Stream!FeedStep, Stream!FeedNext
<1>5. ASSUME NEW c \in Readers, ReadEvent(c) PROVE StreamInv' /\ \A d \in Readers : Stream(d)!FeedStep
  <2> DEFINE first == Head(subscribers[c])
             others == Tail(subscribers[c])
  <2>1. /\ c \in DOMAIN subscribers /\ subscribers[c] # <<>> /\ seq' = seq
        /\ read' = [read EXCEPT ![c] = first] /\ DOMAIN subscribers' = DOMAIN subscribers
        /\ subscribers'[c] = others
        /\ \A d \in DOMAIN subscribers \ {c} : subscribers'[d] = subscribers[d]
    BY <1>5 DEF ReadEvent
  <2>2. /\ others \in Seq(Nat) /\ first \in Nat /\ Increasing(others)
        /\ Range(subscribers[c]) = {first} \cup Range(others)
        /\ \A e \in Range(others) : first < e /\ e \in Nat
    BY <2>1, RangeOfTail, IncreasingTail, RangeIsNat DEF StreamInv
  <2>3. read[c] \in 0..seq /\ read[c] < first /\ first <= seq
    BY <2>1, <2>2 DEF StreamInv
  <2>4. /\ read' \in [Readers -> 0..seq] /\ read'[c] = first
        /\ \A d \in Readers \ {c} : read'[d] = read[d]
    BY <2>1, <2>2, <2>3 DEF StreamInv
  <2>5. StreamInv'
    <3>1. ASSUME NEW d \in DOMAIN subscribers
          PROVE  /\ subscribers'[d] \in Seq(Nat) /\ Increasing(subscribers'[d])
                 /\ \A e \in Range(subscribers'[d]) : read'[d] < e /\ e <= seq
      BY <2>1, <2>2, <2>4 DEF StreamInv
    <3> QED
      BY <2>1, <2>4, <3>1 DEF StreamInv
  <2>6. Stream(c)!Deliver
    <3>1. Range(others) = Range(subscribers[c]) \ {first} /\ \A e \in Range(subscribers[c]) : first <= e
      BY <2>2
    <3> QED
      BY <2>1, <2>2, <2>4, <3>1 DEF Stream!Deliver
  <2>7. ASSUME NEW d \in Readers \ {c} PROVE UNCHANGED Stream(d)!feedVars
    BY <2>1, <2>4 DEF Stream!feedVars
  <2> QED
    BY <2>5, <2>6, <2>7 DEF Stream!FeedStep, Stream!FeedNext
<1>6. CASE UNCHANGED logVars
  BY <1>1, <1>6 DEF logVars
<1> QED
  BY <1>1, <1>2, <1>3, <1>4, <1>5, <1>6 DEF LogNext, ObserveFusedR

(* The channel of every client that streams the log of internal/events      *)
(* implements LossyFeed across its disconnections, for any number of        *)
(* clients and any capacity: it loses events at most.                       *)
THEOREM StreamImplementsFeed == LogSpec => StreamIsALossyFeed
<1>1. StreamInv /\ [LogNext]_logVars => [\A c \in Readers : Stream(c)!FeedStep]_logVars
  BY StreamSteps
<1>2. LogInit => \A c \in Readers : Stream(c)!FeedInit
  BY StreamStarts
<1> QED
  BY <1>1, <1>2, StreamStarts, StreamSteps, PTL DEF LogSpec, StreamIsALossyFeed

(* Both feeds of events of the telemetry, the parts "log" and "bus" of      *)
(* MCTelemetry, lose events at most and never repeat or reorder them.       *)
THEOREM FeedsLoseAtMost == MCSpec => FeedsAreLossy
<1>1. MCInit => LogInit /\ BusInit
  BY DEF MCInit
<1>2. [MCNext]_allVars => [LogNext]_logVars /\ [BusNext]_busVars
  BY DEF MCNext, allVars
<1>3. MCSpec => LogSpec /\ BusSpec
  BY <1>1, <1>2, PTL DEF MCSpec, LogSpec, BusSpec
<1> QED
  BY <1>3, StreamImplementsFeed, BusImplementsFeed DEF FeedsAreLossy

----------------------------------------------------------------------------
(* The budget of series.  A request past the check of the limit is on its   *)
(* way to one more series: it counts as one, before it stored it.  It saw   *)
(* room only when the counter showed room, and the counter lags behind by   *)
(* the requests between their two writes.                                   *)
Places == {"idle", "load", "count", "store", "add", "accepted"}

RequestsHold ==
  /\ DOMAIN receiver = Receivers
  /\ \A r \in Receivers :
        /\ receiver[r] = [at |-> receiver[r].at, series |-> receiver[r].series]
        /\ receiver[r].at \in Places
        /\ receiver[r].at \in {"add", "accepted"} => receiver[r].series \in active

RoomIsKept ==
  /\ seriesCount \in Nat /\ IsFiniteSet(active)
  /\ Cardinality(active) + Cardinality(Where("store")) <= SeriesLimit + Cardinality(Receivers) - 1
  /\ Cardinality(active) <= seriesCount + Cardinality(Where("add"))

Accounted == sampled \subseteq {s[1] : s \in active} \cup {ExtractRef(res) : res \in Resources}

IngestInv == RequestsHold /\ RoomIsKept /\ Accounted

LEMMA PlacesAreDisjoint ==
  ASSUME IsFiniteSet(Receivers)
  PROVE  /\ \A where : IsFiniteSet(Where(where)) /\ Cardinality(Where(where)) \in Nat
         /\ Cardinality(Receivers) \in Nat
         /\ Cardinality(Where("store")) + Cardinality(Where("add")) <= Cardinality(Receivers)
         /\ \A r \in Receivers : receiver[r].at = "count" =>
               Cardinality(Where("store")) + Cardinality(Where("add")) + 1 <= Cardinality(Receivers)
<1>1. \A where : Where(where) \subseteq Receivers
  BY DEF Where
<1>2. \A where : IsFiniteSet(Where(where)) /\ Cardinality(Where(where)) \in Nat
  BY <1>1, FS_Subset, FS_CardinalityType
<1>3. Cardinality(Receivers) \in Nat
  BY FS_CardinalityType
<1> DEFINE both == Where("store") \cup Where("add")
<1>4. Where("store") \cap Where("add") = {}
  BY DEF Where
<1>5. IsFiniteSet(both) /\ Cardinality(both) = Cardinality(Where("store")) + Cardinality(Where("add"))
  <2>1. Cardinality(Where("store") \cap Where("add")) = 0
    BY <1>4, FS_EmptySet
  <2>2. /\ IsFiniteSet(both)
        /\ Cardinality(both) = Cardinality(Where("store")) + Cardinality(Where("add"))
                               - Cardinality(Where("store") \cap Where("add"))
    BY <1>2, FS_Union
  <2> QED
    BY <1>2, <2>1, <2>2
<1>6. Cardinality(both) <= Cardinality(Receivers)
  BY <1>1, FS_Subset
<1>7. ASSUME NEW r \in Receivers, receiver[r].at = "count"
      PROVE  Cardinality(both) + 1 <= Cardinality(Receivers)
  <2>1. r \notin both
    BY <1>7 DEF Where
  <2>2. Cardinality(both \cup {r}) = Cardinality(both) + 1
    BY <1>5, <2>1, FS_AddElement
  <2>3. Cardinality(both \cup {r}) <= Cardinality(Receivers)
    BY <1>1, FS_Subset
  <2> QED
    BY <2>2, <2>3
<1> QED
  BY <1>2, <1>3, <1>5, <1>6, <1>7

(* A request moves from one place to another, and no other does.            *)
At(requests, where) == {r \in Receivers : requests[r].at = where}

Moved(f, g, r, at) ==
  /\ DOMAIN f = Receivers /\ g[r].at = at /\ \A q \in Receivers \ {r} : g[q] = f[q]

LEMMA PlacesMove ==
  ASSUME IsFiniteSet(Receivers), NEW r \in Receivers, NEW f, NEW g, NEW at, Moved(f, g, r, at), NEW where
  PROVE  /\ f[r].at # where /\ at # where => Cardinality(At(g, where)) = Cardinality(At(f, where))
         /\ f[r].at # where /\ at = where => Cardinality(At(g, where)) = Cardinality(At(f, where)) + 1
         /\ f[r].at = where /\ at # where => Cardinality(At(g, where)) = Cardinality(At(f, where)) - 1
<1>1. g[r].at = at /\ \A q \in Receivers \ {r} : g[q] = f[q]
  BY DEF Moved
<1>2. IsFiniteSet(At(f, where))
  BY FS_Subset DEF At
<1>3. CASE f[r].at # where /\ at # where
  <2>1. At(g, where) = At(f, where)
    BY <1>1, <1>3 DEF At
  <2> QED
    BY <1>3, <2>1
<1>4. CASE f[r].at # where /\ at = where
  <2>1. At(g, where) = At(f, where) \cup {r} /\ r \notin At(f, where)
    BY <1>1, <1>4 DEF At
  <2> QED
    BY <1>2, <1>4, <2>1, FS_AddElement
<1>5. CASE f[r].at = where /\ at # where
  <2>1. At(g, where) = At(f, where) \ {r} /\ r \in At(f, where)
    BY <1>1, <1>5 DEF At
  <2> QED
    BY <1>2, <1>5, <2>1, FS_RemoveElement
<1> QED
  BY <1>3, <1>4, <1>5

LEMMA RequestIsMoved ==
  ASSUME RequestsHold, NEW r \in Receivers, NEW at, NEW series,
         receiver' = [receiver EXCEPT ![r] = [at |-> at, series |-> series]]
  PROVE  Moved(receiver, receiver', r, at)
  BY DEF RequestsHold, Moved

LEMMA WhereIsAt == \A where : Where(where) = At(receiver, where)
  BY DEF Where, At

(* Where one request moves, the places of the others stay.                  *)
LEMMA RequestMoves ==
  ASSUME RequestsHold, NEW r \in Receivers, NEW at \in Places, NEW series,
         receiver' = [receiver EXCEPT ![r] = [at |-> at, series |-> series]],
         active \subseteq active', at \in {"add", "accepted"} => series \in active'
  PROVE  RequestsHold'
  BY DEF RequestsHold

LEMMA GoesMoves ==
  ASSUME RequestsHold, NEW r \in Receivers, NEW at, Goes(r, at)
  PROVE  receiver' = [receiver EXCEPT ![r] = [at |-> at, series |-> receiver[r].series]]
<1>1. receiver[r] = [at |-> receiver[r].at, series |-> receiver[r].series]
  BY DEF RequestsHold
<1>2. [receiver[r] EXCEPT !.at = at] = [at |-> at, series |-> receiver[r].series]
  BY <1>1
<1> QED
  BY <1>2 DEF Goes

LEMMA IngestStarts == IsFiniteSet(Receivers) /\ IngestInit => IngestInv
<1> SUFFICES ASSUME IsFiniteSet(Receivers), IngestInit PROVE IngestInv
  OBVIOUS
<1>1. RequestsHold /\ Accounted
  BY DEF IngestInit, RequestsHold, Accounted, NoRequestYet, Places
<1>2. Where("store") = {} /\ Where("add") = {} /\ active = {} /\ seriesCount = 0
  BY DEF IngestInit, Where, NoRequestYet
<1>3. Cardinality(Receivers) \in Nat
  BY FS_CardinalityType
<1>4. RoomIsKept
  BY <1>2, <1>3, FS_EmptySet, IngestAssumption DEF RoomIsKept
<1> QED
  BY <1>1, <1>4 DEF IngestInv

LEMMA IngestStays == IsFiniteSet(Receivers) /\ IngestInv /\ [IngestNext]_ingestVars => IngestInv'
<1> SUFFICES ASSUME IsFiniteSet(Receivers), IngestInv, [IngestNext]_ingestVars PROVE IngestInv'
  OBVIOUS
<1> DEFINE store == Cardinality(At(receiver, "store"))
           add   == Cardinality(At(receiver, "add"))
           n     == Cardinality(active)
<1>a. Cardinality(Where("store")) = store /\ Cardinality(Where("add")) = add
  BY WhereIsAt
<1>b. Cardinality(Where("store"))' = store' /\ Cardinality(Where("add"))' = add'
  BY DEF Where, At
<1>0. /\ RequestsHold /\ Accounted /\ DOMAIN receiver = Receivers
      /\ seriesCount \in Nat /\ IsFiniteSet(active) /\ n \in Nat
      /\ store \in Nat /\ add \in Nat /\ Cardinality(Receivers) \in Nat /\ SeriesLimit \in Nat \ {0}
      /\ n + store <= SeriesLimit + Cardinality(Receivers) - 1
      /\ n <= seriesCount + add
  BY <1>a, PlacesAreDisjoint, FS_CardinalityType, IngestAssumption DEF IngestInv, RoomIsKept, RequestsHold
<1>1. ASSUME UNCHANGED <<active, seriesCount, receiver>>, Accounted' PROVE IngestInv'
  BY <1>0, <1>1 DEF IngestInv, RequestsHold, RoomIsKept, Where
<1>2. ASSUME NEW r \in Receivers, NEW at \in Places, NEW series,
             receiver' = [receiver EXCEPT ![r] = [at |-> at, series |-> series]],
             receiver[r].at \notin {"store", "add"}, at \notin {"store", "add"},
             at = "accepted" => series \in active,
             UNCHANGED <<active, seriesCount>>, Accounted'
      PROVE  IngestInv'
  <2>0. Moved(receiver, receiver', r, at)
    BY <1>0, <1>2, RequestIsMoved
  <2>1. store' = store /\ add' = add
    BY <1>2, <2>0, PlacesMove
  <2>2. RequestsHold'
    BY <1>0, <1>2, RequestMoves
  <2> QED
    BY <1>0, <1>b, <1>2, <2>1, <2>2 DEF IngestInv, RoomIsKept
<1>3. ASSUME NEW r \in Receivers, NEW metric \in MetricNames, NEW res \in Resources, Receive(r, res, metric)
      PROVE  IngestInv'
  BY <1>0, <1>2, <1>3 DEF Receive, Places, Accounted
<1>4. ASSUME NEW r \in Receivers, NEW metric \in MetricNames, NEW label \in HostLabels,
             ReceiveSeries(r, label, metric)
      PROVE  IngestInv'
  BY <1>0, <1>2, <1>4 DEF ReceiveSeries, Places, Accounted
<1>5. ASSUME NEW r \in Receivers, LoadSeries(r) PROVE IngestInv'
  <2> DEFINE at == IF receiver[r].series \in active THEN "accepted" ELSE "count"
  <2>1. receiver' = [receiver EXCEPT ![r] = [at |-> at, series |-> receiver[r].series]]
    BY <1>0, <1>5, GoesMoves DEF LoadSeries
  <2> QED
    BY <1>0, <1>2, <1>5, <2>1 DEF LoadSeries, Places, Accounted
<1>6. ASSUME NEW r \in Receivers, LoadCount(r) PROVE IngestInv'
  <2>1. CASE ~WithinLimit(seriesCount)
    BY <1>0, <1>2, <1>6, <2>1 DEF LoadCount, NoRequestYet, Places, Accounted
  <2>2. CASE WithinLimit(seriesCount)
    <3>1. receiver' = [receiver EXCEPT ![r] = [at |-> "store", series |-> receiver[r].series]]
      BY <1>0, <1>6, <2>2, GoesMoves DEF LoadCount
    <3>2. receiver[r].at = "count" /\ UNCHANGED <<active, seriesCount, sampled>>
      BY <1>6 DEF LoadCount
    <3>0. Moved(receiver, receiver', r, "store")
      BY <1>0, <3>1, RequestIsMoved
    <3>3. store' = store + 1 /\ add' = add
      BY <3>0, <3>2, PlacesMove
    <3>4. RequestsHold'
      BY <1>0, <3>1, <3>2, RequestMoves DEF Places
    <3>5. store + add + 1 <= Cardinality(Receivers)
      BY <1>a, <3>2, PlacesAreDisjoint
    <3>6. seriesCount < SeriesLimit
      BY <2>2 DEF WithinLimit
    <3>7. n + (store + 1) <= SeriesLimit + Cardinality(Receivers) - 1
      BY <1>0, <3>5, <3>6
    <3> QED
      BY <1>0, <1>b, <3>2, <3>3, <3>4, <3>7 DEF IngestInv, RoomIsKept, Accounted
  <2> QED
    BY <2>1, <2>2
<1>7. ASSUME NEW r \in Receivers, StoreSeries(r) PROVE IngestInv'
  <2>1. receiver' = [receiver EXCEPT ![r] = [at |-> "add", series |-> receiver[r].series]]
    BY <1>0, <1>7, GoesMoves DEF StoreSeries
  <2>2. /\ receiver[r].at = "store" /\ active' = active \cup {receiver[r].series}
        /\ UNCHANGED <<seriesCount, sampled>>
    BY <1>7 DEF StoreSeries
  <2>0. Moved(receiver, receiver', r, "add")
    BY <1>0, <2>1, RequestIsMoved
  <2>3. store' = store - 1 /\ add' = add + 1
    BY <2>0, <2>2, PlacesMove
  <2>4. RequestsHold'
    BY <1>0, <2>1, <2>2, RequestMoves DEF Places
  <2>5. IsFiniteSet(active') /\ n' \in Nat /\ n' <= n + 1
    <3>1. /\ IsFiniteSet(active \cup {receiver[r].series})
          /\ Cardinality(active \cup {receiver[r].series}) \in {n, n + 1}
      BY <1>0, FS_AddElement
    <3> QED
      BY <1>0, <2>2, <3>1
  <2>6. RoomIsKept'
    BY <1>0, <1>b, <2>2, <2>3, <2>5 DEF RoomIsKept
  <2> QED
    BY <1>0, <2>2, <2>4, <2>6 DEF IngestInv, Accounted
<1>8. ASSUME NEW r \in Receivers, AddSeries(r) PROVE IngestInv'
  <2>1. receiver' = [receiver EXCEPT ![r] = [at |-> "accepted", series |-> receiver[r].series]]
    BY <1>0, <1>8, GoesMoves DEF AddSeries
  <2>2. receiver[r].at = "add" /\ seriesCount' = seriesCount + 1 /\ UNCHANGED <<active, sampled>>
    BY <1>8 DEF AddSeries
  <2>0. Moved(receiver, receiver', r, "accepted")
    BY <1>0, <2>1, RequestIsMoved
  <2>3. store' = store /\ add' = add - 1
    BY <2>0, <2>2, PlacesMove
  <2>4. RequestsHold'
    BY <1>0, <2>1, <2>2, RequestMoves DEF Places, RequestsHold
  <2>5. RoomIsKept'
    BY <1>0, <1>b, <2>2, <2>3 DEF RoomIsKept
  <2> QED
    BY <1>0, <2>2, <2>4, <2>5 DEF IngestInv, Accounted
<1>9. ASSUME NEW r \in Receivers, Accept(r) PROVE IngestInv'
  <2>1. receiver[r].series \in active
    BY <1>0, <1>9 DEF Accept, RequestsHold
  <2> QED
    BY <1>0, <1>2, <1>9, <2>1 DEF Accept, NoRequestYet, Places, Accounted
<1>10. CASE UNCHANGED ingestVars \/ \E pod \in DOMAIN OwnerOf : InformerLearns(pod) \/ InformerForgets(pod)
  BY <1>0, <1>1, <1>10 DEF ingestVars, InformerLearns, InformerForgets, Accounted
<1>11. ASSUME NEW res \in Resources, ReceiveLines(res) PROVE IngestInv'
  BY <1>0, <1>1, <1>11 DEF ReceiveLines, Accounted
<1> QED
  BY <1>3, <1>4, <1>5, <1>6, <1>7, <1>8, <1>9, <1>10, <1>11 DEF IngestNext

(* However many requests of internal/ingest race between the check of the   *)
(* limit and the two writes, the series exceed the limit by one less than   *)
(* there are requests at most, the counter lags behind by those about to    *)
(* add to it at most, and no sample enters the pipeline unaccounted for.    *)
THEOREM SeriesStayWithinLimit ==
  ASSUME IsFiniteSet(Receivers)
  PROVE  IngestSpec => []SeriesWithinLimit
<1>1. IngestInv => SeriesWithinLimit
  <2> SUFFICES ASSUME IngestInv PROVE SeriesWithinLimit
    OBVIOUS
  <2>1. /\ Cardinality(active) \in Nat /\ Cardinality(Where("store")) \in Nat
        /\ Cardinality(Receivers) \in Nat /\ SeriesLimit \in Nat
    BY PlacesAreDisjoint, FS_CardinalityType, IngestAssumption DEF IngestInv, RoomIsKept
  <2> QED
    BY <2>1 DEF IngestInv, RoomIsKept, Accounted, SeriesWithinLimit
<1> QED
  BY <1>1, IngestStarts, IngestStays, PTL DEF IngestSpec
-----------------------------------------------------------------------------
(***************************************************************************)
(* What a consumer of either feed of events may rely on, from the abstract *)
(* specification alone (LossyFeed): the event log and the queue before     *)
(* NATS implement it (FeedsAreLossy), so it holds of both.                 *)
(***************************************************************************)
FeedTypeOK == offered \in Nat /\ last \in Nat /\ waiting \subseteq Nat

FeedInv == FeedTypeOK /\ FeedInOrder /\ last <= offered

LEMMA FeedInvStarts == FeedInit => FeedInv
  BY DEF FeedInit, FeedInv, FeedTypeOK, FeedInOrder

LEMMA Younger ==
  \A a, b, c \in Nat : a <= b /\ b # a /\ b <= c => b \in (a + 1)..c
  OBVIOUS

LEMMA FeedInvStays == FeedInv /\ [FeedNext]_feedVars => FeedInv'
<1> SUFFICES ASSUME FeedInv, [FeedNext]_feedVars PROVE FeedInv'
  OBVIOUS
<1>0. /\ offered \in Nat /\ last \in Nat /\ waiting \subseteq Nat
      /\ waiting \subseteq (last + 1)..offered /\ last <= offered
  BY DEF FeedInv, FeedTypeOK, FeedInOrder
<1>1. CASE Offer
  BY <1>0, <1>1 DEF Offer, FeedInv, FeedTypeOK, FeedInOrder
<1>2. CASE Deliver
  <2>1. last' \in waiting /\ waiting' = waiting \ {last'} /\ offered' = offered
    BY <1>2 DEF Deliver
  <2>2. last' \in Nat /\ last' <= offered
    BY <1>0, <2>1
  <2>3. ASSUME NEW e \in waiting' PROVE e \in (last' + 1)..offered
    <3>1. e \in waiting /\ e # last' /\ last' <= e
      BY <1>2, <2>1 DEF Deliver
    <3>2. e \in Nat /\ e <= offered
      BY <1>0, <3>1
    <3>3. QED
      BY <1>0, <2>2, <3>1, <3>2, Younger
  <2>4. waiting' \subseteq (last' + 1)..offered'
    BY <2>1, <2>3
  <2>5. QED
    BY <1>0, <2>1, <2>2, <2>4 DEF FeedInv, FeedTypeOK, FeedInOrder
<1>3. CASE Lose
  BY <1>0, <1>3 DEF Lose, FeedInv, FeedTypeOK, FeedInOrder
<1>4. CASE UNCHANGED feedVars
  BY <1>0, <1>4 DEF feedVars, FeedInv, FeedTypeOK, FeedInOrder
<1>5. QED
  BY <1>1, <1>2, <1>3, <1>4 DEF FeedNext

(* An event still to come was offered after the last that came, so a        *)
(* consumer never reads an event twice or after a younger one: the ids of   *)
(* a stream of internal/events grow, and the queue of internal/eventbus     *)
(* sends in the order of Publish, however many events either lost.          *)
THEOREM FeedKeepsOrder == FeedSpec => []FeedInOrder
<1>1. FeedInv => FeedInOrder
  BY DEF FeedInv
<1>2. QED
  BY <1>1, FeedInvStarts, FeedInvStays, PTL DEF FeedSpec

(* What arrives, arrives in order: a step that delivers an event delivers a *)
(* younger one than any step before it.                                     *)
THEOREM FeedNeverGoesBack == FeedSpec => [][last' >= last]_feedVars
<1>1. FeedInv /\ [FeedNext]_feedVars => [last' >= last]_feedVars
  <2> SUFFICES ASSUME FeedInv, [FeedNext]_feedVars, feedVars' # feedVars PROVE last' >= last
    BY DEF feedVars
  <2>1. CASE last' = last
    BY <2>1 DEF FeedInv, FeedTypeOK
  <2>2. CASE Deliver
    <3>1. last' \in waiting
      BY <2>2 DEF Deliver
    <3>2. last' \in (last + 1)..offered
      BY <3>1 DEF FeedInv, FeedInOrder
    <3>3. QED
      BY <3>2 DEF FeedInv, FeedTypeOK
  <2>3. QED
    BY <2>1, <2>2 DEF FeedNext, Offer, Lose, feedVars
<1>2. QED
  BY <1>1, FeedInvStarts, FeedInvStays, PTL DEF FeedSpec

----------------------------------------------------------------------------
(* The samples made of log lines: what was emitted for a source and what    *)
(* its bucket holds add up to the lines received.                           *)
LineCount == [volume : Nat, errors : Nat]
HeldCount(s) == [volume |-> buckets[s].volume, errors |-> buckets[s].errors]

BucketInv ==
  /\ lines \in [LogSources -> LineCount] /\ emitted \in [LogSources -> Seq(LineCount)]
  /\ DOMAIN buckets \subseteq LogSources
  /\ \A s \in DOMAIN buckets : HeldCount(s) \in LineCount /\ buckets[s].volume > 0
  /\ LinesAreConserved

LEMMA TogetherOfAppend ==
  ASSUME NEW c \in Seq(LineCount), NEW x \in LineCount
  PROVE  /\ Together(c).volume \in Int /\ Together(c).errors \in Int
         /\ Together(Append(c, x)) = [volume |-> Together(c).volume + x.volume,
                                      errors |-> Together(c).errors + x.errors]
<1> DEFINE d == Append(c, x)
           n == Len(c)
           Of(q, kind) == [i \in DOMAIN q |-> q[i][kind]]
<1>1. /\ n \in Nat /\ DOMAIN c = 1..n /\ DOMAIN d = 1..(n + 1) /\ d[n + 1] = x
      /\ \A i \in 1..n : d[i] = c[i] /\ c[i] \in LineCount
  OBVIOUS
<1>2. \A i \in 1..(n + 1) : d[i] \in LineCount
  BY <1>1
<1> HIDE DEF d, n
<1>3. ASSUME NEW kind \in {"volume", "errors"}
      PROVE  /\ SumFunction(Of(c, kind)) \in Int
             /\ SumFunction(Of(d, kind)) = SumFunction(Of(c, kind)) + x[kind]
  <2>1. DOMAIN Of(c, kind) = 1..n /\ DOMAIN Of(d, kind) = 1..(n + 1)
    BY <1>1
  <2>2. \A e \in LineCount : e[kind] \in Int
    BY DEF LineCount
  <2>3. /\ \A i \in 1..(n + 1) : Of(d, kind)[i] \in Int
        /\ \A i \in 1..n : Of(c, kind)[i] = Of(d, kind)[i]
    BY <1>1, <1>2, <2>2
  <2>4. Of(d, kind)[n + 1] = x[kind]
    BY <1>1
  <2> HIDE DEF Of
  <2> QED
    BY <1>1, <2>1, <2>3, <2>4, SumOfAppend
<1>4. /\ Of(c, "volume") = [i \in DOMAIN c |-> c[i].volume] /\ Of(d, "volume") = [i \in DOMAIN d |-> d[i].volume]
      /\ Of(c, "errors") = [i \in DOMAIN c |-> c[i].errors] /\ Of(d, "errors") = [i \in DOMAIN d |-> d[i].errors]
  OBVIOUS
<1>5. /\ Together(c) = [volume |-> SumFunction(Of(c, "volume")), errors |-> SumFunction(Of(c, "errors"))]
      /\ Together(d) = [volume |-> SumFunction(Of(d, "volume")), errors |-> SumFunction(Of(d, "errors"))]
  BY <1>4 DEF Together
<1>6. x["volume"] = x.volume /\ x["errors"] = x.errors
  OBVIOUS
<1> HIDE DEF Of
<1> QED
  BY <1>3, <1>5, <1>6 DEF d

LEMMA TogetherOfNone == Together(<<>>) = NoLines /\ NoLines \in LineCount
<1>1. \A f : DOMAIN f = {} => SumFunction(f) = 0
  BY SumOfNone, Zenon DEF SumFunction
<1> QED
  BY <1>1 DEF Together, NoLines, LineCount

LEMMA TogetherWithHeld ==
  ASSUME NEW c \in Seq(LineCount), NEW h, h = <<>> \/ \E x \in LineCount : h = <<x>>
  PROVE  /\ c \o h \in Seq(LineCount)
         /\ h = <<>> => Together(c \o h) = Together(c)
         /\ \A x \in LineCount : h = <<x>> => c \o h = Append(c, x)
<1>1. c \o <<>> = c
  OBVIOUS
<1>2. \A x \in LineCount : c \o <<x>> = Append(c, x) /\ Append(c, x) \in Seq(LineCount)
  OBVIOUS
<1> QED
  BY <1>1, <1>2

LEMMA CountedIsCount ==
  ASSUME NEW c \in LineCount, NEW isError \in BOOLEAN
  PROVE  Counted(c, isError) \in LineCount /\ Counted(c, isError).volume > 0
  BY DEF LineCount, Counted

(* Counting a line in the sample under way counts it in the sum.            *)
LEMMA CountedTogether ==
  ASSUME NEW c \in Seq(LineCount), NEW x \in LineCount, NEW isError \in BOOLEAN
  PROVE  Together(Append(c, Counted(x, isError))) = Counted(Together(Append(c, x)), isError)
<1>1. Counted(x, isError) \in LineCount
  BY CountedIsCount
<1>2. /\ Together(Append(c, Counted(x, isError))) =
            [volume |-> Together(c).volume + Counted(x, isError).volume,
             errors |-> Together(c).errors + Counted(x, isError).errors]
      /\ Together(Append(c, x)) = [volume |-> Together(c).volume + x.volume,
                                   errors |-> Together(c).errors + x.errors]
      /\ Together(c).volume \in Int /\ Together(c).errors \in Int
  BY <1>1, TogetherOfAppend
<1>3. x.volume \in Int /\ x.errors \in Int
  BY DEF LineCount
<1>4. \A a, b \in Int : a + (b + 1) = (a + b) + 1
  OBVIOUS
<1>5. \A r : /\ Counted(r, isError).volume = r.volume + 1
             /\ Counted(r, isError).errors = IF isError THEN r.errors + 1 ELSE r.errors
  BY DEF Counted
<1>6. Counted(Together(Append(c, x)), isError) =
        [volume |-> (Together(c).volume + x.volume) + 1,
         errors |-> IF isError THEN (Together(c).errors + x.errors) + 1 ELSE Together(c).errors + x.errors]
  BY <1>2 DEF Counted
<1>7. /\ Together(c).volume + (x.volume + 1) = (Together(c).volume + x.volume) + 1
      /\ Together(c).errors + (x.errors + 1) = (Together(c).errors + x.errors) + 1
  BY <1>2, <1>3, <1>4, Zenon
<1> QED
  BY <1>2, <1>5, <1>6, <1>7, Zenon

(* A line alone in its sample is one line more.                             *)
LEMMA FirstTogether ==
  ASSUME NEW c \in Seq(LineCount), NEW isError \in BOOLEAN
  PROVE  Together(Append(c, Counted(NoLines, isError))) = Counted(Together(c), isError)
<1>1. NoLines \in LineCount /\ Counted(NoLines, isError) \in LineCount
  BY TogetherOfNone, CountedIsCount
<1>2. /\ Together(Append(c, Counted(NoLines, isError))) =
            [volume |-> Together(c).volume + Counted(NoLines, isError).volume,
             errors |-> Together(c).errors + Counted(NoLines, isError).errors]
      /\ Together(c).volume \in Int /\ Together(c).errors \in Int
  BY <1>1, TogetherOfAppend
<1>3. \A a \in Int : a + (0 + 1) = a + 1 /\ a + 0 = a
  OBVIOUS
<1> QED
  BY <1>2, <1>3 DEF Counted, NoLines

LEMMA HeldIsHeldCount ==
  \A s : Held(s) = IF s \in DOMAIN buckets THEN <<HeldCount(s)>> ELSE <<>>
  BY DEF Held, HeldCount

LEMMA BucketsStart == BucketsInit => BucketInv
<1> SUFFICES ASSUME BucketsInit PROVE BucketInv
  OBVIOUS
<1>1. buckets = <<>> /\ emitted = [s \in LogSources |-> <<>>] /\ lines = [s \in LogSources |-> NoLines]
  BY DEF BucketsInit
<1>2. <<>> \in Seq(LineCount) /\ DOMAIN buckets = {}
  BY <1>1
<1>3. LinesAreConserved
  <2> SUFFICES ASSUME NEW s \in LogSources
               PROVE  Together(emitted[s] \o Held(s)) = lines[s] /\ \A i \in DOMAIN emitted[s] : emitted[s][i].volume > 0
    BY DEF LinesAreConserved
  <2>1. emitted[s] = <<>> /\ Held(s) = <<>>
    BY <1>1, <1>2 DEF Held
  <2>2. emitted[s] \o Held(s) = <<>> /\ DOMAIN emitted[s] = {}
    BY <2>1
  <2> QED
    BY <1>1, <2>2, TogetherOfNone
<1> QED
  BY <1>1, <1>2, <1>3, TogetherOfNone DEF BucketInv

(* What a step does for one source: the sample of the bucket, if it was     *)
(* emitted, and what the bucket holds now.                                  *)
LEMMA BucketsStay == BucketInv /\ [BucketsNext]_bucketVars => BucketInv'
<1> SUFFICES ASSUME BucketInv, [BucketsNext]_bucketVars PROVE BucketInv'
  OBVIOUS
<1>0. /\ lines \in [LogSources -> LineCount] /\ emitted \in [LogSources -> Seq(LineCount)]
      /\ DOMAIN buckets \subseteq LogSources
      /\ \A s \in DOMAIN buckets : HeldCount(s) \in LineCount /\ buckets[s].volume > 0
      /\ \A s \in LogSources :
            /\ Together(emitted[s] \o Held(s)) = lines[s]
            /\ \A i \in DOMAIN emitted[s] : emitted[s][i].volume > 0
  BY DEF BucketInv, LinesAreConserved
<1>1. \A s \in LogSources : s \notin DOMAIN buckets => Together(emitted[s]) = lines[s]
  BY <1>0, TogetherWithHeld, HeldIsHeldCount
<1>2. \A s \in DOMAIN buckets : Together(Append(emitted[s], HeldCount(s))) = lines[s]
  BY <1>0, TogetherWithHeld, HeldIsHeldCount, ZenonT(40)
<1>3. ASSUME NEW s \in DOMAIN buckets
      PROVE  /\ Append(emitted[s], HeldCount(s)) \in Seq(LineCount)
             /\ \A i \in DOMAIN Append(emitted[s], HeldCount(s)) : Append(emitted[s], HeldCount(s))[i].volume > 0
  <2>1. emitted[s] \in Seq(LineCount) /\ HeldCount(s) \in LineCount /\ HeldCount(s).volume > 0
    BY <1>0 DEF HeldCount
  <2>2. \A i \in DOMAIN Append(emitted[s], HeldCount(s)) :
           Append(emitted[s], HeldCount(s))[i] \in {HeldCount(s)} \cup {emitted[s][k] : k \in DOMAIN emitted[s]}
    BY <2>1
  <2> QED
    BY <1>0, <2>1, <2>2
<1>4. CASE Flush
  <2>1. DOMAIN buckets' = {} /\ lines' = lines
    BY <1>4 DEF Flush
  <2>2. ASSUME NEW s \in LogSources
        PROVE  emitted'[s] = IF s \in DOMAIN buckets THEN Append(emitted[s], HeldCount(s)) ELSE emitted[s]
    BY <1>4 DEF Flush, HeldCount
  <2>3. emitted' \in [LogSources -> Seq(LineCount)]
    <3>1. emitted' = [s \in LogSources |-> emitted'[s]]
      BY <1>4, Zenon DEF Flush
    <3>2. \A s \in LogSources : emitted'[s] \in Seq(LineCount)
      BY <1>0, <1>3, <2>2
    <3> QED
      BY <3>1, <3>2
  <2>4. ASSUME NEW s \in LogSources
        PROVE  /\ Together(emitted'[s] \o Held(s)') = lines'[s]
               /\ \A i \in DOMAIN emitted'[s] : emitted'[s][i].volume > 0
    <3>1. Held(s)' = <<>>
      BY <2>1 DEF Held
    <3>2. Together(emitted'[s] \o Held(s)') = Together(emitted'[s])
      BY <2>3, <3>1, TogetherWithHeld
    <3> QED
      BY <1>0, <1>1, <1>2, <1>3, <2>1, <2>2, <3>2
  <2> QED
    BY <1>0, <2>1, <2>3, <2>4 DEF BucketInv, LinesAreConserved
<1>5. ASSUME NEW s \in LogSources, NEW isError \in BOOLEAN, NEW ts \in LineTimes, IngestLine(s, isError, ts)
      PROVE  BucketInv'
  <2> DEFINE opens == s \notin DOMAIN buckets \/ Behind(s, ts)
             count == IF opens THEN NewBucket(ts, isError).count ELSE Counted(buckets[s], isError)
  <2>1. /\ lines' = [lines EXCEPT ![s] = Counted(lines[s], isError)]
        /\ DOMAIN buckets' = DOMAIN buckets \cup {s}
        /\ \A x \in DOMAIN buckets \ {s} : buckets'[x] = buckets[x]
        /\ buckets'[s].volume = count.volume /\ buckets'[s].errors = count.errors
        /\ IF opens /\ s \in DOMAIN buckets THEN Emit(s) ELSE UNCHANGED emitted
    BY <1>5 DEF IngestLine
  <2>2. count = IF opens THEN Counted(NoLines, isError) ELSE Counted(HeldCount(s), isError)
    BY DEF NewBucket, Counted, HeldCount
  <2> HIDE DEF count, opens
  <2>3. /\ emitted'[s] = IF opens /\ s \in DOMAIN buckets THEN Append(emitted[s], HeldCount(s)) ELSE emitted[s]
        /\ emitted' \in [LogSources -> Seq(LineCount)]
        /\ \A x \in LogSources \ {s} : emitted'[x] = emitted[x]
    <3>1. CASE opens /\ s \in DOMAIN buckets
      <4>1. emitted' = [emitted EXCEPT ![s] = Append(emitted[s], HeldCount(s))]
        BY <2>1, <3>1 DEF Emit, HeldCount
      <4> QED
        BY <1>0, <1>3, <3>1, <4>1
    <3> QED
      BY <1>0, <2>1, <3>1
  <2>4. opens \/ s \in DOMAIN buckets
    BY DEF opens
  <2>5. count \in LineCount /\ count.volume > 0
    BY <1>0, <2>2, <2>4, CountedIsCount, TogetherOfNone
  <2>6. HeldCount(s)' = count /\ \A x \in DOMAIN buckets \ {s} : HeldCount(x)' = HeldCount(x)
    <3>1. count = [volume |-> count.volume, errors |-> count.errors]
      BY <2>5 DEF LineCount
    <3> QED
      BY <2>1, <3>1 DEF HeldCount
  <2>7. /\ Held(s)' = <<count>>
        /\ \A x \in LogSources \ {s} : Held(x)' = Held(x)
    <3>1. \A x : Held(x)' = IF x \in DOMAIN buckets' THEN <<HeldCount(x)'>> ELSE <<>>
      BY DEF Held, HeldCount
    <3> QED
      BY <2>1, <2>6, <3>1, HeldIsHeldCount
  <2>8. Together(emitted'[s] \o Held(s)') = lines'[s]
    <3>1. emitted'[s] \o Held(s)' = Append(emitted'[s], count)
      BY <2>3, <2>5, <2>7, TogetherWithHeld
    <3>2. lines'[s] = Counted(lines[s], isError)
      BY <1>0, <2>1
    <3>3. CASE opens /\ s \in DOMAIN buckets
      BY <1>2, <2>2, <2>3, <3>1, <3>2, <3>3, FirstTogether
    <3>4. CASE opens /\ s \notin DOMAIN buckets
      BY <1>1, <2>2, <2>3, <3>1, <3>2, <3>4, FirstTogether
    <3>5. CASE ~opens
      <4>1. s \in DOMAIN buckets /\ emitted'[s] = emitted[s] /\ count = Counted(HeldCount(s), isError)
        BY <2>2, <2>3, <2>4, <3>5
      <4>2. emitted[s] \in Seq(LineCount) /\ HeldCount(s) \in LineCount
        BY <1>0, <4>1
      <4>3. Together(Append(emitted[s], count)) = Counted(Together(Append(emitted[s], HeldCount(s))), isError)
        BY <4>1, <4>2, CountedTogether
      <4> QED
        BY <1>2, <3>1, <3>2, <4>1, <4>3
    <3> QED
      BY <3>3, <3>4, <3>5
  <2>9. \A i \in DOMAIN emitted'[s] : emitted'[s][i].volume > 0
    BY <1>0, <1>3, <2>3
  <2>10. \A x \in LogSources \ {s} :
            /\ Together(emitted'[x] \o Held(x)') = lines'[x]
            /\ \A i \in DOMAIN emitted'[x] : emitted'[x][i].volume > 0
    BY <1>0, <2>1, <2>3, <2>7
  <2>11. lines' \in [LogSources -> LineCount]
    BY <1>0, <2>1, CountedIsCount
  <2>12. LinesAreConserved'
    BY <2>8, <2>9, <2>10 DEF LinesAreConserved
  <2>13. \A x \in DOMAIN buckets' : HeldCount(x)' \in LineCount /\ buckets'[x].volume > 0
    BY <1>0, <2>1, <2>5, <2>6
  <2> QED
    BY <1>0, <2>1, <2>3, <2>11, <2>12, <2>13 DEF BucketInv
<1>6. CASE UNCHANGED bucketVars
  <2>1. buckets' = buckets /\ emitted' = emitted /\ lines' = lines
    BY <1>6 DEF bucketVars
  <2> QED
    BY <1>0, <2>1 DEF BucketInv, LinesAreConserved, Held, HeldCount
<1> QED
  BY <1>4, <1>5, <1>6 DEF BucketsNext

----------------------------------------------------------------------------
(* The rate of a counter.  The samples kept are the newest of those taken,  *)
(* from number k on: the counter never fell since, and none of them but the *)
(* first is a window old.                                                   *)
Reading == [value : Nat, ts : Nat]

KeptFrom(k) ==
  /\ k \in 1..Len(taken) /\ Len(samples) = Len(taken) - k + 1
  /\ \A i \in 1..Len(samples) : samples[i] = taken[i + k - 1]
  /\ \A j \in (k + 1)..Len(taken) : taken[j].ts > taken[Len(taken)].ts - RateWindow
  /\ \A j \in k..(Len(taken) - 1) : taken[j].value <= taken[j + 1].value

RateInv ==
  /\ taken \in Seq(Reading) /\ samples \in Seq(Reading)
  /\ \A i, j \in 1..Len(taken) : i < j => taken[i].ts < taken[j].ts
  /\ IF taken = <<>> THEN samples = <<>> ELSE \E k \in 1..Len(taken) : KeptFrom(k)
  /\ rate.ok => taken # <<>> /\ rate = RateOf(samples)

LEMMA RatesStart == RatesInit => RateInv
  BY DEF RatesInit, RateInv, NoRate

LEMMA RateInvShows == RateInv => RateSpansNoReset
<1> SUFFICES ASSUME RateInv, rate.ok PROVE RateSpansNoReset
  BY DEF RateSpansNoReset
<1> DEFINE n == Len(taken)
<1>1. PICK k \in 1..n : KeptFrom(k)
  BY DEF RateInv
<1>2. /\ n \in Nat /\ k \in 1..n /\ DOMAIN taken = 1..n
      /\ \A j \in 1..n : taken[j].ts \in Nat /\ taken[j].value \in Nat
      /\ \A i, j \in 1..n : i < j => taken[i].ts < taken[j].ts
      /\ RateWindow \in Nat
  <2>1. taken \in Seq(Reading) /\ \A i, j \in 1..n : i < j => taken[i].ts < taken[j].ts
    BY DEF RateInv
  <2>2. n \in Nat /\ DOMAIN taken = 1..n /\ \A j \in 1..n : taken[j] \in Reading
    BY <2>1
  <2>3. \A r \in Reading : r.ts \in Nat /\ r.value \in Nat
    BY DEF Reading
  <2> QED
    BY <1>1, <2>1, <2>2, <2>3, RatesAssumption
<1>3. samples[1] = taken[k] /\ Final(samples) = taken[n] /\ Final(taken) = taken[n]
  <2>1. /\ Len(samples) = n - k + 1 /\ 1 \in 1..Len(samples) /\ Len(samples) \in 1..Len(samples)
        /\ 1 + k - 1 = k /\ Len(samples) + k - 1 = n
    BY <1>1, <1>2 DEF KeptFrom
  <2>2. \A i \in 1..Len(samples) : samples[i] = taken[i + k - 1]
    BY <1>1 DEF KeptFrom
  <2>3. samples[1] = taken[k] /\ samples[Len(samples)] = taken[n]
    BY <2>1, <2>2
  <2> QED
    BY <2>3, Zenon DEF Final
<1>4. /\ rate.num = taken[n].value - taken[k].value /\ rate.den = taken[n].ts - taken[k].ts
      /\ taken[n].ts - taken[k].ts >= RateWindow
  <2>1. rate = IF taken[n].ts - taken[k].ts < RateWindow THEN NoRate
               ELSE [ok |-> TRUE, num |-> taken[n].value - taken[k].value, den |-> taken[n].ts - taken[k].ts]
    BY <1>3 DEF RateInv, RateOf
  <2>2. ~(taken[n].ts - taken[k].ts < RateWindow)
    BY <2>1 DEF NoRate
  <2> QED
    BY <1>2, <2>1, <2>2
<1>5. ASSUME NEW j \in 1..n PROVE (taken[j].ts <= taken[n].ts - RateWindow) <=> j <= k
  <2>1. CASE j <= k
    <3>1. taken[j].ts <= taken[k].ts
      BY <1>2, <2>1
    <3>2. taken[j].ts \in Nat /\ taken[k].ts \in Nat /\ taken[n].ts \in Nat
      BY <1>2
    <3> QED
      BY <1>2, <1>4, <2>1, <3>1, <3>2
  <2>2. CASE ~(j <= k)
    <3>1. j \in (k + 1)..n
      BY <1>2, <2>2
    <3>2. taken[j].ts > taken[n].ts - RateWindow
      BY <1>1, <3>1 DEF KeptFrom
    <3>3. taken[j].ts \in Nat /\ taken[n].ts \in Nat
      BY <1>2
    <3> QED
      BY <1>2, <2>2, <3>2, <3>3
  <2> QED
    BY <2>1, <2>2
<1>6. \A j \in k..(n - 1) : taken[j].value <= taken[j + 1].value
  BY <1>1 DEF KeptFrom
<1> QED
  BY <1>2, <1>3, <1>4, <1>5, <1>6 DEF RateSpansNoReset

(* What precedes the newest sample that is a window old is forgotten.       *)
LEMMA WithinKeeps ==
  ASSUME NEW s \in Seq(Reading), s # <<>>, NEW ts \in Nat
  PROVE  \E first \in 1..Len(s) :
            /\ Within(s, ts) \in Seq(Reading) /\ Len(Within(s, ts)) = Len(s) - first + 1
            /\ \A i \in 1..(Len(s) - first + 1) : Within(s, ts)[i] = s[i + first - 1]
            /\ \A j \in (first + 1)..Len(s) : s[j].ts > ts - RateWindow
<1> DEFINE n == Len(s)
           old == {i \in DOMAIN s : i > 1 /\ s[i].ts <= ts - RateWindow}
           first == IF old = {} THEN 1 ELSE CHOOSE i \in old : \A j \in old : j <= i
<1>1. /\ n \in Nat \ {0} /\ DOMAIN s = 1..n /\ RateWindow \in Nat
      /\ \A i \in 1..n : s[i].ts \in Nat /\ s[i] \in Reading
  <2>1. n \in Nat \ {0} /\ DOMAIN s = 1..n /\ \A i \in 1..n : s[i] \in Reading
    OBVIOUS
  <2>2. \A r \in Reading : r.ts \in Nat
    BY DEF Reading
  <2> QED
    BY <2>1, <2>2, RatesAssumption
<1>2. first \in 1..n /\ \A j \in old : j <= first
  <2>1. CASE old = {}
    BY <1>1, <2>1
  <2>2. CASE old # {}
    <3>1. old \subseteq 0..n
      BY <1>1
    <3>2. \E i \in old : \A j \in old : j <= i
      BY <1>1, <2>2, <3>1, GreatestOfNaturals
    <3>3. first \in old /\ \A j \in old : j <= first
      BY <2>2, <3>2
    <3> QED
      BY <1>1, <3>3
  <2> QED
    BY <2>1, <2>2
<1>3. Within(s, ts) = SubSeq(s, first, n)
  BY DEF Within
<1>4. ASSUME NEW j \in (first + 1)..n PROVE s[j].ts > ts - RateWindow
  <2>1. j \in 1..n /\ j > 1 /\ ~(j <= first)
    BY <1>1, <1>2
  <2>2. j \notin old
    BY <1>2, <2>1
  <2>3. ~(s[j].ts <= ts - RateWindow)
    BY <1>1, <2>1, <2>2
  <2> QED
    BY <1>1, <2>1, <2>3
<1> HIDE DEF first, old, n
<1>5. /\ SubSeq(s, first, n) \in Seq(Reading) /\ Len(SubSeq(s, first, n)) = n - first + 1
      /\ \A i \in 1..(n - first + 1) : SubSeq(s, first, n)[i] = s[i + first - 1]
  <2>1. first \in Int /\ n \in Int /\ first <= n /\ \A i \in first..n : s[i] \in Reading
    BY <1>1, <1>2
  <2>2. /\ SubSeq(s, first, n) \in Seq(Reading) /\ Len(SubSeq(s, first, n)) = n - first + 1
        /\ \A i \in 1..(n - first + 1) : SubSeq(s, first, n)[i] = s[first + i - 1]
    BY <2>1, SubSeqProperties
  <2>3. \A i \in 1..(n - first + 1) : first + i - 1 = i + first - 1
    BY <2>1
  <2> QED
    BY <2>2, <2>3
<1> QED
  BY <1>2, <1>3, <1>4, <1>5 DEF n

LEMMA RatesStay == RateInv /\ [RatesNext]_rateVars => RateInv'
<1> SUFFICES ASSUME RateInv, [RatesNext]_rateVars PROVE RateInv'
  OBVIOUS
<1> DEFINE n == Len(taken)
<1>0. /\ taken \in Seq(Reading) /\ samples \in Seq(Reading) /\ n \in Nat
      /\ \A j \in 1..n : taken[j] \in Reading /\ taken[j].ts \in Nat /\ taken[j].value \in Nat
      /\ \A i, j \in 1..n : i < j => taken[i].ts < taken[j].ts
      /\ RateWindow \in Nat
  <2>1. \A r \in Reading : r.ts \in Nat /\ r.value \in Nat
    BY DEF Reading
  <2>2. \A j \in 1..n : taken[j] \in Reading
    BY DEF RateInv
  <2>3. taken \in Seq(Reading) /\ samples \in Seq(Reading) /\ n \in Nat
    BY DEF RateInv
  <2>4. \A i, j \in 1..n : i < j => taken[i].ts < taken[j].ts
    BY DEF RateInv
  <2> QED
    BY <2>1, <2>2, <2>3, <2>4, RatesAssumption
<1>1. CASE UNCHANGED rateVars
  <2>1. samples' = samples /\ rate' = rate /\ taken' = taken
    BY <1>1 DEF rateVars
  <2> QED
    BY <2>1 DEF RateInv, KeptFrom, RateOf, Final
<1>2. ASSUME rate' = NoRate, UNCHANGED <<samples, taken>> PROVE RateInv'
  BY <1>2 DEF RateInv, KeptFrom, NoRate
<1>3. ASSUME NEW value \in Nat, NEW ts \in Nat, ~(samples # <<>> /\ ts <= Final(samples).ts),
             samples' = Within(Append(SinceReset(samples, value), [value |-> value, ts |-> ts]), ts),
             rate' = RateOf(samples'), taken' = Append(taken, [value |-> value, ts |-> ts])
      PROVE  RateInv'
  <2> DEFINE new == [value |-> value, ts |-> ts]
             since == SinceReset(samples, value)
             s == Append(since, new)
  <2>0. new \in Reading /\ new.ts = ts /\ new.value = value
    BY DEF Reading
  <2>1. /\ taken' \in Seq(Reading) /\ Len(taken') = n + 1 /\ taken'[n + 1] = new
        /\ \A j \in 1..n : taken'[j] = taken[j]
    BY <1>0, <1>3, <2>0
  <2>2. taken # <<>> => \E k \in 1..n : KeptFrom(k) /\ samples # <<>> /\ Final(samples) = taken[n]
    <3> SUFFICES ASSUME taken # <<>>
                 PROVE  \E k \in 1..n : KeptFrom(k) /\ samples # <<>> /\ Final(samples) = taken[n]
      OBVIOUS
    <3>1. PICK k \in 1..n : KeptFrom(k)
      BY DEF RateInv
    <3>2. Len(samples) = n - k + 1 /\ \A i \in 1..Len(samples) : samples[i] = taken[i + k - 1]
      BY <3>1 DEF KeptFrom
    <3>3. Len(samples) \in 1..Len(samples) /\ Len(samples) + k - 1 = n /\ samples # <<>>
      BY <1>0, <3>2
    <3>4. samples[Len(samples)] = taken[n]
      BY <3>2, <3>3
    <3> QED
      BY <3>1, <3>3, <3>4, Zenon DEF Final
  <2>3. \A j \in 1..n : taken[j].ts < ts
    <3> SUFFICES ASSUME NEW j \in 1..n PROVE taken[j].ts < ts
      OBVIOUS
    <3>1. taken # <<>> /\ n \in 1..n
      BY <1>0
    <3>2. ~(ts <= taken[n].ts)
      BY <1>3, <2>2, <3>1
    <3>3. taken[n].ts < ts
      BY <1>0, <3>1, <3>2
    <3>4. taken[j].ts <= taken[n].ts
      BY <1>0, <3>1
    <3> QED
      BY <1>0, <3>1, <3>3, <3>4
  <2>4. \A i, j \in 1..(n + 1) : i < j => taken'[i].ts < taken'[j].ts
    <3> SUFFICES ASSUME NEW i \in 1..(n + 1), NEW j \in 1..(n + 1), i < j PROVE taken'[i].ts < taken'[j].ts
      OBVIOUS
    <3>1. i \in 1..n /\ (j \in 1..n \/ j = n + 1)
      BY <1>0
    <3> QED
      BY <1>0, <2>0, <2>1, <2>3, <3>1
  (* The samples since the last reset, with the new one, from number k on.  *)
  <2>5. \E k \in 1..(n + 1) :
           /\ s \in Seq(Reading) /\ Len(s) = n + 1 - k + 1
           /\ \A i \in 1..Len(s) : s[i] = taken'[i + k - 1]
           /\ \A j \in k..n : taken'[j].value <= taken'[j + 1].value
    <3>1. CASE taken = <<>> \/ (value < Final(samples).value /\ samples # <<>>)
      <4>1. since = <<>>
        BY <3>1 DEF SinceReset, RateInv
      <4>2. s \in Seq(Reading) /\ Len(s) = 1 /\ s[1] = new
        BY <2>0, <4>1
      <4>3. n + 1 \in 1..(n + 1) /\ n + 1 - (n + 1) + 1 = 1 /\ 1 + (n + 1) - 1 = n + 1 /\ (n + 1)..n = {}
        BY <1>0
      <4>4. \A i \in 1..1 : i = 1
        OBVIOUS
      <4> HIDE DEF s
      <4> WITNESS n + 1 \in 1..(n + 1)
      <4> QED
        BY <2>1, <4>2, <4>3, <4>4
    <3>2. CASE taken # <<>> /\ ~(value < Final(samples).value)
      <4>1. PICK k \in 1..n : KeptFrom(k) /\ samples # <<>> /\ Final(samples) = taken[n]
        BY <2>2, <3>2
      <4>2. since = samples /\ taken[n].value <= value
        <5>1. n \in 1..n /\ taken[n].value \in Nat
          BY <1>0, <3>2
        <5> QED
          BY <3>2, <4>1, <5>1 DEF SinceReset
      <4>3. /\ Len(samples) = n - k + 1 /\ \A i \in 1..Len(samples) : samples[i] = taken[i + k - 1]
            /\ \A j \in k..(n - 1) : taken[j].value <= taken[j + 1].value
        BY <4>1 DEF KeptFrom
      <4>4. /\ s \in Seq(Reading) /\ Len(s) = Len(samples) + 1 /\ s[Len(samples) + 1] = new
            /\ \A i \in 1..Len(samples) : s[i] = samples[i]
        BY <1>0, <2>0, <4>2
      <4> HIDE DEF s
      <4>5. ASSUME NEW i \in 1..Len(s) PROVE s[i] = taken'[i + k - 1]
        <5>1. CASE i \in 1..Len(samples)
          <6>1. i + k - 1 \in 1..n
            BY <1>0, <4>3, <5>1
          <6> QED
            BY <2>1, <4>3, <4>4, <5>1, <6>1
        <5>2. CASE i = Len(samples) + 1
          <6>1. i + k - 1 = n + 1
            BY <1>0, <4>3, <5>2
          <6> QED
            BY <2>1, <4>4, <5>2, <6>1
        <5> QED
          <6>1. Len(samples) \in Nat
            BY <1>0
          <6> QED
            BY <4>4, <5>1, <5>2, <6>1
      <4>6. ASSUME NEW j \in k..n PROVE taken'[j].value <= taken'[j + 1].value
        <5>1. CASE j = n
          BY <1>0, <2>0, <2>1, <4>2, <5>1
        <5>2. CASE j # n
          <6>1. j \in k..(n - 1) /\ j \in 1..n /\ j + 1 \in 1..n
            BY <1>0, <5>2
          <6> QED
            BY <2>1, <4>3, <6>1
        <5> QED
          BY <5>1, <5>2
      <4>7. k \in 1..(n + 1) /\ Len(s) = n + 1 - k + 1
        BY <1>0, <4>3, <4>4
      <4> QED
        BY <4>4, <4>5, <4>6, <4>7
    <3>3. taken # <<>> => samples # <<>>
      BY <2>2
    <3> HIDE DEF s
    <3> QED
      BY <3>1, <3>2, <3>3, Zenon
  <2>6. PICK k \in 1..(n + 1) :
           /\ s \in Seq(Reading) /\ Len(s) = n + 1 - k + 1
           /\ \A i \in 1..Len(s) : s[i] = taken'[i + k - 1]
           /\ \A j \in k..n : taken'[j].value <= taken'[j + 1].value
    BY <2>5
  <2>7. s # <<>>
    <3>1. Len(s) # 0 /\ Len(<<>>) = 0
      BY <1>0, <2>6
    <3> QED
      BY <3>1, Zenon
  <2>8. samples' = Within(s, ts)
    BY <1>3
  <2> HIDE DEF s
  <2>9. PICK first \in 1..Len(s) :
            /\ samples' \in Seq(Reading) /\ Len(samples') = Len(s) - first + 1
            /\ \A i \in 1..(Len(s) - first + 1) : samples'[i] = s[i + first - 1]
            /\ \A j \in (first + 1)..Len(s) : s[j].ts > ts - RateWindow
    BY <2>6, <2>7, <2>8, WithinKeeps
  <2> DEFINE m == k + first - 1
  <2>10. m \in 1..(n + 1) /\ Len(samples') = (n + 1) - m + 1
    BY <1>0, <2>6, <2>9
  <2>11. ASSUME NEW i \in 1..Len(samples') PROVE samples'[i] = taken'[i + m - 1]
    <3>0. Len(s) \in Nat /\ i \in 1..(Len(s) - first + 1)
      BY <1>0, <2>6, <2>9
    <3>1. i + first - 1 \in 1..Len(s) /\ (i + first - 1) + k - 1 = i + m - 1
      BY <1>0, <3>0, SMTT(30)
    <3> QED
      BY <2>6, <2>9, <3>0, <3>1
  <2>12. ASSUME NEW j \in (m + 1)..(n + 1) PROVE taken'[j].ts > taken'[n + 1].ts - RateWindow
    <3>0. /\ j \in Int /\ k + first <= j /\ j <= n + 1 /\ Len(s) = n + 1 - k + 1
          /\ k \in 1..(n + 1) /\ first \in Nat \ {0}
      BY <1>0, <2>6
    <3>1. j - k + 1 \in (first + 1)..Len(s) /\ j - k + 1 \in 1..Len(s) /\ (j - k + 1) + k - 1 = j
      BY <1>0, <3>0
    <3>2. s[j - k + 1] = taken'[j] /\ s[j - k + 1].ts > ts - RateWindow
      BY <2>6, <2>9, <3>1
    <3> QED
      BY <2>0, <2>1, <3>2
  <2>13. \A j \in m..n : taken'[j].value <= taken'[j + 1].value
    <3>1. m..n \subseteq k..n
      BY <1>0, <2>6, <2>9, SMTT(30)
    <3> QED
      BY <2>6, <3>1
  <2> HIDE DEF m
  <2>14. KeptFrom(m)' /\ m \in 1..Len(taken')
    <3>1. Len(taken') = n + 1 /\ (n + 1) - 1 = n
      BY <1>0, <2>1
    <3> QED
      BY <2>10, <2>11, <2>12, <2>13, <3>1 DEF KeptFrom
  <2>15. taken' # <<>>
    BY <1>0, <2>1
  <2>16. RateOf(samples)' = RateOf(samples')
    BY DEF RateOf, Final
  <2> QED
    BY <1>3, <2>1, <2>4, <2>9, <2>14, <2>15, <2>16 DEF RateInv
<1>4. ASSUME NEW value \in CounterValues, NEW ts \in SampleTimes, Sample(value, ts) PROVE RateInv'
  <2>1. value \in Nat /\ ts \in Nat
    BY RatesAssumption
  <2> QED
    BY <1>2, <1>3, <1>4, <2>1 DEF Sample
<1> QED
  BY <1>1, <1>4 DEF RatesNext

(* What the collector makes of telemetry is true whatever arrives and when: *)
(* every log line is counted in one sample of its source (internal/pipeline/ *)
(* logs), and the rate of a counter covers the whole window, from the newest *)
(* sample a window old, and no reset (counterRates of internal/pipeline/    *)
(* metrics).                                                                *)
THEOREM SamplesTellTheTruth == MCSpec => []DerivedSamplesAreTrue
<1>1. MCInit => BucketInv /\ RateInv
  BY BucketsStart, RatesStart DEF MCInit
<1>2. [MCNext]_allVars => [BucketsNext]_bucketVars /\ [RatesNext]_rateVars
  BY DEF MCNext, allVars
<1>3. BucketInv /\ RateInv => DerivedSamplesAreTrue
  BY RateInvShows DEF BucketInv, DerivedSamplesAreTrue
<1> QED
  BY <1>1, <1>2, <1>3, BucketsStay, RatesStay, PTL DEF MCSpec

----------------------------------------------------------------------------
(* The log of transitions.  A change of band that an observer swapped in    *)
(* and has still to log is owed; the log keeps the newest events.           *)
Types == {tr.type : tr \in Transitions}
Swapped == [workload : Workloads, prev : Nat, r : Nat]
Logged == [id : Nat, workload : Workloads, type : Types]
OwedOf(w, type) == {o \in Owed : observer[o].workload = w /\ Band(observer[o].r) = type}

LogTypes ==
  /\ lastFusedR \in [Workloads -> Nat] /\ observer \in [Observers -> Swapped \cup {Nothing}]
  /\ crossed \in Seq(Workloads \X (Types \cup {"none"})) /\ logged \in Seq(Logged) /\ seq \in Nat

CrossingsAreCounted ==
  \A w \in Workloads, tr \in Transitions :
      Count(crossed, <<w, tr.type>>) = Count(Told(logged), <<w, tr.type>>) + Cardinality(OwedOf(w, tr.type))

LogIsNewest ==
  /\ log \in Seq(Logged) /\ Len(log) <= Len(logged) /\ Len(log) <= LogCap
  /\ Len(log) < LogCap => Len(log) = Len(logged)
  /\ \A i \in 1..Len(log) : log[i] = logged[Len(logged) - Len(log) + i]

LogInv == LogTypes /\ CrossingsAreCounted /\ LogIsNewest

(* The bands do not overlap, and each has a name of its own.                *)
LEMMA BandIsWhereItIs ==
  ASSUME NEW r \in Nat
  PROVE  /\ \A tr \in Transitions : In(r, tr) <=> Band(r) = tr.type
         /\ Band(r) \in Types \cup {"none"}
<1>1. ASSUME NEW tr \in Transitions, NEW ur \in Transitions
      PROVE  /\ tr.type = ur.type => tr = ur
             /\ In(r, tr) /\ In(r, ur) => tr = ur
             /\ tr.type # "none"
  BY DEF Transitions, In
<1>2. CASE \E tr \in Transitions : In(r, tr)
  <2>1. PICK tr \in Transitions : In(r, tr) /\ Band(r) = tr.type
    BY <1>2 DEF Band
  <2> QED
    BY <1>1, <2>1 DEF Types
<1>3. CASE ~\E tr \in Transitions : In(r, tr)
  <2>1. Band(r) = "none"
    BY <1>3 DEF Band
  <2> QED
    BY <1>1, <1>3, <2>1
<1> QED
  BY <1>2, <1>3

LEMMA CountOfAppend ==
  ASSUME NEW S, NEW s \in Seq(S), NEW x \in S, NEW y
  PROVE  /\ Count(s, y) \in Nat
         /\ x = y => Count(Append(s, x), y) = Count(s, y) + 1
         /\ x # y => Count(Append(s, x), y) = Count(s, y)
<1> DEFINE n == Len(s)
           C == {i \in DOMAIN s : s[i] = y}
           D == {i \in DOMAIN Append(s, x) : Append(s, x)[i] = y}
<1>1. /\ n \in Nat /\ DOMAIN s = 1..n /\ DOMAIN Append(s, x) = 1..(n + 1)
      /\ Append(s, x)[n + 1] = x /\ \A i \in 1..n : Append(s, x)[i] = s[i]
  OBVIOUS
<1>2. IsFiniteSet(C) /\ Cardinality(C) \in Nat /\ n + 1 \notin C
  <2>1. IsFiniteSet(1..n) /\ C \subseteq 1..n
    BY <1>1, FS_Interval
  <2> QED
    BY <1>1, <2>1, FS_Subset, FS_CardinalityType
<1>3. D = IF x = y THEN C \cup {n + 1} ELSE C
  BY <1>1
<1>4. x = y => Cardinality(C \cup {n + 1}) = Cardinality(C) + 1
  BY <1>2, FS_AddElement
<1>5. Count(s, y) = Cardinality(C) /\ Count(Append(s, x), y) = Cardinality(D)
  BY DEF Count
<1> HIDE DEF C, D
<1> QED
  BY <1>2, <1>3, <1>4, <1>5

LEMMA ToldOfAppend ==
  ASSUME NEW s \in Seq(Logged), NEW ev \in Logged
  PROVE  /\ Told(s) \in Seq(Workloads \X Types)
         /\ Told(Append(s, ev)) = Append(Told(s), <<ev.workload, ev.type>>)
<1> DEFINE n == Len(s)
           F(q) == [i \in DOMAIN q |-> <<q[i].workload, q[i].type>>]
<1>1. /\ n \in Nat /\ DOMAIN s = 1..n /\ DOMAIN Append(s, ev) = 1..(n + 1)
      /\ Append(s, ev)[n + 1] = ev /\ \A i \in 1..n : Append(s, ev)[i] = s[i] /\ s[i] \in Logged
  OBVIOUS
<1>2. \A e \in Logged : <<e.workload, e.type>> \in Workloads \X Types
  BY DEF Logged
<1>3. /\ F(s) \in Seq(Workloads \X Types) /\ Len(F(s)) = n
      /\ \A i \in 1..n : F(s)[i] = <<s[i].workload, s[i].type>>
  BY <1>1, <1>2
<1>4. F(Append(s, ev)) = Append(F(s), <<ev.workload, ev.type>>)
  <2>1. /\ F(Append(s, ev)) = [i \in 1..(n + 1) |-> F(Append(s, ev))[i]]
        /\ \A i \in 1..n : F(Append(s, ev))[i] = F(s)[i]
        /\ F(Append(s, ev))[n + 1] = <<ev.workload, ev.type>>
    BY <1>1, <1>3
  <2>2. /\ Append(F(s), <<ev.workload, ev.type>>) = [i \in 1..(n + 1) |-> Append(F(s), <<ev.workload, ev.type>>)[i]]
        /\ \A i \in 1..n : Append(F(s), <<ev.workload, ev.type>>)[i] = F(s)[i]
        /\ Append(F(s), <<ev.workload, ev.type>>)[n + 1] = <<ev.workload, ev.type>>
    BY <1>1, <1>2, <1>3
  <2> HIDE DEF F
  <2>3. \A i \in 1..(n + 1) : i \in 1..n \/ i = n + 1
    BY <1>1
  <2>4. \A i \in 1..(n + 1) : F(Append(s, ev))[i] = Append(F(s), <<ev.workload, ev.type>>)[i]
    BY <2>1, <2>2, <2>3
  <2> QED
    BY <2>1, <2>2, <2>4
<1> QED
  BY <1>3, <1>4 DEF Told

LEMMA LogStarts == LogInit => LogInv
<1> SUFFICES ASSUME LogInit PROVE LogInv
  OBVIOUS
<1>1. /\ lastFusedR = [w \in Workloads |-> 0] /\ observer = [o \in Observers |-> Nothing]
      /\ log = <<>> /\ seq = 0 /\ logged = <<>> /\ crossed = <<>>
  BY DEF LogInit
<1>2. LogTypes
  BY <1>1 DEF LogTypes
<1>3. ASSUME NEW y PROVE Count(crossed, y) = 0 /\ Count(Told(logged), y) = 0
  <2>1. /\ {i \in DOMAIN crossed : crossed[i] = y} = {}
        /\ {i \in DOMAIN Told(logged) : Told(logged)[i] = y} = {}
    BY <1>1 DEF Told
  <2> QED
    BY <2>1, FS_EmptySet DEF Count
<1>4. ASSUME NEW w, NEW type PROVE Cardinality(OwedOf(w, type)) = 0
  <2>1. OwedOf(w, type) = {}
    BY <1>1 DEF OwedOf, Owed
  <2> QED
    BY <2>1, FS_EmptySet
<1>5. CrossingsAreCounted
  BY <1>3, <1>4 DEF CrossingsAreCounted
<1>6. LogIsNewest
  BY <1>1, EventLogAssumption DEF LogIsNewest
<1> QED
  BY <1>2, <1>5, <1>6 DEF LogInv

(* The events of the owed changes of band, and how many are owed.           *)
LEMMA OwedIsFinite ==
  ASSUME IsFiniteSet(Observers), NEW w, NEW type
  PROVE  IsFiniteSet(OwedOf(w, type)) /\ Cardinality(OwedOf(w, type)) \in Nat
<1>1. OwedOf(w, type) \subseteq Observers
  BY DEF OwedOf, Owed
<1> QED
  BY <1>1, FS_Subset, FS_CardinalityType

LEMMA CountIsNat ==
  /\ crossed \in Seq(Workloads \X (Types \cup {"none"})) => \A y : Count(crossed, y) \in Nat
  /\ logged \in Seq(Logged) => \A y : Count(Told(logged), y) \in Nat
<1>1. ASSUME NEW s, NEW n \in Nat, DOMAIN s = 1..n, NEW y PROVE Count(s, y) \in Nat
  <2>1. {i \in DOMAIN s : s[i] = y} \subseteq 1..n /\ IsFiniteSet(1..n)
    BY <1>1, FS_Interval
  <2> QED
    BY <2>1, FS_Subset, FS_CardinalityType DEF Count
<1>2. logged \in Seq(Logged) => DOMAIN Told(logged) = 1..Len(logged) /\ Len(logged) \in Nat
  BY DEF Told
<1>3. crossed \in Seq(Workloads \X (Types \cup {"none"})) => DOMAIN crossed = 1..Len(crossed) /\ Len(crossed) \in Nat
  OBVIOUS
<1> QED
  BY <1>1, <1>2, <1>3

(* A swap that changes the band is owed from then on.                       *)
LEMMA SwapIsCounted ==
  ASSUME IsFiniteSet(Observers), LogInv, NEW o \in Observers, NEW w \in Workloads, NEW r \in LogIndexes,
         ObserveFusedR(o, w, r)
  PROVE  LogInv'
<1> DEFINE x == [workload |-> w, prev |-> lastFusedR[w], r |-> r]
           changes == Band(lastFusedR[w]) # Band(r)
<1>0. r \in Nat /\ lastFusedR[w] \in Nat /\ x \in Swapped
  BY EventLogAssumption DEF LogInv, LogTypes, Swapped
<1>1. /\ observer[o] = Nothing /\ observer' = [observer EXCEPT ![o] = x]
      /\ lastFusedR' = [lastFusedR EXCEPT ![w] = r]
      /\ crossed' = IF changes THEN Append(crossed, <<w, Band(r)>>) ELSE crossed
      /\ log' = log /\ seq' = seq /\ logged' = logged
  BY DEF ObserveFusedR
<1>2. Band(r) \in Types \cup {"none"}
  BY <1>0, BandIsWhereItIs
<1>3. <<w, Band(r)>> \in Workloads \X (Types \cup {"none"})
  BY <1>2
<1>4. LogTypes'
  <2>1. crossed' \in Seq(Workloads \X (Types \cup {"none"}))
    BY <1>1, <1>3 DEF LogInv, LogTypes
  <2> QED
    BY <1>0, <1>1, <2>1 DEF LogInv, LogTypes
<1>5. LogIsNewest'
  BY <1>1 DEF LogInv, LogIsNewest
<1>6. observer'[o] = x /\ DOMAIN observer = Observers /\ \A p \in Observers \ {o} : observer'[p] = observer[p]
  BY <1>1 DEF LogInv, LogTypes
<1>7. Owed' = IF changes THEN Owed \cup {o} ELSE Owed
  <2>1. changes => x # Nothing
    <3> SUFFICES ASSUME x = Nothing PROVE ~changes
      OBVIOUS
    <3>1. x.prev = Nothing.prev /\ x.r = Nothing.r
      OBVIOUS
    <3> QED
      BY <3>1 DEF Nothing
  <2>2. o \notin Owed
    BY <1>1 DEF Owed
  <2>3. x.prev = lastFusedR[w] /\ x.r = r
    OBVIOUS
  <2> HIDE DEF x, changes
  <2>4. o \in Owed' <=> changes
    BY <1>6, <2>1, <2>3 DEF Owed, changes
  <2>5. \A p \in Observers \ {o} : p \in Owed' <=> p \in Owed
    BY <1>6 DEF Owed
  <2>6. Owed \subseteq Observers /\ Owed' \subseteq Observers
    BY DEF Owed
  <2> QED
    BY <2>2, <2>4, <2>5, <2>6
<1>8. ASSUME NEW v \in Workloads, NEW tr \in Transitions
      PROVE  Count(crossed, <<v, tr.type>>)' =
                Count(Told(logged), <<v, tr.type>>)' + Cardinality(OwedOf(v, tr.type))'
  <2> DEFINE c == Count(crossed, <<v, tr.type>>)
             t == Count(Told(logged), <<v, tr.type>>)
             owes == OwedOf(v, tr.type)
             it == v = w /\ tr.type = Band(r)
  <2>1. c = t + Cardinality(owes)
    BY DEF LogInv, CrossingsAreCounted
  <2>2. t' = t
    BY <1>1 DEF Count, Told
  <2>3. c' = IF changes /\ it THEN c + 1 ELSE c
    <3>1. Count(Append(crossed, <<w, Band(r)>>), <<v, tr.type>>) = IF it THEN c + 1 ELSE c
      <4>1. (<<w, Band(r)>> = <<v, tr.type>>) <=> it
        OBVIOUS
      <4>2. crossed \in Seq(Workloads \X (Types \cup {"none"}))
        BY DEF LogInv, LogTypes
      <4> QED
        BY <1>3, <4>1, <4>2, CountOfAppend
    <3>2. c' = Count(crossed', <<v, tr.type>>)
      BY DEF Count
    <3> QED
      BY <1>1, <3>1, <3>2
  <2>4. o \notin owes /\ IsFiniteSet(owes) /\ Cardinality(owes) \in Nat
    <3>1. o \notin owes
      BY <1>1 DEF OwedOf, Owed
    <3> QED
      BY <3>1, OwedIsFinite
  <2>5. owes' = IF changes /\ it THEN owes \cup {o} ELSE owes
    <3>1. observer'[o].workload = w /\ observer'[o].r = r
      BY <1>6
    <3>2. Owed \subseteq Observers /\ o \notin Owed
      BY <1>1 DEF Owed
    <3>3. owes' = {p \in Owed' : observer'[p].workload = v /\ Band(observer'[p].r) = tr.type}
      BY DEF OwedOf
    <3>4. owes = {p \in Owed : observer[p].workload = v /\ Band(observer[p].r) = tr.type}
      BY DEF OwedOf
    <3> HIDE DEF changes, x, owes
    <3> QED
      BY <1>6, <1>7, <3>1, <3>2, <3>3, <3>4
  <2>6. t \in Nat /\ c \in Nat
    BY CountIsNat DEF LogInv, LogTypes
  <2>7. Cardinality(owes)' = IF changes /\ it THEN Cardinality(owes) + 1 ELSE Cardinality(owes)
    <3>1. Cardinality(owes \cup {o}) = Cardinality(owes) + 1
      BY <2>4, FS_AddElement
    <3> HIDE DEF owes, changes, it
    <3> QED
      BY <2>5, <3>1
  <2> HIDE DEF c, t, owes, changes, it
  <2>8. c' = t' + Cardinality(owes)'
    BY <2>1, <2>2, <2>3, <2>4, <2>6, <2>7
  <2> QED
    BY <2>8 DEF c, t, owes
<1>9. CrossingsAreCounted'
  BY <1>8 DEF CrossingsAreCounted
<1> QED
  BY <1>4, <1>5, <1>9 DEF LogInv

(* The newest elements of a sequence, as many as there is room for.         *)
LEMMA NewestOf ==
  ASSUME NEW S, NEW s \in Seq(S), NEW cap \in Nat \ {0}
  PROVE  /\ Newest(s, cap) \in Seq(S)
         /\ Len(s) > cap => Len(Newest(s, cap)) = cap
         /\ ~(Len(s) > cap) => Len(Newest(s, cap)) = Len(s) /\ Newest(s, cap) = s
         /\ \A i \in 1..Len(Newest(s, cap)) : Newest(s, cap)[i] = s[Len(s) - Len(Newest(s, cap)) + i]
<1>1. CASE Len(s) > cap
  <2>1. PICK n \in Nat : n = Len(s) /\ n > cap /\ \A i \in 1..n : s[i] \in S
    BY <1>1
  <2>2. PICK a \in Int : a = n - cap + 1
    BY <2>1
  <2>3. Newest(s, cap) = SubSeq(s, a, n)
    BY <1>1, <2>1, <2>2 DEF Newest
  <2>4. a <= n /\ n - a + 1 = cap /\ a..n \subseteq 1..n /\ \A i \in 1..cap : a + i - 1 = n - cap + i
    BY <2>1, <2>2
  <2>5. \A i \in a..n : s[i] \in S
    BY <2>1, <2>4
  <2>6. /\ SubSeq(s, a, n) \in Seq(S) /\ Len(SubSeq(s, a, n)) = n - a + 1
        /\ \A i \in 1..(n - a + 1) : SubSeq(s, a, n)[i] = s[a + i - 1]
    BY <2>4, <2>5, SubSeqProperties
  <2> QED
    BY <1>1, <2>1, <2>3, <2>4, <2>6
<1>2. CASE ~(Len(s) > cap)
  <2>1. Newest(s, cap) = s /\ \A i \in 1..Len(s) : Len(s) - Len(s) + i = i
    BY <1>2 DEF Newest
  <2> QED
    BY <1>2, <2>1
<1> QED
  BY <1>1, <1>2

LEMMA Shifted ==
  ASSUME NEW m \in Nat, NEW n \in Nat, NEW k \in Nat, NEW i \in 1..k, k <= m + 1, m <= n, i # k
  PROVE  /\ (m + 1) - k + i \in 1..m /\ n - m + ((m + 1) - k + i) \in 1..n
         /\ n - m + ((m + 1) - k + i) = (n + 1) - k + i
  OBVIOUS

(* The newest events, when one more is appended.                            *)
LEMMA NewestAfterAppend ==
  ASSUME LogTypes, LogIsNewest, NEW ev \in Logged,
         logged' = Append(logged, ev),
         log' = Newest(Append(log, ev), LogCap)
  PROVE  LogIsNewest'
<1>1. PICK m \in Nat, n \in Nat :
         /\ m = Len(log) /\ n = Len(logged) /\ m <= n /\ m <= LogCap
         /\ m < LogCap => m = n
         /\ \A i \in 1..m : log[i] = logged[n - m + i]
         /\ log \in Seq(Logged) /\ logged \in Seq(Logged)
  <2>1. log \in Seq(Logged) /\ logged \in Seq(Logged)
    BY Zenon DEF LogTypes, LogIsNewest
  <2>2. PICK m \in Nat, n \in Nat : m = Len(log) /\ n = Len(logged)
    BY <2>1
  <2>3. /\ m <= n /\ m <= LogCap /\ (m < LogCap => m = n)
        /\ \A i \in 1..m : log[i] = logged[n - m + i]
    BY <2>2, Zenon DEF LogIsNewest
  <2> QED
    BY <2>1, <2>2, <2>3
<1>2. PICK all \in Seq(Logged) :
         /\ all = Append(log, ev) /\ Len(all) = m + 1 /\ all[m + 1] = ev
         /\ \A i \in 1..m : all[i] = log[i]
  <2>1. /\ Append(log, ev) \in Seq(Logged) /\ Len(Append(log, ev)) = m + 1 /\ Append(log, ev)[m + 1] = ev
        /\ \A i \in 1..m : Append(log, ev)[i] = log[i]
    BY <1>1
  <2> QED
    BY <2>1
<1>3. /\ logged' \in Seq(Logged) /\ Len(logged') = n + 1 /\ logged'[n + 1] = ev
      /\ \A i \in 1..n : logged'[i] = logged[i]
  BY <1>1
<1>4. LogCap \in Nat \ {0}
  BY EventLogAssumption
<1>5. log' = Newest(all, LogCap)
  BY <1>2
<1>6. /\ log' \in Seq(Logged) /\ Len(log') = IF m + 1 > LogCap THEN LogCap ELSE m + 1
      /\ \A i \in 1..Len(log') : log'[i] = all[(m + 1) - Len(log') + i]
  <2>1. /\ log' \in Seq(Logged)
        /\ Len(all) > LogCap => Len(log') = LogCap
        /\ ~(Len(all) > LogCap) => Len(log') = Len(all)
        /\ \A i \in 1..Len(log') : log'[i] = all[Len(all) - Len(log') + i]
    BY <1>4, <1>5, NewestOf
  <2> QED
    BY <1>2, <2>1
<1>7. PICK k \in Nat : k = Len(log') /\ k = IF m + 1 > LogCap THEN LogCap ELSE m + 1
  BY <1>4, <1>6
<1>8. k <= m + 1 /\ k <= n + 1 /\ k <= LogCap /\ (k < LogCap => k = n + 1)
  BY <1>1, <1>4, <1>7
<1>9. ASSUME NEW i \in 1..k PROVE log'[i] = logged'[(n + 1) - k + i]
  <2>1. log'[i] = all[(m + 1) - k + i]
    BY <1>6, <1>7
  <2>2. CASE i = k
    <3>1. (m + 1) - k + i = m + 1 /\ (n + 1) - k + i = n + 1
      BY <2>2
    <3> QED
      BY <1>2, <1>3, <2>1, <3>1
  <2>3. CASE i # k
    <3>1. PICK j \in 1..m : j = (m + 1) - k + i /\ n - m + j = (n + 1) - k + i /\ n - m + j \in 1..n
      <4>1. k <= m + 1 /\ m <= n
        BY <1>1, <1>8
      <4>2. /\ (m + 1) - k + i \in 1..m /\ n - m + ((m + 1) - k + i) \in 1..n
            /\ n - m + ((m + 1) - k + i) = (n + 1) - k + i
        BY <2>3, <4>1, Shifted, Zenon
      <4> QED
        BY <4>2
    <3>2. all[j] = log[j] /\ log[j] = logged[n - m + j] /\ logged'[n - m + j] = logged[n - m + j]
      BY <1>1, <1>2, <1>3, <3>1
    <3> QED
      BY <2>1, <3>1, <3>2
  <2> QED
    BY <2>2, <2>3
<1> QED
  BY <1>3, <1>6, <1>7, <1>8, <1>9 DEF LogIsNewest

(* The event of an owed change of band is logged, and no other.             *)
LEMMA LogIsCounted ==
  ASSUME IsFiniteSet(Observers), LogInv, NEW o \in Observers, Log(o)
  PROVE  LogInv'
<1> DEFINE x == observer[o]
           entered == {tr \in Transitions : Enters(tr, x.prev, x.r)}
<1>1. /\ x # Nothing /\ observer' = [observer EXCEPT ![o] = Nothing]
      /\ lastFusedR' = lastFusedR /\ crossed' = crossed
      /\ \/ entered = {} /\ UNCHANGED <<log, seq, logged>>
         \/ \E tr \in entered : Push([id |-> 0, workload |-> x.workload, type |-> tr.type])
  BY DEF Log
<1>2. x \in Swapped /\ x.workload \in Workloads /\ x.prev \in Nat /\ x.r \in Nat
  BY <1>1 DEF LogInv, LogTypes, Swapped
<1> DEFINE changes == Band(x.prev) # Band(x.r) /\ Band(x.r) # "none"
           event == [id |-> seq + 1, workload |-> x.workload, type |-> Band(x.r)]
<1>3. entered = {tr \in Transitions : Band(x.r) = tr.type /\ Band(x.prev) # tr.type}
  BY <1>2, BandIsWhereItIs DEF Enters
<1>4. Band(x.r) \in Types \cup {"none"} /\ (Band(x.r) # "none" => event \in Logged)
  BY <1>2, BandIsWhereItIs DEF Logged, LogInv, LogTypes
<1>5. /\ ~changes => UNCHANGED <<log, seq, logged>>
      /\ changes => /\ seq' = seq + 1 /\ logged' = Append(logged, event)
                    /\ log' = Newest(Append(log, event), LogCap)
  <2>1. ASSUME NEW tr \in entered, Push([id |-> 0, workload |-> x.workload, type |-> tr.type])
        PROVE  /\ changes /\ seq' = seq + 1 /\ logged' = Append(logged, event)
               /\ log' = Newest(Append(log, event), LogCap)
    <3>1. tr.type = Band(x.r) /\ Band(x.prev) # Band(x.r) /\ Band(x.r) \in Types
      BY <1>3, <2>1 DEF Types
    <3>2. "none" \notin Types
      BY DEF Types, Transitions
    <3>3. [[id |-> 0, workload |-> x.workload, type |-> tr.type] EXCEPT !.id = seq + 1] = event
      BY <3>1
    <3> HIDE DEF event
    <3> QED
      BY <2>1, <3>1, <3>2, <3>3 DEF Push, Newest
  <2>2. entered = {} => ~changes
    BY <1>3, <1>4 DEF Types
  <2> HIDE DEF entered, event, changes
  <2> QED
    BY <1>1, <2>1, <2>2
<1>6. LogIsNewest'
  <2>1. CASE changes
    BY <1>4, <1>5, <2>1, NewestAfterAppend DEF LogInv
  <2>2. CASE ~changes
    BY <1>5, <2>2 DEF LogInv, LogIsNewest
  <2> QED
    BY <2>1, <2>2
<1>7. LogTypes'
  <2>1. logged' \in Seq(Logged) /\ seq' \in Nat
    <3>1. logged \in Seq(Logged) /\ seq \in Nat
      BY DEF LogInv, LogTypes
    <3>2. \A e \in Logged : Append(logged, e) \in Seq(Logged)
      BY <3>1
    <3>3. changes => event \in Logged
      BY <1>4
    <3>4. seq + 1 \in Nat
      BY <3>1
    <3> HIDE DEF event, changes
    <3> QED
      BY <1>5, <3>1, <3>2, <3>3, <3>4
  <2> QED
    BY <1>1, <2>1 DEF LogInv, LogTypes
<1>8. ASSUME NEW v \in Workloads, NEW tr \in Transitions
      PROVE  Count(crossed, <<v, tr.type>>)' =
                Count(Told(logged), <<v, tr.type>>)' + Cardinality(OwedOf(v, tr.type))'
  <2> DEFINE c == Count(crossed, <<v, tr.type>>)
             t == Count(Told(logged), <<v, tr.type>>)
             owes == OwedOf(v, tr.type)
             it == changes /\ v = x.workload /\ tr.type = Band(x.r)
  <2>1. c = t + Cardinality(owes) /\ t \in Nat /\ c \in Nat
    BY CountIsNat DEF LogInv, LogTypes, CrossingsAreCounted
  <2>2. c' = c
    BY <1>1 DEF Count
  <2>3. t' = IF it THEN t + 1 ELSE t
    <3>1. t' = Count(Told(logged'), <<v, tr.type>>)
      BY DEF Count, Told
    <3>2. CASE changes
      <4>1. logged \in Seq(Logged) /\ event \in Logged
        BY <1>4, <3>2 DEF LogInv, LogTypes
      <4>2. /\ Told(logged) \in Seq(Workloads \X Types)
            /\ Told(logged') = Append(Told(logged), <<event.workload, event.type>>)
        BY <1>5, <3>2, <4>1, ToldOfAppend
      <4>3. <<event.workload, event.type>> \in Workloads \X Types
        BY <4>1 DEF Logged
      <4>4. Count(Told(logged'), <<v, tr.type>>) =
               IF <<event.workload, event.type>> = <<v, tr.type>> THEN t + 1 ELSE t
        <5>1. PICK pair \in Workloads \X Types : pair = <<event.workload, event.type>>
          BY <4>3
        <5>2. Told(logged) \in Seq(Workloads \X Types)
          BY <4>2
        <5>3. /\ pair = <<v, tr.type>> => Count(Append(Told(logged), pair), <<v, tr.type>>) = t + 1
              /\ pair # <<v, tr.type>> => Count(Append(Told(logged), pair), <<v, tr.type>>) = t
          BY <5>2, CountOfAppend, Zenon
        <5>4. Told(logged') = Append(Told(logged), pair)
          BY <4>2, <5>1
        <5> HIDE DEF event, t
        <5> QED
          BY <5>1, <5>3, <5>4
      <4>5. (<<event.workload, event.type>> = <<v, tr.type>>) <=> it
        BY <3>2
      <4> HIDE DEF it, t, event
      <4> QED
        BY <3>1, <4>4, <4>5
    <3>3. CASE ~changes
      BY <1>5, <3>1, <3>3
    <3> QED
      BY <3>2, <3>3
  <2>4. IsFiniteSet(owes) /\ Cardinality(owes) \in Nat
    BY OwedIsFinite
  <2>5. o \in owes <=> it
    <3>1. tr.type # "none"
      BY DEF Transitions
    <3> QED
      BY <1>1, <3>1 DEF OwedOf, Owed
  <2>6. owes' = owes \ {o}
    <3>1. DOMAIN observer = Observers
      BY DEF LogInv, LogTypes
    <3>2. observer'[o] = Nothing /\ \A p \in Observers \ {o} : observer'[p] = observer[p]
      BY <1>1, <3>1
    <3>3. owes' = {p \in Observers : /\ observer'[p] # Nothing /\ Band(observer'[p].prev) # Band(observer'[p].r)
                                     /\ observer'[p].workload = v /\ Band(observer'[p].r) = tr.type}
      BY DEF OwedOf, Owed
    <3>4. owes = {p \in Observers : /\ observer[p] # Nothing /\ Band(observer[p].prev) # Band(observer[p].r)
                                    /\ observer[p].workload = v /\ Band(observer[p].r) = tr.type}
      BY DEF OwedOf, Owed
    <3> HIDE DEF owes
    <3> QED
      BY <3>2, <3>3, <3>4
  <2>7. Cardinality(owes)' = IF it THEN Cardinality(owes) - 1 ELSE Cardinality(owes)
    <3>1. o \in owes => Cardinality(owes \ {o}) = Cardinality(owes) - 1
      BY <2>4, FS_RemoveElement
    <3>2. o \notin owes => owes \ {o} = owes
      OBVIOUS
    <3> HIDE DEF owes, it
    <3> QED
      BY <2>5, <2>6, <3>1, <3>2
  <2> HIDE DEF c, t, owes, it
  <2>8. c' = t' + Cardinality(owes)'
    BY <2>1, <2>2, <2>3, <2>4, <2>7
  <2> QED
    BY <2>8 DEF c, t, owes
<1>9. CrossingsAreCounted'
  BY <1>8 DEF CrossingsAreCounted
<1> QED
  BY <1>6, <1>7, <1>9 DEF LogInv

LEMMA LogStays == IsFiniteSet(Observers) /\ LogInv /\ [LogNext]_logVars => LogInv'
<1> SUFFICES ASSUME IsFiniteSet(Observers), LogInv, [LogNext]_logVars PROVE LogInv'
  OBVIOUS
<1>1. ASSUME UNCHANGED <<lastFusedR, observer, log, seq, logged, crossed>> PROVE LogInv'
  BY <1>1 DEF LogInv, LogTypes, CrossingsAreCounted, LogIsNewest, Count, Told, OwedOf, Owed
<1> QED
  BY <1>1, SwapIsCounted, LogIsCounted DEF LogNext, logVars, Subscribe, Unsubscribe, ReadEvent

(* Recent(k) is the k newest events, newest first.                          *)
LEMMA LogInvShows == IsFiniteSet(Observers) /\ LogInv => EveryCrossingIsLogged
<1> SUFFICES ASSUME LogInv PROVE EveryCrossingIsLogged
  OBVIOUS
<1> DEFINE n == Len(logged)
           m == Len(log)
<1>1. /\ m \in Nat /\ n \in Nat /\ LogCap \in Nat \ {0} /\ m <= n /\ m <= LogCap
      /\ m < LogCap => m = n
      /\ \A i \in 1..m : log[i] = logged[n - m + i]
      /\ log \in Seq(Logged) /\ logged \in Seq(Logged)
  BY EventLogAssumption DEF LogInv, LogTypes, LogIsNewest
<1>2. Cardinality(DOMAIN logged) = n
  <2>1. DOMAIN logged = 1..n
    BY <1>1
  <2>2. Cardinality(1..n) = n
    <3> HIDE DEF n
    <3>1. 1 \in Int /\ n \in Int
      BY <1>1
    <3>2. Cardinality(1..n) = IF 1 > n THEN 0 ELSE n - 1 + 1
      BY <3>1, FS_Interval
    <3> QED
      BY <1>1, <3>2
  <2> QED
    BY <2>1, <2>2
<1> HIDE DEF n, m
<1>3. ASSUME NEW k \in 1..m
      PROVE  Recent(k) = [i \in 1..k |-> logged[n - i + 1]] /\ (n >= LogCap => m = LogCap)
  <2>1. PICK kept : kept = Newest(log, k)
    OBVIOUS
  <2>2. k \in Nat \ {0} /\ k <= m
    BY <1>1
  <2>3. Len(kept) = k /\ \A i \in 1..k : kept[i] = log[m - k + i]
    <3>0. log \in Seq(Logged) /\ k \in Nat \ {0}
      BY <1>1, <2>2
    <3>1. /\ Len(log) > k => Len(kept) = k
          /\ ~(Len(log) > k) => Len(kept) = Len(log)
          /\ \A i \in 1..Len(kept) : kept[i] = log[Len(log) - Len(kept) + i]
      BY <2>1, <3>0, NewestOf
    <3>2. Len(kept) = k
      BY <1>1, <2>2, <3>1 DEF m
    <3> QED
      BY <3>1, <3>2 DEF m
  <2>4. Recent(k) = [i \in 1..Len(kept) |-> kept[(Len(kept) - i) + 1]]
    BY <2>1 DEF Recent, Reverse, Newest
  <2>5. ASSUME NEW i \in 1..k PROVE kept[(k - i) + 1] = logged[n - i + 1]
    <3>1. /\ (k - i) + 1 \in 1..k /\ m - k + ((k - i) + 1) = m - i + 1 /\ m - i + 1 \in 1..m
          /\ n - m + (m - i + 1) = n - i + 1
      BY <1>1, <2>2
    <3>2. kept[(k - i) + 1] = log[m - i + 1]
      BY <2>3, <3>1
    <3>3. log[m - i + 1] = logged[n - m + (m - i + 1)]
      BY <1>1, <3>1
    <3> QED
      BY <3>1, <3>2, <3>3
  <2>6. Recent(k) = [i \in 1..k |-> logged[n - i + 1]]
    BY <2>3, <2>4, <2>5
  <2>7. n >= LogCap => m = LogCap
    BY <1>1
  <2> QED
    BY <2>6, <2>7
<1>4. ASSUME NEW w \in Workloads, NEW tr \in Transitions
      PROVE  Count(crossed, <<w, tr.type>>) = Count(Told(logged), <<w, tr.type>>)
                + Cardinality({o \in Owed : observer[o].workload = w /\ Band(observer[o].r) = tr.type})
  <2>1. OwedOf(w, tr.type) = {o \in Owed : observer[o].workload = w /\ Band(observer[o].r) = tr.type}
    BY DEF OwedOf
  <2> QED
    BY <2>1 DEF LogInv, CrossingsAreCounted
<1> QED
  BY <1>2, <1>3, <1>4 DEF EveryCrossingIsLogged, n, m

(* However many requests observe FusedR at a time, every change of its band *)
(* between two of them becomes one event of internal/events, or is about to, *)
(* and Recent lists the newest of the events, newest first.                 *)
THEOREM CrossingsAreLogged ==
  ASSUME IsFiniteSet(Observers)
  PROVE  MCSpec => []EveryCrossingIsLogged
<1>1. MCInit => LogInit
  BY DEF MCInit
<1>2. [MCNext]_allVars => [LogNext]_logVars
  BY DEF MCNext, allVars
<1> QED
  BY <1>1, <1>2, LogStarts, LogStays, LogInvShows, PTL DEF MCSpec

----------------------------------------------------------------------------
(***************************************************************************)
(* The critical anomalies and the alerter.                                 *)
(***************************************************************************)
(* Among keeps the elements of a sequence that are in X. *)
LEMMA AmongOf ==
  ASSUME NEW E, NEW s \in Seq(E), NEW X
  PROVE  Among(s, X) \in Seq(E) /\ Range(Among(s, X)) = Range(s) \cap X
<1>1. Among(s, X) = Keeping(s, X)
  BY Zenon DEF Among, Keeping
<1> QED
  BY <1>1, KeepingOf

LEMMA OnTheGrid ==
  ASSUME NEW n \in Nat, n > 0, NEW a \in Nat
  PROVE  a % n \in 0..(n - 1) /\ a \div n \in Nat /\ a = n * (a \div n) + (a % n)
  <1>1. a % n \in 0..(n - 1) /\ a \div n \in Nat
    OBVIOUS
  <1>2. a = n * (a \div n) + (a % n)
    OBVIOUS
  <1> QED
    BY <1>1, <1>2

(* An instant, and the next one on the grid. *)
LEMMA NextOnTheGrid ==
  ASSUME NEW n \in Nat, n > 0, NEW a \in Nat
  PROVE  a - (a % n) + n \in Nat /\ a - (a % n) + n > a /\ (a - (a % n) + n) % n = 0
<1>1. PICK m \in 0..(n - 1), k \in Nat : m = a % n /\ a = n * k + m
  BY OnTheGrid
<1>2. PICK next \in Nat : next = (a - m) + n /\ next > a
  OBVIOUS
<1>3. next = n * (k + 1)
  BY <1>1, <1>2
<1>4. \A j \in Nat : (n * j) % n = 0
  OBVIOUS
<1>5. next % n = 0
  BY <1>3, <1>4
<1> QED
  BY <1>1, <1>2, <1>5

----------------------------------------------------------------------------
Anomaly == [host : Hosts, metric : Metrics, value : Values, severity : {"critical", "warning"}, ts : Int]

\* What an anomaly was published as.
Publications == [ev : Anomaly, at : Nat, ticked : BOOLEAN, n : Nat]

\* The anomalies that are published last are the last of the ring.
RingHolds ==
    \A p \in pushed : Cardinality(After(p)) < RingCap =>
        Cardinality(After(p)) < Len(ring) /\ ring[Len(ring) - Cardinality(After(p))] = p.ev

HandInv ==
    /\ time \in Nat /\ ticked \in BOOLEAN /\ ring \in Seq(Anomaly)
    /\ IsFiniteSet(pushed) /\ pushed \subseteq Publications
    /\ \A p \in pushed : p.n < Cardinality(pushed)
    /\ RingHolds
    /\ CriticalIsHandedOver

LEMMA HandStarts == AlertingInit => HandInv
  <1> SUFFICES ASSUME AlertingInit PROVE HandInv
    OBVIOUS
  <1>1. time = 0 /\ ticked = FALSE /\ ring = <<>> /\ pushed = {}
    BY Zenon DEF AlertingInit
  <1>2. IsFiniteSet(pushed)
    BY <1>1, FS_EmptySet
  <1>3. time \in Nat /\ ticked \in BOOLEAN /\ ring \in Seq(Anomaly)
    <2>1. ring \in Seq(Anomaly)
      BY <1>1, EmptySeq
    <2> QED
      BY <1>1, <2>1
  <1>4. RingHolds /\ CriticalIsHandedOver /\ pushed \subseteq Publications /\ \A p \in pushed : p.n < Cardinality(pushed)
    BY <1>1, Zenon DEF RingHolds, CriticalIsHandedOver
  <1> QED
    BY <1>2, <1>3, <1>4, Zenon DEF HandInv

(* The tick an anomaly is due at is not over when it is published, and is   *)
(* a multiple of the interval.                                             *)
LEMMA TickIsDue ==
  ASSUME NEW p \in Publications
  PROVE  /\ NextTick(p) \in Nat /\ NextTick(p) % Interval = 0
         /\ p.at = time /\ p.ticked = ticked => ~Past(NextTick(p))
<1>1. Interval \in Nat /\ Interval # 0
  BY AlertingAssumption
<1>2. PICK a \in Nat, b \in BOOLEAN : a = p.at /\ b = p.ticked
  BY DEF Publications
<1>3. PICK next \in Nat : next = a - (a % Interval) + Interval /\ next > a /\ next % Interval = 0
  <2>1. Interval > 0
    BY <1>1
  <2> QED
    BY <1>1, <2>1, NextOnTheGrid
<1>4. CASE a % Interval = 0 /\ ~b
  <2>1. NextTick(p) = a
    BY <1>2, <1>4 DEF NextTick
  <2> QED
    BY <1>2, <1>4, <2>1 DEF Past
<1>5. CASE ~(a % Interval = 0 /\ ~b)
  <2>1. NextTick(p) = next
    BY <1>2, <1>3, <1>5, Zenon DEF NextTick
  <2>2. a = time => ~Past(next)
    BY <1>3 DEF Past
  <2> QED
    BY <1>2, <1>3, <2>1, <2>2
<1> QED
  BY <1>4, <1>5

(* What a step that publishes nothing keeps. *)
LEMMA NothingPublished ==
  HandInv /\ UNCHANGED <<ring, pushed>> =>
     /\ ring' \in Seq(Anomaly) /\ IsFiniteSet(pushed') /\ pushed' \subseteq Publications
     /\ \A p \in pushed' : p.n < Cardinality(pushed')
     /\ RingHolds'
  BY DEF HandInv, RingHolds, After

(* One more anomaly after each of the older ones, and none after it. *)
LEMMA OneMoreAfter ==
  ASSUME HandInv, NEW new, new.n = Cardinality(pushed), pushed' = pushed \cup {new}
  PROVE  /\ Cardinality(pushed') = Cardinality(pushed) + 1 /\ IsFiniteSet(pushed')
         /\ \A p \in pushed : /\ Cardinality(After(p)) \in Nat
                              /\ Cardinality(After(p)') = Cardinality(After(p)) + 1
         /\ Cardinality(After(new)') = 0
<1>1. IsFiniteSet(pushed) /\ Cardinality(pushed) \in Nat
  BY FS_CardinalityType DEF HandInv
<1>2. \A p \in pushed : p.n \in Nat /\ p.n < Cardinality(pushed)
  BY DEF HandInv, Publications
<1>3. new \notin pushed
  BY <1>1, <1>2
<1>4. Cardinality(pushed') = Cardinality(pushed) + 1 /\ IsFiniteSet(pushed')
  BY <1>1, <1>3, FS_AddElement
<1>5. ASSUME NEW p \in pushed
      PROVE  Cardinality(After(p)) \in Nat /\ Cardinality(After(p)') = Cardinality(After(p)) + 1
  <2>1. After(p) \subseteq pushed
    BY DEF After
  <2>2. IsFiniteSet(After(p)) /\ Cardinality(After(p)) \in Nat
    BY <1>1, <2>1, FS_Subset, FS_CardinalityType
  <2>3. new.n > p.n
    BY <1>2
  <2>4. After(p)' = After(p) \cup {new} /\ new \notin After(p)
    BY <1>3, <2>1, <2>3 DEF After
  <2> QED
    BY <2>2, <2>4, FS_AddElement
<1>6. After(new)' = {}
  <2>1. \A q \in pushed' : ~(q.n > new.n)
    BY <1>1, <1>2
  <2> QED
    BY <2>1 DEF After
<1> QED
  BY <1>4, <1>5, <1>6, FS_EmptySet

(* The ring keeps the newest when an anomaly is put into it. *)
LEMMA RingKeeps ==
  ASSUME HandInv, NEW ev \in Anomaly, NEW new, new.ev = ev, new.n = Cardinality(pushed),
         pushed' = pushed \cup {new}, ring' = Newest(Append(ring, ev), RingCap)
  PROVE  ring' \in Seq(Anomaly) /\ RingHolds'
<1>1. RingCap \in Nat /\ RingCap # 0 /\ RingCap \in Nat \ {0} /\ ring \in Seq(Anomaly)
  BY AlertingAssumption DEF HandInv
<1>2. PICK m \in Nat : m = Len(ring)
  BY <1>1
<1> DEFINE more == Append(ring, ev)
<1>3. more \in Seq(Anomaly) /\ Len(more) = m + 1 /\ more[m + 1] = ev /\ \A i \in 1..m : more[i] = ring[i]
  BY <1>1, <1>2
<1>4. ring' = Newest(more, RingCap)
  OBVIOUS
<1> HIDE DEF more
<1>5. /\ ring' \in Seq(Anomaly)
      /\ Len(more) > RingCap => Len(ring') = RingCap
      /\ ~(Len(more) > RingCap) => Len(ring') = Len(more)
      /\ \A i \in 1..Len(ring') : ring'[i] = more[Len(more) - Len(ring') + i]
  <2>1. /\ Newest(more, RingCap) \in Seq(Anomaly)
        /\ Len(more) > RingCap => Len(Newest(more, RingCap)) = RingCap
        /\ ~(Len(more) > RingCap) => Len(Newest(more, RingCap)) = Len(more)
        /\ \A i \in 1..Len(Newest(more, RingCap)) :
              Newest(more, RingCap)[i] = more[Len(more) - Len(Newest(more, RingCap)) + i]
    <3>1. more \in Seq(Anomaly) /\ RingCap \in Nat \ {0}
      BY <1>1, <1>3
    <3> QED
      BY <3>1, NewestOf
  <2> QED
    BY <1>4, <2>1, Zenon
<1>6. PICK k \in Nat : k = Len(ring')
  BY <1>5
<1>7. (m + 1 > RingCap => k = RingCap) /\ (~(m + 1 > RingCap) => k = m + 1)
      /\ \A i \in 1..k : ring'[i] = more[(m + 1) - k + i]
  BY <1>3, <1>5, <1>6
<1>8. ASSUME NEW d \in Nat, d < RingCap, d < m + 1
      PROVE  d < k /\ ring'[k - d] = more[(m + 1) - d]
  <2>1. d < k /\ k - d \in 1..k /\ (m + 1) - k + (k - d) = (m + 1) - d
    BY <1>1, <1>7, <1>8
  <2> QED
    BY <1>7, <2>1
<1>9. /\ \A p \in pushed : /\ Cardinality(After(p)) \in Nat
                           /\ Cardinality(After(p)') = Cardinality(After(p)) + 1
      /\ Cardinality(After(new)') = 0
  BY OneMoreAfter
<1>10. ASSUME NEW p \in pushed, Cardinality(After(p)') < RingCap
       PROVE  Cardinality(After(p)') < k /\ ring'[k - Cardinality(After(p)')] = p.ev
  <2>1. PICK d \in Nat : d = Cardinality(After(p)) /\ Cardinality(After(p)') = d + 1
    BY <1>9
  <2>2. d < m /\ ring[m - d] = p.ev
    BY <1>1, <1>2, <1>10, <2>1 DEF HandInv, RingHolds
  <2>3. d + 1 < m + 1 /\ (m + 1) - (d + 1) = m - d /\ m - d \in 1..m /\ d + 1 < RingCap
    BY <1>10, <2>1, <2>2
  <2>4. d + 1 < k /\ ring'[k - (d + 1)] = more[m - d]
    BY <1>8, <2>3
  <2> QED
    BY <1>3, <2>1, <2>2, <2>3, <2>4
<1>11. 0 < k /\ ring'[k - 0] = ev
  <2>1. 0 < RingCap /\ 0 < m + 1 /\ (m + 1) - 0 = m + 1
    BY <1>1
  <2>2. 0 < k /\ ring'[k - 0] = more[(m + 1) - 0]
    BY <1>8, <2>1
  <2> QED
    BY <1>3, <2>1, <2>2
<1>12. \A p \in pushed' : Cardinality(After(p)') < RingCap =>
          Cardinality(After(p)') < Len(ring') /\ ring'[Len(ring') - Cardinality(After(p)')] = p.ev
  BY <1>6, <1>9, <1>10, <1>11
<1> QED
  BY <1>5, <1>12, Zenon DEF RingHolds

(* A step that publishes, and one of the clock or of another handler.       *)
LEMMA ObservedIsDueLater ==
  ASSUME HandInv, NEW h \in Hosts, NEW m \in Metrics, NEW value \in Values, NEW methods, NEW ts \in Int,
         Observe(h, m, value, methods, ts)
  PROVE  HandInv'
<1> DEFINE agreed == Consensus(methods)
           ev == [host |-> h, metric |-> m, value |-> value, severity |-> Severity(agreed), ts |-> ts]
           new == [ev |-> ev, at |-> time, ticked |-> ticked, n |-> Cardinality(pushed)]
<1>1. /\ ring' = Newest(Append(ring, ev), RingCap) /\ pushed' = pushed \cup {new}
      /\ time' = time /\ ticked' = ticked /\ handed' = handed
  BY Zenon DEF Observe
<1>2. ev \in Anomaly
  BY DEF Anomaly, Severity
<1> HIDE DEF ev
<1>3. time \in Nat /\ ticked \in BOOLEAN /\ Cardinality(pushed) \in Nat /\ pushed \subseteq Publications
      /\ \A p \in pushed : p.n < Cardinality(pushed)
  BY FS_CardinalityType DEF HandInv
<1>4. new \in Publications /\ new.ev = ev /\ new.n = Cardinality(pushed) /\ new.at = time /\ new.ticked = ticked
  BY <1>2, <1>3 DEF Publications
<1> HIDE DEF new
<1>5. ring' \in Seq(Anomaly) /\ RingHolds'
  BY <1>1, <1>2, <1>4, RingKeeps
<1>6. /\ Cardinality(pushed') = Cardinality(pushed) + 1 /\ IsFiniteSet(pushed')
      /\ \A p \in pushed : /\ Cardinality(After(p)) \in Nat
                           /\ Cardinality(After(p)') = Cardinality(After(p)) + 1
  BY <1>1, <1>4, OneMoreAfter
<1>7. pushed' \subseteq Publications /\ \A p \in pushed' : p.n < Cardinality(pushed')
  <2>1. \A p \in pushed : p.n \in Nat
    BY <1>3 DEF Publications
  <2> QED
    BY <1>1, <1>3, <1>4, <1>6, <2>1
<1>8. \A t : Past(t)' = Past(t)
  BY <1>1 DEF Past
<1>9. ~Past(NextTick(new))
  BY <1>4, TickIsDue
<1>10. CriticalIsHandedOver'
  <2> SUFFICES ASSUME NEW p \in pushed', KeyHost[p.ev.host] = p.ev.host, p.ev.severity = "critical", Past(NextTick(p))',
                      p.ev.ts >= NextTick(p) - Interval, Cardinality(After(p)') < RingCap
               PROVE  p.ev \in handed'
    BY DEF CriticalIsHandedOver, HandedOver, NextTick
  <2>1. Past(NextTick(p))
    BY <1>1 DEF Past
  <2>2. p \in pushed
    BY <1>1, <1>9, <2>1
  <2>3. Cardinality(After(p)) < RingCap
    <3>1. RingCap \in Nat
      BY AlertingAssumption
    <3> QED
      BY <1>6, <2>2, <3>1
  <2> QED
    BY <1>1, <2>1, <2>2, <2>3 DEF HandInv, CriticalIsHandedOver, HandedOver
<1> QED
  BY <1>1, <1>3, <1>5, <1>6, <1>7, <1>10 DEF HandInv

(* What AllHosts lists is finite, and an order of it has every host of it. *)
LEMMA ListedAreFinite == IsFiniteSet(Hosts) => IsFiniteSet(AllHosts)
<1> SUFFICES ASSUME IsFiniteSet(Hosts) PROVE IsFiniteSet(AllHosts)
  OBVIOUS
<1> DEFINE Cut == [h \in Hosts |-> KeyHost[h]]
<1>1. Cut \in Surjection(Hosts, AllHosts)
  <2>1. Cut \in [Hosts -> AllHosts]
    BY DEF AllHosts
  <2>2. \A k \in AllHosts : \E h \in Hosts : Cut[h] = k
    BY DEF AllHosts
  <2> QED
    BY <2>1, <2>2, Fun_IsSurj
<1> QED
  BY <1>1, FS_Surjection

LEMMA OrderListsAll ==
  ASSUME IsFiniteSet(AllHosts), NEW order \in SetToSeqs(AllHosts)
  PROVE  /\ \E n \in Nat : DOMAIN order = 1..n
         /\ \A i \in DOMAIN order : order[i] \in AllHosts
         /\ \A h \in AllHosts : \E i \in DOMAIN order : order[i] = h
<1>1. PICK n \in Nat : n = Cardinality(AllHosts)
  BY FS_CardinalityType
<1>2. order \in [1..n -> AllHosts] /\ \A i, j \in 1..n : i # j => order[i] # order[j]
  BY <1>1, Zenon DEF SetToSeqs
<1>3. order \in Injection(1..n, AllHosts)
  BY <1>2, Fun_IsInj
<1>4. IsFiniteSet(1..n) /\ Cardinality(1..n) = n
  BY FS_Interval
<1>5. order \in Surjection(1..n, AllHosts)
  BY <1>1, <1>3, <1>4, FS_Injection
<1>6. \A h \in AllHosts : \E i \in 1..n : order[i] = h
  BY <1>5, Fun_SurjectionProperties
<1> QED
  BY <1>2, <1>6

(* What the tick hands over: whatever the ring holds that is critical and   *)
(* recent, of every host whose name has no colon.                          *)
LEMMA TickHandsOver ==
  ASSUME IsFiniteSet(AllHosts), ring \in Seq(Anomaly), NEW order \in SetToSeqs(AllHosts), NEW now
  PROVE  \A ev \in Range(ring) : ev.severity = "critical" /\ ev.ts >= now - Interval /\ KeyHost[ev.host] = ev.host =>
            ev \in Range(FlattenSeq([i \in DOMAIN order |-> Critical(order[i], now)]))
<1> DEFINE ss == [i \in DOMAIN order |-> Critical(order[i], now)]
<1>1. \A h : /\ Critical(h, now) \in Seq(Anomaly)
             /\ \A ev \in Range(ring) : ev.severity = "critical" /\ ev.ts >= now - Interval /\ ev.host = h
                   => ev \in Range(Critical(h, now))
  <2> TAKE h
  <2> DEFINE recent == {ev \in Range(ring) : ev.ts >= now - Interval /\ ev.host = h}
  <2>1. RecentAnomalies(h, now - Interval) = Among(ring, recent)
    BY Zenon DEF RecentAnomalies
  <2> HIDE DEF recent
  <2>2. RecentAnomalies(h, now - Interval) \in Seq(Anomaly)
        /\ Range(RecentAnomalies(h, now - Interval)) = Range(ring) \cap recent
    BY <2>1, AmongOf
  <2>3. Critical(h, now) = Among(RecentAnomalies(h, now - Interval), Criticals)
    BY Zenon DEF Critical
  <2>4. Critical(h, now) \in Seq(Anomaly)
        /\ Range(Critical(h, now)) = Range(RecentAnomalies(h, now - Interval)) \cap Criticals
    BY <2>2, <2>3, AmongOf
  <2> QED
    BY <2>2, <2>4 DEF recent, Criticals
<1>2. /\ \E n \in Nat : DOMAIN order = 1..n
      /\ \A h \in AllHosts : \E i \in DOMAIN order : order[i] = h
  BY OrderListsAll
<1>3. ss \in Seq(Seq(Anomaly)) /\ DOMAIN ss = DOMAIN order
  BY <1>1, <1>2
<1>4. Range(FlattenSeq(ss)) = UNION {Range(ss[i]) : i \in DOMAIN ss}
  BY <1>3, FlattenHolds
<1>5. ASSUME NEW ev \in Range(ring), ev.severity = "critical" /\ ev.ts >= now - Interval,
             KeyHost[ev.host] = ev.host
      PROVE  ev \in Range(FlattenSeq(ss))
  <2>1. ev.host \in AllHosts
    <3>1. ev \in Anomaly
      BY DEF Range
    <3>2. \A r \in Anomaly : r.host \in Hosts
      BY DEF Anomaly
    <3>3. \E h \in Hosts : ev.host = KeyHost[h]
      BY <1>5, <3>1, <3>2
    <3> QED
      BY <3>3, Zenon DEF AllHosts
  <2>2. PICK i \in DOMAIN order : order[i] = ev.host
    BY <1>2, <2>1
  <2>3. ss[i] = Critical(ev.host, now)
    BY <2>2
  <2>4. ev \in Range(ss[i])
    BY <1>1, <1>5, <2>3
  <2> HIDE DEF ss
  <2> QED
    BY <1>3, <1>4, <2>4
<1> QED
  BY <1>5

LEMMA TickHands ==
  ASSUME HandInv, IsFiniteSet(Hosts), Tick PROVE HandInv'
<1>1. PICK order \in SetToSeqs(AllHosts) :
         handed' = handed \cup Range(FlattenSeq([i \in DOMAIN order |-> Critical(order[i], time)]))
  BY Zenon DEF Tick
<1>2. ticked' = TRUE /\ time' = time /\ ring' = ring /\ pushed' = pushed /\ time % Interval = 0 /\ ~ticked
  BY DEF Tick, pipelineVars
<1>3. ring \in Seq(Anomaly) /\ pushed \subseteq Publications /\ time \in Nat
  BY DEF HandInv
<1>4. CriticalIsHandedOver'
  <2> SUFFICES ASSUME NEW p \in pushed, KeyHost[p.ev.host] = p.ev.host, p.ev.severity = "critical", Past(NextTick(p))',
                      p.ev.ts >= NextTick(p) - Interval, Cardinality(After(p)) < RingCap
               PROVE  p.ev \in handed'
    BY <1>2 DEF CriticalIsHandedOver, HandedOver, NextTick, After
  <2>1. NextTick(p) < time \/ NextTick(p) = time
    BY <1>2 DEF Past
  <2>2. CASE NextTick(p) < time
    <3>1. p.ev \in handed
      BY <2>2 DEF HandInv, CriticalIsHandedOver, HandedOver, Past
    <3> QED
      BY <1>1, <3>1
  <2>3. CASE NextTick(p) = time
    <3>1. Cardinality(After(p)) < Len(ring) /\ ring[Len(ring) - Cardinality(After(p))] = p.ev
      BY DEF HandInv, RingHolds
    <3>2. Cardinality(After(p)) \in Nat
      <4>1. After(p) \subseteq pushed /\ IsFiniteSet(pushed)
        BY DEF After, HandInv
      <4> QED
        BY <4>1, FS_Subset, FS_CardinalityType
    <3>3. p.ev \in Range(ring)
      <4>1. Len(ring) - Cardinality(After(p)) \in DOMAIN ring
        BY <1>3, <3>1, <3>2
      <4> QED
        BY <3>1, <4>1 DEF Range
    <3>4. p.ev \in Range(FlattenSeq([i \in DOMAIN order |-> Critical(order[i], time)]))
      BY <1>3, <2>3, <3>3, ListedAreFinite, TickHandsOver
    <3> QED
      BY <1>1, <3>4
  <2> QED
    BY <2>1, <2>2, <2>3
<1>5. UNCHANGED <<ring, pushed>>
  BY <1>2
<1> QED
  BY <1>2, <1>3, <1>4, <1>5, NothingPublished DEF HandInv

LEMMA AdvanceOwesNothing ==
  ASSUME HandInv, Advance PROVE HandInv'
<1>1. /\ time' = time + 1 /\ ticked' = FALSE /\ ring' = ring /\ pushed' = pushed /\ handed' = handed
      /\ time % Interval = 0 => ticked
  BY DEF Advance, pipelineVars
<1>2. pushed \subseteq Publications /\ time \in Nat
  BY DEF HandInv
<1>3. CriticalIsHandedOver'
  <2> SUFFICES ASSUME NEW p \in pushed, KeyHost[p.ev.host] = p.ev.host, p.ev.severity = "critical", Past(NextTick(p))',
                      p.ev.ts >= NextTick(p) - Interval, Cardinality(After(p)) < RingCap
               PROVE  p.ev \in handed
    BY <1>1 DEF CriticalIsHandedOver, HandedOver, NextTick, After
  <2>1. NextTick(p) \in Nat /\ NextTick(p) % Interval = 0
    BY <1>2, TickIsDue
  <2>2. NextTick(p) < time \/ NextTick(p) = time
    BY <1>1, <1>2, <2>1 DEF Past
  <2>3. Past(NextTick(p))
    BY <1>1, <2>1, <2>2 DEF Past
  <2> QED
    BY <2>3 DEF HandInv, CriticalIsHandedOver, HandedOver
<1>4. /\ ring' \in Seq(Anomaly) /\ IsFiniteSet(pushed') /\ pushed' \subseteq Publications
      /\ \A p \in pushed' : p.n < Cardinality(pushed')
      /\ RingHolds'
  <2>1. UNCHANGED <<ring, pushed>>
    BY <1>1
  <2> QED
    BY <2>1, NothingPublished
<1>5. time' \in Nat /\ ticked' \in BOOLEAN
  <2>1. ticked' = FALSE /\ FALSE \in BOOLEAN
    BY <1>1
  <2>2. time' = time + 1 /\ time \in Nat
    BY <1>1, <1>2
  <2>3. time' \in Nat
    BY <2>2
  <2> QED
    BY <2>1, <2>3, Zenon
<1> QED
  BY <1>3, <1>4, <1>5, Zenon DEF HandInv

LEMMA OthersHandNothing ==
  ASSUME HandInv, UNCHANGED <<time, ticked, ring, pushed, handed>> PROVE HandInv'
<1>1. CriticalIsHandedOver'
  BY DEF HandInv, CriticalIsHandedOver, HandedOver, NextTick, Past, After
<1>2. /\ ring' \in Seq(Anomaly) /\ IsFiniteSet(pushed') /\ pushed' \subseteq Publications
      /\ \A p \in pushed' : p.n < Cardinality(pushed')
      /\ RingHolds'
  <2>1. UNCHANGED <<ring, pushed>>
    OBVIOUS
  <2> QED
    BY <2>1, NothingPublished
<1>3. time' \in Nat /\ ticked' \in BOOLEAN
  BY DEF HandInv
<1> QED
  BY <1>1, <1>2, <1>3, Zenon DEF HandInv

LEMMA HandStays == IsFiniteSet(Hosts) /\ HandInv /\ [AlertingNext]_alertingVars => HandInv'
<1> SUFFICES ASSUME IsFiniteSet(Hosts), HandInv, [AlertingNext]_alertingVars PROVE HandInv'
  OBVIOUS
<1>1. CASE \E h \in Hosts, m \in Metrics, v \in Values, methods \in {<<"zscore">>, <<"seasonal">>, <<"zscore", "mad">>} :
             \E ts \in {time, time - Interval - 1} : Observe(h, m, v, methods, ts)
  <2>1. time \in Int /\ time - Interval - 1 \in Int
    BY AlertingAssumption DEF HandInv
  <2>2. PICK h \in Hosts, m \in Metrics, v \in Values, methods \in {<<"zscore">>, <<"seasonal">>, <<"zscore", "mad">>} :
           \E ts \in {time, time - Interval - 1} : Observe(h, m, v, methods, ts)
    BY <1>1, Zenon
  <2>3. PICK ts \in Int : Observe(h, m, v, methods, ts)
    BY <2>1, <2>2
  <2> QED
    BY <2>3, ObservedIsDueLater
<1>2. CASE Tick
  BY <1>2, TickHands
<1>3. CASE Advance
  BY <1>3, AdvanceOwesNothing
<1>4. CASE \E w \in Windows : HandleSuppressions(w)
  BY <1>4, OthersHandNothing DEF HandleSuppressions, AddMaintenanceWindow, RemoveMaintenanceWindow, pipelineVars
<1>5. CASE \E id \in DOMAIN al.active : Acknowledge(id) \/ Delete(id)
  BY <1>5, OthersHandNothing, Zenon DEF Acknowledge, Delete, pipelineVars
<1>6. CASE Forward
  BY <1>6, OthersHandNothing, Zenon DEF Forward, pipelineVars
<1>7. CASE Notify
  BY <1>7, OthersHandNothing, Zenon DEF Notify, pipelineVars
<1>8. CASE \E i \in DOMAIN queue : HandleActions(queue[i].id)
  BY <1>8, OthersHandNothing, Zenon DEF HandleActions, Approve, Reject, pipelineVars
<1>9. CASE UNCHANGED alertingVars
  BY <1>9, OthersHandNothing DEF alertingVars, pipelineVars
<1> QED
  BY <1>1, <1>2, <1>3, <1>4, <1>5, <1>6, <1>7, <1>8, <1>9, Zenon DEF AlertingNext

(* No critical anomaly falls between two ticks of the alerter              *)
(* (cmd/ruptura/main.go), whatever the interval and the size of the ring:  *)
(* one that is published in the interval it happened in is handed over by  *)
(* the tick that ends it, unless as many were published after it as the    *)
(* ring holds, or its host's name has a colon, where AllHosts cuts it.     *)
THEOREM CriticalsAreHandedOver ==
  ASSUME IsFiniteSet(Hosts) PROVE MCSpec => []CriticalIsHandedOver
<1>1. MCInit => HandInv
  BY HandStarts DEF MCInit
<1>2. HandInv /\ [MCNext]_allVars => HandInv'
  <2> SUFFICES ASSUME HandInv, [MCNext]_allVars PROVE HandInv'
    OBVIOUS
  <2>1. [AlertingNext]_alertingVars
    BY DEF MCNext, allVars
  <2> QED
    BY <2>1, HandStays
<1>3. HandInv => CriticalIsHandedOver
  BY DEF HandInv
<1> QED
  BY <1>1, <1>2, <1>3, PTL DEF MCSpec

----------------------------------------------------------------------------
(***************************************************************************)
(* The alerts of the alerter, and which of them its index names.           *)
(***************************************************************************)
Into(D, R) == UNION {[d -> R] : d \in SUBSET D}

LEMMA IntoOf ==
  ASSUME NEW D, NEW R, NEW f \in Into(D, R)
  PROVE  DOMAIN f \subseteq D /\ \A k \in DOMAIN f : f[k] \in R
  BY DEF Into

LEMMA NoneIsInto == ASSUME NEW D, NEW R PROVE <<>> \in Into(D, R) /\ DOMAIN <<>> = {}
<1>1. <<>> = [k \in {} |-> 0]
  OBVIOUS
<1>2. [k \in {} |-> 0] \in [{} -> R]
  OBVIOUS
<1>3. DOMAIN [k \in {} |-> 0] = {}
  OBVIOUS
<1>4. {} \in SUBSET D
  OBVIOUS
<1> QED
  BY <1>1, <1>2, <1>3, <1>4, Zenon DEF Into

Grown(g, f, key, v) ==
    DOMAIN g = DOMAIN f \cup {key} /\ g[key] = v /\ \A k \in DOMAIN f : k # key => g[k] = f[k]
Shrunk(g, f, keys) == DOMAIN g = DOMAIN f \ keys /\ \A k \in DOMAIN f \ keys : g[k] = f[k]

LEMMA WithIsInto ==
  ASSUME NEW D, NEW R, NEW f \in Into(D, R), NEW key \in D, NEW v \in R
  PROVE  With(f, key, v) \in Into(D, R) /\ Grown(With(f, key, v), f, key, v)
<1>1. PICK d \in SUBSET D : f \in [d -> R]
  BY Zenon DEF Into
<1>2. With(f, key, v) = [k \in d \cup {key} |-> IF k = key THEN v ELSE f[k]]
  BY <1>1 DEF With
<1>3. With(f, key, v) \in [d \cup {key} -> R]
  BY <1>1, <1>2
<1>4. d \cup {key} \in SUBSET D
  OBVIOUS
<1>5. With(f, key, v) \in Into(D, R)
  BY <1>3, <1>4, Zenon DEF Into
<1> QED
  BY <1>1, <1>2, <1>5 DEF Grown

LEMMA WithoutIsInto ==
  ASSUME NEW D, NEW R, NEW f \in Into(D, R), NEW keys
  PROVE  Without(f, keys) \in Into(D, R) /\ Shrunk(Without(f, keys), f, keys)
<1>1. PICK d \in SUBSET D : f \in [d -> R]
  BY Zenon DEF Into
<1>2. Without(f, keys) = [k \in d \ keys |-> f[k]]
  BY <1>1 DEF Without
<1>3. Without(f, keys) \in [d \ keys -> R]
  BY <1>1, <1>2
<1>4. d \ keys \in SUBSET D
  OBVIOUS
<1>5. Without(f, keys) \in Into(D, R)
  BY <1>3, <1>4, Zenon DEF Into
<1> QED
  BY <1>1, <1>2, <1>5 DEF Shrunk

----------------------------------------------------------------------------
RuleNames == {rule.name : rule \in Range(DefaultRules)}
Keys == RuleNames \X Hosts
Scores == {p[1] \div p[2].threshold : p \in Values \X Range(DefaultRules)}
Alerts == [id : Nat, rule : RuleNames, host : Hosts, metric : Metrics, status : {"active", "acknowledged"},
           severity : {rule.severity : rule \in Range(DefaultRules)}, score : Scores]
Alerters == [active : Into(Nat, Alerts), idx : Into(Keys, Nat), fired : Into(Keys, Nat), ch : Seq(Alerts),
             dropped : Nat, next : Nat, raised : Seq(Keys)]

\* What was raised names every alert there is, and the index the newest of a
\* rule and a host.
RaisedAre(alerts, raised, next) ==
    /\ next # 0 /\ Len(raised) = next - 1
    /\ \A id \in DOMAIN alerts : id \in 1..(next - 1) /\ raised[id] = <<alerts[id].rule, alerts[id].host>>

NewestIn(id, raised, next) == \A other \in 1..(next - 1) : other > id => raised[other] # raised[id]

IndexNames(alerts, idx, raised, next) ==
    \A id \in DOMAIN alerts :
        alerts[id].status = "active" /\ NewestIn(id, raised, next)
            => raised[id] \in DOMAIN idx /\ idx[raised[id]] = id

Resolvable(a) == RaisedAre(a.active, a.raised, a.next) /\ IndexNames(a.active, a.idx, a.raised, a.next)

ResolvableAlerters == {a \in Alerters : Resolvable(a)}

(* An alert that is raised is the newest of its rule and host.              *)
LEMMA RaisingNames ==
  ASSUME NEW alerts \in Into(Nat, Alerts), NEW idx \in Into(Keys, Nat), NEW raised \in Seq(Keys), NEW next \in Nat,
         RaisedAre(alerts, raised, next), IndexNames(alerts, idx, raised, next),
         NEW alert \in Alerts, NEW key \in Keys, key = <<alert.rule, alert.host>>
  PROVE  /\ RaisedAre(With(alerts, next, alert), Append(raised, key), next + 1)
         /\ IndexNames(With(alerts, next, alert), With(idx, key, next), Append(raised, key), next + 1)
<1> DEFINE act == With(alerts, next, alert)
           ix == With(idx, key, next)
           more == Append(raised, key)
<1>1. /\ DOMAIN act = DOMAIN alerts \cup {next} /\ act[next] = alert
      /\ \A k \in DOMAIN alerts : k # next => act[k] = alerts[k]
  <2>1. Grown(act, alerts, next, alert)
    BY WithIsInto
  <2> QED
    BY <2>1 DEF Grown
<1>2. /\ DOMAIN ix = DOMAIN idx \cup {key} /\ ix[key] = next
      /\ \A k \in DOMAIN idx : k # key => ix[k] = idx[k]
  <2>1. Grown(ix, idx, key, next)
    BY WithIsInto
  <2> QED
    BY <2>1 DEF Grown
<1>3. next # 0 /\ Len(raised) = next - 1
  BY DEF RaisedAre
<1>4. Len(more) = (next + 1) - 1 /\ more[next] = key /\ \A i \in 1..(next - 1) : more[i] = raised[i]
  BY <1>3
<1> HIDE DEF act, ix, more
<1>5. \A id \in DOMAIN alerts : id \in 1..(next - 1) /\ id # next /\ raised[id] = <<alerts[id].rule, alerts[id].host>>
  BY <1>3 DEF RaisedAre
<1>6. next \in 1..next /\ \A i \in 1..(next - 1) : i \in 1..next /\ next > i
  BY <1>3
<1>7. RaisedAre(act, more, next + 1)
  <2>1. next + 1 # 0 /\ (next + 1) - 1 = next
    OBVIOUS
  <2>2. ASSUME NEW id \in DOMAIN act PROVE id \in 1..next /\ more[id] = <<act[id].rule, act[id].host>>
    BY <1>1, <1>4, <1>5, <1>6
  <2> QED
    BY <1>4, <2>1, <2>2 DEF RaisedAre
<1>8. IndexNames(act, ix, more, next + 1)
  <2>1. (next + 1) - 1 = next
    OBVIOUS
  <2> SUFFICES ASSUME NEW id \in DOMAIN act, act[id].status = "active", NewestIn(id, more, next + 1)
               PROVE  more[id] \in DOMAIN ix /\ ix[more[id]] = id
    BY DEF IndexNames
  <2>2. CASE id = next
    BY <1>2, <1>4, <2>2
  <2>3. CASE id # next
    <3>1. id \in DOMAIN alerts /\ act[id] = alerts[id] /\ id \in 1..(next - 1) /\ more[id] = raised[id]
      BY <1>1, <1>4, <1>5, <2>3
    <3>2. \A other \in 1..next : other > id => more[other] # more[id]
      BY <2>1 DEF NewestIn
    <3>3. raised[id] # key
      BY <1>4, <1>6, <3>1, <3>2
    <3>4. NewestIn(id, raised, next)
      BY <1>4, <1>6, <3>1, <3>2 DEF NewestIn
    <3>5. raised[id] \in DOMAIN idx /\ idx[raised[id]] = id
      BY <3>1, <3>4 DEF IndexNames
    <3> QED
      BY <1>2, <3>1, <3>3, <3>5
  <2> QED
    BY <2>2, <2>3
<1> QED
  BY <1>7, <1>8 DEF act, ix, more

(* An alert that is resolved is the one the index names.                    *)
LEMMA ResolvingNames ==
  ASSUME NEW alerts \in Into(Nat, Alerts), NEW idx \in Into(Keys, Nat), NEW raised, NEW next,
         RaisedAre(alerts, raised, next), IndexNames(alerts, idx, raised, next),
         NEW key \in DOMAIN idx, NEW gone, gone = {i \in {idx[key]} \cap DOMAIN alerts : alerts[i].status = "active"}
  PROVE  /\ RaisedAre(Without(alerts, gone), raised, next)
         /\ IndexNames(Without(alerts, gone), Without(idx, {key}), raised, next)
<1> DEFINE act == Without(alerts, gone)
           ix == Without(idx, {key})
<1>1. DOMAIN act = DOMAIN alerts \ gone /\ \A k \in DOMAIN alerts \ gone : act[k] = alerts[k]
  <2>1. Shrunk(act, alerts, gone)
    BY WithoutIsInto
  <2> QED
    BY <2>1 DEF Shrunk
<1>2. DOMAIN ix = DOMAIN idx \ {key} /\ \A k \in DOMAIN idx \ {key} : ix[k] = idx[k]
  <2>1. Shrunk(ix, idx, {key})
    BY WithoutIsInto
  <2> QED
    BY <2>1 DEF Shrunk
<1> HIDE DEF act, ix
<1>3. RaisedAre(act, raised, next)
  BY <1>1 DEF RaisedAre
<1>4. IndexNames(act, ix, raised, next)
  BY <1>1, <1>2 DEF IndexNames
<1> QED
  BY <1>3, <1>4 DEF act, ix

(* A subset of the alerts, and an alert that is acknowledged.               *)
LEMMA FewerNames ==
  ASSUME NEW alerts \in Into(Nat, Alerts), NEW idx, NEW raised, NEW next,
         RaisedAre(alerts, raised, next), IndexNames(alerts, idx, raised, next), NEW gone
  PROVE  /\ RaisedAre(Without(alerts, gone), raised, next)
         /\ IndexNames(Without(alerts, gone), idx, raised, next)
<1> DEFINE act == Without(alerts, gone)
<1>1. DOMAIN act = DOMAIN alerts \ gone /\ \A k \in DOMAIN alerts \ gone : act[k] = alerts[k]
  <2>1. Shrunk(act, alerts, gone)
    BY WithoutIsInto
  <2> QED
    BY <2>1 DEF Shrunk
<1> HIDE DEF act
<1>2. RaisedAre(act, raised, next)
  BY <1>1 DEF RaisedAre
<1>3. IndexNames(act, idx, raised, next)
  BY <1>1 DEF IndexNames
<1> QED
  BY <1>2, <1>3 DEF act

LEMMA FieldsOf ==
  ASSUME NEW a \in Alerters
  PROVE  /\ a.active \in Into(Nat, Alerts) /\ a.idx \in Into(Keys, Nat) /\ a.fired \in Into(Keys, Nat)
         /\ a.ch \in Seq(Alerts) /\ a.dropped \in Nat /\ a.next \in Nat /\ a.raised \in Seq(Keys)
  BY DEF Alerters

LEMMA EvictingStays ==
  ASSUME NEW a \in ResolvableAlerters PROVE Evict(a) \in ResolvableAlerters
<1>1. a \in Alerters /\ Resolvable(a)
  BY DEF ResolvableAlerters
<1> DEFINE old == {k \in DOMAIN a.fired : time - a.fired[k] > FiredTTL}
<1>2. Evict(a) = [a EXCEPT !.fired = Without(a.fired, old)]
  BY DEF Evict
<1> HIDE DEF old
<1>3. Without(a.fired, old) \in Into(Keys, Nat)
  BY <1>1, FieldsOf, WithoutIsInto
<1>4. PICK f \in Into(Keys, Nat) : Evict(a) = [a EXCEPT !.fired = f]
  BY <1>2, <1>3
<1>5. /\ [a EXCEPT !.fired = f] \in Alerters
      /\ [a EXCEPT !.fired = f].active = a.active /\ [a EXCEPT !.fired = f].idx = a.idx
      /\ [a EXCEPT !.fired = f].raised = a.raised /\ [a EXCEPT !.fired = f].next = a.next
  BY <1>1 DEF Alerters
<1> QED
  BY <1>1, <1>4, <1>5 DEF ResolvableAlerters, Resolvable

LEMMA FiringStays ==
  ASSUME NEW a \in ResolvableAlerters, time \in Nat, NEW alert \in Alerts, NEW key \in Keys, key = <<alert.rule, alert.host>>
  PROVE  Fire(a, key, alert) \in ResolvableAlerters
<1>1. a \in Alerters /\ Resolvable(a)
  BY DEF ResolvableAlerters
<1>2. /\ a.active \in Into(Nat, Alerts) /\ a.idx \in Into(Keys, Nat) /\ a.fired \in Into(Keys, Nat)
      /\ a.ch \in Seq(Alerts) /\ a.dropped \in Nat /\ a.next \in Nat /\ a.raised \in Seq(Keys)
  BY <1>1, FieldsOf
<1>3. PICK act \in Into(Nat, Alerts) : act = With(a.active, a.next, alert)
  BY <1>2, WithIsInto
<1>4. PICK ix \in Into(Keys, Nat) : ix = With(a.idx, key, a.next)
  BY <1>2, WithIsInto
<1>5. PICK f \in Into(Keys, Nat) : f = With(a.fired, key, time)
  BY <1>2, WithIsInto
<1>6. PICK c \in Seq(Alerts) : c = IF Len(a.ch) < ChanCap THEN Append(a.ch, alert) ELSE a.ch
  <2>1. Append(a.ch, alert) \in Seq(Alerts)
    BY <1>2, RangeOfMore
  <2> QED
    BY <1>2, <2>1, Zenon
<1>7. PICK d \in Nat : d = IF Len(a.ch) < ChanCap THEN a.dropped ELSE a.dropped + 1
  BY <1>2
<1>8. PICK told \in Seq(Keys), n \in Nat : told = Append(a.raised, key) /\ n = a.next + 1
  <2>1. Append(a.raised, key) \in Seq(Keys)
    BY <1>2, RangeOfMore
  <2>2. a.next + 1 \in Nat
    BY <1>2
  <2> QED
    BY <2>1, <2>2, Zenon
<1>9. Fire(a, key, alert) = [a EXCEPT !.active = act, !.idx = ix, !.fired = f, !.ch = c, !.dropped = d, !.next = n, !.raised = told]
  BY <1>3, <1>4, <1>5, <1>6, <1>7, <1>8, Zenon DEF Fire
<1> DEFINE b == [a EXCEPT !.active = act, !.idx = ix, !.fired = f, !.ch = c, !.dropped = d, !.next = n, !.raised = told]
<1>10. b \in Alerters /\ b.active = act /\ b.idx = ix /\ b.raised = told /\ b.next = n
  BY <1>1 DEF Alerters
<1> HIDE DEF b
<1>11. RaisedAre(act, told, n) /\ IndexNames(act, ix, told, n)
  <2>1. RaisedAre(a.active, a.raised, a.next) /\ IndexNames(a.active, a.idx, a.raised, a.next)
    BY <1>1 DEF Resolvable
  <2>2. /\ RaisedAre(With(a.active, a.next, alert), Append(a.raised, key), a.next + 1)
        /\ IndexNames(With(a.active, a.next, alert), With(a.idx, key, a.next), Append(a.raised, key), a.next + 1)
    BY <1>2, <2>1, RaisingNames
  <2> QED
    BY <1>3, <1>4, <1>8, <2>2
<1>12. Resolvable(b)
  BY <1>10, <1>11 DEF Resolvable
<1>13. Fire(a, key, alert) = b
  BY <1>9 DEF b
<1> QED
  BY <1>10, <1>12, <1>13 DEF ResolvableAlerters

LEMMA ResolvingStays ==
  ASSUME NEW a \in ResolvableAlerters, NEW key PROVE Resolve(a, key) \in ResolvableAlerters
<1>1. a \in Alerters /\ Resolvable(a)
  BY DEF ResolvableAlerters
<1>2. CASE key \notin DOMAIN a.idx
  <2>1. Resolve(a, key) = a
    BY <1>2, Zenon DEF Resolve
  <2> QED
    BY <2>1
<1>3. CASE key \in DOMAIN a.idx
  <2>1. /\ a.active \in Into(Nat, Alerts) /\ a.idx \in Into(Keys, Nat) /\ a.fired \in Into(Keys, Nat)
    BY <1>1, FieldsOf
  <2> DEFINE gone == {i \in {a.idx[key]} \cap DOMAIN a.active : a.active[i].status = "active"}
  <2>2. Resolve(a, key) = [a EXCEPT !.active = Without(a.active, gone), !.idx = Without(a.idx, {key}),
                                    !.fired = Without(a.fired, {key})]
    BY <1>3 DEF Resolve
  <2>3. RaisedAre(a.active, a.raised, a.next) /\ IndexNames(a.active, a.idx, a.raised, a.next)
    BY <1>1 DEF Resolvable
  <2>4. /\ RaisedAre(Without(a.active, gone), a.raised, a.next)
        /\ IndexNames(Without(a.active, gone), Without(a.idx, {key}), a.raised, a.next)
    BY <1>3, <2>1, <2>3, ResolvingNames
  <2> HIDE DEF gone
  <2>5. PICK act \in Into(Nat, Alerts) : act = Without(a.active, gone)
    BY <2>1, WithoutIsInto
  <2>6. PICK ix \in Into(Keys, Nat) : ix = Without(a.idx, {key})
    BY <2>1, WithoutIsInto
  <2>7. PICK f \in Into(Keys, Nat) : f = Without(a.fired, {key})
    BY <2>1, WithoutIsInto
  <2> DEFINE b == [a EXCEPT !.active = act, !.idx = ix, !.fired = f]
  <2>8. Resolve(a, key) = b
    BY <2>2, <2>5, <2>6, <2>7, Zenon
  <2>9. b \in Alerters /\ b.active = act /\ b.idx = ix /\ b.raised = a.raised /\ b.next = a.next
    BY <1>1 DEF Alerters
  <2> HIDE DEF b
  <2>10. RaisedAre(act, a.raised, a.next) /\ IndexNames(act, ix, a.raised, a.next)
    BY <2>4, <2>5, <2>6
  <2>11. Resolvable(b)
    BY <2>9, <2>10 DEF Resolvable
  <2> QED
    BY <2>8, <2>9, <2>11 DEF ResolvableAlerters
<1> QED
  BY <1>2, <1>3

LEMMA EvaluatingARuleStays ==
  ASSUME NEW a \in ResolvableAlerters, time \in Nat, NEW rule \in Range(DefaultRules), NEW ev \in Anomaly
  PROVE  EvaluateRule(a, rule, ev) \in ResolvableAlerters
<1> DEFINE key == <<rule.name, ev.host>>
           alert == [id |-> a.next, rule |-> rule.name, host |-> ev.host, metric |-> ev.metric, status |-> "active",
                     severity |-> rule.severity, score |-> ev.value \div rule.threshold]
<1>1. EvaluateRule(a, rule, ev) \in {a, Resolve(a, key), Fire(a, key, alert)}
  BY Zenon DEF EvaluateRule
<1>2. a \in Alerters
  BY DEF ResolvableAlerters
<1>3. a.next \in Nat /\ ev.host \in Hosts /\ ev.metric \in Metrics /\ ev.value \in Values
  <2>1. a.next \in Nat
    BY <1>2, FieldsOf
  <2> QED
    BY <2>1 DEF Anomaly
<1>4. rule.name \in RuleNames /\ rule.severity \in {r.severity : r \in Range(DefaultRules)}
  BY DEF RuleNames
<1>5. ev.value \div rule.threshold \in Scores
  <2>1. <<ev.value, rule>> \in Values \X Range(DefaultRules) /\ <<ev.value, rule>>[1] = ev.value /\ <<ev.value, rule>>[2] = rule
    BY <1>3
  <2> QED
    BY <2>1, Zenon DEF Scores
<1>6. alert \in Alerts /\ key = <<alert.rule, alert.host>>
  BY <1>3, <1>4, <1>5 DEF Alerts
<1>7. key \in Keys
  BY <1>3, <1>4 DEF Keys
<1> HIDE DEF key, alert
<1>8. Fire(a, key, alert) \in ResolvableAlerters
  BY <1>6, <1>7, FiringStays
<1>9. Resolve(a, key) \in ResolvableAlerters
  BY ResolvingStays
<1> QED
  BY <1>1, <1>8, <1>9

(* What holds of the first k elements of a sequence holds of all of it.      *)
LEMMA PrefixesStay ==
  ASSUME NEW n \in Nat, NEW A, NEW jt, jt[{}] \in A, \A k \in 1..n : jt[1..(k - 1)] \in A => jt[1..k] \in A
  PROVE  jt[1..n] \in A
<1> DEFINE P == {k \in Nat : k \in 0..n => jt[1..k] \in A}
<1>1. 0 \in P
  <2>1. 1..0 = {}
    OBVIOUS
  <2> QED
    BY <2>1
<1>2. ASSUME NEW k \in Nat, k \in P PROVE k + 1 \in P
  <2> SUFFICES ASSUME k + 1 \in 0..n PROVE jt[1..(k + 1)] \in A
    OBVIOUS
  <2>1. k + 1 \in 1..n /\ (k + 1) - 1 = k /\ k \in 0..n
    OBVIOUS
  <2>2. jt[1..k] \in A
    BY <1>2, <2>1
  <2> QED
    BY <2>1, <2>2
<1> HIDE DEF P
<1>3. n \in P
  BY <1>1, <1>2, EveryNatural
<1> QED
  BY <1>3 DEF P

LEMMA EvaluatingStays ==
  ASSUME NEW a \in ResolvableAlerters, time \in Nat, NEW ev \in Anomaly
  PROVE  Evaluate(a, ev) \in ResolvableAlerters
<1>1. CASE IsSuppressed(ev.host)
  <2>1. Evaluate(a, ev) = a
    BY <1>1, Zenon DEF Evaluate
  <2> QED
    BY <2>1
<1>2. CASE ~IsSuppressed(ev.host)
  <2>1. PICK n \in Nat : n = Len(DefaultRules) /\ DOMAIN DefaultRules = 1..n
                         /\ \A i \in 1..n : DefaultRules[i] \in Range(DefaultRules)
    <3>1. DefaultRules \in Seq(Range(DefaultRules))
      BY AlertingAssumption
    <3> HIDE DEF Range
    <3> QED
      BY <3>1
  <2> DEFINE A == ResolvableAlerters
             base == Evict(a)
             Eq(it) == it = [t \in SUBSET (1..n) |-> IF t = {} THEN base ELSE
                                EvaluateRule(it[t \ {Max(t)}], DefaultRules[Max(t)], ev)]
             G == [p \in (1..n) \X A |-> EvaluateRule(p[2], DefaultRules[p[1]], ev)]
  <2>2. Evaluate(a, ev) = (CHOOSE it : Eq(it))[1..n]
    BY <1>2, <2>1, Zenon DEF Evaluate, FoldLeft, MapThenFoldSet
  <2>3. base \in A
    BY EvictingStays
  <2>4. \A d \in 1..n, b \in A : G[<<d, b>>] = EvaluateRule(b, DefaultRules[d], ev) /\ G[<<d, b>>] \in A
    <3>1. \A d \in 1..n, b \in A : EvaluateRule(b, DefaultRules[d], ev) \in A
      BY <2>1, EvaluatingARuleStays
    <3> HIDE DEF A
    <3> QED
      BY <3>1
  <2> HIDE DEF A, G, base
  <2>5. PICK it : Runs(it, n, A, base, G)
    <3>1. \A d \in 1..n, b \in A : G[<<d, b>>] \in A
      BY <2>4
    <3> QED
      BY <2>3, <3>1, RunIsDefined
  <2>6. /\ it \in [SUBSET (1..n) -> A]
        /\ \A t \in SUBSET (1..n) : it[t] = IF t = {} THEN base ELSE G[<<Max(t), it[t \ {Max(t)}]>>]
    BY <2>5, Zenon DEF Runs
  <2>7. ASSUME NEW t \in SUBSET (1..n)
        PROVE  it[t] = IF t = {} THEN base ELSE EvaluateRule(it[t \ {Max(t)}], DefaultRules[Max(t)], ev)
    <3>1. CASE t = {}
      BY <2>6, <3>1
    <3>2. CASE t # {}
      <4>1. Max(t) \in 1..n
        BY <3>2, MaxOfUpto
      <4>2. it[t \ {Max(t)}] \in A
        BY <2>6
      <4>3. it[t] = G[<<Max(t), it[t \ {Max(t)}]>>]
        BY <2>6, <3>2
      <4> QED
        BY <2>4, <3>2, <4>1, <4>2, <4>3
    <3> QED
      BY <3>1, <3>2
  <2>8. Eq(it)
    BY <2>6, <2>7
  <2>9. Eq(CHOOSE f : Eq(f))
    <3> HIDE DEF Eq
    <3> QED
      BY <2>8
  <2> DEFINE jt == CHOOSE f : Eq(f)
  <2>10. \A t \in SUBSET (1..n) : jt[t] = IF t = {} THEN base ELSE EvaluateRule(jt[t \ {Max(t)}], DefaultRules[Max(t)], ev)
    BY <2>9
  <2> HIDE DEF jt
  <2>11. jt[{}] \in A
    BY <2>3, <2>10
  <2>12. ASSUME NEW k \in 1..n, jt[1..(k - 1)] \in A PROVE jt[1..k] \in A
    <3>1. Max(1..k) = k /\ 1..k # {} /\ (1..k) \ {k} = 1..(k - 1) /\ 1..k \in SUBSET (1..n)
      BY MaxOfUpto
    <3>2. jt[1..k] = EvaluateRule(jt[1..(k - 1)], DefaultRules[k], ev)
      BY <2>10, <3>1
    <3> QED
      BY <2>1, <2>12, <3>2, EvaluatingARuleStays DEF A
  <2>13. jt[1..n] \in A
    BY <2>11, <2>12, PrefixesStay
  <2> QED
    BY <2>2, <2>13 DEF jt, A
<1> QED
  BY <1>1, <1>2

LEMMA EvaluatingAllStays ==
  ASSUME NEW a \in ResolvableAlerters, time \in Nat, NEW evs \in Seq(Anomaly)
  PROVE  FoldLeft(Evaluate, a, evs) \in ResolvableAlerters
<1>1. PICK n \in Nat : n = Len(evs) /\ DOMAIN evs = 1..n /\ \A i \in 1..n : evs[i] \in Anomaly
  OBVIOUS
<1> DEFINE A == ResolvableAlerters
           Eq(it) == it = [t \in SUBSET (1..n) |-> IF t = {} THEN a ELSE Evaluate(it[t \ {Max(t)}], evs[Max(t)])]
           G == [p \in (1..n) \X A |-> Evaluate(p[2], evs[p[1]])]
<1>2. FoldLeft(Evaluate, a, evs) = (CHOOSE it : Eq(it))[1..n]
  BY <1>1, Zenon DEF FoldLeft, MapThenFoldSet
<1>3. \A d \in 1..n, b \in A : Evaluate(b, evs[d]) \in A
  BY <1>1, EvaluatingStays
<1>4. \A d \in 1..n, b \in A : G[<<d, b>>] = Evaluate(b, evs[d]) /\ G[<<d, b>>] \in A
  <2> HIDE DEF A
  <2> QED
    BY <1>3
<1> HIDE DEF A, G
<1>5. PICK it : Runs(it, n, A, a, G)
  <2>1. \A d \in 1..n, b \in A : G[<<d, b>>] \in A
    BY <1>4
  <2>2. a \in A
    BY DEF A
  <2> QED
    BY <2>1, <2>2, RunIsDefined
<1>6. /\ it \in [SUBSET (1..n) -> A]
      /\ \A t \in SUBSET (1..n) : it[t] = IF t = {} THEN a ELSE G[<<Max(t), it[t \ {Max(t)}]>>]
  BY <1>5, Zenon DEF Runs
<1>7. ASSUME NEW t \in SUBSET (1..n)
      PROVE  it[t] = IF t = {} THEN a ELSE Evaluate(it[t \ {Max(t)}], evs[Max(t)])
  <2>1. CASE t = {}
    BY <1>6, <2>1
  <2>2. CASE t # {}
    <3>1. Max(t) \in 1..n
      BY <2>2, MaxOfUpto
    <3>2. it[t \ {Max(t)}] \in A
      BY <1>6
    <3>3. it[t] = G[<<Max(t), it[t \ {Max(t)}]>>]
      BY <1>6, <2>2
    <3> QED
      BY <1>4, <2>2, <3>1, <3>2, <3>3
  <2> QED
    BY <2>1, <2>2
<1>8. Eq(it)
  BY <1>6, <1>7
<1>9. Eq(CHOOSE f : Eq(f))
  <2> HIDE DEF Eq
  <2> QED
    BY <1>8
<1> DEFINE jt == CHOOSE f : Eq(f)
<1>10. \A t \in SUBSET (1..n) : jt[t] = IF t = {} THEN a ELSE Evaluate(jt[t \ {Max(t)}], evs[Max(t)])
  BY <1>9
<1> HIDE DEF jt
<1>11. jt[{}] \in A
  BY <1>10 DEF A
<1>12. ASSUME NEW k \in 1..n, jt[1..(k - 1)] \in A PROVE jt[1..k] \in A
  <2>1. Max(1..k) = k /\ 1..k # {} /\ (1..k) \ {k} = 1..(k - 1) /\ 1..k \in SUBSET (1..n)
    BY MaxOfUpto
  <2>2. jt[1..k] = Evaluate(jt[1..(k - 1)], evs[k])
    BY <1>10, <2>1
  <2> QED
    BY <1>3, <1>12, <2>2 DEF A
<1>13. jt[1..n] \in A
  BY <1>11, <1>12, PrefixesStay
<1> QED
  BY <1>2, <1>13 DEF jt, A

ResolvableInv == HandInv /\ al \in ResolvableAlerters

LEMMA NothingIsRaised == AlertingInit => al \in ResolvableAlerters
<1> SUFFICES ASSUME AlertingInit PROVE al \in ResolvableAlerters
  OBVIOUS
<1>1. al = [active |-> <<>>, idx |-> <<>>, fired |-> <<>>, ch |-> <<>>, dropped |-> 0, next |-> 1, raised |-> <<>>]
  BY DEF AlertingInit
<1>2. al.next = 1 /\ al.raised = <<>> /\ al.active = <<>>
  BY <1>1
<1>3. /\ <<>> \in Into(Nat, Alerts) /\ <<>> \in Into(Keys, Nat) /\ DOMAIN <<>> = {}
      /\ <<>> \in Seq(Alerts) /\ <<>> \in Seq(Keys) /\ Len(<<>>) = 0
  BY NoneIsInto, EmptySeq
<1>4. al \in Alerters
  <2>1. 0 \in Nat /\ 1 \in Nat
    OBVIOUS
  <2> QED
    BY <1>1, <1>3, <2>1 DEF Alerters
<1>5. RaisedAre(<<>>, <<>>, 1) /\ IndexNames(<<>>, al.idx, <<>>, 1)
  BY <1>3 DEF RaisedAre, IndexNames
<1> QED
  BY <1>2, <1>4, <1>5 DEF ResolvableAlerters, Resolvable

LEMMA AcknowledgingStays ==
  ASSUME al \in ResolvableAlerters, NEW id, Acknowledge(id) PROVE al' \in ResolvableAlerters
<1>1. al \in Alerters /\ Resolvable(al) /\ id \in DOMAIN al.active
  BY DEF ResolvableAlerters, Acknowledge
<1>2. al.active \in Into(Nat, Alerts)
  BY <1>1, FieldsOf
<1> DEFINE alert == [al.active[id] EXCEPT !.status = "acknowledged"]
<1>3. al.active[id] \in Alerts
  BY <1>1, <1>2, IntoOf
<1>4. alert \in Alerts /\ alert.rule = al.active[id].rule /\ alert.host = al.active[id].host /\ alert.status # "active"
  BY <1>3 DEF Alerts
<1>5. al' = [al EXCEPT !.active = [al.active EXCEPT ![id] = alert]]
  BY DEF Acknowledge
<1> HIDE DEF alert
<1>6. PICK d \in SUBSET Nat : al.active \in [d -> Alerts]
  BY <1>2, Zenon DEF Into
<1>7. [al.active EXCEPT ![id] = alert] \in [d -> Alerts]
  BY <1>4, <1>6
<1>8. PICK act \in Into(Nat, Alerts) : act = [al.active EXCEPT ![id] = alert]
  BY <1>7, Zenon DEF Into
<1>9. DOMAIN act = DOMAIN al.active /\ act[id] = alert /\ \A k \in DOMAIN al.active : k # id => act[k] = al.active[k]
  BY <1>1, <1>6, <1>8
<1>10. al' = [al EXCEPT !.active = act]
  BY <1>5, <1>8
<1>11. /\ al' \in Alerters /\ al'.active = act
       /\ al'.idx = al.idx /\ al'.raised = al.raised /\ al'.next = al.next
  BY <1>1, <1>10 DEF Alerters
<1>12. RaisedAre(al.active, al.raised, al.next) /\ IndexNames(al.active, al.idx, al.raised, al.next)
  BY <1>1 DEF Resolvable
<1>13. RaisedAre(act, al.raised, al.next)
  BY <1>1, <1>4, <1>9, <1>12 DEF RaisedAre
<1>14. IndexNames(act, al.idx, al.raised, al.next)
  BY <1>4, <1>9, <1>12 DEF IndexNames
<1> QED
  BY <1>11, <1>13, <1>14 DEF ResolvableAlerters, Resolvable

LEMMA DeletingStays ==
  ASSUME al \in ResolvableAlerters, NEW id, Delete(id) PROVE al' \in ResolvableAlerters
<1>1. al \in Alerters /\ Resolvable(al)
  BY DEF ResolvableAlerters
<1>2. al.active \in Into(Nat, Alerts)
  BY <1>1, FieldsOf
<1>3. PICK act \in Into(Nat, Alerts) : act = Without(al.active, {id})
  BY <1>2, WithoutIsInto
<1>4. al' = [al EXCEPT !.active = act]
  BY <1>3 DEF Delete
<1>5. /\ al' \in Alerters /\ al'.active = act
      /\ al'.idx = al.idx /\ al'.raised = al.raised /\ al'.next = al.next
  BY <1>1, <1>4 DEF Alerters
<1>6. RaisedAre(act, al.raised, al.next) /\ IndexNames(act, al.idx, al.raised, al.next)
  BY <1>1, <1>2, <1>3, FewerNames DEF Resolvable
<1> QED
  BY <1>5, <1>6 DEF ResolvableAlerters, Resolvable

LEMMA ForwardingStays ==
  ASSUME al \in ResolvableAlerters, Forward PROVE al' \in ResolvableAlerters
<1>1. al \in Alerters /\ Resolvable(al)
  BY DEF ResolvableAlerters
<1>2. al.ch \in Seq(Alerts) /\ al.ch # <<>> /\ al' = [al EXCEPT !.ch = Tail(al.ch)]
  BY <1>1, FieldsOf DEF Forward
<1>3. PICK c \in Seq(Alerts) : c = Tail(al.ch)
  <2>1. \A s \in Seq(Alerts) : s # <<>> => Tail(s) \in Seq(Alerts)
    BY HeadTailProperties
  <2> QED
    BY <1>2, <2>1, Zenon
<1>4. al' = [al EXCEPT !.ch = c]
  BY <1>2, <1>3
<1>5. /\ al' \in Alerters /\ al'.active = al.active
      /\ al'.idx = al.idx /\ al'.raised = al.raised /\ al'.next = al.next
  BY <1>1, <1>4 DEF Alerters
<1> QED
  BY <1>1, <1>5 DEF ResolvableAlerters, Resolvable

LEMMA TickStays ==
  ASSUME HandInv, al \in ResolvableAlerters, IsFiniteSet(Hosts), Tick PROVE al' \in ResolvableAlerters
<1>1. PICK order \in SetToSeqs(AllHosts) :
         al' = FoldLeft(Evaluate, al, FlattenSeq([i \in DOMAIN order |-> Critical(order[i], time)]))
  BY Zenon DEF Tick
<1> DEFINE ss == [i \in DOMAIN order |-> Critical(order[i], time)]
<1>2. \A h : Critical(h, time) \in Seq(Anomaly)
  <2> TAKE h
  <2>1. RecentAnomalies(h, time - Interval) \in Seq(Anomaly)
    <3>1. ring \in Seq(Anomaly)
      BY DEF HandInv
    <3> QED
      BY <3>1, AmongOf DEF RecentAnomalies
  <2> QED
    BY <2>1, AmongOf DEF Critical
<1>3. ss \in Seq(Seq(Anomaly))
  <2>1. PICK n \in Nat : DOMAIN order = 1..n
    BY OrderListsAll, ListedAreFinite
  <2> QED
    BY <1>2, <2>1
<1> HIDE DEF ss
<1>4. FlattenSeq(ss) \in Seq(Anomaly)
  BY <1>3, FlattenHolds
<1>5. al' = FoldLeft(Evaluate, al, FlattenSeq(ss))
  BY <1>1 DEF ss
<1>6. time \in Nat
  BY DEF HandInv
<1> QED
  BY <1>4, <1>5, <1>6, EvaluatingAllStays

LEMMA ResolvableStays == IsFiniteSet(Hosts) /\ ResolvableInv /\ [AlertingNext]_alertingVars => ResolvableInv'
<1> SUFFICES ASSUME IsFiniteSet(Hosts), HandInv, al \in ResolvableAlerters, [AlertingNext]_alertingVars
             PROVE  al' \in ResolvableAlerters
  BY HandStays DEF ResolvableInv
<1>0. ASSUME al' = al PROVE al' \in ResolvableAlerters
  BY <1>0
<1>1. CASE \E h \in Hosts, m \in Metrics, v \in Values, methods \in {<<"zscore">>, <<"seasonal">>, <<"zscore", "mad">>} :
             \E ts \in {time, time - Interval - 1} : Observe(h, m, v, methods, ts)
  <2>1. \A h, m, v, methods, ts : Observe(h, m, v, methods, ts) => al' = al
    BY DEF Observe
  <2>2. al' = al
    BY <1>1, <2>1
  <2> QED
    BY <1>0, <2>2
<1>2. CASE Tick
  BY <1>2, TickStays
<1>3. CASE Advance
  BY <1>0, <1>3 DEF Advance
<1>4. CASE \E w \in Windows : HandleSuppressions(w)
  BY <1>0, <1>4, Zenon DEF HandleSuppressions, AddMaintenanceWindow, RemoveMaintenanceWindow
<1>5. CASE \E id \in DOMAIN al.active : Acknowledge(id) \/ Delete(id)
  BY <1>5, AcknowledgingStays, DeletingStays
<1>6. CASE Forward
  BY <1>6, ForwardingStays
<1>7. CASE Notify
  BY <1>0, <1>7 DEF Notify
<1>8. CASE \E i \in DOMAIN queue : HandleActions(queue[i].id)
  BY <1>0, <1>8, Zenon DEF HandleActions, Approve, Reject
<1>9. CASE UNCHANGED alertingVars
  BY <1>0, <1>9 DEF alertingVars
<1> QED
  BY <1>1, <1>2, <1>3, <1>4, <1>5, <1>6, <1>7, <1>8, <1>9, Zenon DEF AlertingNext

LEMMA ResolvableShows == ASSUME al \in ResolvableAlerters PROVE NewestIsResolvable
<1>1. RaisedAre(al.active, al.raised, al.next) /\ IndexNames(al.active, al.idx, al.raised, al.next)
  BY DEF ResolvableAlerters, Resolvable
<1> SUFFICES ASSUME NEW id \in GetActive,
                    \A other \in 1..(al.next - 1) : other > id =>
                        al.raised[other] # <<al.active[id].rule, al.active[id].host>>
             PROVE  /\ <<al.active[id].rule, al.active[id].host>> \in DOMAIN al.idx
                    /\ al.idx[<<al.active[id].rule, al.active[id].host>>] = id
  BY DEF NewestIsResolvable
<1>2. id \in DOMAIN al.active /\ al.active[id].status = "active"
  BY DEF GetActive
<1>3. al.raised[id] = <<al.active[id].rule, al.active[id].host>>
  BY <1>1, <1>2 DEF RaisedAre
<1>4. NewestIn(id, al.raised, al.next)
  BY <1>3 DEF NewestIn
<1> QED
  BY <1>1, <1>2, <1>3, <1>4 DEF IndexNames

(* When the condition of a rule clears, the alert it raised last for the    *)
(* host is resolved, whatever was acknowledged, deleted or forgotten in     *)
(* between (internal/alerter): the index names it as long as it is active.  *)
THEOREM NewestStaysResolvable ==
  ASSUME IsFiniteSet(Hosts) PROVE MCSpec => []NewestIsResolvable
<1>1. MCInit => ResolvableInv
  BY HandStarts, NothingIsRaised DEF MCInit, ResolvableInv
<1>2. ResolvableInv /\ [MCNext]_allVars => ResolvableInv'
  <2> SUFFICES ASSUME ResolvableInv, [MCNext]_allVars PROVE ResolvableInv'
    OBVIOUS
  <2>1. [AlertingNext]_alertingVars
    BY DEF MCNext, allVars
  <2> QED
    BY <2>1, ResolvableStays
<1>3. ResolvableInv => NewestIsResolvable
  BY ResolvableShows DEF ResolvableInv
<1> QED
  BY <1>1, <1>2, <1>3, PTL DEF MCSpec

----------------------------------------------------------------------------
(***************************************************************************)
(* The health score of a workload.                                         *)
(***************************************************************************)
LEMMA LeastAndGreatest ==
  ASSUME NEW n \in Nat, NEW S, S \subseteq 0..n, S # {}
  PROVE  Min(S) \in S /\ Max(S) \in S /\ \A x \in S : Min(S) <= x /\ x <= Max(S)
<1>1. PICK x \in S : \A y \in S : x <= y
  <2>1. S \subseteq Nat
    OBVIOUS
  <2> QED
    BY <2>1, LeastOfNaturals
<1>2. Min(S) \in S /\ \A y \in S : Min(S) <= y
  <2> DEFINE Is(m) == m \in S /\ \A y \in S : m <= y
  <2>1. Is(x)
    BY <1>1
  <2>2. Is(CHOOSE m : Is(m))
    <3> HIDE DEF Is
    <3> QED
      BY <2>1
  <2>3. Min(S) = CHOOSE m \in S : \A y \in S : m <= y
    BY Zenon DEF Min
  <2> QED
    BY <1>1, <2>3
<1>3. PICK z \in S : \A y \in S : y <= z
  BY GreatestOfNaturals, Zenon
<1>4. Max(S) \in S /\ \A y \in S : y <= Max(S)
  <2>1. \A y \in S : z >= y
    BY <1>3
  <2> QED
    BY <2>1 DEF Max
<1> QED
  BY <1>2, <1>4

LEMMA HealthHasAName == ASSUME NEW v \in Int PROVE StateOf("health_score", v) # "unavailable"
<1> DEFINE bounds == <<80, 60, 40, 20>>
           names == <<"excellent", "good", "fair", "poor", "critical">>
           under == {i \in 1..4 : v > bounds[i]}
           k == IF under # {} THEN Min(under) ELSE 5
<1>1. DOMAIN bounds = 1..4 /\ Len(names) = 5
  OBVIOUS
<1>2. k \in 1..5
  <2>1. under # {} => Min(under) \in under
    <3>1. under \subseteq 0..4
      OBVIOUS
    <3> HIDE DEF under
    <3> QED
      BY <3>1, LeastAndGreatest
  <2> QED
    BY <2>1
<1>3. StateOf("health_score", v) = Falling(v, bounds, names)
  BY DEF StateOf
<1>4. Falling(v, bounds, names) = names[k]
  <2>1. (\E i \in 1..4 : v > bounds[i]) <=> under # {}
    OBVIOUS
  <2> QED
    BY <1>1, <2>1, Zenon DEF Falling
<1>5. \A i \in 1..5 : names[i] # "unavailable"
  OBVIOUS
<1> HIDE DEF k, names
<1> QED
  BY <1>2, <1>3, <1>4, <1>5

LEMMA WeightsAreShares == \A s \in Weighed : Weights[s] \in Nat
<1> DEFINE matching == {i \in DOMAIN Overrides : Overrides[i].matches}
<1>1. CASE matching = {}
  <2>1. Weights = DefaultWeights
    BY <1>1 DEF Weights
  <2>2. \A s \in Weighed : DefaultWeights[s] \in Nat
    BY DEF Weighed, DefaultWeights
  <2> QED
    BY <2>1, <2>2
<1>2. CASE matching # {}
  <2>1. matching \subseteq Nat
    BY WeightsAssumption
  <2>2. Weights = Overrides[Min(matching)].weight
    BY <1>2 DEF Weights
  <2>3. Min(matching) \in matching
    <3> HIDE DEF matching
    <3>1. \E x \in matching : \A y \in matching : x <= y
      BY <1>2, <2>1, LeastOfNaturals
    <3> QED
      BY <3>1 DEF Min
  <2> QED
    BY <2>2, <2>3, WeightsAssumption
<1> QED
  BY <1>1, <1>2

LEMMA WeighedIsFinite == IsFiniteSet(Weighed)
<1>1. \A S, x : IsFiniteSet(S) => IsFiniteSet(S \cup {x})
  BY FS_AddElement
<1>2. IsFiniteSet({})
  BY FS_EmptySet
<1>3. IsFiniteSet(((({} \cup {"stress"}) \cup {"fatigue"}) \cup {"mood"}) \cup {"pressure"})
  BY <1>1, <1>2, Zenon
<1>4. IsFiniteSet((((((({} \cup {"stress"}) \cup {"fatigue"}) \cup {"mood"}) \cup {"pressure"})
                    \cup {"humidity"}) \cup {"contagion"}) \cup {"infraStress"})
  BY <1>1, <1>3, Zenon
<1>5. IsFiniteSet((((((((({} \cup {"stress"}) \cup {"fatigue"}) \cup {"mood"}) \cup {"pressure"})
                    \cup {"humidity"}) \cup {"contagion"}) \cup {"infraStress"})) \cup {"networkHealth"})
  BY <1>1, <1>4, Zenon
<1>6. Weighed = ((((((((({} \cup {"stress"}) \cup {"fatigue"}) \cup {"mood"}) \cup {"pressure"})
                    \cup {"humidity"}) \cup {"contagion"}) \cup {"infraStress"})) \cup {"networkHealth"})
  BY DEF Weighed
<1> QED
  BY <1>5, <1>6, Zenon

HealthInv == fatigue \in 0..100

LEMMA FatigueIsBounded == (SignalsInit => HealthInv) /\ (HealthInv /\ [SignalsNext]_signalVars => HealthInv')
<1>1. SignalsInit => HealthInv
  BY DEF SignalsInit, HealthInv
<1>2. \A v \in Int : Clamp(v) \in 0..100
  <2> TAKE v \in Int
  <2> DEFINE low == Min({100, v})
  <2>1. low \in {100, v} /\ low <= 100
    BY DEF Min
  <2> HIDE DEF low
  <2>2. Max({0, low}) \in {0, low} /\ Max({0, low}) >= 0
    BY <2>1 DEF Max
  <2> QED
    BY <2>1, <2>2 DEF Clamp, low
<1>3. ASSUME HealthInv, SignalsNext PROVE HealthInv'
  <2>1. PICK got \in SUBSET Inputs, pressed \in BOOLEAN, stress \in Levels, intervals \in 1..MaxIntervals :
           Update(got, pressed, stress, intervals)
    BY <1>3, Zenon DEF SignalsNext
  <2>2. stress \in Int /\ intervals \in Int /\ FatigueFrom \in Int /\ Lambda \in Int /\ fatigue \in Int
    BY <1>3, SignalsAssumption DEF HealthInv
  <2>3. Lambda * intervals \in Int
    BY <2>2
  <2>4. fatigue + stress - FatigueFrom - Lambda * intervals \in Int
    BY <2>2, <2>3
  <2>5. fatigue' \in {Clamp(fatigue + stress - FatigueFrom - Lambda * intervals), fatigue}
    BY <2>1 DEF Update
  <2> QED
    BY <1>2, <1>3, <2>4, <2>5 DEF HealthInv
<1>4. ASSUME HealthInv, UNCHANGED signalVars PROVE HealthInv'
  BY <1>4 DEF HealthInv, signalVars
<1> QED
  BY <1>1, <1>3, <1>4

(* The score, of whatever is measured and weighs.                           *)
LEMMA HealthIsAMean ==
  ASSUME HealthInv, NEW in, NEW penalty \in [Weighed -> 0..100], NEW relative \in [Weighed -> 0..100], NEW vals,
         vals = {Penalty(s, penalty, relative) : s \in {s \in in \cap Weighed : Weights[s] > 0}}
  PROVE  LET health == Health(in, penalty, relative)
         IN  /\ health.ok <=> vals # {}
             /\ health.ok => 100 - Max(vals) <= health.val /\ health.val <= 100 - Min(vals)
             /\ KPI("health_score", health) = "unavailable" <=> vals = {}
<1> DEFINE P == [s \in Weighed |-> Penalty(s, penalty, relative)]
           U == in \cap Weighed
           w == Weights
           f == [s \in U |-> w[s] * P[s]]
           health == Health(in, penalty, relative)
<1>1. \A s \in Weighed : P[s] \in 0..100
  <2> SUFFICES ASSUME NEW s \in Weighed PROVE Penalty(s, penalty, relative) \in 0..100
    OBVIOUS
  <2>1. penalty[s] \in 0..100 /\ relative[s] \in 0..100 /\ fatigue \in 0..100
    BY DEF HealthInv
  <2>2. Penalty(s, penalty, relative) \in {fatigue, relative[s], penalty[s]}
    BY DEF Penalty
  <2> QED
    BY <2>1, <2>2
<1>2. IsFiniteSet(U)
  BY WeighedIsFinite, FS_Subset
<1>3. \A s \in U : w[s] \in Nat
  BY WeightsAreShares
<1>4. vals = {P[s] : s \in {s \in U : w[s] > 0}}
  OBVIOUS
<1>5. \A s \in U : P[s] \in 0..100
  BY <1>1
<1>6. vals \subseteq 0..100 /\ \A s \in U : w[s] # 0 => P[s] \in vals
  <2> HIDE DEF P, U, w
  <2>1. \A s \in U : w[s] # 0 => w[s] > 0
    BY <1>3
  <2> QED
    BY <1>4, <1>5, <2>1
<1>7. vals = {} <=> \A s \in U : w[s] = 0
  <2> HIDE DEF P, U, w
  <2>1. \A s \in U : w[s] # 0 <=> w[s] > 0
    BY <1>3
  <2> QED
    BY <1>4, <2>1
<1>8. \A s \in U : f[s] = w[s] * P[s]
  OBVIOUS
<1> DEFINE total == SumFunctionOnSet(w, U)
           sum == SumFunctionOnSet(f, U)
<1>9. SumFunction(f) = sum
  BY Zenon DEF SumFunction
<1>10. WeightedMean(U, w, P) = IF total = 0 THEN [ok |-> FALSE, val |-> 0] ELSE [ok |-> TRUE, val |-> sum \div total]
  BY <1>9, Zenon DEF WeightedMean
<1>11. health = [ok |-> WeightedMean(U, w, P).ok, val |-> IF WeightedMean(U, w, P).ok THEN 100 - WeightedMean(U, w, P).val ELSE 0]
  BY Zenon DEF Health
<1> HIDE DEF P, U, w, f, total, sum, health
<1>12. CASE vals = {}
  <2>1. total = 0
    <3>1. Weighing(U, w, f, P, 0, 0)
      BY <1>3, <1>5, <1>7, <1>8, <1>12 DEF Weighing
    <3>2. WeighsUp(total, sum, U, w, 0, 0)
      BY <1>2, <3>1, WeightedSum DEF total, sum
    <3> QED
      BY <1>7, <1>12, <3>2 DEF WeighsUp
  <2>2. health.ok = FALSE
    BY <1>10, <1>11, <2>1
  <2>3. KPI("health_score", health) = "unavailable"
    BY <2>2 DEF KPI
  <2> QED
    BY <1>12, <2>2, <2>3 DEF health
<1>13. CASE vals # {}
  <2>1. PICK lo \in 0..100, hi \in 0..100 : lo = Min(vals) /\ hi = Max(vals) /\ \A x \in vals : lo <= x /\ x <= hi
    <3>1. Min(vals) \in vals /\ Max(vals) \in vals /\ \A x \in vals : Min(vals) <= x /\ x <= Max(vals)
      BY <1>6, <1>13, LeastAndGreatest
    <3> QED
      BY <1>6, <3>1
  <2>2. lo \in Int /\ hi \in Int
    OBVIOUS
  <2>3. Weighing(U, w, f, P, lo, hi)
    BY <1>3, <1>5, <1>6, <1>8, <2>1, SMTT(30) DEF Weighing
  <2>11. WeighsUp(total, sum, U, w, lo, hi)
    BY <1>2, <2>2, <2>3, WeightedSum DEF total, sum
  <2>4. /\ total \in Nat /\ sum \in Int /\ (total = 0 <=> \A s \in U : w[s] = 0)
        /\ total * lo <= sum /\ sum <= total * hi
    BY <2>11 DEF WeighsUp
  <2>5. total > 0
    BY <1>7, <1>13, <2>4
  <2>6. sum \in Nat
    <3>1. total * 0 <= total * lo /\ total * lo \in Int
      BY <2>4, ProductKeepsOrder
    <3> QED
      BY <2>4, <3>1
  <2>7. PICK mean \in Int : mean = sum \div total /\ lo <= mean /\ mean <= hi
    <3>1. lo \in Int /\ hi \in Int
      OBVIOUS
    <3> QED
      BY <2>4, <2>5, <2>6, <3>1, QuotientBetween
  <2>8. health.ok = TRUE /\ health.val = 100 - mean
    BY <1>10, <1>11, <2>5, <2>7
  <2>9. KPI("health_score", health) # "unavailable"
    <3>1. 100 - mean \in Int
      OBVIOUS
    <3>2. KPI("health_score", health) = StateOf("health_score", 100 - mean)
      BY <2>8, Zenon DEF KPI
    <3> QED
      BY <3>1, <3>2, HealthHasAName
  <2>10. 100 - hi <= 100 - mean /\ 100 - mean <= 100 - lo
    BY <2>7
  <2> QED
    BY <1>13, <2>1, <2>8, <2>9, <2>10 DEF health
<1> QED
  BY <1>12, <1>13

LEMMA HealthShows == HealthInv => HealthOfWhatIsMeasured
<1> SUFFICES ASSUME HealthInv, NEW in \in Ticks, NEW penalty \in Cases
             PROVE  LET health == Health(in, penalty, Opposite(penalty))
                        vals == {Penalty(s, penalty, Opposite(penalty)) : s \in {s \in in \cap Weighed : Weights[s] > 0}}
                    IN  /\ health.ok <=> vals # {}
                        /\ health.ok => 100 - Max(vals) <= health.val /\ health.val <= 100 - Min(vals)
                        /\ KPI("health_score", health) = "unavailable" <=> vals = {}
  BY DEF HealthOfWhatIsMeasured
<1>1. Levels \subseteq 0..100
  BY SignalsAssumption
<1>2. penalty \in [Weighed -> 0..100]
  BY <1>1 DEF Cases
<1>3. Opposite(penalty) \in [Weighed -> 0..100]
  BY <1>2 DEF Opposite
<1> QED
  BY <1>2, <1>3, HealthIsAMean

(* "Missing data is never a zero" (ARCHITECTURE.md): of whatever is         *)
(* measured, the score of Analyzer.Update is unavailable only if none of it *)
(* weighs, and else between the best and the worst that does, whatever the  *)
(* configured weights and values, and however fatigue has accumulated.      *)
THEOREM MissingIsNeverAZero == MCSpec => []HealthOfTheMeasured
<1>1. MCInit => HealthInv
  BY FatigueIsBounded DEF MCInit
<1>2. HealthInv /\ [MCNext]_allVars => HealthInv'
  <2> SUFFICES ASSUME HealthInv, [MCNext]_allVars PROVE HealthInv'
    OBVIOUS
  <2>1. [SignalsNext]_signalVars
    BY DEF MCNext, allVars
  <2> QED
    BY <2>1, FatigueIsBounded
<1>3. HealthInv => HealthOfTheMeasured
  BY HealthShows DEF HealthOfTheMeasured
<1> QED
  BY <1>1, <1>2, <1>3, PTL DEF MCSpec
=============================================================================
