------------------------------ MODULE EventLog ------------------------------
(***************************************************************************)
(* The log of rupture transitions of internal/events: requests that        *)
(* observe FusedR concurrently, a bounded log and subscribers that read    *)
(* their channel when they can.  An event's id is its number.              *)
(***************************************************************************)
EXTENDS Integers, FiniteSets, Sequences, SequencesExt

CONSTANTS
    Workloads,
    Observers,      \* requests under way at a time
    Readers,        \* clients that stream events
    LogIndexes,        \* values of FusedR, in hundredths
    SubCap,        \* 64: events a subscriber's channel holds
    LogCap,         \* 300: events the log keeps
    MaxObserved     \* how many values are observed

ASSUME EventLogAssumption ==
    /\ LogIndexes \subseteq Nat /\ {SubCap, LogCap} \subseteq Nat \ {0} /\ MaxObserved \in Nat

VARIABLES
    lastFusedR, \* workload -> what was observed last, 0 at first
    observer,   \* observer -> the values it swapped and has still to log
    log,        \* the events kept, oldest first
    seq,        \* the id given last
    subscribers,\* reader -> the events in its channel
    read,       \* reader -> the id it read last
    observed,   \* told: how many values were observed,
    logged,     \* every event logged,
    crossed     \* and every change of band of lastFusedR

logVars == <<lastFusedR, observer, log, seq, subscribers, read, observed, logged, crossed>>

Transitions ==
    {[low |-> 0, high |-> 150, type |-> "recovered"], [low |-> 150, high |-> 300, type |-> "warning"],
     [low |-> 300, high |-> 500, type |-> "critical"], [low |-> 500, high |-> 9900, type |-> "emergency"]}

In(r, tr) == tr.low <= r /\ r < tr.high
Band(r) == IF \E tr \in Transitions : In(r, tr) THEN (CHOOSE tr \in Transitions : In(r, tr)).type ELSE "none"

Nothing == [workload |-> "none", prev |-> 0, r |-> 0]

LogInit ==
    /\ lastFusedR = [w \in Workloads |-> 0]
    /\ observer = [o \in Observers |-> Nothing]
    /\ log = <<>> /\ seq = 0 /\ subscribers = <<>> /\ read = [c \in Readers |-> 0]
    /\ observed = 0 /\ logged = <<>> /\ crossed = <<>>

-----------------------------------------------------------------------------
\* The id is given and the event handed to every channel with room under one
\* lock.
Push(ev) ==
    /\ seq' = seq + 1
    /\ log' = LET all == Append(log, [ev EXCEPT !.id = seq + 1])
              IN  IF Len(all) > LogCap THEN SubSeq(all, Len(all) - LogCap + 1, Len(all)) ELSE all
    /\ subscribers' = [c \in DOMAIN subscribers |->
                          IF Len(subscribers[c]) < SubCap THEN Append(subscribers[c], seq + 1) ELSE subscribers[c]]
    /\ logged' = Append(logged, [ev EXCEPT !.id = seq + 1])

\* ObserveFusedR, first half: the value is swapped under the lock.
ObserveFusedR(o, w, r) ==
    /\ observer[o] = Nothing /\ observed < MaxObserved
    /\ observer' = [observer EXCEPT ![o] = [workload |-> w, prev |-> lastFusedR[w], r |-> r]]
    /\ lastFusedR' = [lastFusedR EXCEPT ![w] = r]
    /\ crossed' = IF Band(lastFusedR[w]) = Band(r) THEN crossed ELSE Append(crossed, <<w, Band(r)>>)
    /\ observed' = observed + 1
    /\ UNCHANGED <<log, seq, subscribers, read, logged>>

\* Faulty variant: only ever upwards.
EntersUpward(tr, prev, r) == In(r, tr) /\ prev < tr.low
Enters(tr, prev, r) == In(r, tr) /\ ~In(prev, tr)

\* Second half: the event of the transition, if there is one.
Log(o) ==
    /\ observer[o] # Nothing
    /\ LET x == observer[o]
           entered == {tr \in Transitions : Enters(tr, x.prev, x.r)}
       IN  \/ /\ entered = {} /\ UNCHANGED <<log, seq, subscribers, logged>>
           \/ \E tr \in entered : Push([id |-> 0, workload |-> x.workload, type |-> tr.type])
    /\ observer' = [observer EXCEPT ![o] = Nothing]
    /\ UNCHANGED <<lastFusedR, read, observed, crossed>>

Recent(n) == Reverse(IF Len(log) > n THEN SubSeq(log, Len(log) - n + 1, Len(log)) ELSE log)

-----------------------------------------------------------------------------
(* The stream of a client.                                                 *)

NewChannel == <<>>

Subscribe(c) ==
    /\ c \notin DOMAIN subscribers
    /\ subscribers' = [d \in DOMAIN subscribers \cup {c} |-> IF d = c THEN NewChannel ELSE subscribers[d]]
    /\ UNCHANGED <<lastFusedR, observer, log, seq, read, observed, logged, crossed>>

Unsubscribe(c) ==
    /\ c \in DOMAIN subscribers
    /\ subscribers' = [d \in DOMAIN subscribers \ {c} |-> subscribers[d]]
    /\ UNCHANGED <<lastFusedR, observer, log, seq, read, observed, logged, crossed>>

\* One that the client's filters reject is read and not written.
ReadEvent(c) ==
    /\ c \in DOMAIN subscribers /\ subscribers[c] # <<>>
    /\ read' = [read EXCEPT ![c] = Head(subscribers[c])]
    /\ subscribers' = [subscribers EXCEPT ![c] = Tail(@)]
    /\ UNCHANGED <<lastFusedR, observer, log, seq, observed, logged, crossed>>

LogNext ==
    \/ \E o \in Observers : Log(o) \/ \E w \in Workloads, r \in LogIndexes : ObserveFusedR(o, w, r)
    \/ \E c \in Readers : Subscribe(c) \/ Unsubscribe(c) \/ ReadEvent(c)

LogSpec == LogInit /\ [][LogNext]_logVars

-----------------------------------------------------------------------------
(* Properties.                                                             *)

Stream(c) == INSTANCE LossyFeed WITH
    offered <- seq,
    waiting <- IF c \in DOMAIN subscribers THEN Range(subscribers[c]) ELSE {},
    last <- read[c]

\* A client that streams reads every event once at most, in the order of the
\* ids, across every disconnection.
StreamIsALossyFeed ==
    (\A c \in Readers : Stream(c)!FeedInit) /\ [][\A c \in Readers : Stream(c)!FeedStep]_logVars

Count(s, x) == Cardinality({i \in DOMAIN s : s[i] = x})
Told(s) == [i \in DOMAIN s |-> <<s[i].workload, s[i].type>>]
Owed == {o \in Observers : observer[o] # Nothing /\ Band(observer[o].prev) # Band(observer[o].r)}

\* Every change of band between two observations of a workload is one event,
\* however the observers interleave (the order may differ); and the log is the
\* newest of those events, which Recent lists newest first.
EveryCrossingIsLogged ==
    /\ \A w \in Workloads, tr \in Transitions :
        Count(crossed, <<w, tr.type>>) = Count(Told(logged), <<w, tr.type>>)
            + Cardinality({o \in Owed : observer[o].workload = w /\ Band(observer[o].r) = tr.type})
    /\ LET n == Cardinality(DOMAIN logged)
       IN  \A k \in 1..Len(log) : Recent(k) = [i \in 1..k |-> logged[n - i + 1]] /\ (n >= LogCap => Len(log) = LogCap)
=============================================================================
