---------------------------- MODULE CounterRates ----------------------------
(***************************************************************************)
(* The rate of one cumulative counter (counterRates of the anomaly         *)
(* engine): anomaly detection never sees the raw value of a counter.       *)
(***************************************************************************)
EXTENDS Integers, Sequences

CONSTANTS
    CounterValues,
    RateWindow,     \* 5 min
    SampleTimes

ASSUME RatesAssumption ==
    RateWindow \in Nat \ {0} /\ CounterValues \subseteq Nat /\ SampleTimes \subseteq Nat

VARIABLES
    samples,    \* the samples kept, oldest first
    rate,       \* the rate returned last: a fraction, or nothing
    taken       \* told: every sample taken, oldest first

rateVars == <<samples, rate, taken>>

NoRate == [ok |-> FALSE, num |-> 0, den |-> 1]
RatesInit == samples = <<>> /\ rate = NoRate /\ taken = <<>>

Final(s) == s[Len(s)]

\* A counter that starts again begins a history of its own.
SinceReset(s, value) == IF s # <<>> /\ value < Final(s).value THEN <<>> ELSE s

\* Without what precedes the newest sample that is a window old.
Within(s, ts) ==
    LET old == {i \in DOMAIN s : i > 1 /\ s[i].ts <= ts - RateWindow}
        first == IF old = {} THEN 1 ELSE CHOOSE i \in old : \A j \in old : j <= i
    IN  SubSeq(s, first, Len(s))

RateOf(s) ==
    LET span == Final(s).ts - s[1].ts
    IN  IF span < RateWindow THEN NoRate ELSE [ok |-> TRUE, num |-> Final(s).value - s[1].value, den |-> span]

Sample(value, ts) ==
    IF samples # <<>> /\ ts <= Final(samples).ts
    THEN rate' = NoRate /\ UNCHANGED <<samples, taken>>
    ELSE /\ samples' = Within(Append(SinceReset(samples, value), [value |-> value, ts |-> ts]), ts)
         /\ rate' = RateOf(samples')
         /\ taken' = Append(taken, [value |-> value, ts |-> ts])

RatesNext == \E value \in CounterValues, ts \in SampleTimes : Sample(value, ts)
RatesSpec == RatesInit /\ [][RatesNext]_rateVars

-----------------------------------------------------------------------------
(* Properties.                                                             *)

\* A rate covers the whole window and no reset of the counter: it is the mean
\* of the increments since the newest sample at least a window old, none of
\* them negative, so a restart of a container is never an anomaly of its rate.
RateSpansNoReset ==
    rate.ok =>
        \E i \in DOMAIN taken :
            /\ \A j \in DOMAIN taken : (taken[j].ts <= Final(taken).ts - RateWindow) <=> j <= i
            /\ \A j \in i..(Len(taken) - 1) : taken[j].value <= taken[j + 1].value
            /\ rate.num = Final(taken).value - taken[i].value
            /\ rate.den = Final(taken).ts - taken[i].ts /\ rate.den >= RateWindow
=============================================================================
