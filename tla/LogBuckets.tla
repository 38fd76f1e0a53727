----------------------------- MODULE LogBuckets -----------------------------
(***************************************************************************)
(* Log lines counted into samples (internal/pipeline/logs): a bucket per   *)
(* workload, emitted when a line falls behind it or a ticker flushes.      *)
(* Lines come late and early; the mutex covers a line and what it emits.   *)
(***************************************************************************)
EXTENDS Integers, SequencesExt

CONSTANTS
    LogSources,     \* workload keys
    BucketSize,     \* 15 s
    LineTimes,
    MaxLines

ASSUME BucketsAssumption ==
    BucketSize \in Nat \ {0} /\ LineTimes \subseteq Nat /\ MaxLines \in Nat

VARIABLES
    buckets,    \* source -> the bucket under way, if any
    emitted,    \* source -> the samples emitted, as counts of lines and errors
    lines       \* told: source -> the lines and errors received

bucketVars == <<buckets, emitted, lines>>

NoLines == [volume |-> 0, errors |-> 0]
BucketsInit == /\ buckets = <<>>
               /\ emitted = [s \in LogSources |-> <<>>]
               /\ lines = [s \in LogSources |-> NoLines]

Counted(b, isError) ==
    [volume |-> b.volume + 1, errors |-> IF isError THEN b.errors + 1 ELSE b.errors]
Emit(s) == emitted' = [emitted EXCEPT ![s] = Append(@, [volume |-> buckets[s].volume, errors |-> buckets[s].errors])]

\* A line older than the bucket counts in it.
Behind(s, ts) == ts - buckets[s].start >= BucketSize

\* Faulty variant: the line that closes a bucket is counted in neither.
NewBucketWithout(ts, isError) == [start |-> ts - (ts % BucketSize), count |-> NoLines]
NewBucket(ts, isError) == [start |-> ts - (ts % BucketSize), count |-> Counted(NoLines, isError)]

IngestLine(s, isError, ts) ==
    /\ lines[s].volume < MaxLines
    /\ LET opens == s \notin DOMAIN buckets \/ Behind(s, ts)
           count == IF opens THEN NewBucket(ts, isError).count ELSE Counted(buckets[s], isError)
           start == IF opens THEN NewBucket(ts, isError).start ELSE buckets[s].start
       IN  /\ IF opens /\ s \in DOMAIN buckets THEN Emit(s) ELSE UNCHANGED emitted
           /\ buckets' = [x \in DOMAIN buckets \cup {s} |->
                IF x = s THEN [start |-> start, volume |-> count.volume, errors |-> count.errors] ELSE buckets[x]]
    /\ lines' = [lines EXCEPT ![s] = Counted(@, isError)]

Flush ==
    /\ buckets # <<>> /\ buckets' = <<>>
    /\ emitted' = [s \in LogSources |->
        IF s \in DOMAIN buckets THEN Append(emitted[s], [volume |-> buckets[s].volume, errors |-> buckets[s].errors])
        ELSE emitted[s]]
    /\ UNCHANGED lines

BucketsNext == Flush \/ \E s \in LogSources, isError \in BOOLEAN, ts \in LineTimes : IngestLine(s, isError, ts)
BucketsSpec == BucketsInit /\ [][BucketsNext]_bucketVars

-----------------------------------------------------------------------------
(* Properties.                                                             *)

Together(counts) == [volume |-> SumFunction([i \in DOMAIN counts |-> counts[i].volume]),
                     errors |-> SumFunction([i \in DOMAIN counts |-> counts[i].errors])]
Held(s) == IF s \in DOMAIN buckets THEN <<[volume |-> buckets[s].volume, errors |-> buckets[s].errors]>> ELSE <<>>

\* Every line is counted in one sample, late, early or on the edge of a bucket,
\* whether a line or the ticker closes it; and no sample is of no line.
LinesAreConserved ==
    \A s \in LogSources :
        /\ Together(emitted[s] \o Held(s)) = lines[s]
        /\ \A i \in DOMAIN emitted[s] : emitted[s][i].volume > 0
=============================================================================
