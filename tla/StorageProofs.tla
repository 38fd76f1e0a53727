---------------------------- MODULE StorageProofs ----------------------------
(***************************************************************************)
(* What holds of the store, of samples and of snapshots.  Of samples,      *)
(* whatever the tiers, buckets, ages and                                   *)
(* batches, and whatever writers, compactions, purges and crashes do to each *)
(* other: no sample that was delivered once is counted twice, a recent window *)
(* is read whole, and a purge reaches every tier of its samples.           *)
(*                                                                         *)
(* Each rests on an invariant of its own: what the averages not written yet *)
(* share samples with, where a sample is as long as it is recent, and which *)
(* rows of its window a purge has still to read or to delete.              *)
(*                                                                         *)
(* Of snapshots, whatever runs beside a request: an answer of the fleet    *)
(* lists each workload once, as what the first read has still to enrich    *)
(* and what it has listed are the workloads that were fresh.               *)
(***************************************************************************)
EXTENDS MCStorage, FoldLemmas, FunctionTheorems

(* The rows, and the averages a compaction has still to write, are of      *)
(* samples that were stored.                                               *)
ValuesAreSeen ==
    /\ \A k \in DOMAIN rows : rows[k].val \subseteq seen
    /\ \A b \in compaction.buckets : b.val \subseteq seen

(* An average that was computed and is not written yet shares samples only *)
(* with the rows that the same transaction will delete.                    *)
PendingShareNothing ==
    /\ \A b \in compaction.buckets : \A k \in DOMAIN rows \ b.src : b.val \cap rows[k].val \subseteq again
    /\ \A b, c \in compaction.buckets : b # c => b.val \cap c.val \subseteq again

(* A pass, idle or not, is a record with the averages it has computed. *)
PassHasBuckets == "buckets" \in DOMAIN compaction

CountingInv ==
    /\ ValuesAreSeen
    /\ CountedOnce
    /\ PendingShareNothing
    /\ PassHasBuckets

LEMMA CountingStarts == StorageInit => CountingInv
<1> SUFFICES ASSUME StorageInit PROVE CountingInv
  OBVIOUS
<1>1. DOMAIN rows = {} /\ compaction.buckets = {} /\ PassHasBuckets
  BY DEF StorageInit, Idle, PassHasBuckets
<1>2. QED
  BY <1>1 DEF CountingInv, ValuesAreSeen, CountedOnce, PendingShareNothing

-----------------------------------------------------------------------------
(* A sample stored: its row takes the place of one with its key, and the   *)
(* rows that already hold the sample are of one that came again.           *)
LEMMA PutCounts ==
  ASSUME CountingInv, NEW f, NEW s, NEW at, Put(f, s, at)
  PROVE  CountingInv'
<1> DEFINE x == <<f, s, at>>
           key == Key(<<f, 0>>, s, at)
<1>1. /\ seen' = seen \cup {x} /\ again' = again \cup (seen \cap {x})
      /\ compaction' = compaction
  BY DEF Put
<1>2. PICK e : rows' = [k \in DOMAIN rows \cup {key} |-> IF k = key THEN [val |-> {x}, expires |-> e] ELSE rows[k]]
  BY DEF Put, Set
<1> HIDE DEF x, key
<1>3. DOMAIN rows' = DOMAIN rows \cup {key}
  BY <1>2
<1>4. \A k \in DOMAIN rows' : rows'[k].val = IF k = key THEN {x} ELSE rows[k].val
  BY <1>2
<1>5. ASSUME NEW S, S \subseteq seen
      PROVE  S \cap {x} \subseteq again'
  BY <1>1, <1>5
<1>6. ValuesAreSeen'
  BY <1>1, <1>3, <1>4 DEF CountingInv, ValuesAreSeen
<1>7. CountedOnce'
  <2> SUFFICES ASSUME NEW j \in DOMAIN rows', NEW k \in DOMAIN rows', j # k
               PROVE  rows'[j].val \cap rows'[k].val \subseteq again'
    BY DEF CountedOnce
  <2>1. CASE j # key /\ k # key
    BY <1>1, <1>3, <1>4, <2>1 DEF CountingInv, CountedOnce
  <2>2. CASE j = key
    BY <1>3, <1>4, <1>5, <2>2 DEF CountingInv, ValuesAreSeen
  <2>3. CASE k = key
    BY <1>3, <1>4, <1>5, <2>3 DEF CountingInv, ValuesAreSeen
  <2>4. QED
    BY <2>1, <2>2, <2>3
<1>8. PendingShareNothing'
  <2>1. ASSUME NEW b \in compaction.buckets, NEW k \in DOMAIN rows' \ b.src
        PROVE  b.val \cap rows'[k].val \subseteq again'
    <3>1. CASE k = key
      BY <1>4, <1>5, <3>1 DEF CountingInv, ValuesAreSeen
    <3>2. CASE k # key
      BY <1>1, <1>3, <1>4, <3>2 DEF CountingInv, PendingShareNothing
    <3>3. QED
      BY <3>1, <3>2
  <2>2. QED
    BY <1>1, <2>1 DEF CountingInv, PendingShareNothing
<1>9. QED
  BY <1>1, <1>6, <1>7, <1>8 DEF CountingInv, PassHasBuckets

(* Steps that only take away, rows or averages not yet written: a row that *)
(* expires, a purge, a refused transaction, an end, a crash.               *)
LEMMA FewerCount ==
  ASSUME CountingInv,
         NEW left \in SUBSET DOMAIN rows, rows' = [k \in left |-> rows[k]],
         PassHasBuckets', compaction'.buckets \subseteq compaction.buckets,
         seen' = seen, again' = again
  PROVE  CountingInv'
<1>1. DOMAIN rows' \subseteq DOMAIN rows /\ \A k \in DOMAIN rows' : rows'[k] = rows[k]
  OBVIOUS
<1>2. QED
  BY <1>1 DEF CountingInv, ValuesAreSeen, CountedOnce, PendingShareNothing

(* One bucket for each destination, and in it the rows that go there. *)
LEMMA ViewCounts ==
  ASSUME CountingInv, CompactView
  PROVE  CountingInv'
<1> DEFINE old == OldRows(Head(compaction.todo), compaction.now)
           members(b) == {k \in old : BucketOf(k) = b}
           Bkt(b) == [dest |-> b, src |-> members(b), val |-> Samples(members(b))]
<1>1. /\ compaction'.buckets = {Bkt(b) : b \in {BucketOf(k) : k \in old}}
      /\ PassHasBuckets'
      /\ rows' = rows /\ seen' = seen /\ again' = again
  BY DEF CompactView, CountingInv, PassHasBuckets, asked
<1>2. old \subseteq DOMAIN rows
  BY DEF OldRows, RowsOf
<1> HIDE DEF old
<1>3. \A b \in compaction'.buckets :
        /\ b = Bkt(b.dest)
        /\ b.src \subseteq old /\ \A k \in b.src : BucketOf(k) = b.dest
        /\ \A x \in b.val : \E k \in b.src : x \in rows[k].val
  BY <1>1 DEF Samples
<1> HIDE DEF Bkt, members
<1>4. ValuesAreSeen'
  BY <1>1, <1>2, <1>3 DEF CountingInv, ValuesAreSeen
<1>5. PendingShareNothing'
  <2>1. ASSUME NEW b \in compaction'.buckets, NEW k \in DOMAIN rows \ b.src, NEW x \in b.val \cap rows[k].val
        PROVE  x \in again
    <3>1. PICK j \in b.src : x \in rows[j].val
      BY <1>3, <2>1
    <3>2. j \in DOMAIN rows /\ j # k
      BY <1>2, <1>3, <2>1
    <3>3. QED
      BY <2>1, <3>1, <3>2 DEF CountingInv, CountedOnce
  <2>2. ASSUME NEW b \in compaction'.buckets, NEW c \in compaction'.buckets, b # c, NEW x \in b.val \cap c.val
        PROVE  x \in again
    <3>1. PICK j \in b.src : x \in rows[j].val
      BY <1>3
    <3>2. j \in DOMAIN rows \ c.src
      <4>1. b.dest # c.dest
        BY <1>3, <2>2
      <4>2. QED
        BY <1>2, <1>3, <4>1
    <3>3. QED
      BY <2>1, <3>1, <3>2
  <2>3. QED
    BY <1>1, <2>1, <2>2 DEF PendingShareNothing
<1>6. QED
  BY <1>1, <1>4, <1>5 DEF CountingInv, CountedOnce

(* The transaction of one bucket: what it deletes is what its average may  *)
(* share samples with.                                                     *)
LEMMA RollUpCounts ==
  ASSUME CountingInv, NEW b \in compaction.buckets, CompactBucket(b)
  PROVE  CountingInv'
<1>1. /\ compaction'.buckets = compaction.buckets \ {b}
      /\ PassHasBuckets' /\ seen' = seen /\ again' = again
  BY DEF CompactBucket, CountingInv, PassHasBuckets, asked
<1>2. /\ DOMAIN rows' = (DOMAIN rows \cup {b.dest}) \ b.src
      /\ \A k \in DOMAIN rows' : rows'[k].val = IF k = b.dest THEN b.val ELSE rows[k].val
  BY DEF CompactBucket, RollUp
<1>3. b.val \subseteq seen
  BY DEF CountingInv, ValuesAreSeen
<1>4. ValuesAreSeen'
  BY <1>1, <1>2, <1>3 DEF CountingInv, ValuesAreSeen
<1>5. CountedOnce'
  <2>1. ASSUME NEW k \in DOMAIN rows', k # b.dest
        PROVE  b.val \cap rows'[k].val \subseteq again
    BY <1>2, <2>1 DEF CountingInv, PendingShareNothing
  <2>2. QED
    BY <1>1, <1>2, <2>1 DEF CountingInv, CountedOnce
<1>6. PendingShareNothing'
  <2>1. ASSUME NEW c \in compaction'.buckets, NEW k \in DOMAIN rows' \ c.src
        PROVE  c.val \cap rows'[k].val \subseteq again
    BY <1>1, <1>2 DEF CountingInv, PendingShareNothing
  <2>2. QED
    BY <1>1, <2>1 DEF CountingInv, PendingShareNothing
<1>7. QED
  BY <1>1, <1>4, <1>5, <1>6 DEF CountingInv

LEMMA CountingStays == CountingInv /\ [StorageNext]_storageVars => CountingInv'
<1> SUFFICES ASSUME CountingInv, [StorageNext]_storageVars PROVE CountingInv'
  OBVIOUS
<1> DEFINE Whole == rows' = [k \in DOMAIN rows |-> rows[k]]
<1>1. ASSUME NEW s \in Series, NEW at, PutMetric(s, at) \/ PutKPI(s, at) \/ PutInfraSignal(s, at)
      PROVE  CountingInv'
  BY <1>1, PutCounts DEF PutMetric, PutKPI, PutInfraSignal
<1>2. CASE StorageTick
  <2>1. {j \in DOMAIN rows : rows[j].expires > instant + 1} \subseteq DOMAIN rows
    OBVIOUS
  <2>2. QED
    BY <1>2, <2>1, FewerCount DEF StorageTick, asked, CountingInv, PassHasBuckets
<1>3. CASE CompactView
  BY <1>3, ViewCounts
<1>4. ASSUME NEW b \in compaction.buckets, CompactBucket(b)
      PROVE  CountingInv'
  BY <1>4, RollUpCounts
<1>5. ASSUME NEW b \in compaction.buckets, CompactError(b)
      PROVE  CountingInv'
  <2>1. compaction'.buckets \subseteq compaction.buckets /\ PassHasBuckets'
    BY <1>5 DEF CompactError, CountingInv, PassHasBuckets
  <2>2. rows' = rows /\ seen' = seen /\ again' = again
    BY <1>5 DEF CompactError, asked
  <2>3. QED
    BY <2>1, <2>2 DEF CountingInv, ValuesAreSeen, CountedOnce, PendingShareNothing
<1>6. CASE Compact \/ CompactEnd \/ StorageCrash
  <2>1. compaction'.buckets = {} /\ PassHasBuckets'
    BY <1>6 DEF Compact, CompactEnd, StorageCrash, Idle, PassHasBuckets
  <2>2. rows' = rows /\ seen' = seen /\ again' = again
    BY <1>6 DEF Compact, CompactEnd, StorageCrash, asked
  <2>3. QED
    BY <2>1, <2>2 DEF CountingInv, ValuesAreSeen, CountedOnce, PendingShareNothing
<1>7. ASSUME NEW batch \in SUBSET purge.keys, PurgeBatch(batch)
      PROVE  CountingInv'
  BY <1>7, FewerCount DEF PurgeBatch, CountingInv, PassHasBuckets
<1>8. CASE \/ PurgeView \/ PurgeError \/ PurgeEnd \/ UNCHANGED storageVars
           \/ \E type, from, to : IngestPurge(type, from, to)
  BY <1>8 DEF PurgeView, PurgeError, PurgeEnd, IngestPurge, storageVars, asked,
     CountingInv, ValuesAreSeen, CountedOnce, PendingShareNothing, PassHasBuckets
<1>9. QED
  BY <1>1, <1>2, <1>3, <1>4, <1>5, <1>6, <1>7, <1>8 DEF StorageNext

(***************************************************************************)
(* A sample that was delivered once is in one row at most (CountedOnce),   *)
(* however compactions (retention.go), purges and late samples interleave  *)
(* and wherever a crash ends them: the average and the deletion of what it *)
(* averages are one transaction.                                           *)
(***************************************************************************)
THEOREM SamplesAreCountedOnce == StorageSpec => []CountedOnce
<1>1. CountingInv => CountedOnce
  BY DEF CountingInv
<1>2. QED
  BY <1>1, CountingStarts, CountingStays, PTL DEF StorageSpec

-----------------------------------------------------------------------------
(***************************************************************************)
(* What a window of recent samples reads.                                  *)
(*                                                                         *)
(* A sample not older than the age of compaction is in its raw row and in  *)
(* no other: a rollup holds older samples only, and lies further back.     *)
(* The rows a compaction has planned to delete are older too, since the    *)
(* clock stands still for a pass.                                          *)
(***************************************************************************)
Past(at) == at \in Int /\ at < instant - CompactAfter[1]
SampleOf(k) == <<k.tier[1], k.series, k.at>>
RowKey == [tier : Families \X (0..2), series : Series, at : Int]
Rollup(k) == k.tier[2] # 0

PassTiers == Families \X {0, 1}

(* Raw rows live longer than it takes to compact them: 7 d and 2 h. *)
RawOutlives == RowTTL[1] > CompactAfter[1]

(* Where a pass stands: its cutoffs are of this instant. *)
PassInv ==
    /\ compaction.running => (compaction.now = instant /\ compaction.todo \in Seq(PassTiers))
    /\ ~compaction.running => compaction.buckets = {}
    /\ compaction.running => compaction = [running |-> TRUE, todo |-> compaction.todo,
                                           buckets |-> compaction.buckets, now |-> compaction.now]

RowsInv ==
    \A k \in DOMAIN rows :
        /\ k \in RowKey
        /\ ~Rollup(k) => /\ rows[k].val = {SampleOf(k)}
                         /\ rows[k].expires \in Int /\ k.at + RowTTL[1] <= rows[k].expires
        /\ Rollup(k) => (Past(k.at) /\ \A x \in rows[k].val : Past(x[3]))

BucketsInv ==
    \A b \in compaction.buckets :
        /\ b.dest \in RowKey /\ Rollup(b.dest) /\ Past(b.dest.at)
        /\ \A x \in b.val : Past(x[3])
        /\ \A k \in b.src : Past(k.at)

KeptInv ==
    /\ \A x \in kept : /\ x \in Families \X Series \X Int /\ x[3] <= instant
                       /\ (RawOutlives /\ ~Past(x[3])) => Key(<<x[1], 0>>, x[2], x[3]) \in DOMAIN rows
    /\ \A k \in DOMAIN rows : (~Rollup(k) /\ ~Past(k.at)) => SampleOf(k) \in kept

RecentInv ==
    /\ instant \in Nat
    /\ PassInv
    /\ RowsInv
    /\ BucketsInv
    /\ KeptInv

LEMMA StorageConstants ==
    /\ CompactAfter[1] \in Nat /\ RowTTL[1] \in Nat /\ Spans[1] \in Nat
    /\ Bucket[1] \in Nat \ {0} /\ Bucket[2] \in Nat \ {0}
    /\ CompactAfter[2] \in Nat
    /\ Lateness \subseteq Nat
  BY StorageAssumption

LEMMA PassTier == \A f \in {"metric", "kpi", "infra"}, level \in {0, 1} : Tier(f, level) \in Seq(PassTiers)
<1> SUFFICES ASSUME NEW f \in {"metric", "kpi", "infra"}, NEW level \in {0, 1}
             PROVE  Tier(f, level) \in Seq(PassTiers)
  OBVIOUS
<1> DEFINE tier == <<f, level>>
<1>1. f \in Families => tier \in PassTiers
  BY DEF PassTiers
<1>2. Tier(f, level) = IF f \in Families THEN <<tier>> ELSE <<>>
  BY DEF Tier
<1> HIDE DEF tier, PassTiers
<1>3. \A S, x : x \in S => <<x>> \in Seq(S)
  OBVIOUS
<1>4. \A S : <<>> \in Seq(S)
  OBVIOUS
<1> QED
  BY <1>1, <1>2, <1>3, <1>4

LEMMA TiersJoined ==
  ASSUME NEW S, NEW s \in Seq(S), NEW t \in Seq(S)
  PROVE  s \o t \in Seq(S)
  OBVIOUS

LEMMA OrderIsOfTiers == CompactOrder \in Seq(PassTiers)
  BY PassTier, TiersJoined DEF CompactOrder

LEMMA KeyIsKey ==
  /\ \A k \in RowKey : /\ k = Key(k.tier, k.series, k.at) /\ k.tier = <<k.tier[1], k.tier[2]>>
                       /\ k.tier[1] \in Families /\ k.tier[2] \in 0..2 /\ k.series \in Series /\ k.at \in Int
  /\ \A f \in Families, level \in 0..2, s \in Series, at \in Int :
        Key(<<f, level>>, s, at) \in RowKey
  /\ \A tier, s, at : LET k == Key(tier, s, at) IN k.tier = tier /\ k.series = s /\ k.at = at
  BY DEF RowKey, Key

LEMMA FloorIsBefore == \A at \in Int, width \in Nat \ {0} : Floor(at, width) \in Int /\ Floor(at, width) <= at
  BY DEF Floor

(* A sample stored: it replaces what its raw row held, and is in its row.  *)
LEMMA PutIsRecent ==
  ASSUME RecentInv, NEW f \in Families, NEW s \in Series, NEW late \in Lateness, late <= instant,
         Put(f, s, instant - late)
  PROVE  RecentInv'
<1> DEFINE at == instant - late
           key == Key(<<f, 0>>, s, at)
           x == <<f, s, at>>
<1>1. /\ kept' = kept \cup {x} /\ compaction' = compaction /\ instant' = instant
      /\ rows' = [k \in DOMAIN rows \cup {key} |->
                    IF k = key THEN [val |-> {x}, expires |-> instant + RowTTL[1]] ELSE rows[k]]
  <2>1. RowTTL[<<f, 0>>[2] + 1] = RowTTL[1]
    OBVIOUS
  <2>2. Set(<<f, 0>>, s, at, {x}) /\ kept' = kept \cup {x} /\ UNCHANGED <<instant, compaction>>
    BY DEF Put
  <2> QED
    BY <2>1, <2>2 DEF Set
<1>2. at \in Int /\ at <= instant /\ instant \in Nat /\ RowTTL[1] \in Nat
  BY StorageConstants DEF RecentInv
<1>3. at + RowTTL[1] <= instant + RowTTL[1] /\ instant + RowTTL[1] \in Int
  BY <1>2
<1> HIDE DEF at
<1>4. /\ key \in RowKey /\ ~Rollup(key) /\ SampleOf(key) = x /\ key.at = at
  <2>1. key.tier = <<f, 0>> /\ key.series = s /\ key.at = at
    BY DEF Key
  <2>2. key.tier[1] = f /\ key.tier[2] = 0
    BY <2>1
  <2>3. key \in RowKey
    <3>1. 0 \in 0..2 /\ <<f, 0>> \in Families \X (0..2)
      OBVIOUS
    <3> QED
      BY <1>2, <3>1 DEF RowKey, Key
  <2> HIDE DEF key
  <2> QED
    BY <2>1, <2>2, <2>3 DEF Rollup, SampleOf
<1> DEFINE row == [val |-> {x}, expires |-> instant + RowTTL[1]]
<1>5. row.val = {x} /\ row.expires = instant + RowTTL[1]
  OBVIOUS
<1> HIDE DEF key, row
<1>6. DOMAIN rows' = DOMAIN rows \cup {key} /\ \A k \in DOMAIN rows' : rows'[k] = IF k = key THEN row ELSE rows[k]
  BY <1>1 DEF row
<1>7. x[3] = at /\ x \in Families \X Series \X Int
  BY <1>2
<1>8. key = Key(<<x[1], 0>>, x[2], x[3])
  BY DEF key
<1> HIDE DEF x
<1>9. RowsInv'
  <2> SUFFICES ASSUME NEW k \in DOMAIN rows'
               PROVE  /\ k \in RowKey
                      /\ ~Rollup(k) => /\ rows'[k].val = {SampleOf(k)}
                                       /\ rows'[k].expires \in Int /\ k.at + RowTTL[1] <= rows'[k].expires
                      /\ Rollup(k) => (Past(k.at) /\ \A y \in rows'[k].val : Past(y[3]))
    BY <1>1 DEF RowsInv, Rollup, SampleOf, Past, RowKey
  <2>1. CASE k = key
    BY <2>1, <1>3, <1>4, <1>5, <1>6
  <2>2. CASE k # key
    BY <2>2, <1>6 DEF RecentInv, RowsInv
  <2> QED
    BY <2>1, <2>2
<1>10. KeptInv'
  <2>1. ASSUME NEW y \in kept'
        PROVE  /\ y \in Families \X Series \X Int /\ y[3] <= instant
               /\ (RawOutlives /\ ~Past(y[3])) => Key(<<y[1], 0>>, y[2], y[3]) \in DOMAIN rows'
    <3>1. CASE y = x
      BY <3>1, <1>2, <1>6, <1>7, <1>8
    <3>2. CASE y \in kept
      BY <3>2, <1>6 DEF RecentInv, KeptInv
    <3> QED
      BY <1>1, <3>1, <3>2
  <2>2. \A k \in DOMAIN rows' : (~Rollup(k) /\ ~Past(k.at)) => SampleOf(k) \in kept'
    BY <1>1, <1>4, <1>6 DEF RecentInv, KeptInv
  <2> QED
    BY <1>1, <2>1, <2>2 DEF KeptInv, Rollup, SampleOf, Past, Key
<1> QED
  BY <1>1, <1>9, <1>10 DEF RecentInv, PassInv, BucketsInv, Past

(* Steps that take away rollups, or raw rows with the samples they hold.    *)
LEMMA PurgeIsRecent ==
  ASSUME RecentInv, NEW batch, PurgeBatch(batch)
  PROVE  RecentInv'
<1> DEFINE gone == Samples(batch \cap DOMAIN rows)
<1>1. /\ kept' = kept \ gone /\ compaction' = compaction /\ instant' = instant
      /\ rows' = [k \in DOMAIN rows \ batch |-> rows[k]]
  BY DEF PurgeBatch
<1>2. DOMAIN rows' = DOMAIN rows \ batch /\ \A k \in DOMAIN rows' : rows'[k] = rows[k]
  BY <1>1
<1>3. \A x : x \in gone <=> \E k \in batch \cap DOMAIN rows : x \in rows[k].val
  BY DEF Samples
<1> HIDE DEF gone
<1>4. RowsInv'
  BY <1>1, <1>2 DEF RecentInv, RowsInv, Past
<1>5. ASSUME NEW x \in kept', RawOutlives, ~Past(x[3])
      PROVE  Key(<<x[1], 0>>, x[2], x[3]) \in DOMAIN rows'
  <2> DEFINE key == Key(<<x[1], 0>>, x[2], x[3])
  <2>1. x \in kept /\ ~(x \in gone)
    BY <1>1
  <2>2. x \in Families \X Series \X Int /\ key \in DOMAIN rows
    BY <1>5, <2>1 DEF RecentInv, KeptInv
  <2>3. ~Rollup(key) /\ SampleOf(key) = x
    BY <2>2, KeyIsKey DEF Rollup, SampleOf
  <2> HIDE DEF key
  <2>4. x \in rows[key].val
    BY <2>2, <2>3 DEF RecentInv, RowsInv
  <2>5. ~(key \in batch)
    BY <2>1, <2>2, <2>4, <1>3
  <2> QED
    BY <2>2, <2>5, <1>2 DEF key
<1>6. ASSUME NEW k \in DOMAIN rows', ~Rollup(k), ~Past(k.at)
      PROVE  SampleOf(k) \in kept'
  <2>1. k \in DOMAIN rows /\ ~(k \in batch) /\ SampleOf(k) \in kept
    BY <1>2, <1>6 DEF RecentInv, KeptInv
  <2>2. ASSUME NEW j \in batch \cap DOMAIN rows, SampleOf(k) \in rows[j].val PROVE FALSE
    <3>1. SampleOf(k)[3] = k.at
      BY DEF SampleOf
    <3>2. ~Rollup(j)
      BY <1>6, <2>2, <3>1 DEF RecentInv, RowsInv
    <3>3. SampleOf(j) = SampleOf(k)
      BY <2>2, <3>2 DEF RecentInv, RowsInv
    <3>4. k \in RowKey /\ j \in RowKey
      BY <2>1, <2>2 DEF RecentInv, RowsInv
    <3>5. j.tier[1] = k.tier[1] /\ j.series = k.series /\ j.at = k.at
      BY <3>3 DEF SampleOf
    <3>6. j.tier = <<j.tier[1], 0>> /\ k.tier = <<k.tier[1], 0>>
      BY <1>6, <3>2, <3>4, KeyIsKey DEF Rollup
    <3>7. j.tier = k.tier
      BY <3>5, <3>6
    <3>8. j = Key(j.tier, j.series, j.at) /\ k = Key(k.tier, k.series, k.at)
      BY <3>4, KeyIsKey
    <3>9. j = k
      BY <3>5, <3>7, <3>8
    <3> QED
      BY <2>1, <2>2, <3>9
  <2> QED
    BY <1>1, <1>3, <2>1, <2>2
<1>7. KeptInv'
  <2>1. \A x \in kept' : x \in Families \X Series \X Int /\ x[3] <= instant
    BY <1>1 DEF RecentInv, KeptInv
  <2> QED
    BY <1>1, <1>5, <1>6, <2>1 DEF KeptInv, Past, Rollup, SampleOf, Key
<1> QED
  BY <1>1, <1>4, <1>7 DEF RecentInv, PassInv, BucketsInv, Past

(* A pass plans with the rows it sees, all of them older than the window.   *)
LEMMA ViewIsRecent ==
  ASSUME RecentInv, CompactView
  PROVE  RecentInv'
<1> DEFINE head == Head(compaction.todo)
           old == OldRows(head, compaction.now)
           members(b) == {k \in old : BucketOf(k) = b}
           Bkt(b) == [dest |-> b, src |-> members(b), val |-> Samples(members(b))]
           buckets == {Bkt(b) : b \in {BucketOf(k) : k \in old}}
<1>1. /\ compaction.running /\ compaction.todo # <<>>
      /\ compaction' = [compaction EXCEPT !.todo = Tail(compaction.todo), !.buckets = buckets]
      /\ rows' = rows /\ kept' = kept /\ instant' = instant
  BY DEF CompactView, asked
<1>2. /\ compaction.now = instant /\ compaction.todo \in Seq(PassTiers)
      /\ compaction = [running |-> TRUE, todo |-> compaction.todo,
                       buckets |-> compaction.buckets, now |-> compaction.now]
  BY <1>1 DEF RecentInv, PassInv
<1>3. head \in Families \X {0, 1}
  <2>1. head \in PassTiers
    BY <1>1, <1>2
  <2> QED
    BY <2>1 DEF PassTiers
<1>4. /\ instant \in Nat /\ CompactAfter[1] \in Nat
  BY StorageConstants DEF RecentInv
<1> HIDE DEF head
<1>5. ASSUME NEW k \in old
      PROVE  /\ k \in DOMAIN rows /\ k \in RowKey /\ k.tier = head /\ Past(k.at)
             /\ \A x \in rows[k].val : Past(x[3])
  <2>1. /\ k \in DOMAIN rows /\ k.tier = head /\ k.at < compaction.now - CompactAfter[head[2] + 1]
    BY <1>5 DEF OldRows, RowsOf
  <2>2. CASE Rollup(k)
    BY <2>1, <2>2 DEF RecentInv, RowsInv
  <2>3. CASE ~Rollup(k)
    <3>1. head[2] = 0
      BY <2>1, <2>3, <1>3 DEF Rollup
    <3>2. CompactAfter[head[2] + 1] = CompactAfter[1]
      BY <3>1
    <3>3. Past(k.at)
      <4>1. k.at \in Int
        BY <2>1, KeyIsKey DEF RecentInv, RowsInv
      <4> QED
        BY <2>1, <3>2, <4>1, <1>2 DEF Past
    <3>4. rows[k].val = {SampleOf(k)} /\ k \in RowKey
      BY <2>1, <2>3 DEF RecentInv, RowsInv
    <3>5. SampleOf(k)[3] = k.at
      BY DEF SampleOf
    <3> QED
      BY <2>1, <3>3, <3>4, <3>5
  <2> QED
    BY <2>2, <2>3
<1> HIDE DEF old
<1>6. ASSUME NEW k \in old
      PROVE  BucketOf(k) \in RowKey /\ Rollup(BucketOf(k)) /\ Past(BucketOf(k).at)
  <2> DEFINE level == head[2] + 1
             at == Floor(k.at, Bucket[level])
  <2>1. level \in {1, 2} /\ level \in 0..2 /\ head[1] \in Families
    BY <1>3
  <2>2. Bucket[level] \in Nat \ {0}
    BY <2>1, StorageConstants
  <2>3. k.tier = head /\ k.series \in Series /\ k.at \in Int
    BY <1>5, KeyIsKey
  <2> HIDE DEF level
  <2>4. at \in Int /\ at <= k.at
    BY <2>2, <2>3, FloorIsBefore
  <2>5. BucketOf(k) = [tier |-> <<head[1], level>>, series |-> k.series, at |-> at]
    BY <2>3 DEF BucketOf, Key, level
  <2> HIDE DEF at
  <2>6. Past(at)
    <3>1. k.at < instant - CompactAfter[1]
      BY <1>5 DEF Past
    <3> QED
      BY <1>4, <2>3, <2>4, <3>1 DEF Past
  <2>7. <<head[1], level>> \in Families \X (0..2)
    BY <2>1
  <2>8. BucketOf(k) \in RowKey /\ BucketOf(k).at = at /\ BucketOf(k).tier[2] = level
    BY <2>3, <2>4, <2>5, <2>7 DEF RowKey
  <2> QED
    BY <2>1, <2>6, <2>8 DEF Rollup
<1>7. \A b \in buckets :
        /\ \E k \in old : b.dest = BucketOf(k)
        /\ b.src \subseteq old
        /\ \A x \in b.val : \E k \in old : x \in rows[k].val
  BY DEF Samples
<1> HIDE DEF buckets
<1>8. compaction'.buckets = buckets /\ compaction'.running /\ compaction'.now = compaction.now
      /\ compaction'.todo = Tail(compaction.todo)
      /\ compaction' = [running |-> TRUE, todo |-> compaction'.todo,
                        buckets |-> compaction'.buckets, now |-> compaction'.now]
  BY <1>1, <1>2
<1>9. Tail(compaction.todo) \in Seq(PassTiers)
  BY <1>1, <1>2
<1>10. PassInv'
  BY <1>1, <1>2, <1>8, <1>9 DEF PassInv, PassTiers
<1>11. BucketsInv'
  BY <1>1, <1>5, <1>6, <1>7, <1>8 DEF BucketsInv, Past, Rollup, RowKey
<1> QED
  BY <1>1, <1>10, <1>11 DEF RecentInv, RowsInv, KeptInv, Past, Rollup, SampleOf, RowKey, Key

(* The transaction of a bucket: old rows give way to an old average.        *)
LEMMA BucketIsRecent ==
  ASSUME RecentInv, NEW b \in compaction.buckets, CompactBucket(b)
  PROVE  RecentInv'
<1>1. /\ compaction' = [compaction EXCEPT !.buckets = compaction.buckets \ {b}]
      /\ kept' = kept /\ instant' = instant
  BY DEF CompactBucket, asked
<1>2. PICK e : rows' = [k \in (DOMAIN rows \cup {b.dest}) \ b.src |->
                          IF k = b.dest THEN [val |-> b.val, expires |-> instant + RowTTL[k.tier[2] + 1]] ELSE rows[k]]
  BY DEF CompactBucket, RollUp
<1>3. DOMAIN rows' = (DOMAIN rows \cup {b.dest}) \ b.src
      /\ \A k \in DOMAIN rows' : IF k = b.dest THEN rows'[k].val = b.val ELSE rows'[k] = rows[k]
  BY <1>2
<1>4. /\ b.dest \in RowKey /\ Rollup(b.dest) /\ Past(b.dest.at)
      /\ \A x \in b.val : Past(x[3])
      /\ \A k \in b.src : Past(k.at)
  BY DEF RecentInv, BucketsInv
<1>5. compaction.running
  BY DEF RecentInv, PassInv
<1>6. PassInv' /\ BucketsInv'
  BY <1>1, <1>5 DEF RecentInv, PassInv, BucketsInv, Past, Rollup, RowKey, PassTiers
<1>7. RowsInv'
  <2> SUFFICES ASSUME NEW k \in DOMAIN rows'
               PROVE  /\ k \in RowKey
                      /\ ~Rollup(k) => /\ rows'[k].val = {SampleOf(k)}
                                       /\ rows'[k].expires \in Int /\ k.at + RowTTL[1] <= rows'[k].expires
                      /\ Rollup(k) => (Past(k.at) /\ \A y \in rows'[k].val : Past(y[3]))
    BY <1>1 DEF RowsInv, Rollup, SampleOf, Past, RowKey
  <2>1. CASE k = b.dest
    BY <2>1, <1>3, <1>4
  <2>2. CASE k # b.dest
    BY <2>2, <1>3 DEF RecentInv, RowsInv
  <2> QED
    BY <2>1, <2>2
<1>8. KeptInv'
  <2>1. ASSUME NEW x \in kept
        PROVE  /\ x \in Families \X Series \X Int /\ x[3] <= instant
               /\ (RawOutlives /\ ~Past(x[3])) => Key(<<x[1], 0>>, x[2], x[3]) \in DOMAIN rows'
    <3>1. Key(<<x[1], 0>>, x[2], x[3]).at = x[3]
      BY DEF Key
    <3> QED
      BY <1>3, <1>4, <3>1 DEF RecentInv, KeptInv
  <2>2. \A k \in DOMAIN rows' : (~Rollup(k) /\ ~Past(k.at)) => SampleOf(k) \in kept
    BY <1>3, <1>4 DEF RecentInv, KeptInv
  <2> QED
    BY <1>1, <2>1, <2>2 DEF KeptInv, Rollup, SampleOf, Past, Key
<1> QED
  BY <1>1, <1>6, <1>7, <1>8 DEF RecentInv

(* Time: a row expires only when its samples have left the window.          *)
LEMMA TickIsRecent ==
  ASSUME RecentInv, StorageTick
  PROVE  RecentInv'
<1>1. /\ instant' = instant + 1 /\ kept' = kept /\ compaction' = compaction /\ ~compaction.running
      /\ rows' = [k \in {j \in DOMAIN rows : rows[j].expires > instant + 1} |-> rows[k]]
  BY DEF StorageTick, asked
<1>2. /\ instant \in Nat /\ CompactAfter[1] \in Nat /\ RowTTL[1] \in Nat
  BY StorageConstants DEF RecentInv
<1>3. /\ DOMAIN rows' = {j \in DOMAIN rows : rows[j].expires > instant + 1}
      /\ \A k \in DOMAIN rows' : k \in DOMAIN rows /\ rows'[k] = rows[k]
  BY <1>1
<1>4. PassInv'
  BY <1>1 DEF RecentInv, PassInv, PassTiers
<1>6. \A k \in DOMAIN rows : k.at \in Int /\ k \in RowKey
  BY KeyIsKey DEF RecentInv, RowsInv
<1>7. \A at : Past(at) => Past(at)'
  BY <1>1, <1>2 DEF Past
<1>8. RowsInv'
  <2> SUFFICES ASSUME NEW k \in DOMAIN rows'
               PROVE  /\ k \in RowKey
                      /\ ~Rollup(k) => /\ rows'[k].val = {SampleOf(k)}
                                       /\ rows'[k].expires \in Int /\ k.at + RowTTL[1] <= rows'[k].expires
                      /\ Rollup(k) => (Past(k.at)' /\ \A y \in rows'[k].val : Past(y[3])')
    BY <1>1 DEF RowsInv, Rollup, SampleOf, Past, RowKey
  <2> QED
    BY <1>3, <1>7 DEF RecentInv, RowsInv
<1>9. BucketsInv'
  BY <1>1 DEF RecentInv, PassInv, BucketsInv
<1>10. ASSUME NEW x \in kept, RawOutlives, ~Past(x[3])'
       PROVE  Key(<<x[1], 0>>, x[2], x[3]) \in DOMAIN rows'
  <2> DEFINE key == Key(<<x[1], 0>>, x[2], x[3])
  <2>1. ~Past(x[3])
    BY <1>7, <1>10
  <2>2. x \in Families \X Series \X Int /\ key \in DOMAIN rows
    BY <1>10, <2>1 DEF RecentInv, KeptInv
  <2>3. ~Rollup(key) /\ key.at = x[3] /\ x[3] \in Int
    BY <2>2, KeyIsKey DEF Rollup
  <2> HIDE DEF key
  <2>4. rows[key].expires \in Int /\ x[3] + RowTTL[1] <= rows[key].expires
    BY <2>2, <2>3 DEF RecentInv, RowsInv
  <2>5. x[3] >= (instant + 1) - CompactAfter[1]
    BY <1>1, <1>2, <1>10, <2>3 DEF Past
  <2>6. rows[key].expires > instant + 1
    BY <1>2, <1>10, <2>3, <2>4, <2>5 DEF RawOutlives
  <2> QED
    BY <1>3, <2>2, <2>6 DEF key
<1>11. KeptInv'
  <2>1. ASSUME NEW x \in kept
        PROVE  x \in Families \X Series \X Int /\ x[3] <= instant + 1
    <3>1. x \in Families \X Series \X Int /\ x[3] <= instant
      BY DEF RecentInv, KeptInv
    <3>2. x[3] \in Int
      BY <3>1
    <3> QED
      BY <1>2, <3>1, <3>2
  <2>2. \A k \in DOMAIN rows' : (~Rollup(k) /\ ~Past(k.at)') => SampleOf(k) \in kept
    BY <1>3, <1>7 DEF RecentInv, KeptInv
  <2> QED
    BY <1>1, <1>10, <2>1, <2>2 DEF KeptInv, Past, Rollup, SampleOf, Key
<1> QED
  BY <1>1, <1>2, <1>4, <1>8, <1>9, <1>11 DEF RecentInv

LEMMA RecentStarts == StorageInit => RecentInv
<1> SUFFICES ASSUME StorageInit PROVE RecentInv
  OBVIOUS
<1>1. instant = 0 /\ DOMAIN rows = {} /\ kept = {} /\ ~compaction.running /\ compaction.buckets = {}
  BY DEF StorageInit, Idle
<1> QED
  BY <1>1 DEF RecentInv, PassInv, RowsInv, BucketsInv, KeptInv

LEMMA RecentStays ==
  ASSUME RecentInv, [StorageNext]_storageVars
  PROVE  RecentInv'
<1> DEFINE Still == rows' = rows /\ kept' = kept /\ instant' = instant
<1>1. ASSUME Still, PassInv', BucketsInv'
      PROVE  RecentInv'
  <2>1. RowsInv' /\ KeptInv'
    BY <1>1 DEF RecentInv, RowsInv, KeptInv, Past, Rollup, SampleOf, RowKey, Key
  <2> QED
    BY <1>1, <2>1 DEF RecentInv
<1>2. ASSUME Still, compaction' = compaction
      PROVE  RecentInv'
  <2>1. PassInv' /\ BucketsInv'
    BY <1>2 DEF RecentInv, PassInv, BucketsInv, Past, Rollup, RowKey, PassTiers
  <2> QED
    BY <1>1, <1>2, <2>1
<1>3. ASSUME Still, compaction'.buckets = {}, ~compaction'.running
      PROVE  RecentInv'
  <2>1. PassInv' /\ BucketsInv'
    BY <1>3 DEF PassInv, BucketsInv
  <2> QED
    BY <1>1, <1>3, <2>1
<1>4. CASE Compact
  <2>1. /\ compaction' = [running |-> TRUE, todo |-> CompactOrder, buckets |-> {}, now |-> instant]
        /\ Still
    BY <1>4 DEF Compact, asked
  <2>2. PassInv'
    BY <2>1, OrderIsOfTiers DEF PassInv, PassTiers
  <2>3. BucketsInv'
    BY <2>1 DEF BucketsInv
  <2> QED
    BY <1>1, <2>1, <2>2, <2>3
<1>5. CASE CompactEnd \/ StorageCrash
  <2>1. Still /\ compaction' = Idle
    BY <1>5 DEF CompactEnd, StorageCrash, asked
  <2> QED
    BY <1>3, <2>1 DEF Idle
<1>6. ASSUME NEW b \in compaction.buckets, CompactError(b)
      PROVE  RecentInv'
  <2>1. Still /\ compaction' = [compaction EXCEPT !.buckets = compaction.buckets \ {b}]
    BY <1>6 DEF CompactError, asked
  <2>2. compaction.running
    BY <1>6 DEF RecentInv, PassInv
  <2>3. PassInv' /\ BucketsInv'
    BY <2>1, <2>2 DEF RecentInv, PassInv, BucketsInv, Past, Rollup, RowKey, PassTiers
  <2> QED
    BY <1>1, <2>1, <2>3
<1>7. CASE PurgeView \/ PurgeError \/ PurgeEnd \/ UNCHANGED storageVars
  <2>1. Still /\ compaction' = compaction
    BY <1>7 DEF PurgeView, PurgeError, PurgeEnd, storageVars, asked
  <2> QED
    BY <1>2, <2>1
<1>8. ASSUME NEW type, NEW from, NEW to, IngestPurge(type, from, to)
      PROVE  RecentInv'
  <2>1. Still /\ compaction' = compaction
    BY <1>8 DEF IngestPurge, asked
  <2> QED
    BY <1>2, <2>1
<1>9. ASSUME NEW s \in Series, NEW late \in {l \in Lateness : l <= instant},
             PutMetric(s, instant - late) \/ PutKPI(s, instant - late) \/ PutInfraSignal(s, instant - late)
      PROVE  RecentInv'
  <2>1. late \in Lateness /\ late <= instant
    OBVIOUS
  <2>2. PICK f \in Families : Put(f, s, instant - late)
    BY <1>9 DEF PutMetric, PutKPI, PutInfraSignal
  <2> QED
    BY <2>1, <2>2, PutIsRecent
<1>10. CASE StorageTick
  BY <1>10, TickIsRecent
<1>11. CASE CompactView
  BY <1>11, ViewIsRecent
<1>12. ASSUME NEW b \in compaction.buckets, CompactBucket(b)
       PROVE  RecentInv'
  BY <1>12, BucketIsRecent
<1>13. ASSUME NEW batch, PurgeBatch(batch)
       PROVE  RecentInv'
  BY <1>13, PurgeIsRecent
<1> HIDE DEF Still
<1> QED
  BY <1>4, <1>5, <1>6, <1>7, <1>8, <1>9, <1>10, <1>11, <1>12, <1>13 DEF StorageNext

(* A recent window is read from the raw rows alone: the rollups that stand  *)
(* in for them when there are none lie further back.                        *)
LEMMA WindowIsRead ==
  ASSUME RawOutlives, RecentInv
  PROVE  RecentIsRead
<1> SUFFICES ASSUME NEW f \in Families, NEW s \in Series, CompactAfter[1] <= Spans[1]
             PROVE  Samples(GetRangeTiered(f, s, instant - CompactAfter[1], instant))
                      = {x \in kept : x[1] = f /\ x[2] = s /\ instant - CompactAfter[1] <= x[3]}
  BY DEF RecentIsRead
<1> DEFINE from == instant - CompactAfter[1]
           raw == RangeQuery(<<f, 0>>, s, from, instant)
           recent == {x \in kept : x[1] = f /\ x[2] = s /\ from <= x[3]}
<1>1. instant \in Nat /\ CompactAfter[1] \in Nat /\ from \in Int /\ instant - from = CompactAfter[1]
  BY StorageConstants DEF RecentInv
<1>2. \A at \in Int : Past(at) <=> ~(from <= at)
  BY <1>1 DEF Past
<1>3. RangeQuery(<<f, 1>>, s, from, instant) = {}
  <2> SUFFICES ASSUME NEW k \in DOMAIN rows, k.tier = <<f, 1>>, from <= k.at
               PROVE  FALSE
    BY DEF RangeQuery, RowsOf
  <2>1. Rollup(k)
    BY DEF Rollup
  <2>2. Past(k.at) /\ k.at \in Int
    BY <2>1 DEF RecentInv, RowsInv, Past
  <2> QED
    BY <1>2, <2>2
<1>4. GetRangeTiered(f, s, from, instant) = raw
  <2>1. instant - from <= Spans[1]
    BY <1>1
  <2>2. raw = {} => RangeQuery(<<f, 1>>, s, from, instant) = raw
    BY <1>3
  <2> HIDE DEF raw, from
  <2>3. GetRangeTiered(f, s, from, instant) = IF f = "kpi" THEN GetKPIRange(s, from, instant)
                                              ELSE GetMetricRange(f, s, from, instant)
    <3> DEFINE width == instant - from
    <3>1. ~(width > Spans[1])
      BY <1>1, <2>1, StorageConstants
    <3> HIDE DEF width
    <3>2. \A wide, wider : width <= Spans[1]
            => (CASE width <= Spans[1] -> IF f = "kpi" THEN GetKPIRange(s, from, instant) ELSE GetMetricRange(f, s, from, instant)
                  [] width > Spans[1] /\ width <= Spans[2] -> wide
                  [] OTHER -> wider)
               = (IF f = "kpi" THEN GetKPIRange(s, from, instant) ELSE GetMetricRange(f, s, from, instant))
      BY <3>1
    <3> QED
      BY <2>1, <3>2, Zenon DEF GetRangeTiered, width
  <2>4. CASE f = "kpi"
    <3>1. GetKPIRange(s, from, instant) = IF raw # {} THEN raw ELSE RangeQuery(<<f, 1>>, s, from, instant)
      BY <2>4, Zenon DEF GetKPIRange, RangeQueryKPI, raw
    <3> QED
      BY <2>2, <2>3, <2>4, <3>1
  <2>5. CASE f # "kpi"
    BY <2>3, <2>5 DEF GetMetricRange, raw
  <2> QED
    BY <2>4, <2>5
<1>5. ASSUME NEW x
      PROVE  x \in recent <=> \E k \in raw : x \in rows[k].val
  <2>1. ASSUME NEW k \in raw
        PROVE  /\ k \in DOMAIN rows /\ rows[k].val = {SampleOf(k)} /\ SampleOf(k) = <<f, s, k.at>>
               /\ SampleOf(k) \in recent
    <3>1. k \in DOMAIN rows /\ k.tier = <<f, 0>> /\ k.series = s /\ from <= k.at
      BY DEF RangeQuery, RowsOf
    <3>2. k.at \in Int /\ ~Rollup(k)
      <4>1. k \in RowKey
        BY <3>1 DEF RecentInv, RowsInv
      <4>2. k.at \in Int
        BY <4>1, KeyIsKey
      <4>3. k.tier[2] = 0
        BY <3>1
      <4> QED
        BY <4>2, <4>3 DEF Rollup
    <3>3. SampleOf(k) \in kept
      BY <1>2, <3>1, <3>2 DEF RecentInv, KeptInv
    <3>4. SampleOf(k) = <<f, s, k.at>>
      <4>1. k.tier[1] = f
        BY <3>1
      <4> QED
        BY <3>1, <4>1 DEF SampleOf
    <3>5. rows[k].val = {SampleOf(k)}
      BY <3>1, <3>2 DEF RecentInv, RowsInv
    <3> QED
      BY <3>1, <3>3, <3>4, <3>5
  <2>2. ASSUME x \in recent
        PROVE  \E k \in raw : x \in rows[k].val
    <3> DEFINE k == Key(<<x[1], 0>>, x[2], x[3])
    <3>1. /\ x \in Families \X Series \X Int /\ x[3] <= instant /\ from <= x[3]
          /\ x[1] = f /\ x[2] = s /\ x[3] \in Int /\ x = <<x[1], x[2], x[3]>>
      <4>1. x \in kept /\ x[1] = f /\ x[2] = s /\ from <= x[3]
        BY <2>2
      <4>2. x \in Families \X Series \X Int /\ x[3] <= instant
        BY <4>1 DEF RecentInv, KeptInv
      <4> HIDE DEF from
      <4> QED
        BY <4>1, <4>2
    <3>2. k \in DOMAIN rows
      BY <1>2, <2>2, <3>1 DEF RecentInv, KeptInv
    <3>3. k.tier = <<f, 0>> /\ k.series = s /\ k.at = x[3]
      BY <3>1, KeyIsKey
    <3> HIDE DEF k, from
    <3>4. k \in raw
      BY <3>1, <3>2, <3>3 DEF RangeQuery, RowsOf
    <3>5. SampleOf(k) = x
      BY <3>1, <3>3 DEF SampleOf
    <3> HIDE DEF raw
    <3> QED
      BY <2>1, <3>4, <3>5
  <2> HIDE DEF raw, recent
  <2> QED
    BY <2>1, <2>2
<1> HIDE DEF raw, recent
<1>6. Samples(raw) = recent
  BY <1>5 DEF Samples
<1> QED
  BY <1>4, <1>6 DEF recent

(***************************************************************************)
(* A window no longer than the age of compaction reads every sample of it  *)
(* that was stored and not purged, and nothing else (RecentIsRead,         *)
(* retention.go's GetRangeTiered), while passes and purges run, when the   *)
(* raw rows live longer than it takes to compact them (7 d and 2 h).       *)
(***************************************************************************)
THEOREM RecentSamplesAreRead ==
  ASSUME RowTTL[1] > CompactAfter[1]
  PROVE  StorageSpec => []RecentIsRead
<1>1. RecentInv /\ [StorageNext]_storageVars => RecentInv'
  BY RecentStays
<1>2. RecentInv => RecentIsRead
  BY WindowIsRead DEF RawOutlives
<1> QED
  BY <1>1, <1>2, RecentStarts, PTL DEF StorageSpec

-----------------------------------------------------------------------------
(***************************************************************************)
(* What a purge leaves.                                                    *)
(*                                                                         *)
(* A row of the window is of a tier still to come, is among the keys still *)
(* to delete, or holds nothing that was stored before the purge began; no  *)
(* compaction moves a sample behind its back while it is alone.            *)
(***************************************************************************)
ToCome(tier) == \E i \in 1..Len(purge.todo) : purge.todo[i] = tier

PurgeInv ==
    /\ RecentInv
    /\ ~purge.running => purge.keys = {}
    /\ (purge.running /\ purge.alone) => ~compaction.running
    /\ purge.running =>
        /\ purge.type \in {"signals", "kpis", "all"} /\ purge.before \subseteq seen
        /\ \E n \in Nat : purge.todo \in [1..n -> Families \X (0..2)]
        /\ purge = [running |-> TRUE, type |-> purge.type, todo |-> purge.todo, keys |-> purge.keys,
                    from |-> purge.from, to |-> purge.to, alone |-> purge.alone, before |-> purge.before]

TiersReached ==
    (purge.running /\ purge.alone /\ purge.type # "signals") =>
        \A k \in DOMAIN rows :
            (k.tier[1] = "kpi" /\ Purging(k)) =>
                (ToCome(k.tier) \/ k \in purge.keys \/ rows[k].val \cap purge.before \subseteq again)

LEMMA LevelsOfAPurge ==
  ASSUME NEW type \in {"signals", "kpis", "all"}
  PROVE  /\ PurgeTiers(type) \in Seq(Families \X (0..2))
         /\ (type # "signals" /\ "kpi" \in Families)
                => \A level \in 0..2 : \E i \in 1..Len(PurgeTiers(type)) : PurgeTiers(type)[i] = <<"kpi", level>>
<1> DEFINE T == Families \X (0..2)
           a == IF type \in {"signals", "all"} THEN Tier("metric", 0) ELSE <<>>
           kpis == Tier("kpi", 0) \o Tier("kpi", 1) \o Tier("kpi", 2)
<1>1. \A f \in {"metric", "kpi"}, level \in 0..2 : Tier(f, level) = <<>> \/ (f \in Families /\ Tier(f, level) = <<<<f, level>>>>)
  BY DEF Tier
<1>2. \A f \in Families, level \in 0..2 : <<f, level>> \in T
  OBVIOUS
<1>3. \A S, x : x \in S => <<x>> \in Seq(S)
  OBVIOUS
<1>4. \A S : <<>> \in Seq(S)
  OBVIOUS
<1> HIDE DEF T
<1>5. \A f \in {"metric", "kpi"}, level \in 0..2 : Tier(f, level) \in Seq(T)
  BY <1>1, <1>2, <1>3, <1>4
<1>6. Tier("kpi", 0) \in Seq(T) /\ Tier("kpi", 1) \in Seq(T) /\ Tier("kpi", 2) \in Seq(T) /\ Tier("metric", 0) \in Seq(T)
  BY <1>5
<1>7. a \in Seq(T) /\ kpis \in Seq(T)
  BY <1>4, <1>6, TiersJoined
<1>8. PurgeTiers(type) = a \o (IF type \in {"kpis", "all"} THEN kpis ELSE <<>>)
  BY DEF PurgeTiers
<1> HIDE DEF a, kpis
<1>9. PurgeTiers(type) \in Seq(T)
  BY <1>4, <1>7, <1>8, TiersJoined
<1>10. ASSUME type # "signals", "kpi" \in Families, NEW level \in 0..2
       PROVE  \E i \in 1..Len(PurgeTiers(type)) : PurgeTiers(type)[i] = <<"kpi", level>>
  <2>1. \A s \in Seq(T), t \in Seq(T) :
            /\ s \o t \in Seq(T) /\ Len(s \o t) = Len(s) + Len(t)
            /\ \A i \in 1..Len(s) : (s \o t)[i] = s[i]
            /\ \A i \in 1..Len(t) : (s \o t)[Len(s) + i] = t[i]
    OBVIOUS
  <2>2. level + 1 \in 1..3 /\ Len(kpis) = 3 /\ kpis[level + 1] = <<"kpi", level>>
    <3> DEFINE k0 == Tier("kpi", 0)
               k1 == Tier("kpi", 1)
               k2 == Tier("kpi", 2)
               two == k0 \o k1
    <3>1. k0 = <<<<"kpi", 0>>>> /\ k1 = <<<<"kpi", 1>>>> /\ k2 = <<<<"kpi", 2>>>>
      BY <1>10 DEF Tier
    <3>2. /\ Len(k0) = 1 /\ Len(k1) = 1 /\ Len(k2) = 1
          /\ k0[1] = <<"kpi", 0>> /\ k1[1] = <<"kpi", 1>> /\ k2[1] = <<"kpi", 2>>
      BY <3>1
    <3>3. k0 \in Seq(T) /\ k1 \in Seq(T) /\ k2 \in Seq(T)
      BY <1>6
    <3>4. kpis = two \o k2
      BY DEF kpis
    <3> HIDE DEF k0, k1, k2
    <3>5. two \in Seq(T) /\ Len(two) = 2 /\ two[1] = <<"kpi", 0>> /\ two[2] = <<"kpi", 1>>
      <4>1. two \in Seq(T) /\ Len(two) = Len(k0) + Len(k1)
        BY <2>1, <3>3
      <4>2. two[1] = k0[1]
        <5>1. 1 \in 1..Len(k0)
          BY <3>2
        <5> QED
          BY <2>1, <3>3, <5>1
      <4>3. two[Len(k0) + 1] = k1[1]
        <5>1. 1 \in 1..Len(k1)
          BY <3>2
        <5> QED
          BY <2>1, <3>3, <5>1
      <4> HIDE DEF two
      <4> QED
        BY <3>2, <4>1, <4>2, <4>3
    <3> HIDE DEF two
    <3>6. Len(kpis) = Len(two) + Len(k2)
      BY <2>1, <3>3, <3>4, <3>5
    <3>7. kpis[1] = two[1] /\ kpis[2] = two[2]
      <4>1. 1 \in 1..Len(two) /\ 2 \in 1..Len(two)
        BY <3>5
      <4> QED
        BY <2>1, <3>3, <3>4, <3>5, <4>1
    <3>8. kpis[Len(two) + 1] = k2[1]
      <4>1. 1 \in 1..Len(k2)
        BY <3>2
      <4> QED
        BY <2>1, <3>3, <3>4, <3>5, <4>1
    <3>9. level = 0 \/ level = 1 \/ level = 2
      BY <1>10
    <3> QED
      BY <3>2, <3>5, <3>6, <3>7, <3>8, <3>9
  <2>3. \A S : \A s \in Seq(S), t \in Seq(S) : \A i \in 1..Len(t) :
            /\ Len(s) + i \in 1..Len(s \o t) /\ (s \o t)[Len(s) + i] = t[i]
    OBVIOUS
  <2>4. PurgeTiers(type) = a \o kpis
    BY <1>8, <1>10
  <2>5. Len(a) + (level + 1) \in 1..Len(PurgeTiers(type))
        /\ PurgeTiers(type)[Len(a) + (level + 1)] = kpis[level + 1]
    <3>1. level + 1 \in 1..Len(kpis)
      BY <2>2
    <3> QED
      BY <1>7, <2>3, <2>4, <3>1
  <2> QED
    BY <2>2, <2>5
<1> QED
  BY <1>9, <1>10 DEF T

LEMMA PurgeKeeps ==
  ASSUME PurgeInv, [StorageNext]_storageVars
  PROVE  PurgeInv'
<1> DEFINE Shape(p) == [running |-> TRUE, type |-> p.type, todo |-> p.todo, keys |-> p.keys,
                        from |-> p.from, to |-> p.to, alone |-> p.alone, before |-> p.before]
           Rest == /\ ~purge.running => purge.keys = {}
                   /\ (purge.running /\ purge.alone) => ~compaction.running
                   /\ purge.running =>
                        /\ purge.type \in {"signals", "kpis", "all"} /\ purge.before \subseteq seen
                        /\ \E n \in Nat : purge.todo \in [1..n -> Families \X (0..2)]
                        /\ purge = Shape(purge)
<1>1. RecentInv'
  BY RecentStays DEF PurgeInv
<1>2. Rest
  BY DEF PurgeInv
<1>3. ASSUME purge' = purge, seen' = seen \/ (\E x : seen' = seen \cup {x}),
             compaction'.running = compaction.running \/ ~compaction'.running
      PROVE  Rest'
  BY <1>2, <1>3
<1>4. ASSUME purge' = Idle
      PROVE  Rest'
  BY <1>4 DEF Idle
<1>5. ASSUME Compact
      PROVE  Rest'
  <2>1. /\ compaction' = [running |-> TRUE, todo |-> CompactOrder, buckets |-> {}, now |-> instant]
        /\ purge' = IF purge.running THEN [purge EXCEPT !.alone = FALSE] ELSE purge
        /\ seen' = seen
    BY <1>5 DEF Compact, asked
  <2>2. CASE purge.running
    <3>1. /\ purge'.running /\ purge'.type = purge.type /\ purge'.todo = purge.todo /\ purge'.alone = FALSE
          /\ purge'.before = purge.before /\ purge' = Shape(purge')
      BY <1>2, <2>1, <2>2
    <3> QED
      BY <1>2, <2>1, <2>2, <3>1
  <2>3. CASE ~purge.running
    BY <1>2, <2>1, <2>3
  <2> QED
    BY <2>2, <2>3
<1>6. ASSUME CompactView \/ CompactEnd \/ StorageTick \/ UNCHANGED storageVars
      PROVE  Rest'
  <2>1. purge' = purge /\ seen' = seen
    BY <1>6 DEF CompactView, CompactEnd, StorageTick, storageVars, asked
  <2>2. compaction'.running = compaction.running \/ ~compaction'.running
    <3>1. CASE CompactView
      <4>1. PICK t, bs : compaction' = [compaction EXCEPT !.todo = t, !.buckets = bs]
        BY <3>1 DEF CompactView
      <4>2. compaction = [running |-> TRUE, todo |-> compaction.todo,
                          buckets |-> compaction.buckets, now |-> compaction.now]
        BY <3>1 DEF CompactView, PurgeInv, RecentInv, PassInv
      <4> QED
        BY <4>1, <4>2
    <3>2. CASE CompactEnd
      BY <3>2 DEF CompactEnd, Idle
    <3>3. CASE StorageTick \/ UNCHANGED storageVars
      BY <3>3 DEF StorageTick, storageVars
    <3> QED
      BY <1>6, <3>1, <3>2, <3>3
  <2> QED
    <3> HIDE DEF Rest
    <3> QED
      BY <1>3, <2>1, <2>2
<1>7. ASSUME NEW b \in compaction.buckets, CompactBucket(b) \/ CompactError(b)
      PROVE  Rest'
  <2>1. purge' = purge /\ seen' = seen /\ compaction' = [compaction EXCEPT !.buckets = compaction.buckets \ {b}]
    BY <1>7 DEF CompactBucket, CompactError, asked
  <2>2. compaction.running
    BY DEF PurgeInv, RecentInv, PassInv
  <2>3. compaction = [running |-> TRUE, todo |-> compaction.todo,
                      buckets |-> compaction.buckets, now |-> compaction.now]
    BY <2>2 DEF PurgeInv, RecentInv, PassInv
  <2>4. compaction'.running = compaction.running
    BY <2>1, <2>3
  <2> QED
    BY <1>3, <2>1, <2>4
<1>8. ASSUME PurgeError \/ PurgeEnd \/ StorageCrash
      PROVE  Rest'
  <2>1. purge' = Idle
    BY <1>8 DEF PurgeError, PurgeEnd, StorageCrash
  <2> QED
    BY <1>4, <2>1
<1>9. ASSUME NEW type \in {"signals", "kpis", "all"}, NEW from, NEW to, IngestPurge(type, from, to)
      PROVE  Rest'
  <2>1. /\ purge' = [running |-> TRUE, type |-> type, todo |-> PurgeTiers(type), keys |-> {},
                     from |-> from, to |-> to, alone |-> ~compaction.running, before |-> seen]
        /\ seen' = seen /\ compaction' = compaction
    BY <1>9 DEF IngestPurge, asked
  <2>2. PICK n \in Nat : PurgeTiers(type) \in [1..n -> Families \X (0..2)]
    BY LevelsOfAPurge
  <2> QED
    BY <2>1, <2>2
<1>10. ASSUME PurgeView
       PROVE  Rest'
  <2>1. PICK ks : purge' = [purge EXCEPT !.todo = Tail(purge.todo), !.keys = ks]
    BY <1>10 DEF PurgeView
  <2>2. purge.running /\ purge.todo # <<>> /\ seen' = seen /\ compaction' = compaction
    BY <1>10 DEF PurgeView, asked
  <2>3. PICK n \in Nat : purge.todo \in [1..n -> Families \X (0..2)]
    BY <1>2, <2>2
  <2>4. purge.todo \in Seq(Families \X (0..2))
    BY <2>3
  <2>5. \E m \in Nat : Tail(purge.todo) \in [1..m -> Families \X (0..2)]
    <3>1. \A S : \A s \in Seq(S) : s # <<>> => Tail(s) \in Seq(S)
      OBVIOUS
    <3>2. \A S : \A s \in Seq(S) : \E m \in Nat : s \in [1..m -> S]
      OBVIOUS
    <3>3. Tail(purge.todo) \in Seq(Families \X (0..2))
      BY <2>2, <2>4, <3>1
    <3> QED
      BY <3>2, <3>3
  <2>6. /\ purge'.running /\ purge'.type = purge.type /\ purge'.todo = Tail(purge.todo) /\ purge'.alone = purge.alone
        /\ purge'.before = purge.before /\ purge' = Shape(purge')
    BY <1>2, <2>1, <2>2
  <2> QED
    BY <1>2, <2>2, <2>5, <2>6
<1>11. ASSUME NEW batch, PurgeBatch(batch)
       PROVE  Rest'
  <2>1. /\ purge' = [purge EXCEPT !.keys = purge.keys \ batch]
        /\ batch # {} /\ batch \subseteq purge.keys /\ seen' = seen /\ compaction' = compaction
    BY <1>11 DEF PurgeBatch
  <2>2. purge.running
    BY <1>2, <2>1
  <2>3. /\ purge'.running /\ purge'.type = purge.type /\ purge'.todo = purge.todo /\ purge'.alone = purge.alone
        /\ purge'.before = purge.before /\ purge' = Shape(purge')
    BY <1>2, <2>1, <2>2
  <2> QED
    BY <1>2, <2>1, <2>2, <2>3
<1>12. ASSUME NEW s, NEW at, PutMetric(s, at) \/ PutKPI(s, at) \/ PutInfraSignal(s, at)
       PROVE  Rest'
  <2>1. purge' = purge /\ compaction' = compaction /\ \E x : seen' = seen \cup {x}
    BY <1>12 DEF PutMetric, PutKPI, PutInfraSignal, Put
  <2> QED
    BY <1>3, <2>1
<1>13. Rest'
  <2> HIDE DEF Rest
  <2> QED
    BY <1>5, <1>6, <1>7, <1>8, <1>9, <1>10, <1>11, <1>12 DEF StorageNext
<1> QED
  BY <1>1, <1>13 DEF PurgeInv

(* A purge asks for every tier of the KPIs before it has read any. *)
LEMMA AskReaches ==
  ASSUME PurgeInv, NEW type \in {"signals", "kpis", "all"}, NEW from, NEW to, IngestPurge(type, from, to)
  PROVE  TiersReached'
<1>1. /\ purge' = [running |-> TRUE, type |-> type, todo |-> PurgeTiers(type), keys |-> {},
                   from |-> from, to |-> to, alone |-> ~compaction.running, before |-> seen]
      /\ rows' = rows
  BY DEF IngestPurge, asked
<1>2. purge'.type = type /\ purge'.todo = PurgeTiers(type)
  BY <1>1
<1>3. ASSUME NEW k \in DOMAIN rows, type # "signals", k.tier[1] = "kpi"
      PROVE  \E i \in 1..Len(PurgeTiers(type)) : PurgeTiers(type)[i] = k.tier
  <2>1. k \in RowKey
    BY DEF PurgeInv, RecentInv, RowsInv
  <2>2. k.tier = <<"kpi", k.tier[2]>> /\ "kpi" \in Families /\ k.tier[2] \in 0..2
    BY <1>3, <2>1, KeyIsKey
  <2>3. \E i \in 1..Len(PurgeTiers(type)) : PurgeTiers(type)[i] = <<"kpi", k.tier[2]>>
    BY <1>3, <2>2, LevelsOfAPurge
  <2> QED
    BY <2>2, <2>3
<1> QED
  BY <1>1, <1>2, <1>3, Zenon DEF TiersReached, ToCome

(* The rows of a tier it has read are the keys it deletes. *)
LEMMA ViewReaches ==
  ASSUME PurgeInv, TiersReached, PurgeView
  PROVE  TiersReached'
<1> DEFINE todo == purge.todo
           ks == {k \in RowsOf(Head(todo)) : Purging(k)}
           n == Len(todo)
<1>1. /\ purge.running /\ purge.keys = {} /\ todo # <<>>
      /\ purge' = [purge EXCEPT !.todo = Tail(todo), !.keys = ks]
      /\ rows' = rows /\ again' = again
  BY DEF PurgeView, asked
<1>2. purge = [running |-> TRUE, type |-> purge.type, todo |-> purge.todo, keys |-> purge.keys,
               from |-> purge.from, to |-> purge.to, alone |-> purge.alone, before |-> purge.before]
      /\ \E m \in Nat : todo \in [1..m -> Families \X (0..2)]
  BY <1>1 DEF PurgeInv
<1>3. /\ purge'.type = purge.type /\ purge'.todo = Tail(todo) /\ purge'.alone = purge.alone
      /\ purge'.before = purge.before /\ purge'.from = purge.from /\ purge'.to = purge.to
      /\ purge'.running /\ purge'.keys = ks
  BY <1>1, <1>2
<1>4. todo \in Seq(Families \X (0..2))
  BY <1>2
<1>5. \A k : Purging(k)' <=> Purging(k)
  BY <1>3 DEF Purging
<1>6. ASSUME NEW k \in DOMAIN rows, Purging(k), ToCome(k.tier)
      PROVE  ToCome(k.tier)' \/ k \in ks
  <2>1. PICK i \in 1..Len(todo) : todo[i] = k.tier
    BY <1>6 DEF ToCome
  <2>2. \A S : \A s \in Seq(S) : s # <<>> =>
          /\ Head(s) = s[1] /\ Len(Tail(s)) = Len(s) - 1 /\ Len(s) \in Nat
          /\ \A j \in 1..Len(s) : j # 1 => (j - 1 \in 1..Len(Tail(s)) /\ Tail(s)[j - 1] = s[j])
    OBVIOUS
  <2> HIDE DEF todo
  <2>3. CASE i = 1
    <3>1. Head(todo) = k.tier
      BY <1>1, <1>4, <2>1, <2>2, <2>3
    <3> QED
      BY <1>6, <3>1 DEF RowsOf
  <2>4. CASE i # 1
    <3>1. i - 1 \in 1..Len(Tail(todo)) /\ Tail(todo)[i - 1] = k.tier
      BY <1>1, <1>4, <2>1, <2>2, <2>4
    <3> QED
      BY <1>3, <3>1 DEF ToCome
  <2> QED
    BY <2>3, <2>4
<1> HIDE DEF ks, todo
<1> QED
  BY <1>1, <1>3, <1>5, <1>6 DEF TiersReached

LEMMA TiersStayReached ==
  ASSUME PurgeInv, TiersReached, [StorageNext]_storageVars
  PROVE  TiersReached'
<1>1. ASSUME purge' = purge, rows' = rows, again \subseteq again'
      PROVE  TiersReached'
  BY <1>1 DEF TiersReached, ToCome, Purging
<1>2. ASSUME ~(purge'.running /\ purge'.alone)
      PROVE  TiersReached'
  BY <1>2 DEF TiersReached
<1>3. ASSUME NEW f, NEW s, NEW at, Put(f, s, at)
      PROVE  TiersReached'
  <2> DEFINE x == <<f, s, at>>
             key == Key(<<f, 0>>, s, at)
  <2>1. /\ purge' = purge /\ again' = again \cup (seen \cap {x})
        /\ Set(<<f, 0>>, s, at, {x})
    BY <1>3 DEF Put
  <2>2. PICK e : rows' = [k \in DOMAIN rows \cup {key} |-> IF k = key THEN [val |-> {x}, expires |-> e] ELSE rows[k]]
    BY <2>1 DEF Set
  <2> HIDE DEF x, key
  <2>3. \A k \in DOMAIN rows' : IF k = key THEN rows'[k].val = {x} ELSE (k \in DOMAIN rows /\ rows'[k] = rows[k])
    BY <2>2
  <2>4. purge.running => purge.before \subseteq seen
    BY DEF PurgeInv
  <2> QED
    BY <2>1, <2>3, <2>4 DEF TiersReached, ToCome, Purging
<1>4. CASE StorageTick
  <2>1. ~purge'.running
    BY <1>4 DEF StorageTick
  <2> QED
    BY <1>2, <2>1
<1>5. CASE Compact
  <2>1. purge' = (IF purge.running THEN [purge EXCEPT !.alone = FALSE] ELSE purge)
    BY <1>5 DEF Compact
  <2>2. purge.running => purge'.alone = FALSE
    BY <2>1 DEF PurgeInv
  <2>3. ~purge.running => ~purge'.running
    BY <2>1
  <2> QED
    BY <1>2, <2>2, <2>3
<1>6. CASE CompactView \/ CompactEnd \/ UNCHANGED storageVars \/ (\E b : CompactError(b))
  <2>1. purge' = purge /\ rows' = rows /\ again' = again
    BY <1>6 DEF CompactView, CompactEnd, CompactError, storageVars, asked
  <2> QED
    BY <1>1, <2>1
<1>7. ASSUME NEW b \in compaction.buckets, CompactBucket(b)
      PROVE  TiersReached'
  <2>1. purge' = purge
    BY <1>7 DEF CompactBucket
  <2>2. compaction.running
    BY DEF PurgeInv, RecentInv, PassInv
  <2>3. ~(purge.running /\ purge.alone)
    BY <2>2 DEF PurgeInv
  <2> QED
    BY <1>2, <2>1, <2>3
<1>8. CASE PurgeError \/ PurgeEnd \/ StorageCrash
  <2>1. purge' = Idle
    BY <1>8 DEF PurgeError, PurgeEnd, StorageCrash
  <2>2. ~purge'.running
    BY <2>1 DEF Idle
  <2> QED
    BY <1>2, <2>2
<1>9. ASSUME NEW batch, PurgeBatch(batch)
      PROVE  TiersReached'
  <2>1. /\ purge' = [purge EXCEPT !.keys = purge.keys \ batch]
        /\ rows' = [k \in DOMAIN rows \ batch |-> rows[k]] /\ again' = again
        /\ batch # {} /\ batch \subseteq purge.keys
    BY <1>9 DEF PurgeBatch
  <2>2. purge.running
    BY <2>1 DEF PurgeInv
  <2>3. purge = [running |-> TRUE, type |-> purge.type, todo |-> purge.todo, keys |-> purge.keys,
                 from |-> purge.from, to |-> purge.to, alone |-> purge.alone, before |-> purge.before]
    BY <2>2 DEF PurgeInv
  <2>4. /\ purge'.type = purge.type /\ purge'.todo = purge.todo /\ purge'.alone = purge.alone
        /\ purge'.before = purge.before /\ purge'.from = purge.from /\ purge'.to = purge.to
        /\ purge'.running = purge.running /\ purge'.keys = purge.keys \ batch
    BY <2>1, <2>3
  <2>5. \A k \in DOMAIN rows' : k \in DOMAIN rows /\ ~(k \in batch) /\ rows'[k] = rows[k]
    BY <2>1
  <2>6. \A k : (Purging(k)' <=> Purging(k)) /\ (ToCome(k.tier)' <=> ToCome(k.tier))
    BY <2>4 DEF Purging, ToCome
  <2> QED
    BY <2>1, <2>4, <2>5, <2>6 DEF TiersReached
<1>10. CASE PurgeView
  BY <1>10, ViewReaches
<1> QED
  BY <1>3, <1>4, <1>5, <1>6, <1>7, <1>8, <1>9, <1>10, AskReaches
     DEF StorageNext, PutMetric, PutKPI, PutInfraSignal

(***************************************************************************)
(* When a purge of KPIs that no compaction ran beside has gone through its *)
(* tiers, no row of its window holds a sample stored before it began,      *)
(* unless that sample was delivered again (PurgeReachesEveryTier; the      *)
(* ingest API's purge): the rollups go with the raw samples.               *)
(***************************************************************************)
THEOREM PurgesReachEveryTier == StorageSpec => []PurgeReachesEveryTier
<1>1. StorageInit => PurgeInv /\ TiersReached
  <2>1. StorageInit => ~purge.running /\ purge.keys = {}
    BY DEF StorageInit, Idle
  <2> QED
    BY <2>1, RecentStarts DEF PurgeInv, TiersReached
<1>2. PurgeInv /\ TiersReached /\ [StorageNext]_storageVars => PurgeInv' /\ TiersReached'
  BY PurgeKeeps, TiersStayReached
<1>3. PurgeInv /\ TiersReached => PurgeReachesEveryTier
  <2> SUFFICES ASSUME PurgeInv, TiersReached, purge.running, purge.todo = <<>>, purge.keys = {},
                      purge.alone, purge.type # "signals"
               PROVE  \A k \in DOMAIN rows : (k.tier[1] = "kpi" /\ Purging(k)) => rows[k].val \cap purge.before \subseteq again
    BY DEF PurgeReachesEveryTier
  <2>1. Len(purge.todo) = 0
    OBVIOUS
  <2>2. \A tier : ~ToCome(tier)
    BY <2>1 DEF ToCome
  <2> QED
    BY <2>2 DEF TiersReached
<1> QED
  BY <1>1, <1>2, <1>3, PTL DEF StorageSpec

----------------------------------------------------------------------------
(***************************************************************************)
(* Snapshots: one is stored under its own key and under that of its host,  *)
(* so that under its own key a workload is found for as long as the engine *)
(* runs; the two reads of a request list each workload once because the    *)
(* second leaves out what the first has listed.                            *)
(***************************************************************************)
SnapsKeptInv ==
    /\ DOMAIN analyzed \subseteq Refs
    /\ ticker = [due |-> ticker.due, snap |-> ticker.snap, last |-> ticker.last]
    /\ ticker.snap = NoSnap \/ ticker.snap.ref \in Refs
    /\ IsFiniteSet(DOMAIN store)
    /\ \A k \in DOMAIN store : store[k].ref \in Refs /\ store[k].ref \in DOMAIN store
    /\ \A k \in DOMAIN store : k \in Refs => store[k].ref = k

States == {"critical", "calibrating", "healthy", "degraded", "pending_telemetry"}
Listing == [host : Refs, state : States]
RefsOf(snaps) == {s.ref : s \in snaps}
(* Each workload of K has one place in the list, which has no other.       *)
Lists(hosts, K) ==
    /\ hosts \in Seq(Listing)
    /\ \A i, j \in 1..Len(hosts) : hosts[i].host = hosts[j].host => i = j
    /\ \A i \in 1..Len(hosts) : hosts[i].host \in K
    /\ \A w \in K : \E i \in 1..Len(hosts) : hosts[i].host = w

AnswerInv ==
    /\ fleet.at \in {"idle", "listing", "answered"}
    /\ fleet.at # "idle" => fleet.fresh \subseteq Refs /\ fleet.fresh \subseteq DOMAIN store
    /\ fleet.at = "listing" =>
        /\ fleet = [at |-> "listing", left |-> fleet.left, hosts |-> fleet.hosts, fresh |-> fleet.fresh]
        /\ RefsOf(fleet.left) \subseteq fleet.fresh
        /\ \A s, t \in fleet.left : s.ref = t.ref => s = t
        /\ Lists(fleet.hosts, fleet.fresh \ RefsOf(fleet.left))
    /\ fleet.at = "answered" => Lists(fleet.hosts, fleet.fresh \cup fleet.pending)

SnapshotsInv == SnapsKeptInv /\ AnswerInv

LEMMA KindsAreKnown ==
  ASSUME NEW w \in Refs
  PROVE  /\ w.kind \in {"Deployment", "StatefulSet", "DaemonSet", "Job", "host"}
         /\ w # NoRef /\ \A v : w # HostKey(v)
<1>1. w.kind \in {"Deployment", "StatefulSet", "DaemonSet", "Job", "host"}
  BY SnapshotsAssumption
<1>2. w.kind # ""
  BY <1>1
<1>3. NoRef.kind = "" /\ \A v : HostKey(v).kind = ""
  BY DEF NoRef, HostKey
<1> QED
  BY <1>1, <1>2, <1>3

LEMMA SnapshotsStart == SnapInit => SnapshotsInv
<1> SUFFICES ASSUME SnapInit PROVE SnapshotsInv
  OBVIOUS
<1>1. DOMAIN analyzed = {} /\ DOMAIN store = {} /\ ticker = Resting /\ fleet = NoRequest
  BY DEF SnapInit
<1>2. SnapsKeptInv
  BY <1>1, FS_EmptySet DEF SnapsKeptInv, Resting
<1>3. AnswerInv
  BY <1>1 DEF AnswerInv, NoRequest
<1> QED
  BY <1>2, <1>3 DEF SnapshotsInv

(* What is done beside a request leaves it what it was told of.            *)
LEMMA RequestStands ==
  ASSUME AnswerInv, fleet' = fleet, DOMAIN store \subseteq DOMAIN store' PROVE AnswerInv'
  BY DEF AnswerInv

LEMMA WritersKeep ==
  ASSUME SnapshotsInv,
         \/ \E w \in Refs : Sampled(w) \/ Register(w) \/ Unregister(w) \/ \E health \in Healths : SnapUpdate(w, health)
         \/ SnapTick \/ SnapAdvance \/ UNCHANGED snapVars
  PROVE  SnapshotsInv'
<1>1. store' = store /\ fleet' = fleet
  BY DEF Sampled, Register, Unregister, SnapUpdate, SnapTick, SnapAdvance, snapVars
<1>2. AnswerInv'
  BY <1>1, RequestStands DEF SnapshotsInv
<1>3. DOMAIN analyzed' \subseteq Refs
  <2>2. DOMAIN analyzed \subseteq Refs
    BY DEF SnapshotsInv, SnapsKeptInv
  <2>3. \/ analyzed' = analyzed
        \/ \E w \in Refs : \E v : analyzed' = StorePut(analyzed, w, v)
        \/ \E w \in Refs : analyzed' = StoreDrop(analyzed, w)
    <3>1. ASSUME NEW w \in Refs, Register(w) PROVE \E v : analyzed' = StorePut(analyzed, w, v)
      BY <3>1 DEF Register
    <3>2. ASSUME NEW w \in Refs, Unregister(w) PROVE analyzed' = StoreDrop(analyzed, w)
      BY <3>2 DEF Unregister
    <3>3. ASSUME NEW w \in Refs, NEW health \in Healths, SnapUpdate(w, health)
          PROVE  \E v : analyzed' = StorePut(analyzed, w, v)
      BY <3>3 DEF SnapUpdate
    <3>4. ASSUME NEW w \in Refs, Sampled(w) PROVE analyzed' = analyzed
      BY <3>4 DEF Sampled
    <3>5. SnapTick \/ SnapAdvance \/ UNCHANGED snapVars => analyzed' = analyzed
      BY DEF SnapTick, SnapAdvance, snapVars
    <3>6. CASE SnapTick \/ SnapAdvance \/ UNCHANGED snapVars
      BY <3>5, <3>6, Zenon
    <3>7. CASE \E w \in Refs : Sampled(w) \/ Register(w) \/ Unregister(w) \/ \E health \in Healths : SnapUpdate(w, health)
      <4>1. PICK w \in Refs : Sampled(w) \/ Register(w) \/ Unregister(w) \/ \E health \in Healths : SnapUpdate(w, health)
        BY <3>7, Zenon
      <4> QED
        BY <3>1, <3>2, <3>3, <3>4, <4>1, Zenon
    <3> QED
      BY <3>6, <3>7, Zenon
  <2>4. ASSUME NEW w \in Refs, NEW v, analyzed' = StorePut(analyzed, w, v) PROVE DOMAIN analyzed' \subseteq Refs
    <3>1. DOMAIN analyzed' = DOMAIN analyzed \cup {w}
      BY <2>4 DEF StorePut
    <3> QED
      BY <2>2, <3>1
  <2>5. ASSUME NEW w \in Refs, analyzed' = StoreDrop(analyzed, w) PROVE DOMAIN analyzed' \subseteq Refs
    <3>1. DOMAIN analyzed' = DOMAIN analyzed \ {w}
      BY <2>5 DEF StoreDrop
    <3> QED
      BY <2>2, <3>1
  <2> QED
    BY <2>2, <2>3, <2>4, <2>5, Zenon
<1>4. /\ ticker' = [due |-> ticker'.due, snap |-> ticker'.snap, last |-> ticker'.last]
      /\ ticker'.snap = NoSnap \/ ticker'.snap.ref \in Refs
  <2>1. /\ ticker = [due |-> ticker.due, snap |-> ticker.snap, last |-> ticker.last]
        /\ ticker.snap = NoSnap \/ ticker.snap.ref \in Refs
    BY DEF SnapshotsInv, SnapsKeptInv
  <2>2. CASE ticker' = ticker
    BY <2>1, <2>2
  <2>3. CASE SnapTick
    <3>1. ticker' = [due |-> ingested, snap |-> ticker.snap, last |-> wall]
      BY <2>1, <2>3 DEF SnapTick
    <3> QED
      BY <2>1, <3>1
  <2>4. ASSUME NEW w \in Refs, NEW health \in Healths, SnapUpdate(w, health)
        PROVE  /\ ticker' = [due |-> ticker'.due, snap |-> ticker'.snap, last |-> ticker'.last]
               /\ ticker'.snap.ref \in Refs
    <3>1. ticker' = [due |-> ticker.due \ {w}, snap |-> [ref |-> w, at |-> wall, health |-> health], last |-> ticker.last]
      BY <2>1, <2>4 DEF SnapUpdate
    <3> QED
      BY <3>1
  <2> QED
    BY <2>2, <2>3, <2>4 DEF Sampled, Register, Unregister, SnapAdvance, snapVars
<1> QED
  BY <1>1, <1>2, <1>3, <1>4 DEF SnapshotsInv, SnapsKeptInv

LEMMA StoringKeeps == ASSUME SnapshotsInv, StoreSnapshot PROVE SnapshotsInv'
<1> DEFINE w == ticker.snap.ref
           snap == ticker.snap
           D == DOMAIN store
<1>1. /\ w \in Refs
      /\ store' = StorePut(StorePut(store, HostKey(w), snap), w, snap)
      /\ fleet' = fleet /\ analyzed' = analyzed
      /\ ticker' = [ticker EXCEPT !.snap = NoSnap]
  BY DEF StoreSnapshot, SnapshotsInv, SnapsKeptInv
<1>2. /\ D \subseteq DOMAIN store' /\ DOMAIN store' = (D \cup {HostKey(w)}) \cup {w}
      /\ store'[w] = snap /\ store'[HostKey(w)] = snap
      /\ \A k \in D : k # w /\ k # HostKey(w) => store'[k] = store[k]
  BY <1>1, KindsAreKnown DEF StorePut
<1>3. AnswerInv'
  BY <1>1, <1>2, RequestStands DEF SnapshotsInv
<1>4. SnapsKeptInv'
  <2>1. /\ ticker = [due |-> ticker.due, snap |-> ticker.snap, last |-> ticker.last]
        /\ IsFiniteSet(D)
        /\ \A k \in D : store[k].ref \in Refs /\ store[k].ref \in D
        /\ \A k \in D : k \in Refs => store[k].ref = k
        /\ DOMAIN analyzed \subseteq Refs
    BY DEF SnapshotsInv, SnapsKeptInv
  <2>2. ticker' = [due |-> ticker.due, snap |-> NoSnap, last |-> ticker.last]
    BY <1>1, <2>1
  <2>3. IsFiniteSet(DOMAIN store')
    <3>1. IsFiniteSet(D \cup {HostKey(w)})
      BY <2>1, FS_AddElement
    <3>2. IsFiniteSet((D \cup {HostKey(w)}) \cup {w})
      BY <3>1, FS_AddElement
    <3> QED
      BY <1>2, <3>2
  <2>4. \A k \in DOMAIN store' : store'[k].ref \in Refs /\ store'[k].ref \in DOMAIN store'
    BY <1>1, <1>2, <2>1
  <2>5. \A k \in DOMAIN store' : k \in Refs => store'[k].ref = k
    BY <1>1, <1>2, <2>1, KindsAreKnown
  <2> QED
    BY <1>1, <2>1, <2>2, <2>3, <2>4, <2>5 DEF SnapsKeptInv
<1> QED
  BY <1>3, <1>4 DEF SnapshotsInv

LEMMA StartAgainKeeps == ASSUME SnapshotsInv, SnapRestart PROVE SnapshotsInv'
<1>1. DOMAIN analyzed' = {} /\ DOMAIN store' = {} /\ ticker' = Resting /\ fleet' = NoRequest
  BY DEF SnapRestart, Started
<1>2. SnapsKeptInv'
  BY <1>1, FS_EmptySet DEF SnapsKeptInv, Resting
<1>3. AnswerInv'
  BY <1>1 DEF AnswerInv, NoRequest
<1> QED
  BY <1>2, <1>3 DEF SnapshotsInv

(* The first read takes one snapshot of each workload that has a fresh one. *)
LEMMA FreshArePicked ==
  ASSUME SnapsKeptInv, NEW all \in AllSnapshots
  PROVE  /\ \A s, t \in all : s.ref = t.ref => s = t
         /\ RefsOf(all) = RefsOf(FreshIn(store))
         /\ RefsOf(all) \subseteq Refs /\ RefsOf(all) \subseteq DOMAIN store
<1> DEFINE F == FreshIn(store)
           K == {k \in DOMAIN store : wall - store[k].at <= SnapshotTTL}
           f == [k \in K |-> store[k]]
<1>1. IsFiniteSet(F)
  <2>1. IsFiniteSet(K)
    BY FS_Subset DEF SnapsKeptInv
  <2>2. F = {store[k] : k \in K}
    BY DEF FreshIn
  <2>3. f \in Surjection(K, F)
    BY <2>2 DEF Surjection
  <2> HIDE DEF f, K, F
  <2> QED
    BY <2>1, <2>3, FS_Surjection
<1>2. all \subseteq F /\ \A s \in F : Cardinality({p \in all : p.ref = s.ref}) = 1
  BY DEF AllSnapshots
<1>3. \A s \in F : s.ref \in Refs /\ s.ref \in DOMAIN store
  BY DEF FreshIn, SnapsKeptInv
<1> HIDE DEF F
<1>4. ASSUME NEW s \in F PROVE \E x : {p \in all : p.ref = s.ref} = {x}
  <2>1. IsFiniteSet({p \in all : p.ref = s.ref})
    BY <1>1, <1>2, FS_Subset
  <2> QED
    BY <1>2, <2>1, FS_Singleton
<1>5. \A s, t \in all : s.ref = t.ref => s = t
  <2> SUFFICES ASSUME NEW s \in all, NEW t \in all, s.ref = t.ref PROVE s = t
    OBVIOUS
  <2>1. PICK x : {p \in all : p.ref = s.ref} = {x}
    BY <1>2, <1>4
  <2> QED
    BY <2>1
<1>6. \A s \in F : \E p \in all : p.ref = s.ref
  <2> SUFFICES ASSUME NEW s \in F PROVE \E p \in all : p.ref = s.ref
    OBVIOUS
  <2>1. PICK x : {p \in all : p.ref = s.ref} = {x}
    BY <1>4
  <2> QED
    BY <2>1
<1>7. RefsOf(all) = RefsOf(F) /\ RefsOf(all) \subseteq Refs /\ RefsOf(all) \subseteq DOMAIN store
  BY <1>2, <1>3, <1>6 DEF RefsOf
<1> QED
  BY <1>5, <1>7 DEF F

LEMMA BeginKeeps == ASSUME SnapshotsInv, FleetBegin PROVE SnapshotsInv'
<1>1. PICK all \in AllSnapshots :
        fleet' = [at |-> "listing", left |-> all, hosts |-> <<>>, fresh |-> RefsOf(FreshIn(store))]
  BY DEF FleetBegin, RefsOf
<1>2. UNCHANGED <<analyzed, store, ticker>>
  BY DEF FleetBegin
<1>3. SnapsKeptInv'
  BY <1>2 DEF SnapshotsInv, SnapsKeptInv
<1>4. PICK fresh : fresh = RefsOf(FreshIn(store))
  OBVIOUS
<1>5. /\ \A s, t \in all : s.ref = t.ref => s = t
      /\ RefsOf(all) = fresh /\ fresh \subseteq Refs /\ fresh \subseteq DOMAIN store
  BY <1>4, FreshArePicked DEF SnapshotsInv
<1>6. /\ fleet'.at = "listing" /\ fleet'.left = all /\ fleet'.hosts = <<>> /\ fleet'.fresh = fresh
      /\ fleet' = [at |-> "listing", left |-> fleet'.left, hosts |-> fleet'.hosts, fresh |-> fleet'.fresh]
  BY <1>1, <1>4
<1>7. Lists(<<>>, fresh \ RefsOf(all))
  <2>1. fresh \ RefsOf(all) = {} /\ <<>> \in Seq(Listing) /\ Len(<<>>) = 0
    BY <1>5, EmptySeq
  <2> QED
    BY <2>1 DEF Lists
<1>8. AnswerInv'
  BY <1>2, <1>5, <1>6, <1>7 DEF AnswerInv
<1> QED
  BY <1>3, <1>8 DEF SnapshotsInv

(* One more at the end of a list.                                          *)
LEMMA ListsOneMore ==
  ASSUME NEW hosts, NEW K, Lists(hosts, K), NEW l \in Listing, l.host \notin K
  PROVE  Lists(Append(hosts, l), K \cup {l.host})
<1>1. /\ hosts \in Seq(Listing)
      /\ \A i, j \in 1..Len(hosts) : hosts[i].host = hosts[j].host => i = j
      /\ \A i \in 1..Len(hosts) : hosts[i].host \in K
      /\ \A w \in K : \E i \in 1..Len(hosts) : hosts[i].host = w
  BY DEF Lists
<1>2. PICK n \in Nat : n = Len(hosts)
  BY <1>1
<1>3. PICK more \in Seq(Listing) : /\ more = Append(hosts, l) /\ Len(more) = n + 1
                                   /\ \A i \in 1..n : more[i] = hosts[i]
                                   /\ more[n + 1] = l
  <2>1. /\ Append(hosts, l) \in Seq(Listing) /\ Len(Append(hosts, l)) = Len(hosts) + 1
        /\ \A i \in 1..Len(hosts) : Append(hosts, l)[i] = hosts[i]
        /\ Append(hosts, l)[Len(hosts) + 1] = l
    BY <1>1, AppendProperties
  <2> QED
    BY <1>2, <2>1, Zenon
<1>4. \A i \in 1..(n + 1) : i \in 1..n \/ i = n + 1
  OBVIOUS
<1>5. \A i, j \in 1..(n + 1) : more[i].host = more[j].host => i = j
  BY <1>1, <1>2, <1>3, <1>4
<1>6. \A i \in 1..(n + 1) : more[i].host \in K \cup {l.host}
  BY <1>1, <1>2, <1>3, <1>4
<1>7. \A w \in K \cup {l.host} : \E i \in 1..(n + 1) : more[i].host = w
  <2> SUFFICES ASSUME NEW w \in K \cup {l.host} PROVE \E i \in 1..(n + 1) : more[i].host = w
    OBVIOUS
  <2>1. CASE w \in K
    <3>1. PICK i \in 1..n : hosts[i].host = w
      BY <1>1, <1>2, <2>1
    <3>2. i \in 1..(n + 1) /\ more[i].host = w
      BY <1>3, <3>1
    <3> QED
      BY <3>2
  <2>2. CASE w = l.host
    <3>1. n + 1 \in 1..(n + 1) /\ more[n + 1].host = w
      BY <1>3, <2>2
    <3> QED
      BY <3>1
  <2> QED
    BY <2>1, <2>2
<1> QED
  BY <1>3, <1>5, <1>6, <1>7 DEF Lists

LEMMA EnrichKeeps ==
  ASSUME SnapshotsInv, NEW restarts, fleet.at = "listing", NEW snap \in fleet.left, FleetEnrich(snap, restarts)
  PROVE  SnapshotsInv'
<1>1. PICK l : /\ l = Listed(snap.ref, SnapshotState(snap, Calibration(snap.ref).percent, restarts))
               /\ fleet' = [fleet EXCEPT !.left = fleet.left \ {snap}, !.hosts = Append(fleet.hosts, l)]
  BY DEF FleetEnrich
<1>2. UNCHANGED <<analyzed, store, ticker>>
  BY DEF FleetEnrich
<1>3. SnapsKeptInv'
  BY <1>2 DEF SnapshotsInv, SnapsKeptInv
<1>4. /\ fleet = [at |-> "listing", left |-> fleet.left, hosts |-> fleet.hosts, fresh |-> fleet.fresh]
      /\ fleet.fresh \subseteq Refs /\ fleet.fresh \subseteq DOMAIN store
      /\ RefsOf(fleet.left) \subseteq fleet.fresh
      /\ \A s, t \in fleet.left : s.ref = t.ref => s = t
      /\ Lists(fleet.hosts, fleet.fresh \ RefsOf(fleet.left))
  BY DEF SnapshotsInv, AnswerInv
<1>5. PICK left, hosts, fresh : left = fleet.left /\ hosts = fleet.hosts /\ fresh = fleet.fresh
  OBVIOUS
<1>6. snap.ref \in RefsOf(left) /\ snap.ref \in fresh /\ snap.ref \in Refs
  BY <1>4, <1>5 DEF RefsOf
<1>7. l \in Listing /\ l.host = snap.ref
  <2>1. \A percent : SnapshotState(snap, percent, restarts) \in States
    BY DEF SnapshotState, States
  <2>2. PICK state \in States : l = Listed(snap.ref, state)
    BY <1>1, <2>1
  <2> QED
    BY <1>6, <2>2 DEF Listed, Listing
<1>8. RefsOf(left \ {snap}) = RefsOf(left) \ {snap.ref}
  BY <1>4, <1>5 DEF RefsOf
<1>9. fresh \ RefsOf(left \ {snap}) = (fresh \ RefsOf(left)) \cup {l.host}
  BY <1>6, <1>7, <1>8
<1>10. l.host \notin fresh \ RefsOf(left)
  BY <1>6, <1>7
<1>11. Lists(Append(hosts, l), fresh \ RefsOf(left \ {snap}))
  <2>1. PICK K : K = fresh \ RefsOf(left)
    OBVIOUS
  <2>2. Lists(hosts, K) /\ l.host \notin K
    BY <1>4, <1>5, <1>10, <2>1
  <2>3. Lists(Append(hosts, l), K \cup {l.host})
    BY <1>7, <2>2, ListsOneMore
  <2> QED
    BY <1>9, <2>1, <2>3
<1>12. /\ fleet' = [at |-> "listing", left |-> left \ {snap}, hosts |-> Append(hosts, l), fresh |-> fresh]
  BY <1>1, <1>4, <1>5
<1>13. AnswerInv'
  <2>1. /\ fleet'.at = "listing" /\ fleet'.left = left \ {snap} /\ fleet'.fresh = fresh
        /\ fleet'.hosts = Append(hosts, l)
    BY <1>12
  <2>2. RefsOf(left \ {snap}) \subseteq fresh
    BY <1>4, <1>5, <1>8
  <2> QED
    BY <1>2, <1>4, <1>5, <1>11, <1>12, <2>1, <2>2 DEF AnswerInv
<1> QED
  BY <1>3, <1>13 DEF SnapshotsInv

(* A finite set in some order: each of its elements in one place.          *)
LEMMA SetInAnOrder ==
  ASSUME NEW S, IsFiniteSet(S)
  PROVE  /\ SetToSeq(S) \in Seq(S)
         /\ \A i, j \in 1..Len(SetToSeq(S)) : SetToSeq(S)[i] = SetToSeq(S)[j] => i = j
         /\ \A x \in S : \E i \in 1..Len(SetToSeq(S)) : SetToSeq(S)[i] = x
<1>1. PICK n \in Nat : n = Cardinality(S) /\ ExistsBijection(1..n, S)
  BY FS_CardinalityType
<1>2. \E f \in [1..n -> S] : IsInjective(f)
  <2>1. PICK f \in Bijection(1..n, S) : TRUE
    BY <1>1 DEF ExistsBijection
  <2>2. f \in [1..n -> S] /\ \A a, b \in 1..n : f[a] = f[b] => a = b
    BY <2>1, Fun_BijectionProperties
  <2>3. IsInjective(f)
    BY <2>2 DEF IsInjective
  <2> QED
    BY <2>2, <2>3
<1>3. PICK q : q = SetToSeq(S)
  OBVIOUS
<1>4. q \in [1..n -> S] /\ IsInjective(q)
  <2>1. q = CHOOSE f \in [1..n -> S] : IsInjective(f)
    BY <1>1, <1>3 DEF SetToSeq
  <2> QED
    BY <1>2, <2>1
<1>5. \A i, j \in 1..n : q[i] = q[j] => i = j
  BY <1>4 DEF IsInjective
<1>6. q \in Injection(1..n, S)
  BY <1>4, <1>5, Zenon DEF Injection, IsInjective
<1>7. q \in Surjection(1..n, S)
  <2>1. IsFiniteSet(1..n) /\ Cardinality(1..n) = n
    BY FS_Interval
  <2> QED
    BY <1>1, <1>6, <2>1, FS_Injection
<1>8. \A x \in S : \E i \in 1..n : q[i] = x
  BY <1>7, Fun_SurjectionProperties
<1>9. q \in Seq(S) /\ Len(q) = n
  BY <1>4
<1> QED
  BY <1>3, <1>5, <1>8, <1>9

(* A second list behind the first, of what the first has not.              *)
LEMMA ListsTogether ==
  ASSUME NEW hosts, NEW K, Lists(hosts, K), NEW more, NEW M, Lists(more, M), K \cap M = {}
  PROVE  Lists(hosts \o more, K \cup M)
<1>1. /\ hosts \in Seq(Listing) /\ more \in Seq(Listing)
      /\ \A i, j \in 1..Len(hosts) : hosts[i].host = hosts[j].host => i = j
      /\ \A i \in 1..Len(hosts) : hosts[i].host \in K
      /\ \A w \in K : \E i \in 1..Len(hosts) : hosts[i].host = w
      /\ \A i, j \in 1..Len(more) : more[i].host = more[j].host => i = j
      /\ \A i \in 1..Len(more) : more[i].host \in M
      /\ \A w \in M : \E i \in 1..Len(more) : more[i].host = w
  BY DEF Lists
<1>2. PICK n \in Nat, m \in Nat : n = Len(hosts) /\ m = Len(more)
  BY <1>1
<1>3. PICK both \in Seq(Listing) : /\ both = hosts \o more /\ Len(both) = n + m
                                   /\ \A i \in 1..n + m : both[i] = IF i <= n THEN hosts[i] ELSE more[i - n]
  <2>1. /\ hosts \o more \in Seq(Listing)
        /\ Len(hosts \o more) = Len(hosts) + Len(more)
        /\ \A i \in 1..Len(hosts) + Len(more) :
             (hosts \o more)[i] = IF i <= Len(hosts) THEN hosts[i] ELSE more[i - Len(hosts)]
    BY <1>1, ConcatProperties
  <2> QED
    BY <1>2, <2>1, Zenon
<1>4. ASSUME NEW i \in 1..n PROVE i \in 1..n + m /\ both[i] = hosts[i] /\ both[i].host \in K
  <2>1. i \in 1..n + m /\ i <= n
    OBVIOUS
  <2>2. both[i] = hosts[i]
    BY <1>3, <2>1
  <2>3. hosts[i].host \in K
    BY <1>1, <1>2, Zenon
  <2> QED
    BY <2>1, <2>2, <2>3
<1>5. ASSUME NEW i \in 1..n + m, ~(i <= n) PROVE i - n \in 1..m /\ both[i] = more[i - n] /\ both[i].host \in M
  <2>1. i - n \in 1..m
    BY <1>5
  <2>2. both[i] = more[i - n]
    BY <1>3, <1>5
  <2>3. more[i - n].host \in M
    BY <1>1, <1>2, <2>1, Zenon
  <2> QED
    BY <2>1, <2>2, <2>3
<1>6. ASSUME NEW i \in 1..n + m, NEW j \in 1..n + m, both[i].host = both[j].host PROVE i = j
  <2>1. CASE i <= n /\ j <= n
    <3>1. i \in 1..n /\ j \in 1..n
      BY <2>1
    <3> QED
      BY <1>1, <1>2, <1>4, <1>6, <3>1
  <2>2. CASE ~(i <= n) /\ ~(j <= n)
    <3>1. i - n \in 1..m /\ j - n \in 1..m /\ more[i - n].host = more[j - n].host
      BY <1>5, <1>6, <2>2
    <3>2. i - n = j - n
      BY <1>1, <1>2, <3>1, Zenon
    <3> QED
      BY <3>2
  <2>3. CASE i <= n /\ ~(j <= n)
    <3>1. i \in 1..n
      BY <2>3
    <3> QED
      BY <1>4, <1>5, <1>6, <2>3, <3>1
  <2>4. CASE ~(i <= n) /\ j <= n
    <3>1. j \in 1..n
      BY <2>4
    <3> QED
      BY <1>4, <1>5, <1>6, <2>4, <3>1
  <2> QED
    BY <2>1, <2>2, <2>3, <2>4
<1>7. \A i \in 1..n + m : both[i].host \in K \cup M
  <2> SUFFICES ASSUME NEW i \in 1..n + m PROVE both[i].host \in K \cup M
    OBVIOUS
  <2>1. CASE i <= n
    <3>1. i \in 1..n
      BY <2>1
    <3> QED
      BY <1>4, <3>1
  <2>2. CASE ~(i <= n)
    BY <1>5, <2>2
  <2> QED
    BY <2>1, <2>2
<1>8. \A w \in K \cup M : \E i \in 1..n + m : both[i].host = w
  <2> SUFFICES ASSUME NEW w \in K \cup M PROVE \E i \in 1..n + m : both[i].host = w
    OBVIOUS
  <2>1. CASE w \in K
    <3>1. PICK i \in 1..n : hosts[i].host = w
      BY <1>1, <1>2, <2>1
    <3> QED
      BY <1>4, <3>1
  <2>2. CASE w \in M
    <3>1. PICK i \in 1..m : more[i].host = w
      BY <1>1, <1>2, <2>2
    <3>2. i + n \in 1..n + m /\ ~(i + n <= n) /\ (i + n) - n = i
      OBVIOUS
    <3>3. both[i + n].host = w
      BY <1>5, <3>1, <3>2
    <3> QED
      BY <3>2, <3>3
  <2> QED
    BY <2>1, <2>2
<1> QED
  BY <1>3, <1>6, <1>7, <1>8 DEF Lists

LEMMA PendingKeeps ==
  ASSUME SnapshotsInv, IsFiniteSet(Refs), NEW restarts, FleetPending(restarts)
  PROVE  SnapshotsInv'
<1>1. PICK known, hosts, fresh, pending :
        /\ known = {fleet.hosts[i].host : i \in DOMAIN fleet.hosts}
        /\ hosts = fleet.hosts /\ fresh = fleet.fresh /\ pending = Pending
  OBVIOUS
<1>2. PICK state \in States : state = IF restarts >= CrashLoop THEN "critical" ELSE "pending_telemetry"
  BY DEF States
<1>3. PICK more, listing :
        /\ more = SetToSeq(pending \ known)
        /\ listing = [i \in DOMAIN more |-> Listed(more[i], state)]
        /\ fleet' = [at |-> "answered", fresh |-> fresh, pending |-> pending, hosts |-> hosts \o listing]
  BY <1>1, <1>2 DEF FleetPending
<1>4. /\ fleet.at = "listing" /\ fleet.left = {}
      /\ UNCHANGED <<analyzed, store, ticker>>
  BY DEF FleetPending
<1>5. SnapsKeptInv'
  BY <1>4 DEF SnapshotsInv, SnapsKeptInv
<1>6. fresh \subseteq Refs /\ fresh \subseteq DOMAIN store /\ Lists(hosts, fresh)
  <2>1. fresh \ RefsOf({}) = fresh
    BY DEF RefsOf
  <2> QED
    BY <1>1, <1>4, <2>1 DEF SnapshotsInv, AnswerInv
<1>7. known = fresh
  <2>1. /\ hosts \in Seq(Listing)
        /\ \A i \in 1..Len(hosts) : hosts[i].host \in fresh
        /\ \A w \in fresh : \E i \in 1..Len(hosts) : hosts[i].host = w
    BY <1>6 DEF Lists
  <2>2. DOMAIN hosts = 1..Len(hosts)
    BY <2>1
  <2>3. known = {hosts[i].host : i \in 1..Len(hosts)}
    BY <1>1, <2>2
  <2>4. \A w \in known : \E i \in 1..Len(hosts) : w = hosts[i].host
    BY <2>3, Zenon
  <2>5. \A i \in 1..Len(hosts) : hosts[i].host \in known
    BY <2>3, Zenon
  <2>6. known \subseteq fresh
    BY <2>1, <2>4, Zenon
  <2>7. fresh \subseteq known
    BY <2>1, <2>5, Zenon
  <2> QED
    BY <2>6, <2>7
<1>8. pending \subseteq Refs /\ IsFiniteSet(pending \ known)
  <2>1. pending \subseteq Refs
    BY <1>1 DEF Pending, SnapshotsInv, SnapsKeptInv
  <2> QED
    BY <2>1, FS_Subset
<1>9. Lists(listing, pending \ known)
  <2>1. PICK P : P = pending \ known
    OBVIOUS
  <2>2. /\ more \in Seq(P)
        /\ \A i, j \in 1..Len(more) : more[i] = more[j] => i = j
        /\ \A x \in P : \E i \in 1..Len(more) : more[i] = x
    BY <1>3, <1>8, <2>1, SetInAnOrder
  <2>3. DOMAIN more = 1..Len(more) /\ Len(more) \in Nat /\ \A i \in 1..Len(more) : more[i] \in P
    BY <2>2
  <2>4. \A i \in 1..Len(more) : /\ listing[i] = [host |-> more[i], state |-> state]
                                /\ listing[i].host = more[i]
                                /\ listing[i] \in Listing
    BY <1>2, <1>3, <1>8, <2>1, <2>3 DEF Listed, Listing
  <2>5. DOMAIN listing = 1..Len(more)
    BY <1>3, <2>3
  <2>6. listing \in [1..Len(more) -> Listing]
    BY <1>3, <2>3, <2>4, <2>5
  <2>7. listing \in Seq(Listing) /\ Len(listing) = Len(more)
    BY <2>3, <2>6
  <2>8. \A i, j \in 1..Len(listing) : listing[i].host = listing[j].host => i = j
    <3> SUFFICES ASSUME NEW i \in 1..Len(more), NEW j \in 1..Len(more), listing[i].host = listing[j].host
                 PROVE  i = j
      BY <2>7
    <3>1. listing[i].host = more[i] /\ listing[j].host = more[j]
      BY <2>4, Zenon
    <3>2. more[i] = more[j]
      BY <3>1
    <3> QED
      BY <2>2, <3>2, Zenon
  <2>9. \A i \in 1..Len(listing) : listing[i].host \in P
    <3> SUFFICES ASSUME NEW i \in 1..Len(more) PROVE listing[i].host \in P
      BY <2>7
    <3>1. listing[i].host = more[i] /\ more[i] \in P
      BY <2>3, <2>4, Zenon
    <3> QED
      BY <3>1
  <2>10. \A w \in P : \E i \in 1..Len(listing) : listing[i].host = w
    <3> SUFFICES ASSUME NEW w \in P PROVE \E i \in 1..Len(more) : listing[i].host = w
      BY <2>7
    <3>1. PICK i \in 1..Len(more) : more[i] = w
      BY <2>2, Zenon
    <3>2. listing[i].host = more[i]
      BY <2>4, Zenon
    <3> QED
      BY <3>1, <3>2
  <2> QED
    BY <2>1, <2>7, <2>8, <2>9, <2>10 DEF Lists
<1>10. Lists(hosts \o listing, fresh \cup pending)
  <2>1. fresh \cap (pending \ known) = {} /\ fresh \cup (pending \ known) = fresh \cup pending
    BY <1>7
  <2>2. PICK P : P = pending \ known
    OBVIOUS
  <2>3. Lists(hosts \o listing, fresh \cup P)
    BY <1>6, <1>9, <2>1, <2>2, ListsTogether
  <2> QED
    BY <2>1, <2>2, <2>3
<1>11. AnswerInv'
  <2>1. /\ fleet'.at = "answered" /\ fleet'.fresh = fresh /\ fleet'.pending = pending
        /\ fleet'.hosts = hosts \o listing
    BY <1>3
  <2> QED
    BY <1>4, <1>6, <1>10, <2>1 DEF AnswerInv
<1> QED
  BY <1>5, <1>11 DEF SnapshotsInv

LEMMA ServedKeeps == ASSUME SnapshotsInv, FleetServed PROVE SnapshotsInv'
<1>1. fleet' = NoRequest /\ UNCHANGED <<analyzed, store, ticker>>
  BY DEF FleetServed
<1> QED
  BY <1>1 DEF SnapshotsInv, SnapsKeptInv, AnswerInv, NoRequest

LEMMA SnapshotsStep ==
  ASSUME SnapshotsInv, IsFiniteSet(Refs), SnapNext \/ UNCHANGED snapVars
  PROVE  SnapshotsInv'
<1>1. CASE \/ \E w \in Refs : Sampled(w) \/ Register(w) \/ Unregister(w) \/ \E health \in Healths : SnapUpdate(w, health)
           \/ SnapTick \/ SnapAdvance \/ UNCHANGED snapVars
  BY <1>1, WritersKeep
<1>2. CASE StoreSnapshot
  BY <1>2, StoringKeeps
<1>3. CASE SnapRestart
  BY <1>3, StartAgainKeeps
<1>4. CASE FleetBegin
  BY <1>4, BeginKeeps
<1>5. CASE FleetServed
  BY <1>5, ServedKeeps
<1>6. CASE \E restarts \in Restarts :
             FleetPending(restarts) \/ (fleet.at = "listing" /\ \E s \in fleet.left : FleetEnrich(s, restarts))
  BY <1>6, PendingKeeps, EnrichKeeps
<1> QED
  BY <1>1, <1>2, <1>3, <1>4, <1>5, <1>6, Zenon DEF SnapNext

(* A workload of the list has one place, one that is not listed has none.  *)
LEMMA OnceInAList ==
  ASSUME NEW K, Lists(fleet.hosts, K), NEW w
  PROVE  HowOften(w) = IF w \in K THEN 1 ELSE 0
<1>1. PICK hosts : hosts = fleet.hosts
  OBVIOUS
<1>2. /\ hosts \in Seq(Listing)
      /\ \A i, j \in 1..Len(hosts) : hosts[i].host = hosts[j].host => i = j
      /\ \A i \in 1..Len(hosts) : hosts[i].host \in K
      /\ \A v \in K : \E i \in 1..Len(hosts) : hosts[i].host = v
  BY <1>1 DEF Lists
<1>3. PICK n \in Nat : n = Len(hosts) /\ DOMAIN hosts = 1..n
  BY <1>2
<1>4. HowOften(w) = Cardinality({i \in 1..n : hosts[i].host = w})
  BY <1>1, <1>3 DEF HowOften
<1>5. CASE w \in K
  <2>1. PICK i \in 1..n : hosts[i].host = w
    BY <1>2, <1>3, <1>5, Zenon
  <2>2. \A j \in 1..n : hosts[j].host = w => j = i
    BY <1>2, <1>3, <2>1, Zenon
  <2>3. {j \in 1..n : hosts[j].host = w} = {i}
    BY <2>1, <2>2
  <2>4. Cardinality({i}) = 1
    BY FS_Singleton
  <2> QED
    BY <1>4, <1>5, <2>3, <2>4
<1>6. CASE w \notin K
  <2>1. \A j \in 1..n : hosts[j].host # w
    BY <1>2, <1>3, <1>6, Zenon
  <2>2. {j \in 1..n : hosts[j].host = w} = {}
    BY <2>1
  <2> QED
    BY <1>4, <1>6, <2>2, FS_EmptySet
<1> QED
  BY <1>5, <1>6

(* A workload that has a snapshot opens under its name, itself or another  *)
(* of the name.                                                            *)
LEMMA OpensUnderItsName ==
  ASSUME SnapsKeptInv, NEW w \in Refs, w \in DOMAIN store
  PROVE  RuptureByName(w.ns, w.name).ref.ns = w.ns /\ RuptureByName(w.ns, w.name).ref.name = w.name
<1> DEFINE named(k) == {v \in Refs : v.ns = w.ns /\ v.name = w.name /\ v.kind = KindsTried[k]}
           found == {k \in DOMAIN KindsTried : \E v \in named(k) : LatestSnapshot(v) # NoSnap}
<1>1. ASSUME NEW v \in Refs PROVE LatestSnapshot(v) # NoSnap <=> v \in DOMAIN store
  <2>1. CASE v \in DOMAIN store
    <3>1. LatestSnapshot(v).ref = v
      BY <2>1 DEF LatestSnapshot, SnapsKeptInv
    <3>2. v # NoSnap.ref
      BY KindsAreKnown DEF NoSnap
    <3> QED
      BY <2>1, <3>1, <3>2
  <2>2. CASE v \notin DOMAIN store
    BY <2>2 DEF LatestSnapshot
  <2> QED
    BY <2>1, <2>2
<1>2. DOMAIN KindsTried \subseteq Nat /\ \E k \in DOMAIN KindsTried : KindsTried[k] = w.kind
  <2>1. DOMAIN KindsTried = 1..5
    BY DEF KindsTried
  <2>2. /\ KindsTried[1] = "Deployment" /\ KindsTried[2] = "StatefulSet" /\ KindsTried[3] = "DaemonSet"
        /\ KindsTried[4] = "Job" /\ KindsTried[5] = "host"
    BY DEF KindsTried
  <2>3. w.kind \in {"Deployment", "StatefulSet", "DaemonSet", "Job", "host"}
    BY KindsAreKnown
  <2> QED
    BY <2>1, <2>2, <2>3
<1>3. found # {} /\ found \subseteq Nat
  <2>1. PICK k \in DOMAIN KindsTried : KindsTried[k] = w.kind
    BY <1>2
  <2>2. w \in named(k) /\ LatestSnapshot(w) # NoSnap
    BY <1>1, <2>1
  <2>3. k \in found
    BY <2>1, <2>2
  <2> QED
    BY <1>2, <2>3
<1>4. Min(found) \in found
  <2>1. \E x \in found : \A y \in found : x <= y
    BY <1>3, LeastOfNaturals
  <2> HIDE DEF found
  <2> QED
    BY <2>1, Zenon DEF Min
<1>5. \E v \in named(Min(found)) : v \in DOMAIN store
  <2>1. PICK v \in named(Min(found)) : LatestSnapshot(v) # NoSnap
    BY <1>4
  <2> QED
    BY <1>1, <2>1
<1>6. PICK v \in named(Min(found)) : /\ v \in DOMAIN store
                                     /\ v = CHOOSE x \in named(Min(found)) : x \in DOMAIN store
  BY <1>5
<1>7. RuptureByName(w.ns, w.name) = LatestSnapshot(v)
  BY <1>3, <1>6 DEF RuptureByName
<1>8. v \in Refs /\ v.ns = w.ns /\ v.name = w.name
  BY <1>6
<1>9. LatestSnapshot(v).ref = v
  BY <1>6, <1>8 DEF LatestSnapshot, SnapsKeptInv
<1> QED
  BY <1>7, <1>8, <1>9

(* An answer of the fleet, for any number of workloads and however the     *)
(* requests, the ticker and discovery run into each other: it has every    *)
(* workload with a fresh snapshot when the request began and every one     *)
(* that waited for telemetry when it ended, each once and no other, and    *)
(* what it lists with a snapshot opens, by its key and by its name         *)
(* (buildFleet, handleRuptureByWorkload).                                  *)
THEOREM FleetIsListed ==
  ASSUME IsFiniteSet(Refs)
  PROVE  MCSpec => []FleetListsTheFleet
<1>1. MCInit => SnapshotsInv
  BY SnapshotsStart DEF MCInit
<1>2. SnapshotsInv /\ [MCNext]_<<part, storageVars, snapVars>> => SnapshotsInv'
  <2> SUFFICES ASSUME SnapshotsInv, [MCNext]_<<part, storageVars, snapVars>> PROVE SnapshotsInv'
    OBVIOUS
  <2>1. SnapNext \/ UNCHANGED snapVars
    BY DEF MCNext
  <2> QED
    BY <2>1, SnapshotsStep
<1>3. SnapshotsInv => FleetListsTheFleet
  <2> SUFFICES ASSUME SnapshotsInv, fleet.at = "answered"
               PROVE  /\ \A w \in Refs : HowOften(w) = IF w \in fleet.fresh \cup fleet.pending THEN 1 ELSE 0
                      /\ \A w \in fleet.fresh :
                            /\ LatestSnapshot(w).ref = w
                            /\ RuptureByName(w.ns, w.name).ref.ns = w.ns
                            /\ RuptureByName(w.ns, w.name).ref.name = w.name
    BY DEF FleetListsTheFleet
  <2>1. /\ Lists(fleet.hosts, fleet.fresh \cup fleet.pending)
        /\ fleet.fresh \subseteq Refs /\ fleet.fresh \subseteq DOMAIN store
        /\ SnapsKeptInv
    BY DEF SnapshotsInv, AnswerInv
  <2>2. \A w \in Refs : HowOften(w) = IF w \in fleet.fresh \cup fleet.pending THEN 1 ELSE 0
    BY <2>1, OnceInAList
  <2>3. ASSUME NEW w \in fleet.fresh
        PROVE  /\ LatestSnapshot(w).ref = w
               /\ RuptureByName(w.ns, w.name).ref.ns = w.ns
               /\ RuptureByName(w.ns, w.name).ref.name = w.name
    <3>1. w \in Refs /\ w \in DOMAIN store
      BY <2>1
    <3>2. LatestSnapshot(w).ref = w
      BY <2>1, <3>1 DEF LatestSnapshot, SnapsKeptInv
    <3> QED
      BY <2>1, <3>1, <3>2, OpensUnderItsName
  <2> QED
    BY <2>2, <2>3
<1> QED
  BY <1>1, <1>2, <1>3, PTL DEF MCSpec
=============================================================================
