--------------------------- MODULE EstimatesProofs ---------------------------
(***************************************************************************)
(* What the engine knows and tells of a workload, for any cluster, fleet and *)
(* interleaving, one part after the other: the cache of pods and Deployments, *)
(* the memory of ruptures, the marks of releases, the poll of roles, the   *)
(* ranking of estimates, the fused index, the callers of a workload, and   *)
(* the readings that conditions and forecasts rest on.                     *)
(*                                                                         *)
(* The parts of MCEstimates share no state: the invariant of each is kept by *)
(* the steps of its own part and untouched by the others.                  *)
(***************************************************************************)
EXTENDS MCEstimates, FoldLemmas

----------------------------------------------------------------------------
(***************************************************************************)
(* Pods and Deployments are told of in the same way: by the generation,    *)
(* zero for a pod, or by none.                                             *)
(***************************************************************************)
Absent == -1
ObjectsOf(l) == IF l = "pods" THEN PodNames ELSE Deployments
EventOf(l) == [type : {"put", "gone"}, obj : ObjectsOf(l),
               gen : IF l = "pods" THEN {0} ELSE Nat, watched : BOOLEAN]
Event == [type : {"put", "gone"}, obj : PodNames \cup Deployments, gen : Nat, watched : BOOLEAN]

There(l, o) ==
  IF l = "pods" THEN IF o \in podsThere THEN 0 ELSE Absent
  ELSE IF o \in DOMAIN specs THEN specs[o] ELSE Absent
Cached(l, o) ==
  IF l = "pods" THEN IF o \in podCache THEN 0 ELSE Absent
  ELSE IF o \in DOMAIN metas THEN metas[o] ELSE Absent

Says(x) == IF x.type = "put" THEN x.gen ELSE Absent

(* Who knows that o was at generation start, and hears s, takes it to be   *)
(* at generation v: the last event about o decides.                        *)
Tells(s, o, start, v) ==
  \/ \E i \in 1..Len(s) : /\ s[i].obj = o /\ v = Says(s[i])
                          /\ \A j \in (i + 1)..Len(s) : s[j].obj # o
  \/ v = start /\ \A i \in 1..Len(s) : s[i].obj # o

OwnersType ==
  /\ podsThere \subseteq PodNames /\ IsFiniteSet(podsThere)
  /\ DOMAIN specs \subseteq Deployments /\ IsFiniteSet(DOMAIN specs)
  /\ \A d \in DOMAIN specs : specs[d] \in Nat
  /\ loop \in [Loops -> [at : {"list", "watch"}, left : Seq(Event)]]
  /\ \A l \in Loops : loop[l].left \in Seq(EventOf(l))
  /\ \A l \in Loops : loop[l].at = "list" => loop[l].left = <<>>
  /\ podCache \subseteq PodNames
  /\ DOMAIN metas \subseteq Deployments
  /\ \A d \in DOMAIN metas : metas[d] \in Nat
  /\ changes \in Seq(Deployments)
  /\ rolled \in [Deployments -> Nat]

(* What an open watch has still to handle ends in what is there; what went  *)
(* while none was open is stale until something is heard of it.            *)
Hears(l, o) ==
  \/ Tells(loop[l].left, o, Cached(l, o), There(l, o))
  \/ /\ There(l, o) = Absent /\ o \in stale
     /\ \A i \in 1..Len(loop[l].left) : loop[l].left[i].obj # o
WatchesTell ==
  \A l \in Loops : loop[l].at = "watch" => \A o \in ObjectsOf(l) : Hears(l, o)

(* The events to come that will be taken for a change of d.                *)
ToCount(s, d, start) ==
  {i \in 1..Len(s) : /\ s[i].obj = d /\ s[i].type = "put" /\ s[i].watched
                     /\ \E v \in Int : /\ Tells(SubSeq(s, 1, i - 1), d, start, v)
                                       /\ v # Absent /\ v # s[i].gen}
Changing(d) == ToCount(loop["deployments"].left, d, Cached("deployments", d))

ChangesAreRolls ==
  \A d \in Deployments : Times(d) + Cardinality(Changing(d)) <= rolled[d]

OwnersInv == OwnersType /\ WatchesTell /\ ChangesAreRolls

----------------------------------------------------------------------------
(***************************************************************************)
(* What a sequence of events tells.                                        *)
(***************************************************************************)
LEMMA TellsOfNone == ASSUME NEW o, NEW start, NEW v PROVE Tells(<<>>, o, start, v) <=> v = start
  BY DEF Tells

LEMMA TellsAppend ==
  ASSUME NEW s \in Seq(Event), NEW e \in Event, NEW o, NEW start, NEW v
  PROVE  /\ e.obj = o => (Tells(Append(s, e), o, start, v) <=> v = Says(e))
         /\ e.obj # o => (Tells(Append(s, e), o, start, v) <=> Tells(s, o, start, v))
<1> DEFINE t == Append(s, e)
<1>1. /\ Len(s) \in Nat /\ Len(t) = Len(s) + 1 /\ t[Len(t)] = e
      /\ \A i \in 1..Len(s) : t[i] = s[i]
  OBVIOUS
<1> HIDE DEF t
<1>2. /\ \A i \in 1..Len(s) : i \in 1..Len(t) /\ Len(t) \in (i + 1)..Len(t)
      /\ Len(t) \in 1..Len(t) /\ (Len(t) + 1)..Len(t) = {}
      /\ \A i \in 1..Len(t) : i = Len(t) \/ i \in 1..Len(s)
      /\ \A i \in 1..Len(s) : \A j \in (i + 1)..Len(t) : j = Len(t) \/ j \in (i + 1)..Len(s)
      /\ \A i \in 1..Len(s) : \A j \in (i + 1)..Len(s) : j \in (i + 1)..Len(t) /\ t[j] = s[j]
  BY <1>1
<1>3. CASE e.obj = o
  <2>1. ~\A i \in 1..Len(t) : t[i].obj # o
    BY <1>1, <1>2, <1>3
  <2>2. ASSUME NEW i \in 1..Len(t), \A j \in (i + 1)..Len(t) : t[j].obj # o PROVE i = Len(t)
    BY <1>1, <1>2, <1>3, <2>2
  <2> HIDE DEF Says
  <2> QED
    BY <1>1, <1>2, <1>3, <2>1, <2>2 DEF Tells, t
<1>4. CASE e.obj # o
  <2>1. (\A i \in 1..Len(t) : t[i].obj # o) <=> (\A i \in 1..Len(s) : s[i].obj # o)
    BY <1>1, <1>2, <1>4
  <2>2. ASSUME NEW i \in 1..Len(s)
        PROVE  (\A j \in (i + 1)..Len(t) : t[j].obj # o) <=> (\A j \in (i + 1)..Len(s) : s[j].obj # o)
    BY <1>1, <1>2, <1>4
  <2>3. (\E i \in 1..Len(t) : /\ t[i].obj = o /\ v = Says(t[i])
                              /\ \A j \in (i + 1)..Len(t) : t[j].obj # o)
        <=> (\E i \in 1..Len(s) : /\ s[i].obj = o /\ v = Says(s[i])
                                  /\ \A j \in (i + 1)..Len(s) : s[j].obj # o)
    BY <1>1, <1>2, <1>4, <2>2
  <2> QED
    BY <1>4, <2>1, <2>3 DEF Tells, t
<1> QED
  BY <1>3, <1>4

LEMMA TellsTail ==
  ASSUME NEW s \in Seq(Event), s # <<>>, NEW o, NEW start, NEW v
  PROVE  Tells(s, o, start, v)
         <=> Tells(Tail(s), o, IF Head(s).obj = o THEN Says(Head(s)) ELSE start, v)
<1> DEFINE t == Tail(s)
           next == IF Head(s).obj = o THEN Says(Head(s)) ELSE start
<1>1. /\ Len(s) \in Nat \ {0} /\ Len(t) = Len(s) - 1 /\ Head(s) = s[1] /\ Len(t) \in Nat
      /\ \A i \in 1..Len(t) : t[i] = s[i + 1] /\ i + 1 \in 1..Len(s)
  OBVIOUS
<1>2. /\ 1 \in 1..Len(s)
      /\ \A i \in 1..Len(s) : i = 1 \/ (i - 1 \in 1..Len(t) /\ t[i - 1] = s[i])
  BY <1>1
<1>3. Head(s).obj = o => next = Says(Head(s))
  OBVIOUS
<1>4. Head(s).obj # o => next = start
  OBVIOUS
<1> HIDE DEF t, next
<1>5. (\A i \in 1..Len(s) : s[i].obj # o) <=> (s[1].obj # o /\ \A i \in 1..Len(t) : t[i].obj # o)
  BY <1>1, <1>2
<1>6. ASSUME NEW i \in 1..Len(t)
      PROVE  (\A j \in (i + 2)..Len(s) : s[j].obj # o) <=> (\A j \in (i + 1)..Len(t) : t[j].obj # o)
  <2>1. \A j \in (i + 1)..Len(t) : j + 1 \in (i + 2)..Len(s) /\ t[j] = s[j + 1]
    BY <1>1
  <2>2. \A j \in (i + 2)..Len(s) : j - 1 \in (i + 1)..Len(t) /\ t[j - 1] = s[j]
    BY <1>1
  <2> QED
    BY <2>1, <2>2
<1>7. (\A j \in 2..Len(s) : s[j].obj # o) <=> (\A i \in 1..Len(t) : t[i].obj # o)
  <2>1. \A j \in 2..Len(s) : j - 1 \in 1..Len(t) /\ t[j - 1] = s[j]
    BY <1>1
  <2>2. \A i \in 1..Len(t) : i + 1 \in 2..Len(s) /\ t[i] = s[i + 1]
    BY <1>1
  <2> QED
    BY <2>1, <2>2
<1> DEFINE LastIn(q, i, k) == q[i].obj = o /\ v = Says(q[i]) /\ \A j \in k..Len(q) : q[j].obj # o
<1>8. (\E i \in 1..Len(s) : LastIn(s, i, i + 1))
      <=> (LastIn(s, 1, 2) \/ \E i \in 1..Len(t) : LastIn(t, i, i + 1))
  <2>1. \A i \in 1..Len(t) : LastIn(s, i + 1, i + 2) <=> LastIn(t, i, i + 1)
    BY <1>1, <1>6
  <2>2. \A i \in 1..Len(t) : (i + 1) + 1 = i + 2
    BY <1>1
  <2>3. \A i \in 1..Len(s) : i = 1 \/ (i - 1 \in 1..Len(t) /\ (i - 1) + 1 = i /\ (i - 1) + 2 = i + 1)
    BY <1>1
  <2> HIDE DEF LastIn
  <2> QED
    BY <1>1, <1>2, <2>1, <2>2, <2>3
<1>9. Tells(s, o, start, v) <=> \/ \E i \in 1..Len(s) : LastIn(s, i, i + 1)
                                \/ v = start /\ \A i \in 1..Len(s) : s[i].obj # o
  BY DEF Tells
<1>10. Tells(t, o, next, v) <=> \/ \E i \in 1..Len(t) : LastIn(t, i, i + 1)
                                \/ v = next /\ \A i \in 1..Len(t) : t[i].obj # o
  BY DEF Tells
<1>11. LastIn(s, 1, 2) <=> (s[1].obj = o /\ v = Says(s[1]) /\ \A i \in 1..Len(t) : t[i].obj # o)
  BY <1>7
<1> HIDE DEF LastIn
<1>12. Tells(s, o, start, v) <=> Tells(t, o, next, v)
  BY <1>1, <1>3, <1>4, <1>5, <1>8, <1>9, <1>10, <1>11
<1> QED
  BY <1>12 DEF t, next

(* What is told is told once.                                              *)
LEMMA TellsOne ==
  ASSUME NEW s \in Seq(Event), NEW o, NEW start, NEW v, NEW u,
         Tells(s, o, start, v), Tells(s, o, start, u)
  PROVE  u = v
<1>1. ASSUME NEW i \in 1..Len(s), NEW k \in 1..Len(s), s[i].obj = o, s[k].obj = o,
             \A j \in (i + 1)..Len(s) : s[j].obj # o, \A j \in (k + 1)..Len(s) : s[j].obj # o
      PROVE  i = k
  <2>1. k \notin (i + 1)..Len(s) /\ i \notin (k + 1)..Len(s)
    BY <1>1
  <2> QED
    BY <2>1
<1> HIDE DEF Says
<1> QED
  BY <1>1 DEF Tells

LEMMA PrefixOfAppend ==
  ASSUME NEW s \in Seq(Event), NEW e \in Event
  PROVE  /\ \A i \in 1..Len(s) : SubSeq(Append(s, e), 1, i - 1) = SubSeq(s, 1, i - 1)
         /\ SubSeq(Append(s, e), 1, (Len(s) + 1) - 1) = s
<1> DEFINE t == Append(s, e)
<1>1. /\ t \in Seq(Event) /\ Len(t) = Len(s) + 1 /\ Len(s) \in Nat
      /\ \A i \in 1..Len(s) : t[i] = s[i]
  OBVIOUS
<1> HIDE DEF t
<1>2. ASSUME NEW i \in 1..Len(s) PROVE SubSeq(t, 1, i - 1) = SubSeq(s, 1, i - 1)
  <2>1. /\ SubSeq(t, 1, i - 1) \in Seq(Event) /\ SubSeq(s, 1, i - 1) \in Seq(Event)
        /\ Len(SubSeq(t, 1, i - 1)) = i - 1 /\ Len(SubSeq(s, 1, i - 1)) = i - 1
    BY <1>1
  <2>2. \A k \in 1..(i - 1) : SubSeq(t, 1, i - 1)[k] = SubSeq(s, 1, i - 1)[k]
    BY <1>1
  <2> QED
    BY <2>1, <2>2
<1>3. SubSeq(t, 1, (Len(s) + 1) - 1) = s
  <2>1. SubSeq(t, 1, Len(s)) \in Seq(Event) /\ Len(SubSeq(t, 1, Len(s))) = Len(s)
    BY <1>1
  <2>2. \A k \in 1..Len(s) : SubSeq(t, 1, Len(s))[k] = s[k]
    BY <1>1
  <2>3. SubSeq(t, 1, Len(s)) = s
    BY <2>1, <2>2
  <2> QED
    BY <1>1, <2>3
<1> QED
  BY <1>2, <1>3 DEF t

LEMMA PrefixOfTail ==
  ASSUME NEW s \in Seq(Event), s # <<>>, NEW i \in 1..Len(Tail(s))
  PROVE  /\ SubSeq(s, 1, i) \in Seq(Event) /\ SubSeq(s, 1, i) # <<>>
         /\ Head(SubSeq(s, 1, i)) = Head(s)
         /\ Tail(SubSeq(s, 1, i)) = SubSeq(Tail(s), 1, i - 1)
<1>1. /\ Len(s) \in Nat \ {0} /\ Len(Tail(s)) = Len(s) - 1
      /\ Tail(s) \in Seq(Event)
      /\ \A k \in 1..Len(Tail(s)) : Tail(s)[k] = s[k + 1]
  OBVIOUS
<1> DEFINE p == SubSeq(s, 1, i)
           q == SubSeq(Tail(s), 1, i - 1)
<1>2. /\ p \in Seq(Event) /\ Len(p) = i /\ \A k \in 1..i : p[k] = s[k]
  BY <1>1
<1>3. /\ q \in Seq(Event) /\ Len(q) = i - 1 /\ \A k \in 1..(i - 1) : q[k] = s[k + 1]
  BY <1>1
<1> HIDE DEF p, q
<1>4. p # <<>> /\ Head(p) = p[1] /\ Head(s) = s[1]
  BY <1>2
<1>5. /\ Tail(p) \in Seq(Event) /\ Len(Tail(p)) = i - 1
      /\ \A k \in 1..(i - 1) : Tail(p)[k] = p[k + 1]
  BY <1>2
<1>6. Tail(p) = q
  <2>1. \A k \in 1..(i - 1) : Tail(p)[k] = q[k]
    BY <1>2, <1>3, <1>5
  <2> QED
    BY <1>3, <1>5, <2>1
<1> QED
  BY <1>2, <1>4, <1>6 DEF p, q

LEMMA ToCountFinite ==
  ASSUME NEW s \in Seq(Event), NEW d, NEW start
  PROVE  IsFiniteSet(ToCount(s, d, start)) /\ Cardinality(ToCount(s, d, start)) \in Nat
<1>1. IsFiniteSet(1..Len(s))
  BY FS_Interval
<1>2. ToCount(s, d, start) \subseteq 1..Len(s)
  BY DEF ToCount
<1> QED
  BY <1>1, <1>2, FS_Subset, FS_CardinalityType

(* An event to come is counted once at most, and not at all if it is of    *)
(* something else, or says what is known by then.                          *)
LEMMA ToCountAppend ==
  ASSUME NEW s \in Seq(Event), NEW e \in Event, NEW d, NEW start
  PROVE  /\ Cardinality(ToCount(Append(s, e), d, start)) <= Cardinality(ToCount(s, d, start)) + 1
         /\ (e.obj # d \/ e.type # "put" \/ Tells(s, d, start, e.gen)) =>
              Cardinality(ToCount(Append(s, e), d, start)) <= Cardinality(ToCount(s, d, start))
<1> DEFINE t == Append(s, e)
           old == ToCount(s, d, start)
           all == ToCount(t, d, start)
<1>1. /\ t \in Seq(Event) /\ Len(t) = Len(s) + 1 /\ Len(s) \in Nat /\ t[Len(s) + 1] = e
      /\ \A i \in 1..Len(s) : t[i] = s[i]
  OBVIOUS
<1>2. /\ \A i \in 1..Len(s) : SubSeq(t, 1, i - 1) = SubSeq(s, 1, i - 1)
      /\ SubSeq(t, 1, (Len(s) + 1) - 1) = s
  BY PrefixOfAppend
<1>3. /\ IsFiniteSet(old) /\ Cardinality(old) \in Nat
      /\ IsFiniteSet(all) /\ Cardinality(all) \in Nat
  BY <1>1, ToCountFinite
<1> HIDE DEF t
<1>4. all \subseteq old \cup {Len(s) + 1}
  <2> SUFFICES ASSUME NEW i \in 1..Len(s), i \in all PROVE i \in old
    BY <1>1 DEF ToCount
  <2>1. t[i] = s[i] /\ SubSeq(t, 1, i - 1) = SubSeq(s, 1, i - 1)
    BY <1>1, <1>2
  <2> QED
    BY <2>1 DEF ToCount
<1>5. (e.obj # d \/ e.type # "put" \/ Tells(s, d, start, e.gen)) => Len(s) + 1 \notin all
  <2> SUFFICES ASSUME Len(s) + 1 \in all
               PROVE  e.obj = d /\ e.type = "put" /\ ~Tells(s, d, start, e.gen)
    OBVIOUS
  <2>1. e.obj = d /\ e.type = "put"
    BY <1>1 DEF ToCount
  <2>2. PICK v \in Int : Tells(SubSeq(t, 1, (Len(s) + 1) - 1), d, start, v) /\ v # e.gen
    BY <1>1 DEF ToCount
  <2>3. Tells(s, d, start, v)
    BY <1>2, <2>2
  <2> QED
    BY <2>1, <2>2, <2>3, TellsOne
<1> HIDE DEF old, all
<1>6. /\ IsFiniteSet(old \cup {Len(s) + 1})
      /\ Cardinality(old \cup {Len(s) + 1}) \in Nat
      /\ Cardinality(old \cup {Len(s) + 1}) <= Cardinality(old) + 1
  <2>1. /\ IsFiniteSet(old \cup {Len(s) + 1})
        /\ Cardinality(old \cup {Len(s) + 1})
             = IF Len(s) + 1 \in old THEN Cardinality(old) ELSE Cardinality(old) + 1
    BY <1>3, FS_AddElement
  <2> QED
    BY <1>3, <2>1
<1>7. Cardinality(all) <= Cardinality(old) + 1
  <2>1. Cardinality(all) <= Cardinality(old \cup {Len(s) + 1})
    BY <1>4, <1>6, FS_Subset
  <2> QED
    BY <1>3, <1>6, <2>1
<1>8. (e.obj # d \/ e.type # "put" \/ Tells(s, d, start, e.gen)) => Cardinality(all) <= Cardinality(old)
  <2> SUFFICES ASSUME all \subseteq old PROVE Cardinality(all) <= Cardinality(old)
    BY <1>4, <1>5
  <2> QED
    BY <1>3, FS_Subset
<1> QED
  BY <1>7, <1>8 DEF old, all, t

(* Handling an event leaves the others to count, and one less if it was    *)
(* one of them.                                                            *)
LEMMA ToCountTail ==
  ASSUME NEW s \in Seq(Event), s # <<>>, NEW d, NEW start \in Int
  PROVE  LET next == IF Head(s).obj = d THEN Says(Head(s)) ELSE start
             rest == Cardinality(ToCount(Tail(s), d, next))
             all == Cardinality(ToCount(s, d, start))
         IN  /\ rest <= all
             /\ (/\ Head(s).obj = d /\ Head(s).type = "put" /\ Head(s).watched
                 /\ start # Absent /\ start # Head(s).gen) => rest + 1 <= all
<1> DEFINE next == IF Head(s).obj = d THEN Says(Head(s)) ELSE start
           t == Tail(s)
           rest == ToCount(t, d, next)
           all == ToCount(s, d, start)
<1>1. /\ Len(s) \in Nat \ {0} /\ Len(t) = Len(s) - 1 /\ Len(t) \in Nat /\ t \in Seq(Event)
      /\ \A i \in 1..Len(t) : t[i] = s[i + 1] /\ i + 1 \in 1..Len(s)
      /\ Head(s) = s[1]
  OBVIOUS
<1>2. ASSUME NEW i \in 1..Len(t), NEW v
      PROVE  Tells(SubSeq(s, 1, (i + 1) - 1), d, start, v) <=> Tells(SubSeq(t, 1, i - 1), d, next, v)
  <2> DEFINE p == SubSeq(s, 1, i)
  <2>1. /\ p \in Seq(Event) /\ p # <<>> /\ Head(p) = Head(s)
        /\ Tail(p) = SubSeq(t, 1, i - 1)
    BY PrefixOfTail
  <2>2. (i + 1) - 1 = i
    BY <1>1
  <2> HIDE DEF p
  <2>3. Tells(p, d, start, v)
        <=> Tells(Tail(p), d, IF Head(p).obj = d THEN Says(Head(p)) ELSE start, v)
    BY <2>1, TellsTail
  <2>4. Tells(p, d, start, v) <=> Tells(SubSeq(t, 1, i - 1), d, next, v)
    BY <2>1, <2>3
  <2> QED
    BY <2>2, <2>4 DEF p
<1>3. /\ IsFiniteSet(all) /\ Cardinality(all) \in Nat
      /\ IsFiniteSet(rest) /\ Cardinality(rest) \in Nat
  BY <1>1, ToCountFinite
<1> HIDE DEF next, t
<1>4. \A i \in rest : i \in 1..Len(t) /\ i + 1 \in all
  <2> SUFFICES ASSUME NEW i \in rest PROVE i \in 1..Len(t) /\ i + 1 \in all
    OBVIOUS
  <2>1. /\ i \in 1..Len(t) /\ t[i].obj = d /\ t[i].type = "put" /\ t[i].watched
    BY DEF ToCount
  <2>2. PICK v \in Int : Tells(SubSeq(t, 1, i - 1), d, next, v) /\ v # Absent /\ v # t[i].gen
    BY DEF ToCount
  <2>3. t[i] = s[i + 1] /\ i + 1 \in 1..Len(s)
    BY <1>1, <2>1
  <2>4. Tells(SubSeq(s, 1, (i + 1) - 1), d, start, v)
    BY <1>2, <2>1, <2>2
  <2> QED
    BY <2>1, <2>2, <2>3, <2>4 DEF ToCount
<1>5. (/\ Head(s).obj = d /\ Head(s).type = "put" /\ Head(s).watched
       /\ start # Absent /\ start # Head(s).gen) => 1 \in all
  <2>1. SubSeq(s, 1, 1 - 1) = <<>>
    BY <1>1
  <2>2. Tells(SubSeq(s, 1, 1 - 1), d, start, start)
    BY <2>1 DEF Tells
  <2>3. 1 \in 1..Len(s)
    BY <1>1
  <2> SUFFICES ASSUME Head(s).obj = d, Head(s).type = "put", Head(s).watched,
                      start # Absent, start # Head(s).gen
               PROVE  1 \in all
    OBVIOUS
  <2>4. \E v \in Int : Tells(SubSeq(s, 1, 1 - 1), d, start, v) /\ v # Absent /\ v # s[1].gen
    BY <1>1, <2>2
  <2> HIDE DEF Tells, Absent
  <2> QED
    BY <1>1, <2>3, <2>4 DEF ToCount
<1> HIDE DEF rest, all
<1>6. Cardinality(rest) <= Cardinality(all \ {1})
  <2> DEFINE f == [i \in rest |-> i + 1]
  <2>1. f \in [rest -> all \ {1}]
    BY <1>1, <1>4
  <2>2. \A a, b \in rest : f[a] = f[b] => a = b
    BY <1>4
  <2>3. f \in Injection(rest, all \ {1})
    BY <2>1, <2>2 DEF Injection, IsInjective
  <2>4. IsFiniteSet(all \ {1})
    BY <1>3, FS_RemoveElement
  <2> QED
    BY <2>3, <2>4, FS_Injection
<1>7. Cardinality(all \ {1}) = IF 1 \in all THEN Cardinality(all) - 1 ELSE Cardinality(all)
  BY <1>3, FS_RemoveElement
<1>8. /\ Cardinality(rest) <= Cardinality(all)
      /\ 1 \in all => Cardinality(rest) + 1 <= Cardinality(all)
  BY <1>3, <1>6, <1>7
<1> QED
  BY <1>5, <1>8 DEF rest, all, next, t

LEMMA NothingToCount ==
  ASSUME NEW s \in Seq(Event), NEW d, NEW start, \A i \in 1..Len(s) : ~s[i].watched
  PROVE  Cardinality(ToCount(s, d, start)) = 0
<1>1. ToCount(s, d, start) = {}
  BY DEF ToCount
<1> QED
  BY <1>1, FS_EmptySet

(* A finite set as a sequence: all of it, once, and nothing else.          *)
LEMMA ListOfSet ==
  ASSUME NEW S, IsFiniteSet(S)
  PROVE  /\ SetToSeq(S) \in Seq(S)
         /\ \A x \in S : \E i \in 1..Len(SetToSeq(S)) : SetToSeq(S)[i] = x
         /\ \A i, j \in 1..Len(SetToSeq(S)) : SetToSeq(S)[i] = SetToSeq(S)[j] => i = j
<1> DEFINE n == Cardinality(S)
           s == SetToSeq(S)
<1>1. n \in Nat
  BY FS_CardinalityType
<1>2. \E f : f \in Bijection(1..n, S)
  <2>1. PICK m \in Nat : ExistsBijection(1..m, S)
    BY FS_NatBijection
  <2>2. m = n
    BY <2>1, FS_CountingElements
  <2> QED
    BY <2>1, <2>2 DEF ExistsBijection
<1>3. s \in [1..n -> S] /\ IsInjective(s)
  <2>1. \E f \in [1..n -> S] : IsInjective(f)
    BY <1>2 DEF Bijection, Injection
  <2> HIDE DEF n
  <2>2. s = CHOOSE f \in [1..n -> S] : IsInjective(f)
    BY DEF SetToSeq, n
  <2> HIDE DEF s
  <2> QED
    BY <2>1, <2>2
<1> HIDE DEF s
<1>4. s \in Surjection(1..n, S)
  <2>1. s \in Injection(1..n, S)
    BY <1>3 DEF Injection
  <2>2. Cardinality(1..n) = n
    BY <1>1, FS_Interval
  <2> QED
    BY <2>1, <2>2, FS_Injection
<1> HIDE DEF n
<1>5. s \in Seq(S) /\ Len(s) = n
  BY <1>1, <1>3
<1>6. \A x \in S : \E i \in 1..Len(s) : s[i] = x
  BY <1>4, <1>5 DEF Surjection
<1>7. \A i, j \in 1..Len(s) : s[i] = s[j] => i = j
  BY <1>3, <1>5 DEF IsInjective
<1> QED
  BY <1>5, <1>6, <1>7 DEF s

----------------------------------------------------------------------------
(***************************************************************************)
(* The cache of the metadata.                                              *)
(***************************************************************************)
LEMMA EventTypes ==
  ASSUME NEW l \in Loops
  PROVE  EventOf(l) \subseteq Event /\ ObjectsOf(l) \subseteq PodNames \cup Deployments
  BY DEF EventOf, Event, ObjectsOf

LEMMA OwnersStart == PodOwnersInit => OwnersInv
<1> SUFFICES ASSUME PodOwnersInit PROVE OwnersInv
  OBVIOUS
<1> USE PodOwnersAssumption DEF PodOwnersInit
<1>1. OwnersType
  <2>1. DOMAIN specs = {} /\ DOMAIN metas = {} /\ IsFiniteSet({})
    BY FS_EmptySet
  <2>2. \A l \in Loops : <<>> \in Seq(EventOf(l)) /\ <<>> \in Seq(Event)
    OBVIOUS
  <2>3. \A l \in Loops : loop[l] = [at |-> "list", left |-> <<>>]
    OBVIOUS
  <2>4. loop \in [Loops -> [at : {"list", "watch"}, left : Seq(Event)]]
    BY <2>2
  <2>5. \A l \in Loops : loop[l].left = <<>>
    BY <2>3
  <2>6. podsThere = {} /\ podCache = {} /\ changes \in Seq(Deployments)
        /\ rolled \in [Deployments -> Nat]
    OBVIOUS
  <2> HIDE DEF EventOf, Event, PodOwnersInit
  <2> QED
    BY <2>1, <2>2, <2>4, <2>5, <2>6 DEF OwnersType
<1>2. WatchesTell
  BY DEF WatchesTell
<1>3. ChangesAreRolls
  <2> SUFFICES ASSUME NEW d \in Deployments
               PROVE  Times(d) + Cardinality(Changing(d)) <= rolled[d]
    BY DEF ChangesAreRolls
  <2>1. {i \in DOMAIN changes : changes[i] = d} = {}
    OBVIOUS
  <2>2. Times(d) = 0
    BY <2>1, FS_EmptySet DEF Times
  <2>3. loop["deployments"].left = <<>>
    BY DEF Loops
  <2>4. Changing(d) = {}
    BY <2>3 DEF Changing, ToCount
  <2> QED
    BY <2>2, <2>4, FS_EmptySet
<1> QED
  BY <1>1, <1>2, <1>3 DEF OwnersInv

LEMMA TimesAreFinite ==
  ASSUME NEW s \in Seq(Deployments), NEW d
  PROVE  /\ IsFiniteSet({i \in DOMAIN s : s[i] = d})
         /\ Cardinality({i \in DOMAIN s : s[i] = d}) \in Nat
<1>1. IsFiniteSet(1..Len(s)) /\ DOMAIN s = 1..Len(s)
  BY FS_Interval
<1>2. IsFiniteSet({i \in DOMAIN s : s[i] = d})
  BY <1>1, FS_Subset
<1> QED
  BY <1>2, FS_CardinalityType

(* Something happens to e.obj, and the watch of its loop, if one is open,  *)
(* is sent the event e.                                                    *)
LEMMA AnnounceKeeps ==
  ASSUME OwnersInv, NEW l \in Loops, NEW e \in EventOf(l), Announce(l, e),
         \A k \in Loops : \A o \in ObjectsOf(k) :
            There(k, o)' = IF k = l /\ o = e.obj THEN Says(e) ELSE There(k, o),
         rolled' \in [Deployments -> Nat], \A d \in Deployments : rolled[d] <= rolled'[d],
         l = "deployments" /\ e.type = "put" /\ loop[l].at # "list" =>
            \/ rolled[e.obj] + 1 <= rolled'[e.obj]
            \/ Tells(loop[l].left, e.obj, Cached(l, e.obj), e.gen)
  PROVE  /\ loop' \in [Loops -> [at : {"list", "watch"}, left : Seq(Event)]]
         /\ \A k \in Loops : loop'[k].left \in Seq(EventOf(k))
         /\ \A k \in Loops : loop'[k].at = "list" => loop'[k].left = <<>>
         /\ WatchesTell' /\ ChangesAreRolls'
<1>1. /\ UNCHANGED <<podCache, metas, changes, stale>>
      /\ e \in Event /\ e.obj \in ObjectsOf(l)
  BY EventTypes DEF Announce, cacheVars, EventOf
<1>2. /\ loop \in [Loops -> [at : {"list", "watch"}, left : Seq(Event)]]
      /\ \A k \in Loops : loop[k].left \in Seq(EventOf(k)) /\ loop[k].left \in Seq(Event)
      /\ \A k \in Loops : loop[k].at = "list" => loop[k].left = <<>>
  BY DEF OwnersInv, OwnersType
<1>3. loop' = IF loop[l].at = "list" THEN loop
              ELSE [loop EXCEPT ![l].left = Append(@, e)]
  BY DEF Announce
<1>4. ASSUME NEW k \in Loops
      PROVE  /\ loop'[k].at = loop[k].at
             /\ loop'[k].left = IF k = l /\ loop[k].at # "list" THEN Append(loop[k].left, e) ELSE loop[k].left
  BY <1>2, <1>3
<1> HIDE DEF Event, EventOf
<1>5. /\ loop' \in [Loops -> [at : {"list", "watch"}, left : Seq(Event)]]
      /\ \A k \in Loops : loop'[k].left \in Seq(EventOf(k))
      /\ \A k \in Loops : loop'[k].at = "list" => loop'[k].left = <<>>
  <2>1. \A k \in Loops : loop'[k].left \in Seq(EventOf(k)) /\ loop'[k].left \in Seq(Event)
    <3> SUFFICES ASSUME NEW k \in Loops
                 PROVE  loop'[k].left \in Seq(EventOf(k)) /\ loop'[k].left \in Seq(Event)
      OBVIOUS
    <3>1. loop[k].left \in Seq(EventOf(k)) /\ loop[k].left \in Seq(Event)
      BY <1>2
    <3>2. CASE k = l /\ loop[k].at # "list"
      <4>1. loop'[k].left = Append(loop[k].left, e) /\ e \in EventOf(k)
        BY <1>4, <3>2
      <4>2. Append(loop[k].left, e) \in Seq(EventOf(k))
        BY <3>1, <4>1
      <4>3. Append(loop[k].left, e) \in Seq(Event)
        BY <1>1, <3>1
      <4> QED
        BY <4>1, <4>2, <4>3
    <3>3. CASE ~(k = l /\ loop[k].at # "list")
      BY <1>4, <3>1, <3>3
    <3> QED
      BY <3>2, <3>3
  <2>2. loop' \in [Loops -> [at : {"list", "watch"}, left : Seq(Event)]]
    <3> DEFINE q == Append(loop[l].left, e)
    <3>1. q \in Seq(Event)
      <4>1. loop[l].left \in Seq(Event)
        BY <1>2
      <4> QED
        BY <1>1, <4>1
    <3>2. \/ loop' = loop
          \/ loop' = [loop EXCEPT ![l] = [loop[l] EXCEPT !.left = q]]
      BY <1>2, <1>3
    <3> HIDE DEF q
    <3>3. loop[l] \in [at : {"list", "watch"}, left : Seq(Event)]
      BY <1>2
    <3>4. [loop[l] EXCEPT !.left = q] \in [at : {"list", "watch"}, left : Seq(Event)]
      BY <3>1, <3>3
    <3> QED
      BY <1>2, <3>2, <3>4
  <2>3. \A k \in Loops : loop'[k].at = "list" => loop'[k].left = <<>>
    BY <1>2, <1>4
  <2> QED
    BY <2>1, <2>2, <2>3
<1>6. \A k \in Loops, o \in PodNames \cup Deployments : Cached(k, o)' = Cached(k, o)
  BY <1>1 DEF Cached
<1>7. WatchesTell'
  <2> SUFFICES ASSUME NEW k \in Loops, loop'[k].at = "watch", NEW o \in ObjectsOf(k)
               PROVE  Hears(k, o)'
    BY DEF WatchesTell
  <2> DEFINE s == loop[k].left
  <2>1. loop[k].at = "watch" /\ s \in Seq(Event)
    BY <1>2, <1>4
  <2>2. Hears(k, o)
    BY <2>1 DEF OwnersInv, WatchesTell
  <2>3. Cached(k, o)' = Cached(k, o)
    BY <1>6, EventTypes
  <2>4. stale' = stale
    BY <1>1
  <2>5. There(k, o)' = IF k = l /\ o = e.obj THEN Says(e) ELSE There(k, o)
    OBVIOUS
  <2> HIDE DEF There, Cached, Says, Tells
  <2>6. CASE k # l
    <3>1. loop'[k].left = s
      BY <1>4, <2>6
    <3> QED
      BY <2>2, <2>3, <2>4, <2>5, <2>6, <3>1 DEF Hears
  <2>7. CASE k = l /\ o = e.obj
    <3>1. loop'[k].left = Append(s, e)
      BY <1>4, <2>1, <2>7
    <3>2. Tells(Append(s, e), o, Cached(k, o), Says(e))
      BY <1>1, <2>1, <2>7, TellsAppend
    <3> QED
      BY <2>3, <2>5, <2>7, <3>1, <3>2 DEF Hears
  <2>8. CASE k = l /\ o # e.obj
    <3>1. loop'[k].left = Append(s, e)
      BY <1>4, <2>1, <2>8
    <3>2. Tells(Append(s, e), o, Cached(k, o), There(k, o)) <=> Tells(s, o, Cached(k, o), There(k, o))
      BY <1>1, <2>1, <2>8, TellsAppend
    <3>3. (\A i \in 1..Len(s) : s[i].obj # o) =>
             \A i \in 1..Len(Append(s, e)) : Append(s, e)[i].obj # o
      <4> DEFINE t == Append(s, e)
      <4>1. /\ Len(t) = Len(s) + 1 /\ t[Len(s) + 1] = e /\ Len(s) \in Nat
            /\ \A i \in 1..Len(s) : t[i] = s[i]
        BY <1>1, <2>1
      <4> HIDE DEF t, s
      <4> QED
        BY <2>8, <4>1 DEF t
    <3> HIDE DEF s
    <3>4. There(k, o)' = There(k, o)
      BY <2>5, <2>8
    <3> QED
      BY <2>2, <2>3, <2>4, <3>1, <3>2, <3>3, <3>4 DEF Hears, s
  <2> QED
    BY <2>6, <2>7, <2>8
<1>8. ChangesAreRolls'
  <2> SUFFICES ASSUME NEW d \in Deployments
               PROVE  Times(d)' + Cardinality(Changing(d)') <= rolled'[d]
    BY DEF ChangesAreRolls
  <2> DEFINE s == loop["deployments"].left
             start == Cached("deployments", d)
  <2>1. s \in Seq(Event) /\ "deployments" \in Loops
    BY <1>2 DEF Loops
  <2>2. Times(d)' = Times(d) /\ Times(d) \in Nat
    BY <1>1, TimesAreFinite DEF Times, OwnersInv, OwnersType
  <2>3. Changing(d)' = ToCount(loop'["deployments"].left, d, start)
    <3>1. Cached("deployments", d)' = start
      BY <1>6, <2>1
    <3> HIDE DEF start
    <3> QED
      BY <3>1 DEF Changing
  <2>4. Changing(d) = ToCount(s, d, start)
    BY DEF Changing
  <2>5. Times(d) + Cardinality(Changing(d)) <= rolled[d]
    BY DEF OwnersInv, ChangesAreRolls
  <2>6. rolled[d] \in Nat /\ rolled'[d] \in Nat /\ rolled[d] <= rolled'[d]
    BY DEF OwnersInv, OwnersType
  <2>7. loop'["deployments"].left \in Seq(Event)
    BY <1>5, <2>1
  <2>8. Cardinality(Changing(d)) \in Nat /\ Cardinality(Changing(d)') \in Nat
    BY <2>1, <2>3, <2>4, <2>7, ToCountFinite
  <2> HIDE DEF s, start, ToCount
  <2>9. \/ Cardinality(Changing(d)') <= Cardinality(Changing(d))
        \/ /\ Cardinality(Changing(d)') <= Cardinality(Changing(d)) + 1
           /\ rolled[d] + 1 <= rolled'[d]
    <3>1. CASE loop'["deployments"].left = s
      <4>1. Changing(d)' = Changing(d)
        BY <2>3, <2>4, <3>1
      <4> QED
        BY <2>8, <4>1
    <3>2. CASE loop'["deployments"].left # s
      <4>1. l = "deployments" /\ loop[l].at # "list" /\ loop'["deployments"].left = Append(s, e)
        BY <1>4, <2>1, <3>2 DEF s
      <4>2. /\ Cardinality(ToCount(Append(s, e), d, start)) <= Cardinality(ToCount(s, d, start)) + 1
            /\ (e.obj # d \/ e.type # "put" \/ Tells(s, d, start, e.gen)) =>
                 Cardinality(ToCount(Append(s, e), d, start)) <= Cardinality(ToCount(s, d, start))
        BY <1>1, <2>1, ToCountAppend
      <4>3. \/ e.obj # d \/ e.type # "put"
            \/ rolled[d] + 1 <= rolled'[d]
            \/ Tells(s, d, start, e.gen)
        BY <4>1 DEF s, start
      <4> QED
        BY <2>3, <2>4, <4>1, <4>2, <4>3
    <3> QED
      BY <3>1, <3>2
  <2> QED
    BY <2>2, <2>5, <2>6, <2>8, <2>9
<1> QED
  BY <1>5, <1>7, <1>8

LEMMA PodsKeep ==
  ASSUME OwnersInv, NEW p \in PodNames, PodStarted(p) \/ PodEnded(p)
  PROVE  OwnersInv'
<1> USE PodOwnersAssumption
<1> DEFINE e == IF PodStarted(p) THEN Put(p, 0) ELSE Gone(p)
<1>1. /\ "pods" \in Loops /\ e \in EventOf("pods") /\ e.obj = p
      /\ Announce("pods", e)
      /\ UNCHANGED <<specs, rolled>>
  BY DEF Put, Gone, PodStarted, PodEnded, EventOf, ObjectsOf, Loops
<1>2. /\ podsThere' \subseteq PodNames /\ IsFiniteSet(podsThere')
      /\ podsThere' = IF e.type = "put" THEN podsThere \cup {p} ELSE podsThere \ {p}
      /\ Says(e) = IF e.type = "put" THEN 0 ELSE Absent
  <2>1. podsThere \subseteq PodNames /\ IsFiniteSet(podsThere)
    BY DEF OwnersInv, OwnersType
  <2>2. CASE PodStarted(p)
    <3>1. podsThere' = podsThere \cup {p} /\ e.type = "put" /\ Says(e) = 0
      BY <2>2 DEF PodStarted, Put, Says
    <3> QED
      BY <2>1, <3>1, FS_AddElement
  <2>3. CASE ~PodStarted(p)
    <3>1. podsThere' = podsThere \ {p} /\ e.type = "gone" /\ Says(e) = Absent
      BY <2>3 DEF PodEnded, Gone, Says
    <3> QED
      BY <2>1, <3>1, FS_RemoveElement
  <2> QED
    BY <2>2, <2>3
<1> HIDE DEF e
<1>3. \A k \in Loops : \A o \in ObjectsOf(k) :
        There(k, o)' = IF k = "pods" /\ o = e.obj THEN Says(e) ELSE There(k, o)
  BY <1>1, <1>2 DEF There, Loops
<1>4. rolled \in [Deployments -> Nat] /\ \A d \in Deployments : rolled[d] <= rolled[d]
  BY DEF OwnersInv, OwnersType
<1>5. /\ loop' \in [Loops -> [at : {"list", "watch"}, left : Seq(Event)]]
      /\ \A k \in Loops : loop'[k].left \in Seq(EventOf(k))
      /\ \A k \in Loops : loop'[k].at = "list" => loop'[k].left = <<>>
      /\ WatchesTell' /\ ChangesAreRolls'
  BY <1>1, <1>3, <1>4, AnnounceKeeps
<1>6. UNCHANGED <<podCache, metas, changes>>
  BY <1>1 DEF Announce, cacheVars
<1> HIDE DEF Event, EventOf
<1> QED
  BY <1>1, <1>2, <1>5, <1>6 DEF OwnersInv, OwnersType

LEMMA DeploymentsKeep ==
  ASSUME OwnersInv, NEW d \in Deployments, Applied(d) \/ StatusMoved(d) \/ Removed(d)
  PROVE  OwnersInv'
<1> USE PodOwnersAssumption
<1>1. /\ DOMAIN specs \subseteq Deployments /\ IsFiniteSet(DOMAIN specs)
      /\ \A c \in DOMAIN specs : specs[c] \in Nat
      /\ rolled \in [Deployments -> Nat]
      /\ "deployments" \in Loops
  BY DEF OwnersInv, OwnersType, Loops
<1>2. PICK e \in EventOf("deployments") :
        /\ e.obj = d /\ Announce("deployments", e)
        /\ UNCHANGED podsThere
        /\ DOMAIN specs' = IF e.type = "put" THEN DOMAIN specs \cup {d} ELSE DOMAIN specs \ {d}
        /\ \A c \in DOMAIN specs' : specs'[c] = IF c = d THEN e.gen ELSE specs[c]
        /\ rolled' \in [Deployments -> Nat]
        /\ \A c \in Deployments : rolled[c] <= rolled'[c]
        /\ e.type = "put" => \/ rolled[d] + 1 <= rolled'[d]
                             \/ d \in DOMAIN specs /\ specs[d] = e.gen
  <2>1. CASE Applied(d)
    <3> DEFINE gen == IF d \in DOMAIN specs THEN specs[d] + 1 ELSE 1
               e == Put(d, gen)
    <3>1. gen \in Nat
      BY <1>1
    <3>2. /\ specs' = [c \in DOMAIN specs \cup {d} |-> IF c = d THEN gen ELSE specs[c]]
          /\ rolled' = [rolled EXCEPT ![d] = @ + 1]
          /\ Announce("deployments", e) /\ UNCHANGED podsThere
      BY <2>1 DEF Applied
    <3> HIDE DEF gen
    <3>3. e \in EventOf("deployments") /\ e.obj = d /\ e.type = "put" /\ e.gen = gen
      BY <3>1 DEF Put, EventOf, ObjectsOf
    <3>4. /\ rolled' \in [Deployments -> Nat]
          /\ \A c \in Deployments : rolled[c] <= rolled'[c]
          /\ rolled[d] + 1 <= rolled'[d]
      BY <1>1, <3>2
    <3> HIDE DEF e
    <3> QED
      BY <3>2, <3>3, <3>4
  <2>2. CASE StatusMoved(d)
    <3> DEFINE e == Put(d, specs[d])
    <3>1. /\ d \in DOMAIN specs /\ Announce("deployments", e)
          /\ UNCHANGED <<podsThere, specs, rolled>>
      BY <2>2 DEF StatusMoved
    <3>2. e \in EventOf("deployments") /\ e.obj = d /\ e.type = "put" /\ e.gen = specs[d]
      BY <1>1, <3>1 DEF Put, EventOf, ObjectsOf
    <3>3. \A c \in Deployments : rolled[c] <= rolled[c]
      BY <1>1
    <3> HIDE DEF e
    <3> QED
      BY <1>1, <3>1, <3>2, <3>3
  <2>3. CASE Removed(d)
    <3> DEFINE e == Gone(d)
    <3>1. /\ d \in DOMAIN specs /\ Announce("deployments", e)
          /\ specs' = [c \in DOMAIN specs \ {d} |-> specs[c]]
          /\ UNCHANGED <<podsThere, rolled>>
      BY <2>3 DEF Removed
    <3>2. e \in EventOf("deployments") /\ e.obj = d /\ e.type = "gone"
      BY DEF Gone, EventOf, ObjectsOf
    <3>3. \A c \in Deployments : rolled[c] <= rolled[c]
      BY <1>1
    <3> HIDE DEF e
    <3> QED
      BY <1>1, <3>1, <3>2, <3>3
  <2> QED
    BY <2>1, <2>2, <2>3
<1>3. /\ DOMAIN specs' \subseteq Deployments /\ IsFiniteSet(DOMAIN specs')
      /\ \A c \in DOMAIN specs' : specs'[c] \in Nat
  <2>1. IsFiniteSet(DOMAIN specs \cup {d}) /\ IsFiniteSet(DOMAIN specs \ {d})
    BY <1>1, FS_AddElement, FS_RemoveElement
  <2>2. e.gen \in Nat
    BY DEF EventOf
  <2> QED
    BY <1>1, <1>2, <2>1, <2>2
<1>4. \A k \in Loops : \A o \in ObjectsOf(k) :
        There(k, o)' = IF k = "deployments" /\ o = e.obj THEN Says(e) ELSE There(k, o)
  BY <1>2 DEF There, Loops, Says
<1>5. e.type = "put" /\ loop["deployments"].at # "list" =>
        \/ rolled[e.obj] + 1 <= rolled'[e.obj]
        \/ Tells(loop["deployments"].left, e.obj, Cached("deployments", e.obj), e.gen)
  <2> SUFFICES ASSUME loop["deployments"].at # "list", d \in DOMAIN specs, specs[d] = e.gen
               PROVE  Tells(loop["deployments"].left, d, Cached("deployments", d), e.gen)
    BY <1>2
  <2>1. loop["deployments"].at = "watch"
    BY <1>1 DEF OwnersInv, OwnersType
  <2>2. d \in ObjectsOf("deployments") /\ There("deployments", d) = e.gen /\ e.gen # Absent
    BY <1>1 DEF ObjectsOf, There, Absent
  <2>3. Hears("deployments", d)
    BY <1>1, <2>1, <2>2 DEF OwnersInv, WatchesTell
  <2> QED
    BY <2>2, <2>3 DEF Hears
<1>6. /\ loop' \in [Loops -> [at : {"list", "watch"}, left : Seq(Event)]]
      /\ \A k \in Loops : loop'[k].left \in Seq(EventOf(k))
      /\ \A k \in Loops : loop'[k].at = "list" => loop'[k].left = <<>>
      /\ WatchesTell' /\ ChangesAreRolls'
  BY <1>1, <1>2, <1>4, <1>5, AnnounceKeeps
<1>7. UNCHANGED <<podCache, metas, changes>>
  BY <1>2 DEF Announce, cacheVars
<1> HIDE DEF Event, EventOf
<1> QED
  BY <1>2, <1>3, <1>6, <1>7 DEF OwnersInv, OwnersType

(* A list is what is there, each once, told as not watched.                 *)
Living(l) == IF l = "pods" THEN podsThere ELSE DOMAIN specs
Item(l, o) == [type |-> "put", obj |-> o, gen |-> There(l, o), watched |-> FALSE]

LEMMA ItemsAreListed ==
  ASSUME NEW o, NEW gen
  PROVE  FromList(Put(o, gen)) = [type |-> "put", obj |-> o, gen |-> gen, watched |-> FALSE]
<1> DEFINE r == [type |-> "put", obj |-> o, gen |-> gen, watched |-> TRUE]
           q == [r EXCEPT !.watched = FALSE]
<1>1. q = FromList(Put(o, gen))
  BY DEF FromList, Put
<1>2. r \in [type : {"put"}, obj : {o}, gen : {gen}, watched : BOOLEAN]
  OBVIOUS
<1> HIDE DEF r
<1>3. q \in [type : {"put"}, obj : {o}, gen : {gen}, watched : {FALSE}]
  BY <1>2
<1> HIDE DEF q
<1> QED
  BY <1>1, <1>3

LEMMA ListIsWhole ==
  ASSUME OwnersInv, NEW l \in Loops, ListAll(l)
  PROVE  \E s \in Seq(EventOf(l)) :
           /\ loop' = [loop EXCEPT ![l] = [at |-> "watch", left |-> s]]
           /\ \A i \in 1..Len(s) : s[i].obj \in Living(l) /\ s[i] = Item(l, s[i].obj)
           /\ \A o \in Living(l) : \E i \in 1..Len(s) :
                s[i].obj = o /\ \A j \in (i + 1)..Len(s) : s[j].obj # o
           /\ \A o \in ObjectsOf(l) : Cached(l, o) # Absent /\ o \notin Living(l) => o \in stale'
           /\ stale \subseteq stale'
<1> USE PodOwnersAssumption
<1> DEFINE S == {Item(l, o) : o \in Living(l)}
           s == SetToSeq(S)
           there == IF l = "pods" THEN {Put(p, 0) : p \in podsThere} ELSE {Put(d, specs[d]) : d \in DOMAIN specs}
           cached == IF l = "pods" THEN podCache ELSE DOMAIN metas
<1>1. /\ podsThere \subseteq PodNames /\ IsFiniteSet(podsThere)
      /\ DOMAIN specs \subseteq Deployments /\ IsFiniteSet(DOMAIN specs)
      /\ \A d \in DOMAIN specs : specs[d] \in Nat
      /\ Living(l) \subseteq ObjectsOf(l) /\ IsFiniteSet(Living(l))
  BY DEF OwnersInv, OwnersType, Living, ObjectsOf
<1>2. /\ loop' = [loop EXCEPT ![l] = [at |-> "watch", left |-> SetToSeq({FromList(x) : x \in there})]]
      /\ stale' = stale \cup (cached \ {x.obj : x \in there})
  BY DEF ListAll
<1>3. /\ {FromList(x) : x \in there} = S
      /\ {x.obj : x \in there} = Living(l)
  <2>1. CASE l = "pods"
    <3>1. \A p \in podsThere : FromList(Put(p, 0)) = Item(l, p) /\ Put(p, 0).obj = p
      BY <2>1, ItemsAreListed DEF Put, Item, There
    <3>2. there = {Put(p, 0) : p \in podsThere} /\ Living(l) = podsThere
      BY <2>1 DEF Living
    <3> HIDE DEF there
    <3>3. /\ \A x \in there : \E p \in Living(l) : x = Put(p, 0)
          /\ \A p \in Living(l) : Put(p, 0) \in there
      BY <3>2
    <3>4. \A y : (\E x \in there : y = FromList(x)) <=> (\E o \in Living(l) : y = Item(l, o))
      BY <3>1, <3>2, <3>3
    <3>5. \A y : (\E x \in there : y = x.obj) <=> y \in Living(l)
      BY <3>1, <3>2, <3>3
    <3> QED
      BY <3>4, <3>5
  <2>2. CASE l # "pods"
    <3>1. \A d \in DOMAIN specs : FromList(Put(d, specs[d])) = Item(l, d) /\ Put(d, specs[d]).obj = d
      BY <2>2, ItemsAreListed DEF Put, Item, There
    <3>2. there = {Put(d, specs[d]) : d \in DOMAIN specs} /\ Living(l) = DOMAIN specs
      BY <2>2 DEF Living
    <3> HIDE DEF there
    <3>3. /\ \A x \in there : \E d \in Living(l) : x = Put(d, specs[d])
          /\ \A d \in Living(l) : Put(d, specs[d]) \in there
      BY <3>2
    <3>4. \A y : (\E x \in there : y = FromList(x)) <=> (\E o \in Living(l) : y = Item(l, o))
      BY <3>1, <3>2, <3>3
    <3>5. \A y : (\E x \in there : y = x.obj) <=> y \in Living(l)
      BY <3>1, <3>2, <3>3
    <3> QED
      BY <3>4, <3>5
  <2> QED
    BY <2>1, <2>2
<1>4. IsFiniteSet(S)
  <2> DEFINE f == [o \in Living(l) |-> Item(l, o)]
  <2>1. f \in Surjection(Living(l), S)
    BY DEF Surjection
  <2> HIDE DEF f, S
  <2> QED
    BY <1>1, <2>1, FS_Surjection
<1>5. /\ s \in Seq(S)
      /\ \A x \in S : \E i \in 1..Len(s) : s[i] = x
      /\ \A i, j \in 1..Len(s) : s[i] = s[j] => i = j
  BY <1>4, ListOfSet
<1>6. \A o \in Living(l) : Item(l, o) \in EventOf(l) /\ Item(l, o).obj = o
  BY <1>1 DEF Item, EventOf, There, Living, Loops
<1> HIDE DEF s
<1>7. \A i \in 1..Len(s) : s[i].obj \in Living(l) /\ s[i] = Item(l, s[i].obj)
  <2>1. \A i \in 1..Len(s) : s[i] \in S
    BY <1>5
  <2> QED
    BY <1>6, <2>1
<1>8. \A o \in Living(l) : \E i \in 1..Len(s) :
        s[i].obj = o /\ \A j \in (i + 1)..Len(s) : s[j].obj # o
  <2> SUFFICES ASSUME NEW o \in Living(l)
               PROVE  \E i \in 1..Len(s) : s[i].obj = o /\ \A j \in (i + 1)..Len(s) : s[j].obj # o
    OBVIOUS
  <2>1. PICK i \in 1..Len(s) : s[i] = Item(l, o)
    BY <1>5
  <2>2. s[i].obj = o /\ Len(s) \in Nat
    BY <1>5, <1>6, <2>1
  <2>3. ASSUME NEW j \in (i + 1)..Len(s), s[j].obj = o PROVE FALSE
    <3>1. j \in 1..Len(s) /\ j # i
      BY <2>2
    <3>2. s[j] = Item(l, o)
      BY <1>7, <2>3, <3>1
    <3> QED
      BY <1>5, <2>1, <3>1, <3>2
  <2> QED
    BY <2>2, <2>3
<1>9. s \in Seq(EventOf(l))
  <2>1. S \subseteq EventOf(l)
    BY <1>6
  <2> HIDE DEF S, EventOf
  <2>2. PICK n \in Nat : s \in [1..n -> S]
    BY <1>5
  <2>3. s \in [1..n -> EventOf(l)]
    BY <2>1, <2>2
  <2> QED
    BY <2>3
<1>10. \A o \in ObjectsOf(l) : Cached(l, o) # Absent => o \in cached
  BY DEF Cached
<1>11. /\ loop' = [loop EXCEPT ![l] = [at |-> "watch", left |-> s]]
       /\ stale' = stale \cup (cached \ Living(l))
  BY <1>2, <1>3 DEF s
<1> HIDE DEF S, there, cached
<1> QED
  BY <1>7, <1>8, <1>9, <1>10, <1>11

LEMMA ListKeeps ==
  ASSUME OwnersInv, NEW l \in Loops, ListAll(l)
  PROVE  OwnersInv'
<1> USE PodOwnersAssumption
<1>1. PICK s \in Seq(EventOf(l)) :
        /\ loop' = [loop EXCEPT ![l] = [at |-> "watch", left |-> s]]
        /\ \A i \in 1..Len(s) : s[i].obj \in Living(l) /\ s[i] = Item(l, s[i].obj)
        /\ \A o \in Living(l) : \E i \in 1..Len(s) :
             s[i].obj = o /\ \A j \in (i + 1)..Len(s) : s[j].obj # o
        /\ \A o \in ObjectsOf(l) : Cached(l, o) # Absent /\ o \notin Living(l) => o \in stale'
        /\ stale \subseteq stale'
  BY ListIsWhole
<1>2. UNCHANGED <<podsThere, specs, podCache, metas, changes, rolled>>
  BY DEF ListAll, cacheVars
<1>3. s \in Seq(Event)
  <2>1. PICK n \in Nat : s \in [1..n -> EventOf(l)]
    OBVIOUS
  <2>2. s \in [1..n -> Event]
    BY <2>1, EventTypes
  <2> QED
    BY <2>2
<1>4. \A k \in Loops : loop'[k] = IF k = l THEN [at |-> "watch", left |-> s] ELSE loop[k]
  BY <1>1 DEF OwnersInv, OwnersType
<1> HIDE DEF Event, EventOf
<1>5. OwnersType'
  <2>1. OwnersType
    BY DEF OwnersInv
  <2>2. loop' \in [Loops -> [at : {"list", "watch"}, left : Seq(Event)]]
    BY <1>1, <1>3, <2>1 DEF OwnersType
  <2>3. \A k \in Loops : /\ loop'[k].left \in Seq(EventOf(k))
                         /\ loop'[k].at = "list" => loop'[k].left = <<>>
    BY <1>1, <1>4, <2>1 DEF OwnersType
  <2> QED
    BY <1>2, <2>1, <2>2, <2>3 DEF OwnersType
<1>6. WatchesTell'
  <2> SUFFICES ASSUME NEW k \in Loops, loop'[k].at = "watch", NEW o \in ObjectsOf(k)
               PROVE  Hears(k, o)'
    BY DEF WatchesTell
  <2>1. There(k, o)' = There(k, o) /\ Cached(k, o)' = Cached(k, o)
    BY <1>2 DEF There, Cached
  <2>2. CASE k # l
    <3>1. loop'[k] = loop[k] /\ Hears(k, o)
      BY <1>4, <2>2 DEF OwnersInv, WatchesTell
    <3> HIDE DEF There, Cached, Tells
    <3> QED
      BY <1>1, <2>1, <3>1 DEF Hears
  <2>3. CASE k = l
    <3>1. loop'[k].left = s
      BY <1>4, <2>3
    <3>2. o \in Living(l) => Tells(s, o, Cached(k, o), There(k, o))
      <4> SUFFICES ASSUME o \in Living(l) PROVE Tells(s, o, Cached(k, o), There(k, o))
        OBVIOUS
      <4>1. PICK i \in 1..Len(s) : s[i].obj = o /\ \A j \in (i + 1)..Len(s) : s[j].obj # o
        BY <1>1
      <4>2. Says(s[i]) = There(k, o)
        <5>1. s[i] = Item(l, o)
          BY <1>1, <4>1
        <5> QED
          BY <2>3, <5>1 DEF Says, Item
      <4> QED
        BY <4>1, <4>2 DEF Tells
    <3>3. o \notin Living(l) => /\ \A i \in 1..Len(s) : s[i].obj # o
                                /\ There(k, o) = Absent
                                /\ Cached(k, o) = Absent \/ o \in stale'
      BY <1>1, <2>3 DEF Living, There
    <3>4. o \notin Living(l) /\ Cached(k, o) = Absent => Tells(s, o, Cached(k, o), There(k, o))
      BY <3>3 DEF Tells
    <3> HIDE DEF There, Cached, Tells
    <3> QED
      BY <2>1, <3>1, <3>2, <3>3, <3>4 DEF Hears
  <2> QED
    BY <2>2, <2>3
<1>7. ChangesAreRolls'
  <2> SUFFICES ASSUME NEW d \in Deployments
               PROVE  Times(d)' + Cardinality(Changing(d)') <= rolled'[d]
    BY DEF ChangesAreRolls
  <2> DEFINE q == loop["deployments"].left
             start == Cached("deployments", d)
  <2>1. /\ "deployments" \in Loops /\ q \in Seq(Event)
        /\ changes \in Seq(Deployments) /\ rolled[d] \in Nat
    BY DEF Loops, OwnersInv, OwnersType
  <2>2. Times(d)' = Times(d) /\ Times(d) \in Nat
    BY <1>2, <2>1, TimesAreFinite DEF Times
  <2>3. Cached("deployments", d)' = start
    BY <1>2 DEF Cached
  <2>4. Changing(d) = ToCount(q, d, start)
    BY DEF Changing
  <2> HIDE DEF start
  <2>5. Changing(d)' = ToCount(loop'["deployments"].left, d, start)
    BY <2>3 DEF Changing
  <2>6. Times(d) + Cardinality(Changing(d)) <= rolled[d]
    BY DEF OwnersInv, ChangesAreRolls
  <2> HIDE DEF q, ToCount
  <2>7. /\ Cardinality(Changing(d)') <= Cardinality(Changing(d))
        /\ Cardinality(Changing(d)') \in Nat /\ Cardinality(Changing(d)) \in Nat
    <3>1. CASE l = "deployments"
      <4>1. loop'["deployments"].left = s
        BY <1>4, <2>1, <3>1
      <4>2. \A i \in 1..Len(s) : ~s[i].watched
        <5>1. \A o : Item(l, o).watched = FALSE
          BY DEF Item
        <5> QED
          BY <1>1, <5>1
      <4>3. Cardinality(Changing(d)') = 0
        BY <1>3, <2>5, <4>1, <4>2, NothingToCount
      <4>4. Cardinality(Changing(d)) \in Nat
        BY <2>1, <2>4, ToCountFinite
      <4> QED
        BY <4>3, <4>4
    <3>2. CASE l # "deployments"
      <4>1. Changing(d)' = Changing(d)
        BY <1>4, <2>1, <2>4, <2>5, <3>2 DEF q
      <4>2. Cardinality(Changing(d)) \in Nat
        BY <2>1, <2>4, ToCountFinite
      <4> QED
        BY <4>1, <4>2
    <3> QED
      BY <3>1, <3>2
  <2> QED
    BY <1>2, <2>1, <2>2, <2>6, <2>7
<1> QED
  BY <1>5, <1>6, <1>7 DEF OwnersInv

(* A change is put behind the others, and the oldest may go.               *)
LEMMA TimesOfKept ==
  ASSUME NEW s \in Seq(Deployments), NEW e \in Deployments, NEW d, NEW m \in {1, 2}
  PROVE  LET t == SubSeq(Append(s, e), m, Len(Append(s, e)))
             new == Cardinality({i \in DOMAIN t : t[i] = d})
             old == Cardinality({i \in DOMAIN s : s[i] = d})
         IN  /\ t \in Seq(Deployments)
             /\ new <= old + 1
             /\ e # d => new <= old
<1> DEFINE all == Append(s, e)
           t == SubSeq(all, m, Len(all))
           new == {i \in DOMAIN t : t[i] = d}
           old == {i \in DOMAIN s : s[i] = d}
<1>1. /\ all \in Seq(Deployments) /\ Len(s) \in Nat /\ Len(all) = Len(s) + 1
      /\ all[Len(s) + 1] = e /\ \A i \in 1..Len(s) : all[i] = s[i]
  OBVIOUS
<1> HIDE DEF all
<1>2. /\ t \in Seq(Deployments) /\ Len(t) = Len(all) - m + 1
      /\ \A i \in 1..Len(t) : t[i] = all[i + m - 1]
  <2>1. \A i \in m..Len(all) : all[i] \in Deployments
    BY <1>1
  <2> QED
    BY <1>1, <2>1
<1> HIDE DEF t
<1>3. /\ IsFiniteSet(old) /\ Cardinality(old) \in Nat
      /\ IsFiniteSet(new) /\ Cardinality(new) \in Nat
  BY <1>2, TimesAreFinite
<1>4. /\ DOMAIN s = 1..Len(s) /\ DOMAIN t = 1..Len(t)
  BY <1>2
<1>5. ASSUME NEW i \in new
      PROVE  i \in Nat /\ i + m - 1 \in old \cup {Len(s) + 1} /\ (e # d => i + m - 1 \in old)
  <2>1. i \in 1..Len(t) /\ all[i + m - 1] = d
    BY <1>2, <1>4
  <2>2. i \in Nat /\ (i + m - 1 = Len(s) + 1 \/ i + m - 1 \in 1..Len(s))
    BY <1>1, <1>2, <2>1
  <2> QED
    BY <1>1, <1>4, <2>1, <2>2
<1> HIDE DEF new, old
<1> DEFINE f == [i \in new |-> i + m - 1]
<1>6. \A a, b \in new : f[a] = f[b] => a = b
  BY <1>5
<1>7. Cardinality(new) <= Cardinality(old \cup {Len(s) + 1})
  <2>1. f \in Injection(new, old \cup {Len(s) + 1})
    BY <1>5, <1>6 DEF Injection, IsInjective
  <2>2. IsFiniteSet(old \cup {Len(s) + 1})
    BY <1>3, FS_AddElement
  <2> HIDE DEF f
  <2> QED
    BY <2>1, <2>2, FS_Injection
<1>8. Cardinality(old \cup {Len(s) + 1}) <= Cardinality(old) + 1 /\ Cardinality(old \cup {Len(s) + 1}) \in Nat
  <2>1. Cardinality(old \cup {Len(s) + 1})
          = IF Len(s) + 1 \in old THEN Cardinality(old) ELSE Cardinality(old) + 1
    BY <1>3, FS_AddElement
  <2> QED
    BY <1>3, <2>1
<1>9. e # d => Cardinality(new) <= Cardinality(old)
  <2> SUFFICES ASSUME e # d PROVE Cardinality(new) <= Cardinality(old)
    OBVIOUS
  <2>1. f \in Injection(new, old)
    BY <1>5, <1>6 DEF Injection, IsInjective
  <2> HIDE DEF f
  <2> QED
    BY <1>3, <2>1, FS_Injection
<1>10. Cardinality(new) <= Cardinality(old) + 1
  BY <1>3, <1>7, <1>8
<1> QED
  BY <1>2, <1>9, <1>10 DEF new, old, t, all

LEMMA RecordKeeps ==
  ASSUME OwnersType, NEW x \in Event, x.obj \in Deployments, RecordChange(x), NEW d
  PROVE  /\ changes' \in Seq(Deployments)
         /\ Times(d) \in Nat /\ Times(d)' \in Nat /\ Times(d)' <= Times(d) + 1
         /\ (~(/\ x.obj = d /\ x.type = "put" /\ x.watched
               /\ Cached("deployments", d) # Absent /\ Cached("deployments", d) # x.gen))
              => Times(d)' <= Times(d)
<1> DEFINE m == IF Len(Append(changes, x.obj)) > ChangesKept THEN 2 ELSE 1
<1>1. changes \in Seq(Deployments) /\ m \in {1, 2}
  BY DEF OwnersType
<1>2. changes' = IF x.type = "put" /\ x.watched /\ IsChange(x.obj, x.gen)
                 THEN SubSeq(Append(changes, x.obj), m, Len(Append(changes, x.obj)))
                 ELSE changes
  BY DEF RecordChange
<1> HIDE DEF m
<1>3. CASE x.type = "put" /\ x.watched /\ IsChange(x.obj, x.gen)
  <2> DEFINE t == SubSeq(Append(changes, x.obj), m, Len(Append(changes, x.obj)))
  <2>1. /\ t \in Seq(Deployments)
        /\ Cardinality({i \in DOMAIN t : t[i] = d}) <= Cardinality({i \in DOMAIN changes : changes[i] = d}) + 1
        /\ x.obj # d => Cardinality({i \in DOMAIN t : t[i] = d}) <= Cardinality({i \in DOMAIN changes : changes[i] = d})
    BY <1>1, TimesOfKept, ZenonT(40)
  <2>2. changes' = t
    BY <1>2, <1>3
  <2> HIDE DEF t
  <2>3. changes' \in Seq(Deployments)
    BY <2>1, <2>2
  <2>4. Times(d) \in Nat /\ Times(d)' \in Nat
    BY <1>1, <2>3, TimesAreFinite DEF Times
  <2>5. Times(d)' <= Times(d) + 1 /\ (x.obj # d => Times(d)' <= Times(d))
    BY <2>1, <2>2 DEF Times
  <2>6. x.obj = d => Cached("deployments", d) # Absent /\ Cached("deployments", d) # x.gen
    BY <1>3 DEF IsChange, Cached, OwnersType, Absent
  <2> QED
    BY <1>3, <2>3, <2>4, <2>5, <2>6
<1>4. CASE ~(x.type = "put" /\ x.watched /\ IsChange(x.obj, x.gen))
  <2>1. changes' = changes
    BY <1>2, <1>4
  <2>2. Times(d)' = Times(d) /\ Times(d) \in Nat
    BY <1>1, <2>1, TimesAreFinite DEF Times
  <2> QED
    BY <1>1, <2>1, <2>2
<1> QED
  BY <1>3, <1>4

(* What handling an event does to the cache: it holds what the event says. *)
LEMMA HandlingTells ==
  ASSUME OwnersInv, NEW l \in Loops, Handle(l), NEW x, x = Head(loop[l].left)
  PROVE  /\ loop[l].at = "watch" /\ x \in EventOf(l) /\ x \in Event
         /\ x.obj \in ObjectsOf(l)
         /\ podCache' \subseteq PodNames /\ DOMAIN metas' \subseteq Deployments
         /\ \A d \in DOMAIN metas' : metas'[d] \in Nat
         /\ \A k \in Loops : \A o \in ObjectsOf(k) :
               Cached(k, o)' = IF k = l /\ o = x.obj THEN Says(x) ELSE Cached(k, o)
<1>1. /\ loop[l].left # <<>> /\ loop[l].left \in Seq(EventOf(l)) /\ loop[l].at = "watch"
  BY DEF Handle, OwnersInv, OwnersType
<1>2. x \in EventOf(l)
  BY <1>1
<1>3. x \in Event /\ x.obj \in ObjectsOf(l)
  BY <1>2, EventTypes DEF EventOf
<1>4. /\ podCache \subseteq PodNames /\ DOMAIN metas \subseteq Deployments
      /\ \A d \in DOMAIN metas : metas[d] \in Nat
  BY DEF OwnersInv, OwnersType
<1>5. CASE l = "pods"
  <2>1. /\ podCache' = IF x.type = "put" THEN podCache \cup {x.obj} ELSE podCache \ {x.obj}
        /\ metas' = metas
    BY <1>5 DEF Handle
  <2>2. x.obj \in PodNames /\ (x.type = "put" => x.gen = 0)
    BY <1>2, <1>5 DEF EventOf, ObjectsOf
  <2>3. ASSUME NEW o \in PodNames
        PROVE  Cached("pods", o)' = IF o = x.obj THEN Says(x) ELSE Cached("pods", o)
    BY <2>1, <2>2 DEF Cached, Says
  <2>4. ASSUME NEW o PROVE Cached("deployments", o)' = Cached("deployments", o)
    BY <2>1 DEF Cached
  <2> QED
    BY <1>1, <1>2, <1>3, <1>4, <1>5, <2>1, <2>2, <2>3, <2>4 DEF Loops, ObjectsOf
<1>6. CASE l = "deployments"
  <2>1. /\ IF x.type = "put" THEN PutMeta(x.obj, x.gen)
           ELSE metas' = [e \in DOMAIN metas \ {x.obj} |-> metas[e]]
        /\ podCache' = podCache
    BY <1>6 DEF Handle
  <2>2. x.obj \in Deployments /\ x.gen \in Nat
    BY <1>2, <1>6 DEF EventOf, ObjectsOf
  <2>3. DOMAIN metas' \subseteq Deployments /\ \A d \in DOMAIN metas' : metas'[d] \in Nat
    BY <1>4, <2>1, <2>2 DEF PutMeta
  <2>4. ASSUME NEW o \in Deployments
        PROVE  Cached("deployments", o)' = IF o = x.obj THEN Says(x) ELSE Cached("deployments", o)
    BY <2>1, <2>2 DEF Cached, Says, PutMeta
  <2>5. ASSUME NEW o PROVE Cached("pods", o)' = Cached("pods", o)
    BY <2>1 DEF Cached
  <2> QED
    BY <1>1, <1>2, <1>3, <1>4, <1>6, <2>1, <2>3, <2>4, <2>5 DEF Loops, ObjectsOf
<1> QED
  BY <1>5, <1>6 DEF Loops

LEMMA HandleKeeps ==
  ASSUME OwnersInv, NEW l \in Loops, Handle(l)
  PROVE  OwnersInv'
<1> USE PodOwnersAssumption
<1> DEFINE x == Head(loop[l].left)
<1>1. /\ loop[l].at = "watch" /\ x \in EventOf(l) /\ x \in Event /\ x.obj \in ObjectsOf(l)
      /\ podCache' \subseteq PodNames /\ DOMAIN metas' \subseteq Deployments
      /\ \A d \in DOMAIN metas' : metas'[d] \in Nat
      /\ \A k \in Loops : \A o \in ObjectsOf(k) :
            Cached(k, o)' = IF k = l /\ o = x.obj THEN Says(x) ELSE Cached(k, o)
  BY HandlingTells
<1>2. /\ loop[l].left # <<>> /\ stale' = stale \ {x.obj}
      /\ loop' = [loop EXCEPT ![l].left = Tail(@)]
      /\ UNCHANGED <<podsThere, specs, rolled>>
      /\ l # "pods" => RecordChange(x)
      /\ l = "pods" => changes' = changes
  BY DEF Handle
<1>3. OwnersType
  BY DEF OwnersInv
<1>4. /\ loop[l].left \in Seq(Event) /\ loop[l].left \in Seq(EventOf(l))
      /\ loop[l] \in [at : {"list", "watch"}, left : Seq(Event)]
  BY <1>3 DEF OwnersType
<1> HIDE DEF Event, EventOf, x
<1>5. \A k \in Loops : /\ loop'[k].at = loop[k].at
                       /\ loop'[k].left = IF k = l THEN Tail(loop[l].left) ELSE loop[k].left
  BY <1>2, <1>3, <1>4 DEF OwnersType
<1>6. OwnersType'
  <2>1. /\ Tail(loop[l].left) \in Seq(Event) /\ Tail(loop[l].left) \in Seq(EventOf(l))
    BY <1>2, <1>4
  <2>2. loop' \in [Loops -> [at : {"list", "watch"}, left : Seq(Event)]]
    <3> DEFINE q == Tail(loop[l].left)
    <3>1. loop' = [loop EXCEPT ![l] = [loop[l] EXCEPT !.left = q]]
      BY <1>2, <1>3 DEF OwnersType
    <3> HIDE DEF q
    <3>2. [loop[l] EXCEPT !.left = q] \in [at : {"list", "watch"}, left : Seq(Event)]
      BY <1>4, <2>1 DEF q
    <3> QED
      BY <1>3, <3>1, <3>2 DEF OwnersType
  <2>3. \A k \in Loops : loop'[k].left \in Seq(EventOf(k))
    BY <1>3, <1>5, <2>1 DEF OwnersType
  <2>4. \A k \in Loops : loop'[k].at = "list" => loop'[k].left = <<>>
    BY <1>1, <1>3, <1>5 DEF OwnersType
  <2>5. changes' \in Seq(Deployments)
    <3>1. CASE l = "pods"
      BY <1>2, <1>3, <3>1 DEF OwnersType
    <3>2. CASE l # "pods"
      <4>1. RecordChange(x) /\ x.obj \in Deployments
        BY <1>1, <1>2, <3>2 DEF ObjectsOf
      <4> QED
        BY <1>1, <1>3, <4>1, RecordKeeps
    <3> QED
      BY <3>1, <3>2
  <2> QED
    BY <1>1, <1>2, <1>3, <2>2, <2>3, <2>4, <2>5 DEF OwnersType
<1>7. WatchesTell'
  <2> SUFFICES ASSUME NEW k \in Loops, loop'[k].at = "watch", NEW o \in ObjectsOf(k)
               PROVE  Hears(k, o)'
    BY DEF WatchesTell
  <2>1. Hears(k, o) /\ loop[k].left \in Seq(Event)
    BY <1>3, <1>5 DEF OwnersInv, OwnersType, WatchesTell
  <2>2. There(k, o)' = There(k, o)
    BY <1>2 DEF There
  <2>3. Cached(k, o)' = IF k = l /\ o = x.obj THEN Says(x) ELSE Cached(k, o)
    BY <1>1
  <2> HIDE DEF There, Cached, Says, Tells
  <2>4. CASE k # l
    <3>1. loop'[k].left = loop[k].left
      BY <1>5, <2>4
    <3>2. o # x.obj
      BY <1>1, <2>4 DEF ObjectsOf, Loops
    <3> QED
      BY <1>2, <2>1, <2>2, <2>3, <2>4, <3>1, <3>2 DEF Hears
  <2>5. CASE k = l
    <3> DEFINE s == loop[l].left
               t == Tail(s)
    <3>1. loop'[k].left = t
      BY <1>5, <2>5
    <3>2. Tells(s, o, Cached(k, o), There(k, o))
            => Tells(t, o, Cached(k, o)', There(k, o)')
      <4>1. Tells(s, o, Cached(k, o), There(k, o))
              <=> Tells(t, o, IF x.obj = o THEN Says(x) ELSE Cached(k, o), There(k, o))
        BY <1>2, <1>4, TellsTail DEF x
      <4>2. Cached(k, o)' = IF x.obj = o THEN Says(x) ELSE Cached(k, o)
        BY <2>3, <2>5
      <4> QED
        BY <2>2, <4>1, <4>2
    <3>3. (\A i \in 1..Len(s) : s[i].obj # o)
             => o # x.obj /\ \A i \in 1..Len(t) : t[i].obj # o
      <4>1. /\ Len(s) \in Nat \ {0} /\ x = s[1] /\ Len(t) = Len(s) - 1
            /\ \A i \in 1..Len(t) : t[i] = s[i + 1] /\ i + 1 \in 1..Len(s)
        BY <1>2, <1>4 DEF x
      <4> HIDE DEF s, t
      <4> QED
        BY <4>1
    <3> HIDE DEF t
    <3>4. Hears(k, o) => \/ Tells(s, o, Cached(k, o), There(k, o))
                         \/ /\ There(k, o) = Absent /\ o \in stale
                            /\ \A i \in 1..Len(s) : s[i].obj # o
      BY <2>5 DEF Hears
    <3> HIDE DEF s
    <3> QED
      BY <1>2, <2>1, <2>2, <3>1, <3>2, <3>3, <3>4 DEF Hears
  <2> QED
    BY <2>4, <2>5
<1>8. ChangesAreRolls'
  <2> SUFFICES ASSUME NEW d \in Deployments
               PROVE  Times(d)' + Cardinality(Changing(d)') <= rolled'[d]
    BY DEF ChangesAreRolls
  <2> DEFINE s == loop["deployments"].left
             start == Cached("deployments", d)
  <2>1. "deployments" \in Loops /\ s \in Seq(Event) /\ d \in ObjectsOf("deployments")
    BY <1>3 DEF Loops, OwnersType, ObjectsOf
  <2>2. Times(d) + Cardinality(Changing(d)) <= rolled[d]
    BY DEF OwnersInv, ChangesAreRolls
  <2>3. rolled'[d] = rolled[d] /\ rolled[d] \in Nat
    BY <1>2, <1>3 DEF OwnersType
  <2>4. Changing(d) = ToCount(s, d, start)
    BY DEF Changing
  <2>5. Changing(d)' = ToCount(loop'["deployments"].left, d, Cached("deployments", d)')
    BY DEF Changing
  <2>6. Cached("deployments", d)' = IF l = "deployments" /\ d = x.obj THEN Says(x) ELSE start
    BY <1>1, <2>1
  <2>7. start \in Int
    BY <1>3 DEF OwnersType, Cached, Absent
  <2> HIDE DEF s, start, ToCount, Times, Changing
  <2>8. CASE l = "pods"
    <3>1. loop'["deployments"].left = s
      BY <1>5, <2>1, <2>8 DEF s
    <3>2. Changing(d)' = Changing(d)
      BY <2>4, <2>5, <2>6, <2>8, <3>1
    <3>3. Times(d)' = Times(d)
      BY <1>2, <2>8 DEF Times
    <3> QED
      BY <2>2, <2>3, <3>2, <3>3
  <2>9. CASE l = "deployments"
    <3>1. loop'["deployments"].left = Tail(s) /\ x = Head(s) /\ s # <<>>
      BY <1>2, <1>5, <2>1, <2>9 DEF s, x
    <3> DEFINE next == IF Head(s).obj = d THEN Says(Head(s)) ELSE start
    <3>2. /\ Cardinality(ToCount(Tail(s), d, next)) <= Cardinality(ToCount(s, d, start))
          /\ (/\ Head(s).obj = d /\ Head(s).type = "put" /\ Head(s).watched
              /\ start # Absent /\ start # Head(s).gen)
               => Cardinality(ToCount(Tail(s), d, next)) + 1 <= Cardinality(ToCount(s, d, start))
      BY <2>1, <2>7, <3>1, ToCountTail
    <3>3. Changing(d)' = ToCount(Tail(s), d, next)
      BY <2>5, <2>6, <2>9, <3>1
    <3>4. /\ Cardinality(Changing(d)) \in Nat /\ Cardinality(Changing(d)') \in Nat
      <4>1. Tail(s) \in Seq(Event)
        BY <2>1, <3>1
      <4> QED
        BY <2>1, <2>4, <3>3, <4>1, ToCountFinite
    <3>5. /\ Times(d) \in Nat /\ Times(d)' \in Nat /\ Times(d)' <= Times(d) + 1
          /\ (~(/\ x.obj = d /\ x.type = "put" /\ x.watched
                /\ start # Absent /\ start # x.gen)) => Times(d)' <= Times(d)
      <4>1. RecordChange(x) /\ x.obj \in Deployments
        BY <1>1, <1>2, <2>9 DEF ObjectsOf
      <4> QED
        BY <1>1, <1>3, <4>1, RecordKeeps DEF start
    <3> HIDE DEF next
    <3> QED
      BY <2>2, <2>3, <2>4, <3>1, <3>2, <3>3, <3>4, <3>5
  <2> QED
    BY <2>8, <2>9 DEF Loops
<1> QED
  BY <1>6, <1>7, <1>8 DEF OwnersInv

LEMMA BreaksKeeps ==
  ASSUME OwnersInv, NEW l \in Loops, Breaks(l)
  PROVE  OwnersInv'
<1>1. /\ loop' = [loop EXCEPT ![l] = [at |-> "list", left |-> <<>>]]
      /\ UNCHANGED <<podsThere, specs, podCache, metas, changes, rolled, stale>>
  BY DEF Breaks, cacheVars
<1>2. OwnersType
  BY DEF OwnersInv
<1> HIDE DEF Event, EventOf
<1>3. \A k \in Loops : loop'[k] = IF k = l THEN [at |-> "list", left |-> <<>>] ELSE loop[k]
  BY <1>1, <1>2 DEF OwnersType
<1>4. OwnersType'
  <2>1. <<>> \in Seq(Event) /\ \A k \in Loops : <<>> \in Seq(EventOf(k))
    OBVIOUS
  <2>2. loop' \in [Loops -> [at : {"list", "watch"}, left : Seq(Event)]]
    BY <1>1, <1>2, <2>1 DEF OwnersType
  <2>3. ASSUME NEW k \in Loops
        PROVE  /\ loop'[k].left \in Seq(EventOf(k))
               /\ loop'[k].at = "list" => loop'[k].left = <<>>
    <3>1. CASE k = l
      <4>1. loop'[k].left = <<>>
        BY <1>3, <3>1
      <4>2. <<>> \in Seq(EventOf(k))
        OBVIOUS
      <4> QED
        BY <4>1, <4>2
    <3>2. CASE k # l
      BY <1>2, <1>3, <3>2 DEF OwnersType
    <3> QED
      BY <3>1, <3>2
  <2> QED
    BY <1>1, <1>2, <2>2, <2>3 DEF OwnersType
<1>5. WatchesTell'
  <2> SUFFICES ASSUME NEW k \in Loops, loop'[k].at = "watch", NEW o \in ObjectsOf(k)
               PROVE  Hears(k, o)'
    BY DEF WatchesTell
  <2>1. loop'[k] = loop[k] /\ Hears(k, o)
    BY <1>3 DEF OwnersInv, WatchesTell
  <2>2. There(k, o)' = There(k, o) /\ Cached(k, o)' = Cached(k, o)
    BY <1>1 DEF There, Cached
  <2> HIDE DEF There, Cached, Tells
  <2> QED
    BY <1>1, <2>1, <2>2 DEF Hears
<1>6. ChangesAreRolls'
  <2> SUFFICES ASSUME NEW d \in Deployments
               PROVE  Times(d)' + Cardinality(Changing(d)') <= rolled'[d]
    BY DEF ChangesAreRolls
  <2> DEFINE s == loop["deployments"].left
             start == Cached("deployments", d)
  <2>1. "deployments" \in Loops /\ s \in Seq(Event) /\ changes \in Seq(Deployments)
    BY <1>2 DEF Loops, OwnersType
  <2>2. /\ Times(d) + Cardinality(Changing(d)) <= rolled[d]
        /\ rolled'[d] = rolled[d] /\ rolled[d] \in Nat
    BY <1>1, <1>2 DEF OwnersInv, OwnersType, ChangesAreRolls
  <2>3. Times(d)' = Times(d) /\ Times(d) \in Nat
    BY <1>1, <2>1, TimesAreFinite DEF Times
  <2>4. Cached("deployments", d)' = start
    BY <1>1 DEF Cached
  <2>5. Changing(d) = ToCount(s, d, start)
    BY DEF Changing
  <2> HIDE DEF start
  <2>6. Changing(d)' = ToCount(loop'["deployments"].left, d, start)
    BY <2>4 DEF Changing
  <2> HIDE DEF s, ToCount
  <2>7. Cardinality(Changing(d)) \in Nat
    BY <2>1, <2>5, ToCountFinite
  <2>8. Cardinality(Changing(d)') <= Cardinality(Changing(d)) /\ Cardinality(Changing(d)') \in Nat
    <3>1. CASE l = "deployments"
      <4>1. Changing(d)' = ToCount(<<>>, d, start)
        BY <1>3, <2>1, <2>6, <3>1
      <4>2. ToCount(<<>>, d, start) = {}
        BY DEF ToCount
      <4>3. Cardinality(Changing(d)') = 0
        BY <4>1, <4>2, FS_EmptySet
      <4> QED
        BY <2>7, <4>3
    <3>2. CASE l # "deployments"
      <4>1. Changing(d)' = Changing(d)
        BY <1>3, <2>1, <2>5, <2>6, <3>2 DEF s
      <4> QED
        BY <2>7, <4>1
    <3> QED
      BY <3>1, <3>2
  <2> QED
    BY <2>2, <2>3, <2>7, <2>8
<1> QED
  BY <1>4, <1>5, <1>6 DEF OwnersInv

LEMMA OwnersStep == OwnersInv /\ [PodOwnersNext]_podOwnerVars => OwnersInv'
<1> SUFFICES ASSUME OwnersInv, [PodOwnersNext]_podOwnerVars PROVE OwnersInv'
  OBVIOUS
<1>1. CASE \E p \in PodNames : PodStarted(p) \/ PodEnded(p)
  BY <1>1, PodsKeep
<1>2. CASE \E d \in Deployments : Applied(d) \/ StatusMoved(d) \/ Removed(d)
  BY <1>2, DeploymentsKeep
<1>3. CASE \E l \in Loops : ListAll(l) \/ Handle(l) \/ Breaks(l)
  BY <1>3, ListKeeps, HandleKeeps, BreaksKeeps
<1>4. CASE UNCHANGED podOwnerVars
  <2>1. UNCHANGED <<podsThere, specs, loop, podCache, metas, changes, rolled, stale>>
    BY <1>4 DEF podOwnerVars
  <2>2. OwnersType'
    BY <2>1 DEF OwnersInv, OwnersType
  <2>3. WatchesTell'
    BY <2>1 DEF OwnersInv, WatchesTell, Hears, There, Cached
  <2>4. ChangesAreRolls'
    BY <2>1 DEF OwnersInv, ChangesAreRolls, Times, Changing, Cached
  <2> QED
    BY <2>2, <2>3, <2>4 DEF OwnersInv
<1> QED
  BY <1>1, <1>2, <1>3, <1>4 DEF PodOwnersNext

(* The metadata cache (cache.go, metadata.go, changes.go), over any        *)
(* interleaving of the cluster, the two loops, and lists and watches that   *)
(* fail at any point: a loop whose watch has nothing left to handle has     *)
(* every object at its generation, and besides only what was deleted while  *)
(* no watch was open; and recordChange has told of a Deployment no more     *)
(* often than it was given a specification.                                 *)
THEOREM CacheAlwaysTheCluster == PodOwnersSpec => []CacheIsTheCluster
<1>1. OwnersInv => CacheIsTheCluster
  <2> SUFFICES ASSUME OwnersInv PROVE CacheIsTheCluster
    OBVIOUS
  <2> USE PodOwnersAssumption
  <2>1. ASSUME NEW l \in Loops, Quiet(l), NEW o \in ObjectsOf(l)
        PROVE  There(l, o) = Cached(l, o) \/ (There(l, o) = Absent /\ o \in stale)
    <3>1. loop[l].at = "watch" /\ loop[l].left = <<>> /\ Hears(l, o)
      BY <2>1 DEF Quiet, OwnersInv, WatchesTell
    <3> HIDE DEF There, Cached, Tells
    <3> QED
      BY <3>1, TellsOfNone DEF Hears
  <2>2. ASSUME Quiet("pods") PROVE podsThere \subseteq podCache /\ podCache \ podsThere \subseteq stale
    <3>1. podsThere \subseteq PodNames /\ podCache \subseteq PodNames
      BY DEF OwnersInv, OwnersType
    <3> QED
      BY <2>1, <2>2, <3>1 DEF There, Cached, Absent, ObjectsOf, Loops
  <2>3. ASSUME Quiet("deployments")
        PROVE  /\ \A d \in DOMAIN specs : GetWorkloadMeta(d).gen = specs[d]
               /\ DOMAIN metas \ DOMAIN specs \subseteq stale
    <3>1. /\ DOMAIN specs \subseteq Deployments /\ DOMAIN metas \subseteq Deployments
          /\ \A d \in DOMAIN specs : specs[d] \in Nat
          /\ \A d \in DOMAIN metas : metas[d] \in Nat
      BY DEF OwnersInv, OwnersType
    <3>2. \A d \in DOMAIN specs : d \in DOMAIN metas /\ metas[d] = specs[d]
      BY <2>1, <2>3, <3>1 DEF There, Cached, Absent, ObjectsOf, Loops
    <3>3. DOMAIN metas \ DOMAIN specs \subseteq stale
      BY <2>1, <2>3, <3>1 DEF There, Cached, Absent, ObjectsOf, Loops
    <3> QED
      BY <3>2, <3>3 DEF GetWorkloadMeta
  <2>4. ASSUME NEW d \in Deployments PROVE Times(d) <= rolled[d]
    <3>1. Times(d) + Cardinality(Changing(d)) <= rolled[d] /\ rolled[d] \in Nat
      BY DEF OwnersInv, OwnersType, ChangesAreRolls
    <3>2. Times(d) \in Nat
      BY TimesAreFinite DEF Times, OwnersInv, OwnersType
    <3>3. Cardinality(Changing(d)) \in Nat
      BY ToCountFinite DEF Changing, OwnersInv, OwnersType, Loops
    <3> QED
      BY <3>1, <3>2, <3>3
  <2> QED
    BY <2>2, <2>3, <2>4 DEF CacheIsTheCluster
<1> QED
  BY <1>1, OwnersStart, OwnersStep, PTL DEF PodOwnersSpec

----------------------------------------------------------------------------
(***************************************************************************)
(* What is remembered of ruptures.  The debounce of a workload is the time *)
(* of its latest fingerprint, so a rupture it holds back has one.          *)
(***************************************************************************)
MemoryType ==
  /\ turn \in Nat
  /\ nearMisses \in [Remembered -> SUBSET Int]
  /\ prints \subseteq [id : Nat, of : Remembered, at : Nat, shape : Shapes]
  /\ IsFiniteSet(prints)
  /\ lastRecorded \in [Remembered -> Nat \cup {Never}]
  /\ ruptures \subseteq [of : Remembered, at : Nat]

LatestIsRecorded ==
  /\ \A f \in prints : lastRecorded[f.of] # Never /\ f.at <= lastRecorded[f.of]
  /\ \A w \in Remembered : lastRecorded[w] # Never =>
       lastRecorded[w] <= turn /\ \E f \in prints : f.of = w /\ f.at = lastRecorded[w]

RupturesHavePrints ==
  \A r \in ruptures : \E f \in prints : f.of = r.of /\ f.at <= r.at /\ r.at - f.at < Debounce

PrintsAreApart ==
  \A f, g \in prints : f.of = g.of /\ f # g =>
    f.at - g.at >= Debounce \/ g.at - f.at >= Debounce

DebtsGoWithWorkload ==
  /\ inNearMiss \subseteq registered
  /\ \A w \in Remembered \ registered : nearMisses[w] = {}

MemoryInv ==
  MemoryType /\ LatestIsRecorded /\ RupturesHavePrints /\ PrintsAreApart /\ DebtsGoWithWorkload

LEMMA FeedKeeps ==
  ASSUME MemoryInv, NEW w \in Remembered, NEW band \in Bands, NEW shape \in Shapes,
         Feed(w, band, shape)
  PROVE  MemoryInv'
<1> USE MemoryAssumption
<1> DEFINE new == [id |-> Cardinality(prints) + 1, of |-> w, at |-> turn, shape |-> shape]
<1>1. MemoryType /\ turn' = turn
  BY DEF MemoryInv, Feed
<1>2. /\ registered' = registered \cup {w}
      /\ inNearMiss' \subseteq inNearMiss \cup {w}
      /\ nearMisses' \in [Remembered -> SUBSET Int]
      /\ \A v \in Remembered \ {w} : nearMisses'[v] = nearMisses[v]
  BY <1>1 DEF Feed, UpdateFusedR, Bands, MemoryType
<1>3. DebtsGoWithWorkload'
  BY <1>2 DEF MemoryInv, DebtsGoWithWorkload
<1>4. /\ ruptures' = IF band = "rupture" THEN ruptures \cup {[of |-> w, at |-> turn]} ELSE ruptures
      /\ ruptures' \subseteq [of : Remembered, at : Nat]
  BY <1>1 DEF Feed, MemoryType
<1>5. CASE band = "rupture" /\ ~Debounced(w)
  <2>1. prints' = prints \cup {new} /\ lastRecorded' = [lastRecorded EXCEPT ![w] = turn]
    BY <1>5 DEF Feed, MaybeRecord
  <2>2. new \in [id : Nat, of : Remembered, at : Nat, shape : Shapes] /\ new.of = w /\ new.at = turn
    <3>1. Cardinality(prints) \in Nat
      BY <1>1, FS_CardinalityType DEF MemoryType
    <3> QED
      BY <1>1, <3>1 DEF MemoryType
  <2> HIDE DEF new
  <2>3. MemoryType'
    <3>1. IsFiniteSet(prints')
      BY <1>1, <2>1, FS_AddElement DEF MemoryType
    <3> QED
      BY <1>1, <1>2, <1>4, <2>1, <2>2, <3>1 DEF MemoryType
  <2>4. \A v \in Remembered : lastRecorded'[v] = IF v = w THEN turn ELSE lastRecorded[v]
    BY <1>1, <2>1 DEF MemoryType
  <2>5. \A f \in prints : /\ f.of \in Remembered /\ f.at \in Nat /\ f.at <= turn
                          /\ f.of = w => turn - f.at >= Debounce
    <3> SUFFICES ASSUME NEW f \in prints
                 PROVE  /\ f.of \in Remembered /\ f.at \in Nat /\ f.at <= turn
                        /\ f.of = w => turn - f.at >= Debounce
      OBVIOUS
    <3>1. f.of \in Remembered /\ f.at \in Nat /\ turn \in Nat
      BY <1>1 DEF MemoryType
    <3>2. /\ lastRecorded[f.of] # Never /\ f.at <= lastRecorded[f.of] /\ lastRecorded[f.of] <= turn
          /\ lastRecorded[f.of] \in Nat
      BY <1>1, <3>1 DEF MemoryInv, LatestIsRecorded, MemoryType
    <3>3. f.of = w => turn - lastRecorded[w] >= Debounce
      BY <1>5, <3>1, <3>2 DEF Debounced
    <3> QED
      BY <3>1, <3>2, <3>3
  <2>6. LatestIsRecorded'
    <3>1. \A f \in prints' : lastRecorded'[f.of] # Never /\ f.at <= lastRecorded'[f.of]
      BY <1>1, <2>1, <2>2, <2>4, <2>5 DEF MemoryInv, LatestIsRecorded, MemoryType
    <3>2. \A v \in Remembered : lastRecorded'[v] # Never =>
            lastRecorded'[v] <= turn' /\ \E f \in prints' : f.of = v /\ f.at = lastRecorded'[v]
      BY <1>1, <2>1, <2>2, <2>4 DEF MemoryInv, LatestIsRecorded, MemoryType
    <3> QED
      BY <3>1, <3>2 DEF LatestIsRecorded
  <2>7. RupturesHavePrints'
    BY <1>1, <1>4, <2>1, <2>2 DEF MemoryInv, RupturesHavePrints, MemoryType
  <2>8. PrintsAreApart'
    BY <2>1, <2>2, <2>5 DEF MemoryInv, PrintsAreApart
  <2> QED
    BY <1>3, <2>3, <2>6, <2>7, <2>8 DEF MemoryInv
<1>6. CASE ~(band = "rupture" /\ ~Debounced(w))
  <2>1. UNCHANGED <<prints, lastRecorded>>
    BY <1>6 DEF Feed, MaybeRecord
  <2>2. MemoryType' /\ LatestIsRecorded' /\ PrintsAreApart'
    BY <1>1, <1>2, <1>4, <2>1 DEF MemoryInv, MemoryType, LatestIsRecorded, PrintsAreApart
  <2>3. ASSUME band = "rupture"
        PROVE  \E f \in prints : f.of = w /\ f.at <= turn /\ turn - f.at < Debounce
    <3>1. lastRecorded[w] # Never /\ turn - lastRecorded[w] < Debounce
      BY <1>6, <2>3 DEF Debounced
    <3>2. PICK f \in prints : f.of = w /\ f.at = lastRecorded[w]
      BY <3>1 DEF MemoryInv, LatestIsRecorded
    <3>3. lastRecorded[w] <= turn
      BY <3>1 DEF MemoryInv, LatestIsRecorded
    <3> QED
      BY <3>1, <3>2, <3>3
  <2>4. RupturesHavePrints'
    BY <1>4, <2>1, <2>3 DEF MemoryInv, RupturesHavePrints
  <2> QED
    BY <1>3, <2>2, <2>4 DEF MemoryInv
<1> QED
  BY <1>5, <1>6

LEMMA MemoryStart == MemoryInit => MemoryInv
  BY MemoryAssumption, FS_EmptySet
     DEF MemoryInit, MemoryInv, MemoryType, LatestIsRecorded, RupturesHavePrints, PrintsAreApart,
         DebtsGoWithWorkload

LEMMA MemoryStep == MemoryInv /\ [MemoryNext]_memoryVars => MemoryInv'
<1> SUFFICES ASSUME MemoryInv, [MemoryNext]_memoryVars PROVE MemoryInv'
  OBVIOUS
<1> USE MemoryAssumption
<1>1. CASE \E w \in Remembered, band \in Bands, shape \in Shapes : Feed(w, band, shape)
  BY <1>1, FeedKeeps
<1>2. ASSUME NEW w \in Remembered, Forget(w) PROVE MemoryInv'
  <2>1. /\ UNCHANGED <<turn, prints, lastRecorded, ruptures>>
        /\ nearMisses' = [nearMisses EXCEPT ![w] = {}]
        /\ registered' = registered \ {w} /\ inNearMiss' = inNearMiss \ {w}
    BY <1>2 DEF Forget
  <2>2. MemoryType'
    BY <2>1 DEF MemoryInv, MemoryType
  <2>3. DebtsGoWithWorkload'
    BY <2>1 DEF MemoryInv, MemoryType, DebtsGoWithWorkload
  <2> QED
    BY <2>1, <2>2, <2>3 DEF MemoryInv, LatestIsRecorded, RupturesHavePrints, PrintsAreApart
<1>3. CASE TurnPasses
  <2>1. /\ turn \in Nat /\ turn' = turn + 1
        /\ UNCHANGED <<registered, inNearMiss, nearMisses, prints, lastRecorded, ruptures>>
    BY <1>3 DEF TurnPasses, MemoryInv, MemoryType
  <2>2. MemoryType'
    BY <2>1 DEF MemoryInv, MemoryType
  <2>3. LatestIsRecorded'
    BY <2>1 DEF MemoryInv, MemoryType, LatestIsRecorded
  <2> QED
    BY <2>1, <2>2, <2>3 DEF MemoryInv, RupturesHavePrints, PrintsAreApart, DebtsGoWithWorkload
<1>4. CASE MemoryRestart
  BY <1>4, FS_EmptySet
     DEF MemoryRestart, MemoryInv, MemoryType, LatestIsRecorded, RupturesHavePrints, PrintsAreApart,
         DebtsGoWithWorkload
<1>5. CASE UNCHANGED memoryVars
  BY <1>5 DEF memoryVars, MemoryInv, MemoryType, LatestIsRecorded, RupturesHavePrints,
              PrintsAreApart, DebtsGoWithWorkload
<1> QED
  BY <1>1, <1>2, <1>3, <1>4, <1>5 DEF MemoryNext

LEMMA MemoryHolds == MemoryInv => RupturesAreRemembered
<1> SUFFICES ASSUME MemoryInv PROVE RupturesAreRemembered
  OBVIOUS
<1>1. \A f \in prints : \A w : f.of = w => f \in Matches(w, f.shape)
  BY DEF Matches
<1>2. ASSUME NEW w \in Remembered \ registered PROVE RecoveryDebt(w) = 0
  <2>1. {at \in nearMisses[w] : turn - at < DebtWindow} = {}
    BY DEF MemoryInv, DebtsGoWithWorkload
  <2> QED
    BY <2>1, FS_EmptySet DEF RecoveryDebt
<1>3. \A r \in ruptures : \E f \in prints :
        f.of = r.of /\ f.at <= r.at /\ r.at - f.at < Debounce /\ f \in Matches(r.of, f.shape)
  BY <1>1 DEF MemoryInv, RupturesHavePrints
<1> QED
  BY <1>2, <1>3 DEF RupturesAreRemembered, MemoryInv, PrintsAreApart, DebtsGoWithWorkload

(* The analyzer's memory of ruptures (UpdateFusedR and RecoveryDebt in     *)
(* business.go, maybeRecord and match in fingerprint.go), over any feeds,  *)
(* deletions and restarts: a rupture that was fed in has a fingerprint of  *)
(* its workload no older than the debounce, which is matched with it,      *)
(* fingerprints of a workload are a debounce apart, and neither a near     *)
(* miss nor its debt outlives the workload.                                *)
THEOREM RupturesStayRemembered == MCSpec => []RupturesAlwaysRemembered
<1>1. MCInit => MemoryInv
  BY MemoryStart DEF MCInit
<1>2. MemoryInv /\ [MCNext]_<<part, vars, fusionVars, podOwnerVars, graphVars, Rest>> => MemoryInv'
  <2> SUFFICES ASSUME MemoryInv, [MCNext]_<<part, vars, fusionVars, podOwnerVars, graphVars, Rest>>
               PROVE  MemoryInv'
    OBVIOUS
  <2>1. MemoryNext \/ UNCHANGED memoryVars
    BY DEF MCNext, Rest
  <2> QED
    BY <2>1, MemoryStep
<1>3. MemoryInv => RupturesAlwaysRemembered
  BY MemoryHolds DEF RupturesAlwaysRemembered
<1> QED
  BY <1>1, <1>2, <1>3, PTL DEF MCSpec

----------------------------------------------------------------------------
(***************************************************************************)
(* The comparison of releases: a mark is as old as the run of reads that   *)
(* found the pod to grow, none of them to the contrary, and a pod that is  *)
(* forgotten, or the engine, starts again.                                 *)
(***************************************************************************)
RunsAreMarked ==
  /\ tracked \in [Replicas -> Replica \cup {Unmarked}]
  /\ \A p \in Replicas :
       /\ tracked[p] = Unmarked => run[p] = NoRun[p]
       /\ tracked[p] # Unmarked =>
            run[p] = [release |-> tracked[p].since, siblings |-> tracked[p].apart]

ReleasesInv == RunsAreMarked /\ ReleasesAreSustained

LEMMA OlderTypes ==
  ASSUME NEW s \in Replica
  PROVE  /\ OlderReplica(s) \in Replica
         /\ OlderReplica(s).since = OneOlder(s.since)
         /\ OlderReplica(s).apart = OneOlder(s.apart)
<1>1. /\ s.first \in Nat /\ OneOlder(s.first) \in Nat
      /\ OneOlder(s.since) \in Nat \cup {Unmarked} /\ OneOlder(s.apart) \in Nat \cup {Unmarked}
      /\ {OneOlder(a) : a \in s.log} \ {Eldest} \in SUBSET Nat
  BY ReleasesAssumption DEF Replica, OneOlder
<1> DEFINE log == {OneOlder(a) : a \in s.log} \ {Eldest}
<1>2. OlderReplica(s) = [s EXCEPT !.first = OneOlder(s.first), !.since = OneOlder(s.since),
                                  !.apart = OneOlder(s.apart), !.log = log]
  BY DEF OlderReplica, Replica
<1>3. log \in SUBSET Nat
  BY <1>1
<1> HIDE DEF log
<1> QED
  BY <1>1, <1>2, <1>3 DEF Replica

LEMMA AgedTypes ==
  ASSUME RunsAreMarked, NEW p \in Replicas
  PROVE  /\ Aged(p) \in Replica
         /\ Aged(p).since = OneOlder(run[p].release)
         /\ Aged(p).apart = OneOlder(run[p].siblings)
<1> USE ReleasesAssumption
<1>1. CASE tracked[p] = Unmarked
  <2>1. run[p] = [release |-> Unmarked, siblings |-> Unmarked]
    BY <1>1 DEF RunsAreMarked, NoRun
  <2>2. Aged(p) = NewReplica(p)
    BY <1>1 DEF Aged
  <2>3. NewReplica(p) \in Replica /\ NewReplica(p).since = Unmarked /\ NewReplica(p).apart = Unmarked
    BY DEF NewReplica, Replica, Versions
  <2> QED
    BY <2>1, <2>2, <2>3 DEF OneOlder
<1>2. CASE tracked[p] # Unmarked
  <2>1. /\ tracked[p] \in Replica /\ Aged(p) = OlderReplica(tracked[p])
        /\ run[p] = [release |-> tracked[p].since, siblings |-> tracked[p].apart]
    BY <1>2 DEF RunsAreMarked, Aged
  <2> QED
    BY <2>1, OlderTypes
<1> QED
  BY <1>1, <1>2

LEMMA PollMarks ==
  ASSUME RunsAreMarked, NEW S \in SUBSET Replicas, NEW limited \in BOOLEAN, PollReleases(S, limited)
  PROVE  RunsAreMarked'
<1> USE ReleasesAssumption
<1>0. tracked' = [p \in Replicas |-> tracked'[p]]
  BY DEF PollReleases
<1> SUFFICES ASSUME NEW p \in Replicas
             PROVE  /\ tracked'[p] \in Replica \cup {Unmarked}
                    /\ tracked'[p] = Unmarked => run'[p] = NoRun[p]
                    /\ tracked'[p] # Unmarked =>
                         run'[p] = [release |-> tracked'[p].since, siblings |-> tracked'[p].apart]
  BY <1>0 DEF RunsAreMarked
<1> DEFINE s == Aged(p)
<1>1. /\ s \in Replica /\ s.since = OneOlder(run[p].release) /\ s.apart = OneOlder(run[p].siblings)
  BY AgedTypes
<1> HIDE DEF s
<1>2. /\ ObserveRelease(s, limited) \in Replica
      /\ ObserveRelease(s, limited).since = s.since /\ ObserveRelease(s, limited).apart = s.apart
  <2> DEFINE log == s.log \cup {0}
  <2>1. log \in SUBSET Nat
    BY <1>1 DEF Replica
  <2>2. ObserveRelease(s, limited) = [s EXCEPT !.log = log, !.limited = limited]
    BY <1>1 DEF ObserveRelease, Replica
  <2> HIDE DEF log
  <2> QED
    BY <1>1, <2>1, <2>2 DEF Replica
<1>3. tracked'[p] \in {ObserveRelease(s, limited), s, Unmarked}
  BY DEF PollReleases, s
<1>4. run'[p] = IF tracked'[p] = Unmarked THEN NoRun[p]
                ELSE [release |-> OneOlder(run[p].release), siblings |-> OneOlder(run[p].siblings)]
  BY DEF PollReleases
<1> QED
  BY <1>1, <1>2, <1>3, <1>4

(* What a read marks is what it finds, or what the mark was.               *)
LEMMA MarksFollow ==
  ASSUME RunsAreMarked, NEW p \in Replicas, tracked[p] # Unmarked,
         NEW refreshed, NEW pace, NEW newest, NEW before
  PROVE  LET m == Marked(refreshed, pace, newest, before)[p]
         IN  /\ m \in Replica
             /\ m.since = IF before # Unmarked /\ p \in Comparable(newest)
                          THEN RunOn(Regressing(p, pace, refreshed[before].rate), run[p].release)
                          ELSE run[p].release
             /\ m.apart = IF Judged(p) THEN RunOn(StandsOut(p, pace), run[p].siblings)
                          ELSE run[p].siblings
<1> USE ReleasesAssumption
<1> DEFINE s == tracked[p]
           since == IF before # Unmarked /\ p \in Comparable(newest)
                    THEN Mark(Regressing(p, pace, refreshed[before].rate), s.since) ELSE s.since
           apart == IF Judged(p) THEN Mark(StandsOut(p, pace), s.apart) ELSE s.apart
<1>1. s \in Replica /\ run[p] = [release |-> s.since, siblings |-> s.apart]
  BY DEF RunsAreMarked
<1>2. since \in Nat \cup {Unmarked} /\ apart \in Nat \cup {Unmarked}
  BY <1>1 DEF Mark, Replica
<1>3. Marked(refreshed, pace, newest, before)[p] = [s EXCEPT !.since = since, !.apart = apart]
  BY <1>1 DEF Marked, Replica
<1>4. /\ since = IF before # Unmarked /\ p \in Comparable(newest)
                 THEN RunOn(Regressing(p, pace, refreshed[before].rate), run[p].release)
                 ELSE run[p].release
      /\ apart = IF Judged(p) THEN RunOn(StandsOut(p, pace), run[p].siblings)
                 ELSE run[p].siblings
  BY <1>1 DEF Mark, RunOn
<1> HIDE DEF s, since, apart
<1>5. LET m == [s EXCEPT !.since = since, !.apart = apart]
      IN  m \in Replica /\ m.since = since /\ m.apart = apart
  BY <1>1, <1>2 DEF Replica
<1> QED
  BY <1>3, <1>4, <1>5

LEMMA ReadMarks ==
  ASSUME RunsAreMarked, ReadReleases
  PROVE  RunsAreMarked' /\ ReleasesAreSustained'
<1> USE ReleasesAssumption
<1> DEFINE Read(pace, newest, previous) ==
             LET refreshed == Refreshed(pace)
                 marked == Marked(refreshed, pace, newest, previous)
                 regressed == {p \in Comparable(newest) : previous # Unmarked /\ LongEnough(marked[p].since)}
                 outliers == {p \in Known : Judged(p) /\ LongEnough(marked[p].apart)}
             IN  \E r \in Soonest(regressed), d \in Soonest(outliers) :
                   /\ tracked' = marked
                   /\ profiles' = refreshed
                   /\ report' = [regression |-> r, divergence |-> d]
                   /\ run' = [p \in Replicas |->
                        [release |-> IF previous = Unmarked \/ p \notin Comparable(newest) THEN run[p].release
                                     ELSE RunOn(Regressing(p, pace, refreshed[previous].rate), run[p].release),
                         siblings |-> IF p \notin Known \/ ~Judged(p) THEN run[p].siblings
                                      ELSE RunOn(StandsOut(p, pace), run[p].siblings)]]
<1>1. PICK pace \in [Known -> Paces], newest \in Newest, previous \in Versions \cup {Unmarked} :
        Read(pace, newest, previous)
  <2>1. PICK pace \in [Known -> Paces], newest \in Newest :
          \E previous \in IF Previous(newest, Refreshed(pace)) = {} THEN {Unmarked}
                          ELSE Previous(newest, Refreshed(pace)) :
            Read(pace, newest, previous)
    BY Zenon DEF ReadReleases
  <2>2. PICK previous \in IF Previous(newest, Refreshed(pace)) = {} THEN {Unmarked}
                          ELSE Previous(newest, Refreshed(pace)) :
          Read(pace, newest, previous)
    BY <2>1
  <2>3. previous \in Versions \cup {Unmarked}
    BY DEF Previous
  <2> HIDE DEF Read
  <2> QED
    BY <2>2, <2>3
<1> DEFINE refreshed == Refreshed(pace)
           marked == Marked(refreshed, pace, newest, previous)
           regressed == {p \in Comparable(newest) : previous # Unmarked /\ LongEnough(marked[p].since)}
           outliers == {p \in Known : Judged(p) /\ LongEnough(marked[p].apart)}
<1>2. /\ tracked' = marked
      /\ \E r \in Soonest(regressed), d \in Soonest(outliers) :
           report' = [regression |-> r, divergence |-> d]
      /\ run' = [p \in Replicas |->
           [release |-> IF previous = Unmarked \/ p \notin Comparable(newest) THEN run[p].release
                        ELSE RunOn(Regressing(p, pace, refreshed[previous].rate), run[p].release),
            siblings |-> IF p \notin Known \/ ~Judged(p) THEN run[p].siblings
                         ELSE RunOn(StandsOut(p, pace), run[p].siblings)]]
  BY <1>1
<1>3. marked = [p \in Replicas |-> marked[p]] /\ \A p \in Replicas : tracked[p] = Unmarked => marked[p] = Unmarked
  BY DEF Marked
<1> HIDE DEF refreshed
<1>4. ASSUME NEW p \in Replicas, tracked[p] # Unmarked
      PROVE  /\ marked[p] \in Replica
             /\ run'[p] = [release |-> marked[p].since, siblings |-> marked[p].apart]
  <2>1. /\ marked[p] \in Replica
        /\ marked[p].since = IF previous # Unmarked /\ p \in Comparable(newest)
                             THEN RunOn(Regressing(p, pace, refreshed[previous].rate), run[p].release)
                             ELSE run[p].release
        /\ marked[p].apart = IF Judged(p) THEN RunOn(StandsOut(p, pace), run[p].siblings)
                             ELSE run[p].siblings
    BY <1>4, MarksFollow
  <2>2. p \in Known
    BY <1>4 DEF Known
  <2> HIDE DEF marked
  <2> QED
    BY <1>2, <2>1, <2>2
<1> HIDE DEF marked
<1>5. ASSUME NEW p \in Replicas, tracked[p] = Unmarked
      PROVE  marked[p] = Unmarked /\ run'[p] = NoRun[p]
  <2>1. p \notin Known /\ p \notin Comparable(newest) /\ marked[p] = Unmarked
    BY <1>3, <1>5 DEF Known, Comparable
  <2>2. run[p] = [release |-> Unmarked, siblings |-> Unmarked] /\ run[p] = NoRun[p]
    BY <1>5 DEF RunsAreMarked, NoRun
  <2> QED
    BY <1>2, <2>1, <2>2
<1>6. RunsAreMarked'
  <2>1. tracked' = [p \in Replicas |-> marked[p]]
    BY <1>2, <1>3
  <2>2. tracked' \in [Replicas -> Replica \cup {Unmarked}]
    BY <1>4, <1>5, <2>1
  <2> QED
    BY <1>2, <1>4, <1>5, <2>2 DEF RunsAreMarked
<1>7. ASSUME NEW p \in regressed PROVE run'[p].release # Unmarked /\ run'[p].release >= SustainFor
  <2>1. p \in Replicas /\ tracked[p] # Unmarked /\ LongEnough(marked[p].since)
    BY DEF Comparable, Known
  <2>2. run'[p] = [release |-> marked[p].since, siblings |-> marked[p].apart]
    BY <1>4, <2>1
  <2> QED
    BY <2>1, <2>2 DEF LongEnough
<1>8. ASSUME NEW p \in outliers PROVE run'[p].siblings # Unmarked /\ run'[p].siblings >= SustainFor
  <2>1. p \in Replicas /\ tracked[p] # Unmarked /\ LongEnough(marked[p].apart)
    BY DEF Known
  <2>2. run'[p] = [release |-> marked[p].since, siblings |-> marked[p].apart]
    BY <1>4, <2>1
  <2> QED
    BY <2>1, <2>2 DEF LongEnough
<1> HIDE DEF regressed, outliers
<1>9. PICK r \in Soonest(regressed), d \in Soonest(outliers) :
        report' = [regression |-> r, divergence |-> d]
  BY <1>2
<1>10. /\ r # Unmarked => r.pod \in regressed
       /\ d # Unmarked => d.pod \in outliers
  BY DEF Soonest
<1>11. ReleasesAreSustained'
  BY <1>7, <1>8, <1>9, <1>10 DEF ReleasesAreSustained
<1> QED
  BY <1>6, <1>11

LEMMA ReleasesStep == ReleasesInv /\ [ReleasesNext]_releaseVars => ReleasesInv'
<1> SUFFICES ASSUME ReleasesInv, [ReleasesNext]_releaseVars PROVE ReleasesInv'
  OBVIOUS
<1>1. ASSUME NEW S \in SUBSET Replicas, NEW limited \in BOOLEAN, PollReleases(S, limited) PROVE ReleasesInv'
  <2>1. RunsAreMarked'
    BY <1>1, PollMarks DEF ReleasesInv
  <2>2. ReleasesAreSustained'
    BY <1>1 DEF PollReleases, NothingTold, ReleasesAreSustained
  <2> QED
    BY <2>1, <2>2 DEF ReleasesInv
<1>2. CASE ReadReleases
  BY <1>2, ReadMarks DEF ReleasesInv
<1>3. CASE ForgetReleases
  BY <1>3 DEF ForgetReleases, NothingTold, ReleasesInv, RunsAreMarked, ReleasesAreSustained
<1>4. CASE UNCHANGED releaseVars
  BY <1>4 DEF releaseVars, ReleasesInv, RunsAreMarked, ReleasesAreSustained
<1> QED
  BY <1>1, <1>2, <1>3, <1>4 DEF ReleasesNext

(* The comparison of releases and of replicas (release.go, divergence.go), *)
(* over any polls, reads, paces and restarts of the engine: a pod told to  *)
(* outgrow the release before, or its siblings, was found to for the whole *)
(* of the time required, by every read that compared it.                   *)
THEOREM ReleasesStaySustained == MCSpec => []ReleasesAlwaysSustained
<1>1. MCInit => ReleasesInv
  BY DEF MCInit, ReleasesInit, NothingTold, ReleasesInv, RunsAreMarked, ReleasesAreSustained
<1>2. ReleasesInv /\ [MCNext]_<<part, vars, fusionVars, podOwnerVars, graphVars, Rest>> => ReleasesInv'
  <2> SUFFICES ASSUME ReleasesInv, [MCNext]_<<part, vars, fusionVars, podOwnerVars, graphVars, Rest>>
               PROVE  ReleasesInv'
    OBVIOUS
  <2>1. ReleasesNext \/ UNCHANGED releaseVars
    BY DEF MCNext, Rest
  <2> QED
    BY <2>1, ReleasesStep
<1>3. ReleasesInv => ReleasesAlwaysSustained
  BY DEF ReleasesInv, ReleasesAlwaysSustained
<1> QED
  BY <1>1, <1>2, <1>3, PTL DEF MCSpec

----------------------------------------------------------------------------
(***************************************************************************)
(* The collection of roles.  What a poll that met neither outage nor       *)
(* rotation has not answered yet is left to ask.                           *)
(***************************************************************************)
Workload == [wanted : Nat, serving : Nat, surge : Nat, oom : Nat]
Answers == UNION {[S -> Nat] : S \in SUBSET Names}

InputTypes ==
  /\ workload \in Workload
  /\ endpoint \in [up : BOOLEAN, accepts : Nat]
  /\ secrets \in [user : Nat, password : Nat] /\ secrets.user = secrets.password
  /\ poll \in Poll \cup {NoPoll}
  /\ frames \in Answers
  /\ witness \in [had : [Names -> SUBSET Nat], upset : BOOLEAN]
  /\ \A r \in Names : IsFiniteSet(witness.had[r])

Undisturbed == ~witness.upset /\ endpoint.up /\ endpoint.accepts = secrets.user
TrueSince(answers) ==
  /\ \A r \in Names : Value(r, workload) \in witness.had[r]
  /\ \A r \in DOMAIN answers : answers[r] \in witness.had[r]
LeftToAsk(r) == \E i \in 1..Len(poll.left) : poll.left[i].name = r

PollIsSound ==
  poll # NoPoll =>
    /\ TrueSince(poll.got)
    /\ \A i \in 1..Len(poll.left) : poll.left[i].name \in Names
    /\ ~witness.upset => poll.user \in {Unread, secrets.user}
    /\ Undisturbed => \A r \in Names : r \in DOMAIN poll.got \/ LeftToAsk(r)

FramesAreSound ==
  poll = NoPoll /\ frames # NoFrames =>
    /\ TrueSince(frames)
    /\ fed.missing = DeploymentMissing(frames)
    /\ Undisturbed => Names \subseteq DOMAIN frames

RolesInv == InputTypes /\ PollIsSound /\ FramesAreSound

LEMMA ValuesAreCounts ==
  ASSUME NEW r \in Names, NEW w \in Workload
  PROVE  Value(r, w) \in Nat
<1>1. /\ w.wanted \in Nat /\ w.serving \in Nat /\ w.surge \in Nat /\ w.oom \in Nat
      /\ Short(w) \in Nat
  BY DEF Workload, Short
<1>2. r \in {"replicas.desired", "replicas.available", "replicas.unavailable",
             "rollout.stalled", "container.oom"}
  BY RolesAssumption
<1> HIDE DEF Short
<1> QED
  BY <1>1, <1>2 DEF Value

LEMMA NothingIsAnswered == <<>> \in Answers /\ DOMAIN <<>> = {}
<1>1. <<>> \in [{} -> Nat] /\ DOMAIN <<>> = {}
  OBVIOUS
<1> QED
  BY <1>1 DEF Answers

LEMMA BeginKeeps == ASSUME RolesInv, BeginPoll PROVE RolesInv'
<1> USE RolesAssumption
<1> DEFINE had == [r \in Names |-> {Value(r, workload)}]
           begun == [left |-> Polled, user |-> Unread, got |-> <<>>]
<1>1. /\ poll' = begun /\ witness' = [had |-> had, upset |-> FALSE]
      /\ UNCHANGED <<workload, endpoint, secrets, frames, fed>>
  BY DEF BeginPoll
<1>2. InputTypes
  BY DEF RolesInv
<1>3. \A r \in Names : Value(r, workload) \in Nat /\ IsFiniteSet({Value(r, workload)})
  BY <1>2, ValuesAreCounts, FS_Singleton DEF InputTypes
<1>4. begun \in Poll
  BY NothingIsAnswered DEF Poll, Answers
<1> HIDE DEF Poll, Workload, Answers, Value
<1>5. InputTypes'
  <2>1. had \in [Names -> SUBSET Nat] /\ \A r \in Names : IsFiniteSet(had[r])
    BY <1>3
  <2> HIDE DEF had, begun
  <2> QED
    BY <1>1, <1>2, <1>4, <2>1 DEF InputTypes
<1>6. poll' # NoPoll
  BY <1>1, <1>4
<1>7. PollIsSound'
  <2>1. poll'.left = Polled /\ poll'.user = Unread /\ poll'.got = <<>>
    BY <1>1
  <2>0. DOMAIN Polled = 1..Len(Polled) /\ Names = {Polled[i].name : i \in DOMAIN Polled}
    BY DEF Names
  <2> HIDE DEF Names, Polled
  <2>2. \A r \in Names : \E i \in 1..Len(Polled) : Polled[i].name = r
    BY <2>0
  <2>3. \A i \in 1..Len(Polled) : Polled[i].name \in Names
    BY <2>0
  <2>4. TrueSince(poll.got)'
    BY <1>1, <2>1, NothingIsAnswered DEF TrueSince
  <2> QED
    BY <2>1, <2>2, <2>3, <2>4 DEF PollIsSound, LeftToAsk
<1>8. FramesAreSound'
  BY <1>6 DEF FramesAreSound
<1> QED
  BY <1>5, <1>7, <1>8 DEF RolesInv

LEMMA ReadUserKeeps == ASSUME RolesInv, ReadUser PROVE RolesInv'
<1> USE RolesAssumption
<1>1. /\ poll # NoPoll /\ poll' = [poll EXCEPT !.user = secrets.user]
      /\ UNCHANGED <<workload, endpoint, secrets, frames, fed, witness>>
  BY DEF ReadUser
<1>2. InputTypes /\ PollIsSound
  BY DEF RolesInv
<1>3. poll \in Poll /\ secrets.user \in Int
  BY <1>1, <1>2 DEF InputTypes
<1>4. /\ poll' \in Poll /\ poll'.left = poll.left /\ poll'.got = poll.got
      /\ poll'.user = secrets.user
  BY <1>1, <1>3 DEF Poll
<1> HIDE DEF Poll, Workload, Answers
<1>5. InputTypes'
  BY <1>1, <1>2, <1>4 DEF InputTypes
<1>6. PollIsSound'
  BY <1>1, <1>2, <1>4 DEF PollIsSound, TrueSince, LeftToAsk, Undisturbed
<1>7. FramesAreSound'
  BY <1>4 DEF FramesAreSound
<1> QED
  BY <1>5, <1>6, <1>7 DEF RolesInv

LEMMA AnsweringTypes ==
  ASSUME NEW got \in Answers, NEW r \in Names, workload \in Workload
  PROVE  /\ Answered(got, r) \in Answers /\ DOMAIN Answered(got, r) = DOMAIN got \cup {r}
         /\ Answered(got, r)[r] = Value(r, workload)
         /\ \A q \in DOMAIN got \ {r} : Answered(got, r)[q] = got[q]
<1> DEFINE v == Value(r, workload)
<1>1. v \in Nat
  BY ValuesAreCounts
<1> HIDE DEF v
<1>2. PICK S \in SUBSET Names : got \in [S -> Nat]
  BY DEF Answers
<1>3. Answered(got, r) = [q \in S \cup {r} |-> IF q = r THEN v ELSE got[q]]
  BY <1>2 DEF Answered, v
<1>4. [q \in S \cup {r} |-> IF q = r THEN v ELSE got[q]] \in [S \cup {r} -> Nat]
  BY <1>1, <1>2
<1>5. Answered(got, r) \in Answers
  <2>1. S \cup {r} \in SUBSET Names
    BY <1>2
  <2> QED
    BY <1>3, <1>4, <2>1 DEF Answers
<1> QED
  BY <1>2, <1>3, <1>5 DEF v

LEMMA CollectKeeps == ASSUME RolesInv, CollectRole PROVE RolesInv'
<1> USE RolesAssumption
<1> DEFINE role == Head(poll.left).name
           accepted == Accepted(poll.user, secrets.password)
           got == IF accepted THEN Answered(poll.got, role) ELSE poll.got
           next == [left |-> Tail(poll.left), user |-> Unread, got |-> got]
<1>1. /\ poll # NoPoll /\ poll.left # <<>> /\ poll.user # Unread /\ poll' = next
      /\ UNCHANGED <<workload, endpoint, secrets, frames, fed, witness>>
  BY DEF CollectRole
<1>2. InputTypes /\ PollIsSound
  BY DEF RolesInv
<1>3. poll \in Poll /\ poll.left \in Seq(Catalog) /\ poll.got \in Answers
  BY <1>1, <1>2 DEF InputTypes, Poll, Answers
<1>4. /\ Tail(poll.left) \in Seq(Catalog) /\ Len(poll.left) \in Nat \ {0}
      /\ Len(Tail(poll.left)) = Len(poll.left) - 1 /\ Head(poll.left) = poll.left[1]
      /\ \A i \in 1..Len(Tail(poll.left)) : Tail(poll.left)[i] = poll.left[i + 1]
  BY <1>1, <1>3
<1>5. role \in Names
  BY <1>1, <1>2, <1>4 DEF PollIsSound
<1> HIDE DEF role
<1>6. /\ Answered(poll.got, role) \in Answers
      /\ DOMAIN Answered(poll.got, role) = DOMAIN poll.got \cup {role}
      /\ Answered(poll.got, role)[role] = Value(role, workload)
      /\ \A q \in DOMAIN poll.got \ {role} : Answered(poll.got, role)[q] = poll.got[q]
  BY <1>2, <1>3, <1>5, AnsweringTypes DEF InputTypes
<1>7. got \in Answers
  BY <1>3, <1>6
<1>8. /\ poll' \in Poll /\ poll'.left = Tail(poll.left) /\ poll'.user = Unread /\ poll'.got = got
  <2> HIDE DEF got
  <2> QED
    BY <1>1, <1>4, <1>7 DEF Poll, Answers
<1>9. poll' # NoPoll
  BY <1>8
<1> HIDE DEF next, Poll, Workload, Answers, Catalog
<1>10. InputTypes'
  BY <1>1, <1>2, <1>8 DEF InputTypes
<1>11. TrueSince(poll.got)'
  <2>1. TrueSince(poll.got)
    BY <1>1, <1>2 DEF PollIsSound
  <2>2. \A r \in DOMAIN got : got[r] \in witness.had[r]
    BY <1>5, <1>6, <2>1 DEF TrueSince
  <2> HIDE DEF got
  <2> QED
    BY <1>1, <1>8, <2>1, <2>2 DEF TrueSince
<1>12. \A i \in 1..Len(poll'.left) : poll'.left[i].name \in Names
  <2>1. \A i \in 1..Len(poll.left) : poll.left[i].name \in Names
    BY <1>1, <1>2 DEF PollIsSound
  <2> QED
    BY <1>4, <1>8, <2>1
<1>13. ASSUME Undisturbed', NEW r \in Names PROVE r \in DOMAIN got \/ LeftToAsk(r)'
  <2>1. Undisturbed
    BY <1>1, <1>13 DEF Undisturbed
  <2>2. r \in DOMAIN poll.got \/ \E i \in 1..Len(poll.left) : poll.left[i].name = r
    BY <1>1, <1>2, <2>1 DEF PollIsSound, LeftToAsk
  <2>3. accepted
    BY <1>1, <1>2, <2>1 DEF Accepted, Undisturbed, PollIsSound, InputTypes
  <2>4. got = Answered(poll.got, role)
    BY <2>3
  <2> HIDE DEF got
  <2>5. CASE r \in DOMAIN poll.got \/ r = role
    BY <1>6, <2>4, <2>5
  <2>6. CASE r # role /\ \E i \in 1..Len(poll.left) : poll.left[i].name = r
    <3>1. PICK i \in 1..Len(poll.left) : poll.left[i].name = r
      BY <2>6
    <3>2. i # 1
      BY <1>4, <2>6, <3>1 DEF role
    <3>3. i - 1 \in 1..Len(Tail(poll.left)) /\ Tail(poll.left)[i - 1] = poll.left[i]
      BY <1>4, <3>2
    <3> QED
      BY <1>8, <3>1, <3>3 DEF LeftToAsk
  <2> QED
    BY <2>2, <2>5, <2>6
<1>14. PollIsSound'
  <2> HIDE DEF got
  <2> QED
    BY <1>8, <1>11, <1>12, <1>13 DEF PollIsSound
<1>15. FramesAreSound'
  BY <1>9 DEF FramesAreSound
<1> QED
  BY <1>10, <1>14, <1>15 DEF RolesInv

LEMMA EndKeeps == ASSUME RolesInv, EndPoll PROVE RolesInv'
<1> USE RolesAssumption
<1>1. /\ poll # NoPoll /\ poll.left = <<>> /\ frames' = poll.got /\ poll' = NoPoll
      /\ fed'.missing = DeploymentMissing(frames')
      /\ UNCHANGED <<workload, endpoint, secrets, witness>>
  BY DEF EndPoll
<1>2. InputTypes /\ PollIsSound
  BY DEF RolesInv
<1>3. poll.got \in Answers
  BY <1>1, <1>2 DEF InputTypes, Poll, Answers
<1> HIDE DEF Poll, Workload, Answers
<1>4. InputTypes'
  BY <1>1, <1>2, <1>3 DEF InputTypes
<1>5. PollIsSound'
  BY <1>1 DEF PollIsSound
<1>6. FramesAreSound'
  <2>1. \A r \in Names : ~LeftToAsk(r)
    BY <1>1 DEF LeftToAsk
  <2>2. TrueSince(poll.got) /\ (Undisturbed => Names \subseteq DOMAIN poll.got)
    BY <1>1, <1>2, <2>1 DEF PollIsSound
  <2>3. TrueSince(frames)'
    BY <1>1, <2>2 DEF TrueSince
  <2>4. Undisturbed' => Names \subseteq DOMAIN frames'
    BY <1>1, <2>2 DEF Undisturbed
  <2> HIDE DEF DeploymentMissing
  <2> QED
    BY <1>1, <2>3, <2>4 DEF FramesAreSound, DeploymentMissing, Reading
<1> QED
  BY <1>4, <1>5, <1>6 DEF RolesInv

LEMMA ClusterKeeps == ASSUME RolesInv, WorkloadChanges PROVE RolesInv'
<1> USE RolesAssumption
<1> DEFINE had == [r \in Names |-> witness.had[r] \cup {Value(r, workload')}]
<1>1. /\ workload' \in [wanted : 0..MaxReplicas, serving : 0..MaxReplicas, surge : {0, 1}, oom : {0, 1}]
      /\ witness' = [witness EXCEPT !.had = [r \in Names |-> @[r] \cup {Value(r, workload')}]]
      /\ UNCHANGED <<endpoint, secrets, poll, frames, fed>>
  BY DEF WorkloadChanges
<1>2. InputTypes /\ workload' \in Workload
  BY <1>1 DEF RolesInv, Workload
<1>3. witness' = [witness EXCEPT !.had = had]
  BY <1>1, <1>2 DEF InputTypes
<1>4. \A r \in Names : Value(r, workload') \in Nat
  BY <1>2, ValuesAreCounts
<1> HIDE DEF Poll, Workload, Answers, Value
<1>5. had \in [Names -> SUBSET Nat] /\ \A r \in Names : IsFiniteSet(had[r])
  <2>1. \A r \in Names : IsFiniteSet(witness.had[r] \cup {Value(r, workload')})
    BY <1>2, FS_AddElement DEF InputTypes
  <2> QED
    BY <1>2, <1>4, <2>1 DEF InputTypes
<1>6. \A r \in Names : witness.had[r] \subseteq had[r] /\ Value(r, workload') \in had[r]
  OBVIOUS
<1> HIDE DEF had
<1>7. witness'.had = had /\ witness'.upset = witness.upset /\ witness' \in [had : [Names -> SUBSET Nat], upset : BOOLEAN]
  BY <1>2, <1>3, <1>5 DEF InputTypes
<1>8. InputTypes'
  BY <1>1, <1>2, <1>5, <1>7 DEF InputTypes
<1>9. ASSUME NEW answers \in Answers, TrueSince(answers)
      PROVE  /\ \A r \in Names : Value(r, workload') \in witness'.had[r]
             /\ \A r \in DOMAIN answers : answers[r] \in witness'.had[r]
  <2>1. DOMAIN answers \subseteq Names
    BY DEF Answers
  <2> QED
    BY <1>6, <1>7, <1>9, <2>1 DEF TrueSince
<1>10. PollIsSound'
  <2> SUFFICES ASSUME poll # NoPoll PROVE PollIsSound'
    BY <1>1 DEF PollIsSound
  <2>1. poll.got \in Answers
    BY <1>2 DEF InputTypes, Poll, Answers
  <2>2. TrueSince(poll.got)'
    BY <1>1, <1>9, <2>1 DEF RolesInv, PollIsSound, TrueSince
  <2> QED
    BY <1>1, <1>7, <2>2 DEF RolesInv, PollIsSound, Undisturbed, LeftToAsk
<1>11. FramesAreSound'
  <2> SUFFICES ASSUME poll = NoPoll, frames # NoFrames PROVE FramesAreSound'
    BY <1>1 DEF FramesAreSound
  <2>1. TrueSince(frames)'
    BY <1>1, <1>2, <1>9 DEF RolesInv, FramesAreSound, TrueSince, InputTypes
  <2> QED
    BY <1>1, <1>7, <2>1 DEF RolesInv, FramesAreSound, Undisturbed, DeploymentMissing, Reading
<1> QED
  BY <1>8, <1>10, <1>11 DEF RolesInv

(* An outage and the two steps of a rotation.                              *)
LEMMA UpsetsKeep ==
  ASSUME RolesInv, EndpointChanges \/ RotateSecrets \/ EndpointFollows
  PROVE  RolesInv'
<1>1. /\ witness' = [witness EXCEPT !.upset = TRUE]
      /\ UNCHANGED <<workload, poll, frames, fed>>
  BY DEF EndpointChanges, RotateSecrets, EndpointFollows
<1>2. InputTypes
  BY DEF RolesInv
<1>3. /\ endpoint' \in [up : BOOLEAN, accepts : Nat]
      /\ secrets' \in [user : Nat, password : Nat] /\ secrets'.user = secrets'.password
  <2>1. CASE EndpointChanges
    <3>1. endpoint' = [endpoint EXCEPT !.up = ~endpoint.up] /\ secrets' = secrets
      BY <1>2, <2>1 DEF EndpointChanges, InputTypes
    <3>2. (~endpoint.up) \in BOOLEAN
      OBVIOUS
    <3>3. \A b \in BOOLEAN : [endpoint EXCEPT !.up = b] \in [up : BOOLEAN, accepts : Nat]
      BY <1>2 DEF InputTypes
    <3> QED
      BY <1>2, <3>1, <3>2, <3>3 DEF InputTypes
  <2>2. CASE RotateSecrets
    <3>1. secrets' = [user |-> secrets.user + 1, password |-> secrets.password + 1] /\ endpoint' = endpoint
      BY <2>2 DEF RotateSecrets
    <3> QED
      BY <1>2, <3>1 DEF InputTypes
  <2>3. CASE EndpointFollows
    <3>1. endpoint' = [endpoint EXCEPT !.accepts = secrets.user] /\ secrets' = secrets
      BY <2>3 DEF EndpointFollows
    <3> QED
      BY <1>2, <3>1 DEF InputTypes
  <2> QED
    BY <2>1, <2>2, <2>3
<1>4. /\ witness' \in [had : [Names -> SUBSET Nat], upset : BOOLEAN]
      /\ witness'.had = witness.had /\ witness'.upset
  BY <1>1, <1>2 DEF InputTypes
<1> HIDE DEF Poll, Workload, Answers
<1>5. InputTypes'
  BY <1>1, <1>2, <1>3, <1>4 DEF InputTypes
<1>6. ~Undisturbed'
  BY <1>4 DEF Undisturbed
<1>7. PollIsSound'
  BY <1>1, <1>4, <1>6 DEF RolesInv, PollIsSound, TrueSince
<1>8. FramesAreSound'
  BY <1>1, <1>4, <1>6 DEF RolesInv, FramesAreSound, TrueSince, DeploymentMissing, Reading
<1> QED
  BY <1>5, <1>7, <1>8 DEF RolesInv

LEMMA NothingIsRead ==
  /\ Calm.had \in [Names -> SUBSET Nat] /\ \A r \in Names : IsFiniteSet(Calm.had[r])
  /\ Calm \in [had : [Names -> SUBSET Nat], upset : BOOLEAN]
  /\ NoFrames \in Answers
<1>1. /\ Calm.had \in [Names -> SUBSET Nat] /\ \A r \in Names : Calm.had[r] = {}
      /\ Calm \in [had : [Names -> SUBSET Nat], upset : BOOLEAN]
  BY DEF Calm
<1> QED
  BY <1>1, FS_EmptySet, NothingIsAnswered DEF NoFrames

LEMMA RolesStep == RolesInv /\ [RolesNext]_inputsVars => RolesInv'
<1> SUFFICES ASSUME RolesInv, [RolesNext]_inputsVars PROVE RolesInv'
  OBVIOUS
<1>1. CASE BeginPoll \/ ReadUser \/ CollectRole \/ EndPoll
  BY <1>1, BeginKeeps, ReadUserKeeps, CollectKeeps, EndKeeps
<1>2. CASE WorkloadChanges
  BY <1>2, ClusterKeeps
<1>3. CASE EndpointChanges \/ RotateSecrets \/ EndpointFollows
  BY <1>3, UpsetsKeep
<1>4. CASE StartInputs
  <2>1. /\ poll' = NoPoll /\ frames' = NoFrames /\ witness' = Calm
        /\ UNCHANGED <<workload, endpoint, secrets>>
    BY <1>4 DEF StartInputs
  <2>2. /\ workload' \in Workload /\ endpoint' \in [up : BOOLEAN, accepts : Nat]
        /\ secrets' \in [user : Nat, password : Nat] /\ secrets'.user = secrets'.password
    BY <2>1 DEF RolesInv, InputTypes
  <2>3. InputTypes'
    BY <2>1, <2>2, NothingIsRead DEF InputTypes
  <2> QED
    BY <2>1, <2>3 DEF RolesInv, PollIsSound, FramesAreSound
<1>5. CASE UNCHANGED inputsVars
  <2>1. UNCHANGED <<workload, endpoint, secrets, poll, frames, fed, witness>>
    BY <1>5 DEF inputsVars
  <2> QED
    BY <2>1 DEF RolesInv, InputTypes, PollIsSound, FramesAreSound, TrueSince, LeftToAsk, Undisturbed,
                DeploymentMissing, Reading
<1> QED
  BY <1>1, <1>2, <1>3, <1>4, <1>5 DEF RolesNext

(* What a poll publishes and tells the tracker (inputs.go, thanos.go,      *)
(* normalize.go), over any changes of the cluster, outages, rotations and  *)
(* restarts between its requests: each value was true since the poll       *)
(* began; a poll that met neither an outage nor a rotation misses no role; *)
(* and of a cluster that stood still, the replicas told missing are those  *)
(* that are.  The embedded catalog polls both counts in every profile.     *)
THEOREM PollsAlwaysTell ==
  ASSUME {"replicas.desired", "replicas.available"} \subseteq Names
  PROVE  MCSpec => []PollsTellTheCluster
<1>1. MCInit => RolesInv
  <2> SUFFICES ASSUME MCInit PROVE RolesInv
    OBVIOUS
  <2>1. /\ workload = [wanted |-> 1, serving |-> 1, surge |-> 0, oom |-> 0]
        /\ endpoint = [up |-> TRUE, accepts |-> 0] /\ secrets = [user |-> 0, password |-> 0]
        /\ poll = NoPoll /\ frames = NoFrames /\ witness = Calm
    BY DEF MCInit, InputsStart
  <2>2. InputTypes
    <3>1. workload \in Workload /\ endpoint \in [up : BOOLEAN, accepts : Nat]
      BY <2>1 DEF Workload
    <3>2. secrets \in [user : Nat, password : Nat] /\ secrets.user = secrets.password
      BY <2>1
    <3> QED
      BY <2>1, <3>1, <3>2, NothingIsRead DEF InputTypes
  <2> QED
    BY <2>1, <2>2 DEF RolesInv, PollIsSound, FramesAreSound
<1>2. RolesInv /\ [MCNext]_<<part, vars, fusionVars, podOwnerVars, graphVars, Rest>> => RolesInv'
  <2> SUFFICES ASSUME RolesInv, [MCNext]_<<part, vars, fusionVars, podOwnerVars, graphVars, Rest>>
               PROVE  RolesInv'
    OBVIOUS
  <2>1. RolesNext \/ UNCHANGED inputsVars
    BY DEF MCNext, Rest
  <2> QED
    BY <2>1, RolesStep
<1>3. RolesInv => PollsTellTheCluster
  <2> SUFFICES ASSUME RolesInv, poll = NoPoll, frames # NoFrames
               PROVE  /\ \A r \in DOMAIN frames : frames[r] \in witness.had[r]
                      /\ Undisturbed =>
                           /\ \A r \in Names : Coverage[r]
                           /\ (\A r \in Names : Cardinality(witness.had[r]) = 1) => fed.missing = Short(workload)
    BY DEF PollsTellTheCluster, PollTellsTheCluster, Undisturbed
  <2>1. TrueSince(frames) /\ fed.missing = DeploymentMissing(frames)
        /\ (Undisturbed => Names \subseteq DOMAIN frames)
    BY DEF RolesInv, FramesAreSound
  <2>2. Undisturbed => \A r \in Names : Coverage[r]
    BY <2>1 DEF Coverage
  <2>3. ASSUME Undisturbed, \A r \in Names : Cardinality(witness.had[r]) = 1
        PROVE  fed.missing = Short(workload)
    <3>1. ASSUME NEW r \in Names PROVE frames[r] = Value(r, workload)
      <4>1. frames[r] \in witness.had[r] /\ Value(r, workload) \in witness.had[r]
        BY <2>1, <2>3 DEF TrueSince
      <4>2. PICK x : witness.had[r] = {x}
        BY <2>3, FS_Singleton DEF RolesInv, InputTypes
      <4> QED
        BY <4>1, <4>2
    <3>2. /\ frames["replicas.desired"] = workload.wanted
          /\ frames["replicas.available"] = workload.serving
      BY <3>1 DEF Value
    <3>3. {"replicas.desired", "replicas.available"} \subseteq DOMAIN frames
      BY <2>1, <2>3
    <3> QED
      BY <2>1, <3>2, <3>3 DEF DeploymentMissing, Short
  <2> QED
    BY <2>1, <2>2, <2>3 DEF TrueSince
<1> QED
  BY <1>1, <1>2, <1>3, PTL DEF MCSpec

----------------------------------------------------------------------------
(***************************************************************************)
(* The detectors and their ranking.                                        *)
(***************************************************************************)
OptionalAge == (0..Oldest) \cup {None}
Cond == [run : OptionalAge, below : OptionalAge, last : OptionalAge, active : BOOLEAN]
PodState == [etf : Forecasts \cup {None}, from : OptionalAge, seen : OptionalAge, cond : Cond,
             restarts : Seq(0..Oldest), oom : BOOLEAN, stuck : OptionalAge, backOff : OptionalAge,
             count : Counts \cup {None}, satCount : Counts \cup {None}, fell : BOOLEAN]

PodTypes == pods \in [Pods -> PodState \cup {None}]

LEMMA OlderIsAge ==
  /\ \A a \in OptionalAge : Older(a) \in OptionalAge
  /\ \A a \in 0..Oldest : Older(a) \in 0..Oldest
  BY EstimatesAssumption DEF Older, OptionalAge

LEMMA NewPodTypes == NewPod \in PodState
<1>1. None \in OptionalAge /\ <<>> \in Seq(0..Oldest)
  BY DEF OptionalAge
<1> QED
  BY <1>1 DEF NewPod, PodState, Cond

LEMMA PodIsTyped == ASSUME PodTypes, NEW p \in Pods PROVE Pod(p) \in PodState
  BY NewPodTypes DEF PodTypes, Pod

LEMMA OlderTimes ==
  ASSUME NEW t \in Seq(0..Oldest)
  PROVE  LET r == [i \in DOMAIN t |-> Older(t[i])]
         IN  /\ r \in Seq(0..Oldest) /\ Len(r) = Len(t)
             /\ \A i \in 1..Len(t) : r[i] = Older(t[i])
<1> DEFINE r == [i \in DOMAIN t |-> Older(t[i])]
           D == 0..Oldest
<1>1. t \in Seq(D)
  OBVIOUS
<1> HIDE DEF D
<1>2. PICK n \in Nat : t \in [1..n -> D]
  BY <1>1
<1>3. \A i \in 1..n : Older(t[i]) \in D
  BY <1>2, OlderIsAge DEF D
<1>4. r \in [1..n -> D]
  BY <1>2, <1>3
<1>5. r \in Seq(D) /\ Len(r) = n /\ Len(t) = n
  BY <1>2, <1>4
<1>6. \A i \in 1..n : r[i] = Older(t[i])
  BY <1>2
<1> QED
  BY <1>5, <1>6 DEF D

LEMMA OlderPodTypes ==
  ASSUME NEW s \in PodState
  PROVE  /\ OlderPod(s) \in PodState
         /\ OlderPod(s).from = Older(s.from) /\ OlderPod(s).etf = s.etf
         /\ OlderPod(s).count = s.count /\ OlderPod(s).satCount = s.satCount
         /\ OlderPod(s).fell = s.fell
         /\ Len(OlderPod(s).restarts) = Len(s.restarts)
         /\ \A i \in 1..Len(s.restarts) : OlderPod(s).restarts[i] = Older(s.restarts[i])
         /\ OlderPod(s).cond.run = Older(s.cond.run) /\ OlderPod(s).cond.below = Older(s.cond.below)
         /\ OlderPod(s).cond.last = Older(s.cond.last) /\ OlderPod(s).cond.active = s.cond.active
<1> DEFINE from == Older(s.from)
           seen == Older(s.seen)
           stuck == Older(s.stuck)
           backOff == Older(s.backOff)
           running == Older(s.cond.run)
           below == Older(s.cond.below)
           last == Older(s.cond.last)
           cond == OlderCond(s.cond)
           restarts == [i \in DOMAIN s.restarts |-> Older(s.restarts[i])]
<1>1. OlderPod(s) = [s EXCEPT !.from = from, !.seen = seen, !.stuck = stuck, !.backOff = backOff,
                              !.cond = cond, !.restarts = restarts]
  BY DEF OlderPod
<1>2. /\ from \in OptionalAge /\ seen \in OptionalAge /\ stuck \in OptionalAge /\ backOff \in OptionalAge
      /\ running \in OptionalAge /\ below \in OptionalAge /\ last \in OptionalAge
  BY OlderIsAge DEF PodState, Cond
<1>3. /\ restarts \in Seq(0..Oldest) /\ Len(restarts) = Len(s.restarts)
      /\ \A i \in 1..Len(s.restarts) : restarts[i] = Older(s.restarts[i])
  <2>1. s.restarts \in Seq(0..Oldest)
    BY DEF PodState
  <2> QED
    BY <2>1, OlderTimes
<1>0. cond = [s.cond EXCEPT !.run = running, !.below = below, !.last = last]
  BY DEF OlderCond
<1> HIDE DEF from, seen, stuck, backOff, running, below, last, restarts, OptionalAge, cond
<1>4. /\ cond \in Cond
      /\ cond.run = running /\ cond.below = below /\ cond.last = last /\ cond.active = s.cond.active
  BY <1>0, <1>2 DEF PodState, Cond
<1> HIDE DEF Cond
<1>5. /\ OlderPod(s) \in PodState
      /\ OlderPod(s).from = from /\ OlderPod(s).etf = s.etf
      /\ OlderPod(s).count = s.count /\ OlderPod(s).satCount = s.satCount
      /\ OlderPod(s).fell = s.fell
      /\ OlderPod(s).restarts = restarts /\ OlderPod(s).cond = cond
  BY <1>1, <1>2, <1>3, <1>4 DEF PodState
<1> QED
  BY <1>3, <1>4, <1>5 DEF from, running, below, last

LEMMA AppendedIsSeq ==
  ASSUME NEW D, NEW r \in Seq(D), NEW x \in D
  PROVE  Append(r, x) \in Seq(D) /\ Append(r, x) # <<>>
<1>1. Append(r, x) \in Seq(D)
  OBVIOUS
<1>2. Len(r) \in Nat /\ Len(Append(r, x)) = Len(r) + 1
  OBVIOUS
<1>3. Len(<<>>) = 0
  OBVIOUS
<1> QED
  BY <1>1, <1>2, <1>3

LEMMA CountsAreNatural ==
  /\ Counts \subseteq Nat /\ None \notin Int
  /\ 0 \in OptionalAge /\ None \in OptionalAge /\ OptionalAge \subseteq Nat \cup {None}
<1>1. MaxCount \in Nat /\ Oldest \in Nat /\ None \notin Int
  BY EstimatesAssumption
<1> QED
  BY <1>1 DEF Counts, OptionalAge

(* Restarts counted: nothing but their list, the counter and the note of    *)
(* its fall changes, and the list only when the counter grew.              *)
LEMMA CountedIs ==
  ASSUME NEW s \in PodState, NEW n \in Counts
  PROVE  LET c == Counted(s, n)
         IN  /\ c \in PodState
             /\ c.cond = s.cond /\ c.from = s.from /\ c.satCount = s.satCount /\ c.count = n
             /\ c.fell = (s.from # None /\ (s.fell \/ n < s.count))
             /\ c.restarts = s.restarts \/ (s.count # None /\ n > s.count)
<1> DEFINE D == 0..Oldest
           t == Append(s.restarts, 0)
           grew == s.count # None /\ n > s.count
           times == IF grew THEN Recent(t) ELSE s.restarts
           fell == s.from # None /\ (s.fell \/ n < s.count)
<1>1. s.restarts \in Seq(D) /\ 0 \in D
  BY EstimatesAssumption DEF PodState
<1> HIDE DEF D
<1>2. t \in Seq(D) /\ t # <<>>
  BY <1>1, AppendedIsSeq
<1> HIDE DEF t
<1>3. Recent(t) \in Seq(D)
  <2>1. Tail(t) \in Seq(D)
    BY <1>2
  <2> QED
    BY <1>2, <2>1, Zenon DEF Recent
<1>4. times \in Seq(0..Oldest) /\ (times = s.restarts \/ grew)
  BY <1>1, <1>3 DEF D
<1>5. Counted(s, n) = [s EXCEPT !.restarts = times, !.fell = fell, !.count = n]
  BY Zenon DEF Counted, times, grew, fell, t
<1>6. fell \in BOOLEAN
  BY DEF fell
<1> HIDE DEF times, fell, grew, OptionalAge
<1>7. /\ Counted(s, n) \in PodState
      /\ Counted(s, n).cond = s.cond /\ Counted(s, n).from = s.from
      /\ Counted(s, n).satCount = s.satCount /\ Counted(s, n).count = n
      /\ Counted(s, n).fell = fell /\ Counted(s, n).restarts = times
  BY <1>4, <1>5, <1>6 DEF PodState
<1> QED
  BY <1>4, <1>7 DEF fell, grew

(* A reading with usage: the window starts again, or goes on where the      *)
(* counter has not grown since the last one.                               *)
LEMMA WindowedIs ==
  ASSUME NEW s \in PodState, NEW n \in Counts, NEW limited \in BOOLEAN
  PROVE  LET c == Counted(s, n)
             w == Windowed(s, n, limited)
         IN  /\ w \in PodState
             /\ w.cond = s.cond /\ w.restarts = c.restarts /\ w.count = n /\ w.satCount = n
             /\ \/ w.from = None \/ w.from = 0
                \/ w.from = s.from /\ ~Empties(s, n) /\ w.fell = c.fell
<1> DEFINE kept == IF Empties(s, n) THEN None ELSE s.from
           from == IF limited /\ kept = None THEN 0 ELSE kept
<1>1. PICK c \in PodState : c = Counted(s, n)
  BY CountedIs, Zenon
<1>2. c.cond = s.cond /\ c.count = n /\ c.fell \in BOOLEAN
  BY <1>1, CountedIs DEF PodState
<1> DEFINE fell == c.fell /\ ~Empties(s, n)
<1>3. Windowed(s, n, limited) = [c EXCEPT !.from = from, !.fell = fell, !.satCount = n]
  BY <1>1, Zenon DEF Windowed
<1>4. from \in OptionalAge /\ fell \in BOOLEAN
  <2>1. s.from \in OptionalAge /\ 0 \in OptionalAge /\ None \in OptionalAge
    BY CountsAreNatural DEF PodState
  <2> QED
    BY <1>2, <2>1, Zenon
<1>5. \/ from = None \/ from = 0
      \/ from = s.from /\ ~Empties(s, n) /\ fell = c.fell
  BY <1>2, Zenon
<1> HIDE DEF from, fell, kept, OptionalAge
<1>6. LET w == [c EXCEPT !.from = from, !.fell = fell, !.satCount = n]
      IN  /\ w \in PodState
          /\ w.cond = c.cond /\ w.restarts = c.restarts /\ w.count = c.count /\ w.satCount = n
          /\ w.from = from /\ w.fell = fell
  BY <1>4 DEF PodState
<1> QED
  BY <1>1, <1>2, <1>3, <1>5, <1>6

LEMMA PodsStayTyped ==
  ASSUME PodTypes, NEW p \in Pods, NEW s \in PodState, pods' = [pods EXCEPT ![p] = s]
  PROVE  PodTypes'
  BY DEF PodTypes

LEMMA ConditionTypes ==
  ASSUME NEW c \in Cond
  PROVE  Continued(c) \in Cond /\ Hot(c) \in Cond /\ Cool(c) \in Cond
<1>1. 0 \in OptionalAge /\ None \in OptionalAge
  BY EstimatesAssumption DEF OptionalAge
<1> HIDE DEF OptionalAge
<1>2. Continued(c) \in Cond
  BY <1>1 DEF Continued, Cond
<1>3. Hot(c) \in Cond
  BY <1>1 DEF Hot, Cond
<1>4. Cool(c) \in Cond
  BY <1>1 DEF Cool, Cond
<1> QED
  BY <1>2, <1>3, <1>4

(* What the tracker keeps of a pod is well formed, whatever readings come.  *)
LEMMA TrackerTypes == PodTypes /\ [Next]_vars => PodTypes'
<1> SUFFICES ASSUME PodTypes, [Next]_vars PROVE PodTypes'
  OBVIOUS
<1>0. /\ 0 \in OptionalAge /\ None \in OptionalAge /\ Ages \subseteq OptionalAge
      /\ \A t \in Nat : t <= Oldest => t \in OptionalAge
  BY EstimatesAssumption DEF OptionalAge, Ages
<1>1. CASE Tick
  <2>1. pods' = [p \in Pods |-> IF pods[p] = None THEN None ELSE OlderPod(pods[p])]
    BY <1>1 DEF Tick
  <2>2. \A p \in Pods : pods[p] # None => OlderPod(pods[p]) \in PodState
    BY OlderPodTypes DEF PodTypes
  <2> QED
    BY <2>1, <2>2 DEF PodTypes
<1>2. ASSUME NEW p \in Pods, Observe(p) PROVE PodTypes'
  <2>1. PICK n \in Counts, limited \in BOOLEAN :
          \E etf \in (IF limited THEN Verdicts(Windowed(Pod(p), n, limited)) ELSE {None}) :
            pods' = [pods EXCEPT ![p] = [Windowed(Pod(p), n, limited) EXCEPT !.etf = etf, !.seen = 0]]
    BY <1>2, Zenon DEF Observe
  <2>2. PICK s \in PodState : s = Windowed(Pod(p), n, limited)
    BY <2>1, PodIsTyped, WindowedIs, Zenon
  <2>3. PICK etf \in (IF limited THEN Verdicts(s) ELSE {None}) :
          pods' = [pods EXCEPT ![p] = [s EXCEPT !.etf = etf, !.seen = 0]]
    BY <2>1, <2>2
  <2>4. etf \in Forecasts \cup {None}
    BY <2>3 DEF Verdicts
  <2> HIDE DEF OptionalAge
  <2>5. [s EXCEPT !.etf = etf, !.seen = 0] \in PodState
    BY <2>2, <2>4, <1>0 DEF PodState
  <2> QED
    BY <2>3, <2>5, PodsStayTyped
<1>3. ASSUME NEW p \in Pods, ObserveRestarts(p) PROVE PodTypes'
  <2>1. PICK n \in Counts : pods' = [pods EXCEPT ![p] = [Counted(Pod(p), n) EXCEPT !.seen = 0]]
    BY <1>3 DEF ObserveRestarts
  <2>2. PICK s \in PodState : s = Counted(Pod(p), n)
    BY <2>1, PodIsTyped, CountedIs, Zenon
  <2> HIDE DEF OptionalAge
  <2>3. [s EXCEPT !.seen = 0] \in PodState
    BY <2>2, <1>0 DEF PodState
  <2> QED
    BY <2>1, <2>2, <2>3, PodsStayTyped
<1>4. ASSUME NEW p \in Pods, ObserveCondition(p) PROVE PodTypes'
  <2> DEFINE c == Continued(Pod(p).cond)
  <2>1. PICK hot \in BOOLEAN :
          pods' = [pods EXCEPT ![p] = [Pod(p) EXCEPT !.cond = IF hot THEN Hot(c) ELSE Cool(c)]]
    BY <1>4 DEF ObserveCondition
  <2>2. Pod(p) \in PodState
    BY PodIsTyped
  <2>3. Pod(p).cond \in Cond
    BY <2>2 DEF PodState
  <2>4. c \in Cond
    BY <2>3, ConditionTypes
  <2> HIDE DEF c
  <2> DEFINE d == IF hot THEN Hot(c) ELSE Cool(c)
  <2>5. d \in Cond
    BY <2>4, ConditionTypes
  <2> HIDE DEF d, Cond, OptionalAge
  <2>6. [Pod(p) EXCEPT !.cond = d] \in PodState
    BY <2>2, <2>5 DEF PodState
  <2>7. pods' = [pods EXCEPT ![p] = [Pod(p) EXCEPT !.cond = d]]
    BY <2>1 DEF d
  <2> QED
    BY <2>6, <2>7, PodsStayTyped
<1>5. ASSUME NEW p \in Pods, ObserveEvent(p) PROVE PodTypes'
  <2>1. Pod(p) \in PodState
    BY PodIsTyped
  <2>2. PICK a \in Ages : \/ pods' = [pods EXCEPT ![p] = [Pod(p) EXCEPT !.stuck = a]]
                          \/ pods' = [pods EXCEPT ![p] = [Pod(p) EXCEPT !.backOff = a]]
    BY <1>5 DEF ObserveEvent
  <2>3. a \in OptionalAge
    BY <2>2, <1>0
  <2> HIDE DEF OptionalAge
  <2>4. [Pod(p) EXCEPT !.stuck = a] \in PodState /\ [Pod(p) EXCEPT !.backOff = a] \in PodState
    BY <2>1, <2>3 DEF PodState
  <2> QED
    BY <2>2, <2>4, PodsStayTyped
<1>6. ASSUME NEW p \in Pods, ObserveOOM(p) PROVE PodTypes'
  <2>1. Pod(p) \in PodState
    BY PodIsTyped
  <2>2. PICK oom \in BOOLEAN : pods' = [pods EXCEPT ![p] = [Pod(p) EXCEPT !.oom = oom]]
    BY <1>6 DEF ObserveOOM
  <2>3. [Pod(p) EXCEPT !.oom = oom] \in PodState
    BY <2>1 DEF PodState
  <2> QED
    BY <2>2, <2>3, PodsStayTyped
<1>7. ASSUME NEW p \in Pods, Prune(p) PROVE PodTypes'
  BY <1>7 DEF Prune, PodTypes
<1>8. CASE ObserveReplicas \/ ObserveRollout
  BY <1>8 DEF ObserveReplicas, ObserveRollout, PodTypes
<1>9. CASE Restart
  BY <1>9 DEF Restart, Unknown, PodTypes
<1>10. CASE UNCHANGED vars
  BY <1>10 DEF vars, PodTypes
<1> QED
  BY <1>1, <1>2, <1>3, <1>4, <1>5, <1>6, <1>7, <1>8, <1>9, <1>10 DEF Next

TimesToFailure == {"saturation", "recurrent_failure", "release_regression", "replica_divergence"}
Happening == {"startup_stuck", "replicas_unavailable", "rollout_stuck", "cpu_throttling", "oom_killed"}
Ranked == [mode : Happening, etf : {0}] \cup [mode : TimesToFailure, etf : Forecasts]

LEMMA RankedAre ==
  /\ \A mode \in Happening : InProgress(mode) \in Ranked
  /\ \A mode \in TimesToFailure, etf \in Forecasts : Forecast(mode, etf) \in Ranked
  BY DEF InProgress, Forecast, Ranked

LEMMA EstimatesAreRanked ==
  ASSUME PodTypes, NEW release \in Releases, NEW rhythm \in Rhythms,
         NEW e \in AllEstimates(release, rhythm)
  PROVE  e \in Ranked
<1> DEFINE explained == IF release = None THEN {} ELSE release.of
<1>1. \/ \E p \in Pods : e \in PodEstimates(p, explained)
      \/ e \in When(Missing, InProgress("replicas_unavailable"))
      \/ e \in When(Within(rollout, MaxAge), InProgress("rollout_stuck"))
      \/ e \in When(release # None, Forecast(release.mode, release.etf))
      \/ e \in When(rhythm # None, Forecast("recurrent_failure", rhythm))
  <2> DEFINE ofPods == {PodEstimates(p, explained) : p \in Pods}
             missing == When(Missing, InProgress("replicas_unavailable"))
             stalled == When(Within(rollout, MaxAge), InProgress("rollout_stuck"))
             released == When(release # None, Forecast(release.mode, release.etf))
             recurring == When(rhythm # None, Forecast("recurrent_failure", rhythm))
  <2>1. AllEstimates(release, rhythm) =
          (UNION ofPods) \cup missing \cup stalled \cup released \cup recurring
    BY Zenon DEF AllEstimates
  <2> HIDE DEF explained
  <2>2. (\E E \in ofPods : e \in E) => \E p \in Pods : e \in PodEstimates(p, explained)
    BY Zenon
  <2> HIDE DEF ofPods, missing, stalled, released, recurring
  <2>3. (\E E \in ofPods : e \in E) \/ e \in missing \/ e \in stalled
          \/ e \in released \/ e \in recurring
    BY <2>1
  <2> QED
    BY Zenon, <2>2, <2>3 DEF missing, stalled, released, recurring
<1> HIDE DEF explained
<1>2. ASSUME NEW p \in Pods, e \in PodEstimates(p, explained) PROVE e \in Ranked
  <2>1. Pod(p) \in PodState
    BY PodIsTyped
  <2>2. \/ Fresh(Pod(p)) /\ e = Forecast("saturation", Pod(p).etf)
        \/ e = InProgress("cpu_throttling")
        \/ e = InProgress("oom_killed")
        \/ e = InProgress("startup_stuck")
    BY <1>2 DEF PodEstimates, When
  <2>3. CASE Fresh(Pod(p)) /\ e = Forecast("saturation", Pod(p).etf)
    <3>1. Pod(p).etf \in Forecasts
      BY <2>1, <2>3 DEF Fresh, PodState
    <3> QED
      BY <2>3, <3>1, RankedAre DEF TimesToFailure
  <2>4. CASE e \in {InProgress("cpu_throttling"), InProgress("oom_killed"), InProgress("startup_stuck")}
    BY <2>4, RankedAre DEF Happening
  <2> QED
    BY <2>2, <2>3, <2>4
<1>3. ASSUME e \in When(Missing, InProgress("replicas_unavailable")) PROVE e \in Ranked
  BY <1>3, RankedAre DEF Happening, When
<1>4. ASSUME e \in When(Within(rollout, MaxAge), InProgress("rollout_stuck")) PROVE e \in Ranked
  BY <1>4, RankedAre DEF Happening, When
<1>5. ASSUME e \in When(release # None, Forecast(release.mode, release.etf)) PROVE e \in Ranked
  <2>1. release # None /\ e = Forecast(release.mode, release.etf)
    BY <1>5 DEF When
  <2>2. release.mode \in TimesToFailure /\ release.etf \in Forecasts
    BY <2>1 DEF Releases, TimesToFailure
  <2> QED
    BY <2>1, <2>2, RankedAre
<1>6. ASSUME e \in When(rhythm # None, Forecast("recurrent_failure", rhythm)) PROVE e \in Ranked
  <2>1. rhythm # None /\ e = Forecast("recurrent_failure", rhythm)
    BY <1>6 DEF When
  <2>2. rhythm \in Forecasts
    BY <2>1 DEF Rhythms
  <2> QED
    BY <2>1, <2>2, RankedAre DEF TimesToFailure
<1> QED
  BY <1>1, <1>2, <1>3, <1>4, <1>5, <1>6

LEMMA TimesAreNatural ==
  /\ Horizon \in Nat
  /\ \A e \in Ranked : e.etf \in Nat
<1>1. Forecasts \subseteq Nat /\ Horizon \in Nat
  BY EstimatesAssumption
<1>2. \A e \in [mode : Happening, etf : {0}] : e.etf \in Nat
  OBVIOUS
<1>3. \A e \in [mode : TimesToFailure, etf : Forecasts] : e.etf \in Nat
  BY <1>1
<1> QED
  BY <1>1, <1>2, <1>3 DEF Ranked

LEMMA UrgencyIsNatural == \A e \in Ranked : Urgency(e) \in Nat
<1> SUFFICES ASSUME NEW e \in Ranked PROVE Urgency(e) \in Nat
  OBVIOUS
<1>1. e.etf \in Nat
  BY TimesAreNatural
<1> QED
  BY <1>1 DEF Urgency, CriticalETF

(* Tracker.Worst always has something to show when there is something.      *)
LEMMA WorstExists ==
  ASSUME NEW estimates, estimates \subseteq Ranked, estimates # {}
  PROVE  Worst(estimates) # {}
<1> DEFINE S == {Urgency(e) : e \in estimates}
<1>1. S \subseteq Nat /\ S # {}
  BY UrgencyIsNatural
<1>2. PICK x \in S : \A y \in S : x <= y
  BY <1>1, LeastOfNaturals
<1>3. PICK e \in estimates : x = Urgency(e)
  BY <1>2
<1>4. e \in Worst(estimates)
  BY <1>2, <1>3 DEF Worst
<1> QED
  BY <1>4

(* The heart of the ranking: whatever ranks above trouble, or beside it, is *)
(* shown as trouble too.                                                    *)
LEMMA NothingAboveTroubleIsHealthy ==
  ASSUME Horizon > CriticalETF \/ ~(CriticalETF + 1 \in Forecasts),
         NEW w \in Ranked, NEW e \in Ranked, Trouble(e), Urgency(w) <= Urgency(e), NEW base
  PROVE  Shown(base, w) \in {"degraded", "critical"}
<1>1. \A state : Degraded(state) \in {"degraded", "critical"}
  BY DEF Degraded
<1>2. Horizon \in Nat /\ e.etf \in Nat /\ w.etf \in Nat
  BY TimesAreNatural
<1>3. CASE w.mode \in Happening
  BY <1>3, <1>1 DEF Shown, Happening
<1>4. CASE w.mode \in {"release_regression", "replica_divergence"}
  BY <1>4, <1>1, <1>2 DEF Shown, CriticalETF
<1>5. CASE w.mode \in {"saturation", "recurrent_failure"}
  <2>1. Urgency(w) = w.etf /\ w.etf \in Forecasts
    BY <1>5 DEF Urgency, Ranked, Happening
  <2>2. Shown(base, w) = IF w.etf <= CriticalETF THEN "critical"
                         ELSE IF w.etf <= Horizon THEN Degraded(base) ELSE base
    BY <1>5 DEF Shown
  <2>3. w.etf <= CriticalETF \/ w.etf <= Horizon
    <3>1. SUFFICES ASSUME w.etf > CriticalETF, w.etf > Horizon PROVE FALSE
      BY <1>2 DEF CriticalETF
    <3>2. CASE e.mode \in {"startup_stuck", "replicas_unavailable", "rollout_stuck"}
      <4>1. Urgency(e) <= 180
        BY <3>2 DEF Urgency
      <4>2. Urgency(e) \in Nat
        BY UrgencyIsNatural
      <4> QED
        BY <2>1, <3>1, <4>1, <4>2, <1>2 DEF CriticalETF
    <3>3. CASE e.mode = "cpu_throttling"
      <4>1. Urgency(e) = CriticalETF + 1
        BY <3>3 DEF Urgency
      <4>2. w.etf = CriticalETF + 1
        BY <2>1, <3>1, <4>1, <1>2 DEF CriticalETF
      <4> QED
        BY <2>1, <3>1, <4>2, <1>2 DEF CriticalETF
    <3>4. CASE e.mode \in TimesToFailure
      <4>1. Urgency(e) = e.etf /\ e.etf <= Horizon
        BY <3>4 DEF Urgency, TimesToFailure, Trouble
      <4> QED
        BY <2>1, <3>1, <4>1, <1>2
    <3>5. ~(e.mode = "oom_killed")
      BY DEF Trouble
    <3> QED
      BY <3>2, <3>3, <3>4, <3>5 DEF Ranked, Happening
  <2> QED
    BY <2>2, <2>3, <1>1
<1> QED
  BY <1>3, <1>4, <1>5 DEF Ranked, TimesToFailure

(* Trouble in progress, or a forecast inside the horizon, is never shown as *)
(* healthy, whatever readings came in which order and whatever else is      *)
(* known of the workload.  A forecast that ranks exactly beside throttling, *)
(* one second past critical, must be inside the horizon for it: it is with  *)
(* any horizon past the critical ten minutes.  (Tracker.Worst,              *)
(* applyEstimate)                                                           *)
THEOREM TroubleAlwaysShows ==
  ASSUME Horizon > CriticalETF \/ ~(CriticalETF + 1 \in Forecasts)
  PROVE  MCSpec => []TroubleIsAlwaysShown
<1>1. MCInit => PodTypes
  BY DEF MCInit, Init, Unknown, PodTypes
<1>2. PodTypes /\ [MCNext]_<<part, vars, fusionVars, podOwnerVars, graphVars, Rest>> => PodTypes'
  <2> SUFFICES ASSUME PodTypes, [MCNext]_<<part, vars, fusionVars, podOwnerVars, graphVars, Rest>>
               PROVE  PodTypes'
    OBVIOUS
  <2>1. Next \/ UNCHANGED vars
    BY DEF MCNext
  <2> QED
    BY <2>1, TrackerTypes
<1>3. PodTypes => TroubleIsAlwaysShown
  <2> SUFFICES ASSUME PodTypes, NEW release \in Releases, NEW rhythm \in Rhythms,
                      NEW e \in AllEstimates(release, rhythm), Trouble(e), NEW base
               PROVE  States(base, Worst(AllEstimates(release, rhythm))) \subseteq {"degraded", "critical"}
    BY Zenon DEF TroubleIsAlwaysShown, TroubleIsShown
  <2> DEFINE estimates == AllEstimates(release, rhythm)
             worst == Worst(estimates)
             state == IF CrashLoop THEN "critical" ELSE base
  <2>1. estimates \subseteq Ranked /\ e \in estimates
    BY EstimatesAreRanked
  <2> HIDE DEF estimates
  <2>2. worst # {}
    BY <2>1, WorstExists
  <2>3. \A w \in worst : w \in Ranked /\ Urgency(w) <= Urgency(e)
    BY <2>1 DEF Worst
  <2>4. \A w \in worst : Shown(state, w) \in {"degraded", "critical"}
    BY <2>1, <2>3, NothingAboveTroubleIsHealthy
  <2> HIDE DEF worst
  <2>5. States(base, worst) = {Shown(state, w) : w \in worst}
    BY Zenon, <2>2 DEF States
  <2> HIDE DEF state
  <2>6. States(base, worst) \subseteq {"degraded", "critical"}
    BY <2>4, <2>5
  <2> QED
    BY <2>6 DEF worst, estimates
<1> QED
  BY <1>1, <1>2, <1>3, PTL DEF MCSpec

----------------------------------------------------------------------------
(***************************************************************************)
(* The fused index is a weighted mean of the values that count, whichever  *)
(* of the four pipelines they come from.                                   *)
(***************************************************************************)
Signals == [val : Nat, ts : Nat]
FusionInv ==
  /\ now \in Nat
  /\ host \in [Pipelines -> Signals]
  /\ series.start \in Nat
  /\ bursts \in Seq(Nat)

LEMMA FusionStep == FusionInv /\ [FusionNext]_fusionVars => FusionInv'
<1> SUFFICES ASSUME FusionInv, [FusionNext]_fusionVars PROVE FusionInv'
  OBVIOUS
<1> USE DEF FusionInv
<1>0. Indexes \subseteq Nat
  BY FusionAssumption
<1>1. ASSUME NEW v \in Indexes, NEW p \in Pipelines, NEW ts \in Nat, SetR(p, v, ts)
      PROVE  host' \in [Pipelines -> Signals]
  BY <1>0, <1>1 DEF SetR, Signals
<1>2. ASSUME NEW v \in Indexes, SetMetricR(v) \/ SetTraceR(v) \/ SetInfraR(v) PROVE FusionInv'
  BY <1>1, <1>2 DEF SetMetricR, SetTraceR, SetInfraR, Pipelines, Compared
<1>3. ASSUME NEW v \in Indexes, LogWatcher(v) PROVE FusionInv'
  <2>1. Head(bursts) \in Nat /\ Tail(bursts) \in Seq(Nat)
    BY <1>3 DEF LogWatcher
  <2> QED
    BY <1>1, <1>3, <2>1 DEF LogWatcher, Pipelines, Compared
<1>4. ASSUME NEW isBurst \in BOOLEAN, ObserveLine(isBurst) PROVE FusionInv'
  BY <1>4 DEF ObserveLine
<1>5. CASE FusionTick
  BY <1>5 DEF FusionTick
<1>6. CASE UNCHANGED fusionVars
  BY <1>6 DEF fusionVars
<1> QED
  BY <1>2, <1>3, <1>4, <1>5, <1>6 DEF FusionNext

LEMMA WeightsAreCounts ==
  ASSUME NEW active \in SUBSET Pipelines
  PROVE  /\ \A p \in active : Weights(active)[p] \in Nat
         /\ "infra" \in active => \A p \in active : Weights(active)[p] # 0
  BY DEF Weights, Weight, Pipelines, Compared

(* Without infra the weights are parts of a hundred already. *)
LEMMA WithoutInfraAHundred ==
  ASSUME NEW active \in SUBSET Compared, active # {}
  PROVE  SumFunctionOnSet(Weights(active), active) = 100
<1>0. \A p \in active : Weights(active)[p] = Weight(p, active)
  BY DEF Weights
<1>1. ASSUME NEW p \in Compared, active = {p} PROVE SumFunctionOnSet(Weights(active), active) = 100
  <2>1. /\ Cardinality(active) = 1 /\ "infra" \notin active
        /\ active # Compared /\ active # {"log", "trace"}
    <3>1. Cardinality(active) = 1
      BY <1>1, FS_Singleton
    <3> QED
      BY <1>1, <3>1 DEF Compared
  <2>2. Weight(p, active) = 100
    BY <2>1 DEF Weight
  <2>3. p \in active /\ Weights(active)[p] = 100
    BY <1>0, <1>1, <2>2
  <2> QED
    BY <1>1, <2>3, SumOfOne
<1>a. ASSUME NEW p, NEW q, p # q, Weights(active)[p] \in Int, Weights(active)[q] \in Int
      PROVE  SumFunctionOnSet(Weights(active), {p, q}) = Weights(active)[p] + Weights(active)[q]
  BY <1>a, SumOfTwo, Zenon
<1>2. ASSUME NEW p \in Compared, NEW q \in Compared, p # q, q # "metric", active = {p, q}
      PROVE  SumFunctionOnSet(Weights(active), active) = 100
  <2>1. Cardinality(active) = 2 /\ "infra" \notin active /\ active # Compared
    <3>1. Cardinality({p, q}) = 2
      BY <1>2, PairsCount, Zenon
    <3> QED
      BY <1>2, <3>1 DEF Compared
  <2>2. CASE p = "metric"
    <3>1. Weights(active)[p] = 75 /\ Weights(active)[q] = 25
      BY <1>0, <1>2, <2>1, <2>2 DEF Weight, Compared
    <3>2. SumFunctionOnSet(Weights(active), {p, q}) = Weights(active)[p] + Weights(active)[q]
      <4>1. Weights(active)[p] \in Int /\ Weights(active)[q] \in Int
        BY <3>1
      <4> QED
        BY <1>2, <1>a, <4>1, Zenon
    <3> QED
      BY <1>2, <3>1, <3>2
  <2>3. CASE p # "metric"
    <3>1. active = {"log", "trace"}
      BY <1>2, <2>3 DEF Compared
    <3>2. Weights(active)[p] = 50 /\ Weights(active)[q] = 50
      BY <1>0, <1>2, <2>1, <3>1 DEF Weight, Compared
    <3>3. SumFunctionOnSet(Weights(active), {p, q}) = Weights(active)[p] + Weights(active)[q]
      <4>1. Weights(active)[p] \in Int /\ Weights(active)[q] \in Int
        BY <3>2
      <4> QED
        BY <1>2, <1>a, <4>1, Zenon
    <3> QED
      BY <1>2, <3>2, <3>3
  <2> QED
    BY <2>2, <2>3
<1>3. CASE active = Compared
  <2>1. Cardinality(active) # 1
    <3>1. Compared = {"log", "trace"} \cup {"metric"} /\ "metric" \notin {"log", "trace"}
      BY DEF Compared
    <3>2. Cardinality({"log", "trace"}) = 2 /\ IsFiniteSet({"log", "trace"})
      <4>1. "log" # "trace"
        OBVIOUS
      <4> QED
        BY <4>1, PairsCount, Zenon
    <3> QED
      BY <1>3, <3>1, <3>2, FS_AddElement
  <2>2. Weights(active)["metric"] = 60 /\ Weights(active)["log"] = 20 /\ Weights(active)["trace"] = 20
    BY <1>0, <1>3, <2>1 DEF Weight, Compared
  <2>4. PICK w, x, y, z : w = Weights(active) /\ x = "metric" /\ y = "log" /\ z = "trace"
    OBVIOUS
  <2>5. x # y /\ x # z /\ y # z /\ w[x] = 60 /\ w[y] = 20 /\ w[z] = 20
    BY <2>2, <2>4
  <2>6. w[x] \in Int /\ w[y] \in Int /\ w[z] \in Int
    BY <2>5
  <2>8. active = {x, y, z}
    BY <1>3, <2>4 DEF Compared
  <2>7. SumFunctionOnSet(w, active) = w[x] + (w[y] + w[z])
    <3>1. x \notin {y, z} /\ y # z /\ active = {y, z} \cup {x}
      BY <2>5, <2>8
    <3>2. SumFunctionOnSet(w, {y, z}) = w[y] + w[z]
      BY <2>6, <3>1, SumOfTwo, Zenon
    <3>3. IsFiniteSet({y, z})
      BY <3>1, PairsCount, Zenon
    <3>4. \A u \in {y, z} \cup {x} : w[u] \in Int
      BY <2>6
    <3>5. SumFunctionOnSet(w, {y, z} \cup {x}) = w[x] + SumFunctionOnSet(w, {y, z})
      BY <3>1, <3>3, <3>4, SumAdds, Zenon
    <3> QED
      BY <3>1, <3>2, <3>5
  <2>3. SumFunctionOnSet(Weights(active), active) = 60 + (20 + 20)
    BY <2>4, <2>5, <2>7
  <2> QED
    BY <2>3
<1>4. \/ active = Compared
      \/ \E p \in Compared : active = {p}
      \/ \E p \in Compared, q \in Compared : p # q /\ q # "metric" /\ active = {p, q}
  BY DEF Compared
<1> QED
  BY <1>1, <1>2, <1>3, <1>4

(* What FreshValues is of a typed host: a value and a stamp per pipeline.   *)
LEMMA FreshAreSignals ==
  ASSUME FusionInv PROVE FreshValues \in [Pipelines -> Signals]
  BY DEF FusionInv, FreshValues, Signals, Unset

Middling(f, lo, hi) ==
  /\ f.ok /\ f.den \in Nat /\ f.den # 0 /\ f.num \in Nat
  /\ lo * f.den <= f.num /\ f.num <= hi * f.den

(* Of any pipelines that are fresh, but for infra alone, the fused value    *)
(* lies between any bounds of their values.                                 *)
LEMMA FusedIsAMean ==
  ASSUME NEW d \in [Pipelines -> Signals], ActiveIn(d) \notin {{}, {"infra"}},
         NEW lo \in Nat, NEW hi \in Nat, \A p \in ActiveIn(d) : lo <= d[p].val /\ d[p].val <= hi
  PROVE  Middling(Fused(d), lo, hi)
<1> DEFINE active == ActiveIn(d)
           w == Weights(active)
           v == [p \in active |-> d[p].val]
           f == [p \in active |-> Weights(active)[p] * d[p].val]
<1>1. active \in SUBSET Pipelines
  BY DEF ActiveIn
<1>2. IsFiniteSet(Pipelines) /\ IsFiniteSet(active)
  <2>1. Pipelines = {"metric", "log"} \cup {"trace", "infra"}
    BY DEF Pipelines, Compared
  <2>2. \A x, y : IsFiniteSet({x, y})
    BY PairsAreFinite
  <2>3. IsFiniteSet(Pipelines)
    BY <2>1, <2>2, FS_Union
  <2> QED
    BY <1>1, <2>3, FS_Subset
<1>3. \A p \in active : d[p].val \in Nat
  BY <1>1 DEF Signals
<1>4. Weighing(active, w, f, v, lo, hi)
  <2>1. \A p \in active : w[p] \in Nat
    BY <1>1, WeightsAreCounts
  <2>2. \A p \in active : v[p] = d[p].val /\ f[p] = w[p] * v[p]
    OBVIOUS
  <2> HIDE DEF w, v, f, active
  <2>3. \A p \in active : v[p] \in Int /\ lo <= v[p] /\ v[p] <= hi
    BY <1>3, <2>2 DEF active
  <2> QED
    BY <2>1, <2>2, <2>3 DEF Weighing
<1> DEFINE total == SumFunctionOnSet(w, active)
           sum == SumFunctionOnSet(f, active)
<1> HIDE DEF w, v, f, active
<1>5. WeighsUp(total, sum, active, w, lo, hi)
  BY <1>2, <1>4, WeightedSum
<1>6. total = Parts(active)
  <2>1. CASE "infra" \in active
    BY <2>1 DEF Parts, w
  <2>2. CASE "infra" \notin active
    <3>1. active \in SUBSET Compared /\ active # {}
      BY <1>1, <2>2 DEF Pipelines, active
    <3>2. total = 100
      BY <3>1, WithoutInfraAHundred DEF w
    <3> QED
      BY <2>2, <3>2 DEF Parts
  <2> QED
    BY <2>1, <2>2
<1>7. total # 0
  <2>1. CASE "infra" \in active
    <3>1. w["infra"] # 0
      BY <1>1, <2>1, WeightsAreCounts DEF w
    <3> QED
      BY <1>5, <2>1, <3>1 DEF WeighsUp
  <2>2. CASE "infra" \notin active
    BY <1>6, <2>2 DEF Parts
  <2> QED
    BY <2>1, <2>2
<1>8. Fused(d) = [ok |-> TRUE, num |-> sum, den |-> total]
  BY <1>6 DEF Fused, active, w, f
<1>9. total \in Nat /\ sum \in Int /\ total * lo <= sum /\ sum <= total * hi
  BY <1>5 DEF WeighsUp
<1> HIDE DEF total, sum
<1>10. PICK m \in Nat, s \in Int : m = total /\ s = sum /\ m * lo <= s /\ s <= m * hi
  BY <1>9
<1>11. m * lo \in Nat /\ m * lo = lo * m /\ m * hi = hi * m
  OBVIOUS
<1>12. s \in Nat /\ lo * m <= s /\ s <= hi * m
  BY <1>10, <1>11
<1> QED
  BY <1>7, <1>8, <1>10, <1>12 DEF Middling

(* Whatever subset of the pipelines is fresh, the fused value is an average *)
(* of their values, and the reader that caps it agrees with the two that do *)
(* not, for any values, ages and bursts.  (fusion.go)                       *)
THEOREM FusedStaysWithin == MCSpec => []FusedAlwaysWithin
<1>1. MCInit => FusionInv
  BY DEF MCInit, FusionInit, FusionInv, Signals, Unset
<1>2. FusionInv /\ [MCNext]_<<part, vars, fusionVars, podOwnerVars, graphVars, Rest>> => FusionInv'
  <2>1. [MCNext]_<<part, vars, fusionVars, podOwnerVars, graphVars, Rest>> => [FusionNext]_fusionVars
    BY DEF MCNext
  <2> QED
    BY <2>1, FusionStep
<1>3. FusionInv => FusedAlwaysWithin
  <2> SUFFICES ASSUME FusionInv PROVE FusedWithinItsSignals
    BY DEF FusedAlwaysWithin
  <2> DEFINE d == FreshValues
             fresh == ActiveIn(d)
             vals == {d[p].val : p \in fresh}
             f == Fused(d)
  <2>1. d \in [Pipelines -> Signals]
    BY FreshAreSignals
  <2> HIDE DEF d
  <2>2. vals \in SUBSET Nat /\ IsFiniteSet(vals)
    <3>1. vals = {d[p].val : p \in {q \in Pipelines : d[q].ts # 0}}
      BY DEF ActiveIn
    <3>2. vals \subseteq {d["metric"].val, d["log"].val} \cup {d["trace"].val, d["infra"].val}
      BY DEF Pipelines, Compared, ActiveIn
    <3>3. \A x, y : IsFiniteSet({x, y})
      BY PairsAreFinite
    <3>4. IsFiniteSet({d["metric"].val, d["log"].val} \cup {d["trace"].val, d["infra"].val})
      BY <3>3, FS_Union
    <3> QED
      BY <2>1, <3>2, <3>4, FS_Subset DEF ActiveIn, Signals
  <2> SUFFICES ASSUME fresh \notin {{}, {"infra"}}
               PROVE  /\ f.ok /\ Between(f, vals, Max(vals))
                      /\ (IF f.ok THEN f.num ELSE 0) = f.num
                      /\ FusedR.ok => /\ Between(FusedR, vals, MaxFusedR)
                                      /\ FusedR.num * f.den = Min({f.num, MaxFusedR * f.den}) * FusedR.den
    BY Zenon DEF FusedWithinItsSignals, Snapshot, StateByWorkload, d
  <2>3. vals # {}
    OBVIOUS
  <2> DEFINE lo == Min(vals)
             hi == Max(vals)
  <2>4. lo \in vals /\ \A x \in vals : lo <= x
    BY <2>2, <2>3, LeastOfNaturals DEF Min
  <2>5. hi \in vals /\ \A x \in vals : x <= hi
    <3>1. \E m \in vals : \A x \in vals : x <= m
      BY <2>2, <2>3, GreatestOfFinite
    <3>2. \E m \in vals : \A x \in vals : m >= x
      BY <2>2, <3>1
    <3>3. hi \in vals /\ \A x \in vals : hi >= x
      BY <3>2, Zenon DEF Max
    <3> QED
      BY <2>2, <3>3
  <2> HIDE DEF lo, hi
  <2>6. Middling(f, lo, hi)
    <3>1. \A p \in ActiveIn(d) : lo <= d[p].val /\ d[p].val <= hi
      BY <2>4, <2>5
    <3> QED
      BY <2>1, <2>2, <2>4, <2>5, <3>1, FusedIsAMean
  <2>7. \A S \in SUBSET Nat : S # {} => Min(S) \in S /\ \A x \in S : Min(S) <= x
    BY LeastOfNaturals DEF Min
  <2> HIDE DEF vals, f
  <2>8. PICK n \in Nat, k \in Nat : n = f.num /\ k = f.den /\ f.ok /\ lo * k <= n /\ n <= hi * k
    BY <2>6, Zenon DEF Middling
  <2>9. Between(f, vals, Max(vals))
    <3>1. vals \cup {hi} = vals
      BY <2>5
    <3> QED
      BY <2>8, <3>1 DEF Between, lo, hi
  <2>10. ASSUME FusedR.ok
         PROVE  /\ Between(FusedR, vals, MaxFusedR)
                /\ FusedR.num * f.den = Min({f.num, MaxFusedR * f.den}) * FusedR.den
    <3>1. FusedR = [ok |-> TRUE, num |-> Min({f.num, MaxFusedR * f.den}), den |-> f.den]
      BY <2>10, Zenon DEF FusedR, f, d
    <3>2. PICK c \in Nat : c = MaxFusedR * k
      BY FusionAssumption
    <3>3. PICK m \in Nat : m = Min({n, c}) /\ m \in {n, c} /\ m <= n /\ m <= c
      <4>1. {n, c} \in SUBSET Nat /\ {n, c} # {}
        OBVIOUS
      <4> QED
        BY <2>7, <4>1
    <3>4. FusedR.num = m /\ FusedR.den = k
      BY <2>8, <3>1, <3>2, <3>3
    <3>5. PICK b \in Nat : b = Min(vals \cup {MaxFusedR}) /\ b <= lo /\ b <= MaxFusedR
      <4>1. vals \cup {MaxFusedR} \in SUBSET Nat /\ vals \cup {MaxFusedR} # {}
        BY <2>2, FusionAssumption
      <4> QED
        BY <2>4, <2>7, <4>1
    <3>6. b * k <= lo * k /\ b * k <= c /\ b * k \in Nat /\ lo * k \in Nat
      <4>1. lo \in Nat /\ MaxFusedR \in Nat
        BY <2>2, <2>4, FusionAssumption
      <4>2. k * b <= k * lo /\ k * b <= k * MaxFusedR
        BY <3>5, <4>1, ProductKeepsOrder
      <4>3. k * b = b * k /\ k * lo = lo * k /\ k * MaxFusedR = MaxFusedR * k
        BY <4>1
      <4> QED
        BY <3>2, <4>1, <4>2, <4>3
    <3>7. PICK low \in Nat : low = b * k
      BY <3>6
    <3>8. low <= m /\ m <= hi * k
      <4>1. PICK x \in Nat, y \in Nat : x = lo * k /\ y = hi * k
        BY <2>2, <2>4, <2>5
      <4> QED
        BY <2>8, <3>3, <3>6, <3>7, <4>1
    <3>9. Between(FusedR, vals, MaxFusedR)
      BY <3>4, <3>5, <3>7, <3>8 DEF Between, hi
    <3> QED
      BY <2>8, <3>1, <3>4, <3>9, Zenon
  <2> QED
    BY <2>8, <2>9, <2>10
<1> QED
  BY <1>1, <1>2, <1>3, PTL DEF MCSpec
----------------------------------------------------------------------------
(***************************************************************************)
(* The search for callers.                                                 *)
(***************************************************************************)
Workloads == Range(Apps)
OnlyAppsCall == \A b : EnvCallers(b) \subseteq Workloads
Searched == [found : Seq(Workloads), waiting : Seq(Workloads)]

(* How a search goes on, and the levels of the calls.                      *)
Goes(f, t) ==
  /\ f \in [Nat -> Searched]
  /\ f[0] = [found |-> <<>>, waiting |-> <<t>>]
  /\ \A n \in Nat : f[n + 1] = Ask(f[n], t)
Levels(h, t) ==
  /\ h \in [Nat -> SUBSET Workloads]
  /\ h[0] = {t}
  /\ \A n \in Nat : h[n + 1] = h[n] \cup UNION {EnvCallers(b) : b \in h[n]}

(* Whom a search that found f asks as the i-th.                            *)
Who(t, f, i) == IF i = 1 THEN t ELSE f[i - 1]
Asked(n, f) == IF n <= Len(f) + 1 THEN n ELSE Len(f) + 1

(* After d were asked: each one found once, none of them the target; who    *)
(* waits follows whom it asked; and it found their callers, no farther away *)
(* than their place.                                                       *)
Search(t, f, w, d, h) ==
  /\ f \in Seq(Workloads) /\ w \in Seq(Workloads)
  /\ \A i \in 1..Len(f) : f[i] # t
  /\ \A i, j \in 1..Len(f) : f[i] = f[j] => i = j
  /\ d \in 0..(Len(f) + 1) /\ Len(w) = Len(f) + 1 - d
  /\ \A i \in 1..Len(w) : w[i] = Who(t, f, d + i)
  /\ \A x \in Workloads : (\E i \in 1..Len(f) : f[i] = x) <=> (x # t /\ \E i \in 1..d : x \in EnvCallers(Who(t, f, i)))
  /\ \A i \in 1..Len(f) : f[i] \in h[i]

LEMMA SortedOf ==
  ASSUME NEW X
  PROVE  /\ Sorted(X) \in Seq(Workloads) /\ Range(Sorted(X)) = Workloads \cap X /\ IsInjective(Sorted(X))
<1>1. Apps \in Seq(Workloads) /\ IsInjective(Apps)
  BY CallGraphAssumption DEF Workloads
<1>2. Sorted(X) = Keeping(Apps, X)
  BY Zenon DEF Sorted, Keeping
<1>3. Keeping(Apps, X) \in Seq(Workloads) /\ Range(Keeping(Apps, X)) = Range(Apps) \cap X
  BY <1>1, KeepingOf
<1>4. IsInjective(Keeping(Apps, X))
  BY <1>1, KeepingIsInjective
<1> QED
  BY <1>2, <1>3, <1>4 DEF Workloads

LEMMA AskIsTyped ==
  ASSUME NEW t, NEW a \in Searched
  PROVE  Ask(a, t) \in Searched
<1> DEFINE new == Unseen(EnvCallers(Head(a.waiting)), a.found, t)
<1>1. new \in Seq(Workloads)
  BY SortedOf DEF Unseen
<1>2. a.found \in Seq(Workloads) /\ a.waiting \in Seq(Workloads)
  BY DEF Searched
<1>3. CASE a.waiting = <<>>
  BY <1>3 DEF Ask
<1>4. CASE a.waiting # <<>>
  <2>1. Ask(a, t) = [found |-> a.found \o new, waiting |-> Tail(a.waiting) \o new]
    BY <1>4 DEF Ask
  <2> HIDE DEF new
  <2>2. a.found \o new \in Seq(Workloads)
    BY <1>1, <1>2
  <2>3. Tail(a.waiting) \in Seq(Workloads)
    BY <1>2, <1>4
  <2>4. Tail(a.waiting) \o new \in Seq(Workloads)
    BY <1>1, <2>3
  <2> QED
    BY <2>1, <2>2, <2>4 DEF Searched
<1> QED
  BY <1>3, <1>4

LEMMA CallersAreSearched ==
  ASSUME NEW t \in Workloads
  PROVE  \E f : Goes(f, t) /\ Callers(t) = f[Len(Apps) + 1].found
<1> DEFINE start == [found |-> <<>>, waiting |-> <<t>>]
           Eq(f) == f = [n \in Nat |-> IF n = 0 THEN start ELSE Ask(f[n - 1], t)]
           G == [a \in Searched |-> Ask(a, t)]
<1>0. Callers(t) = (CHOOSE f : Eq(f))[Len(Apps) + 1].found
  BY Zenon DEF Callers
<1>1. start \in Searched
  BY DEF Searched
<1>2. \A a \in Searched : G[a] \in Searched /\ G[a] = Ask(a, t)
  BY AskIsTyped
<1> HIDE DEF G
<1>3a. PICK f : Recurs(f, Searched, start, G)
  <2>1. \A a \in Searched : G[a] \in Searched
    BY <1>2
  <2> HIDE DEF start
  <2> QED
    BY <1>1, <2>1, RecursionIsDefined
<1> HIDE DEF start
<1>3. f \in [Nat -> Searched] /\ f[0] = start /\ \A n \in Nat : f[n + 1] = G[f[n]]
  BY <1>3a DEF Recurs
<1>4. \A n \in Nat : f[n] = IF n = 0 THEN start ELSE Ask(f[n - 1], t)
  <2> SUFFICES ASSUME NEW n \in Nat, n # 0 PROVE f[n] = Ask(f[n - 1], t)
    BY <1>3
  <2>1. n - 1 \in Nat /\ (n - 1) + 1 = n
    OBVIOUS
  <2>2. f[(n - 1) + 1] = G[f[n - 1]] /\ f[n - 1] \in Searched
    BY <1>3, <2>1
  <2> QED
    BY <1>2, <2>1, <2>2
<1>5. Eq(f)
  BY <1>3, <1>4
<1> DEFINE g == CHOOSE x : Eq(x)
<1>6. Eq(g)
  <2> HIDE DEF Eq
  <2> QED
    BY <1>5
<1> HIDE DEF g
<1>7. g = [n \in Nat |-> g[n]] /\ g[0] = start
  BY <1>6
<1>8. ASSUME NEW n \in Nat PROVE g[n + 1] = Ask(g[n], t)
  <2>1. n + 1 \in Nat /\ n + 1 # 0 /\ (n + 1) - 1 = n
    OBVIOUS
  <2> QED
    BY <1>6, <2>1
<1> HIDE DEF Eq
<1>9. \A n \in Nat : g[n] \in Searched
  <2> DEFINE P == {n \in Nat : g[n] \in Searched}
  <2>1. 0 \in P
    BY <1>1, <1>7
  <2>2. \A n \in Nat : n \in P => n + 1 \in P
    BY <1>8, AskIsTyped
  <2> HIDE DEF P
  <2>3. \A n \in Nat : n \in P
    BY <2>1, <2>2, EveryNatural
  <2> QED
    BY <2>3 DEF P
<1>10. g \in [Nat -> Searched]
  BY <1>7, <1>9
<1>11. Goes(g, t)
  BY <1>7, <1>8, <1>10 DEF Goes, start
<1> QED
  BY <1>0, <1>11 DEF g

LEMMA HitsAreLevels ==
  ASSUME NEW t \in Workloads, OnlyAppsCall
  PROVE  \E h : Levels(h, t) /\ \A n \in Nat : HitWithin(t, n) = h[n] \ {t}
<1> DEFINE More(a) == a \cup UNION {EnvCallers(b) : b \in a}
           Eq(f) == f = [n \in Nat |-> IF n = 0 THEN {t} ELSE f[n - 1] \cup UNION {EnvCallers(b) : b \in f[n - 1]}]
           G == [a \in SUBSET Workloads |-> More(a)]
<1>0. \A n \in Nat : HitWithin(t, n) = (CHOOSE f : Eq(f))[n] \ {t}
  BY Zenon DEF HitWithin
<1>1. {t} \in SUBSET Workloads
  OBVIOUS
<1>2. \A a \in SUBSET Workloads : More(a) \in SUBSET Workloads
  BY DEF OnlyAppsCall
<1>3. \A a \in SUBSET Workloads : G[a] \in SUBSET Workloads /\ G[a] = More(a)
  BY <1>2
<1> HIDE DEF G
<1>4a. PICK f : Recurs(f, SUBSET Workloads, {t}, G)
  <2>1. \A a \in SUBSET Workloads : G[a] \in SUBSET Workloads
    BY <1>3
  <2> QED
    BY <1>1, <2>1, RecursionIsDefined
<1>4. f \in [Nat -> SUBSET Workloads] /\ f[0] = {t} /\ \A n \in Nat : f[n + 1] = G[f[n]]
  BY <1>4a DEF Recurs
<1>5. \A n \in Nat : f[n] = IF n = 0 THEN {t} ELSE More(f[n - 1])
  <2> SUFFICES ASSUME NEW n \in Nat, n # 0 PROVE f[n] = More(f[n - 1])
    BY <1>4
  <2>1. n - 1 \in Nat /\ (n - 1) + 1 = n
    OBVIOUS
  <2>2. f[(n - 1) + 1] = G[f[n - 1]] /\ f[n - 1] \in SUBSET Workloads
    BY <1>4, <2>1
  <2> HIDE DEF More
  <2> QED
    BY <1>3, <2>1, <2>2
<1>6. Eq(f)
  BY <1>4, <1>5
<1> DEFINE g == CHOOSE x : Eq(x)
<1>7. Eq(g)
  <2> HIDE DEF Eq
  <2> QED
    BY <1>6
<1> HIDE DEF g
<1>8. g = [n \in Nat |-> g[n]] /\ g[0] = {t}
  BY <1>7
<1>9. ASSUME NEW n \in Nat PROVE g[n + 1] = More(g[n])
  <2>1. n + 1 \in Nat /\ n + 1 # 0 /\ (n + 1) - 1 = n
    OBVIOUS
  <2> QED
    BY <1>7, <2>1
<1> HIDE DEF Eq
<1>10. \A n \in Nat : g[n] \in SUBSET Workloads
  <2> DEFINE P == {n \in Nat : g[n] \in SUBSET Workloads}
  <2>1. 0 \in P
    BY <1>8
  <2>2. \A n \in Nat : n \in P => n + 1 \in P
    <3> HIDE DEF More
    <3> QED
      BY <1>2, <1>9
  <2> HIDE DEF P
  <2>3. \A n \in Nat : n \in P
    BY <2>1, <2>2, EveryNatural
  <2> QED
    BY <2>3 DEF P
<1>11. g \in [Nat -> SUBSET Workloads]
  BY <1>8, <1>10
<1>12. Levels(g, t)
  BY <1>8, <1>9, <1>11 DEF Levels
<1> QED
  BY <1>0, <1>12 DEF g

LEMMA LevelsGrow ==
  ASSUME NEW t, NEW h, Levels(h, t)
  PROVE  /\ \A m, n \in Nat : m <= n => h[m] \subseteq h[n]
         /\ \A n \in Nat : t \in h[n]
<1>1. \A n \in Nat : h[n] \subseteq h[n + 1]
  BY DEF Levels
<1>2. ASSUME NEW m \in Nat PROVE \A n \in Nat : m <= n => h[m] \subseteq h[n]
  <2> DEFINE P == {n \in Nat : m <= n => h[m] \subseteq h[n]}
  <2>1. 0 \in P
    OBVIOUS
  <2>2. ASSUME NEW n \in Nat, n \in P PROVE n + 1 \in P
    <3> SUFFICES ASSUME m <= n + 1 PROVE h[m] \subseteq h[n + 1]
      OBVIOUS
    <3>1. CASE m = n + 1
      BY <3>1
    <3>2. CASE m <= n
      BY <1>1, <2>2, <3>2
    <3> QED
      BY <3>1, <3>2
  <2> HIDE DEF P
  <2>3. \A n \in Nat : n \in P
    BY <2>1, <2>2, EveryNatural
  <2> QED
    BY <2>3 DEF P
<1>3. \A n \in Nat : t \in h[n]
  <2>1. t \in h[0]
    BY DEF Levels
  <2>2. \A n \in Nat : 0 <= n
    OBVIOUS
  <2> QED
    BY <1>2, <2>1, <2>2
<1> QED
  BY <1>2, <1>3

(* Asking one more keeps what Search says. *)
LEMMA AskKeepsSearch ==
  ASSUME NEW t \in Workloads, OnlyAppsCall, NEW h, Levels(h, t),
         NEW f, NEW w, NEW d, Search(t, f, w, d, h), w # <<>>,
         NEW new, new = Unseen(EnvCallers(Head(w)), f, t)
  PROVE  /\ Search(t, f \o new, Tail(w) \o new, d + 1, h)
         /\ d <= Len(f) /\ Len(f) <= Len(f \o new)
         /\ \A i \in 1..Len(f) : (f \o new)[i] = f[i]
<1>1. PICK l \in Nat : l = Len(f) /\ DOMAIN f = 1..l
  BY DEF Search
<1>2. PICK v \in Nat : v = Len(w) /\ v > 0
  <2>1. w \in Seq(Workloads)
    BY DEF Search
  <2>2. Len(w) \in Nat /\ Len(w) # 0
    BY <2>1
  <2> QED
    BY <2>2
<1>3. d \in 0..l /\ v = l + 1 - d
  BY <1>1, <1>2 DEF Search
<1>4. /\ f \in Seq(Workloads) /\ w \in Seq(Workloads)
      /\ \A i \in 1..l : f[i] # t /\ f[i] \in h[i] /\ f[i] \in Workloads
      /\ \A i, j \in 1..l : f[i] = f[j] => i = j
      /\ \A i \in 1..v : w[i] = Who(t, f, d + i)
      /\ \A x \in Workloads : (\E i \in 1..l : f[i] = x) <=> (x # t /\ \E i \in 1..d : x \in EnvCallers(Who(t, f, i)))
  <2>1. f \in Seq(Workloads) /\ w \in Seq(Workloads)
    BY DEF Search
  <2>2. \A i \in 1..l : f[i] # t /\ f[i] \in h[i]
    BY <1>1 DEF Search
  <2>3. \A i \in 1..l : f[i] \in Workloads
    BY <1>1, <2>1
  <2>4. \A i, j \in 1..l : f[i] = f[j] => i = j
    BY <1>1 DEF Search
  <2>5. \A i \in 1..v : w[i] = Who(t, f, d + i)
    BY <1>2 DEF Search
  <2>6. \A x \in Workloads : (\E i \in 1..l : f[i] = x) <=> (x # t /\ \E i \in 1..d : x \in EnvCallers(Who(t, f, i)))
    BY <1>1 DEF Search
  <2> QED
    BY <2>1, <2>2, <2>3, <2>4, <2>5, <2>6
<1> DEFINE a == Who(t, f, d + 1)
<1>5. Head(w) = a /\ EnvCallers(a) \subseteq Workloads
  BY <1>2, <1>4 DEF OnlyAppsCall
<1>6. Range(f) = {f[i] : i \in 1..l}
  BY <1>1 DEF Range
<1> DEFINE X == EnvCallers(a) \ (Range(f) \cup {t})
<1>7. /\ new \in Seq(Workloads) /\ Range(new) = X /\ IsInjective(new)
  <2>1. new = Sorted(X)
    BY <1>5 DEF Unseen
  <2>2. X \subseteq Workloads
    BY <1>5
  <2> HIDE DEF X
  <2> QED
    BY <2>1, <2>2, SortedOf
<1>8. PICK k \in Nat : k = Len(new) /\ DOMAIN new = 1..k
  BY <1>7
<1>9. /\ \A i, j \in 1..k : new[i] = new[j] => i = j
      /\ \A x : x \in X <=> \E i \in 1..k : new[i] = x
  <2>1. Range(new) = {new[i] : i \in 1..k}
    BY <1>8 DEF Range
  <2> QED
    BY <1>7, <1>8, <2>1 DEF IsInjective
<1> DEFINE c == f \o new
           q == Tail(w) \o new
<1>10. /\ c \in Seq(Workloads) /\ Len(c) = l + k
       /\ \A i \in 1..l : c[i] = f[i]
       /\ \A i \in 1..k : c[l + i] = new[i]
  BY <1>1, <1>4, <1>7, <1>8
<1>11. /\ q \in Seq(Workloads) /\ Len(q) = (v - 1) + k
       /\ \A i \in 1..(v - 1) : q[i] = w[i + 1]
       /\ \A i \in 1..k : q[(v - 1) + i] = new[i]
  <2>1. /\ Tail(w) \in Seq(Workloads) /\ Len(Tail(w)) = v - 1
        /\ \A i \in 1..(v - 1) : Tail(w)[i] = w[i + 1]
    BY <1>2, <1>4
  <2> QED
    BY <1>7, <1>8, <2>1
<1>12. \A i \in 1..k : new[i] \in EnvCallers(a) /\ new[i] # t /\ \A j \in 1..l : f[j] # new[i]
  <2> SUFFICES ASSUME NEW i \in 1..k
               PROVE  new[i] \in EnvCallers(a) /\ new[i] # t /\ \A j \in 1..l : f[j] # new[i]
    OBVIOUS
  <2>1. new[i] \in X
    <3> HIDE DEF X
    <3> QED
      BY <1>9
  <2>2. new[i] \in EnvCallers(a) /\ new[i] # t /\ new[i] \notin Range(f)
    BY <2>1
  <2> QED
    BY <1>6, <2>2
<1> HIDE DEF c, q
<1>13. \A i \in 1..(l + k) : i \in 1..l \/ \E j \in 1..k : i = l + j
  <2> SUFFICES ASSUME NEW i \in 1..(l + k), i \notin 1..l PROVE i - l \in 1..k /\ i = l + (i - l)
    OBVIOUS
  <2> QED
    OBVIOUS
<1>14. \A i \in 1..(l + k) : c[i] # t
  <2> SUFFICES ASSUME NEW i \in 1..(l + k) PROVE c[i] # t
    OBVIOUS
  <2>1. CASE i \in 1..l
    BY <1>4, <1>10, <2>1
  <2>2. CASE i \notin 1..l
    <3>1. PICK j \in 1..k : i = l + j
      BY <1>13, <2>2
    <3> QED
      BY <1>10, <1>12, <3>1
  <2> QED
    BY <2>1, <2>2
<1>15. ASSUME NEW i \in 1..(l + k), NEW j \in 1..(l + k), c[i] = c[j] PROVE i = j
  <2>1. CASE i \in 1..l /\ j \in 1..l
    BY <1>4, <1>10, <1>15, <2>1
  <2>2. CASE i \in 1..l /\ j \notin 1..l
    BY <1>10, <1>12, <1>13, <1>15, <2>2
  <2>3. CASE i \notin 1..l /\ j \in 1..l
    BY <1>10, <1>12, <1>13, <1>15, <2>3
  <2>4. CASE i \notin 1..l /\ j \notin 1..l
    <3>1. PICK x \in 1..k : i = l + x
      BY <1>13, <2>4
    <3>2. PICK y \in 1..k : j = l + y
      BY <1>13, <2>4
    <3>3. new[x] = new[y]
      BY <1>10, <1>15, <3>1, <3>2
    <3> QED
      BY <1>9, <3>1, <3>2, <3>3
  <2> QED
    BY <2>1, <2>2, <2>3, <2>4
<1>16. d + 1 \in 0..(l + k + 1) /\ (v - 1) + k = (l + k) + 1 - (d + 1)
  BY <1>3
<1>17. \A i \in 1..(l + 1) : Who(t, c, i) = Who(t, f, i)
  <2> SUFFICES ASSUME NEW i \in 1..(l + 1) PROVE Who(t, c, i) = Who(t, f, i)
    OBVIOUS
  <2>1. i = 1 \/ i - 1 \in 1..l
    OBVIOUS
  <2> QED
    BY <1>10, <2>1 DEF Who
<1>18. ASSUME NEW i \in 1..((v - 1) + k) PROVE q[i] = Who(t, c, d + 1 + i)
  <2>1. CASE i \in 1..(v - 1)
    <3>1. i + 1 \in 1..v /\ d + (i + 1) = d + 1 + i /\ d + 1 + i \in 1..(l + 1)
      BY <1>3, <2>1
    <3>2. q[i] = Who(t, f, d + (i + 1))
      BY <1>4, <1>11, <2>1, <3>1
    <3> QED
      BY <1>17, <3>1, <3>2
  <2>2. CASE i \notin 1..(v - 1)
    <3>1. PICK j \in 1..k : i = (v - 1) + j
      <4>1. i - (v - 1) \in 1..k /\ i = (v - 1) + (i - (v - 1))
        BY <1>2, <2>2
      <4> QED
        BY <4>1
    <3>2. d + 1 + i = l + 1 + j /\ l + 1 + j # 1 /\ (l + 1 + j) - 1 = l + j
      BY <1>3, <3>1
    <3>3. Who(t, c, d + 1 + i) = c[l + j]
      BY <3>2 DEF Who
    <3> QED
      BY <1>10, <1>11, <3>1, <3>3
  <2> QED
    BY <2>1, <2>2
<1>19. ASSUME NEW x \in Workloads
       PROVE  (\E i \in 1..(l + k) : c[i] = x) <=> (x # t /\ \E i \in 1..(d + 1) : x \in EnvCallers(Who(t, c, i)))
  <2>1. (\E i \in 1..(l + k) : c[i] = x) <=> ((\E i \in 1..l : f[i] = x) \/ \E i \in 1..k : new[i] = x)
    <3>1. \A i \in 1..l : i \in 1..(l + k)
      OBVIOUS
    <3>2. \A i \in 1..k : l + i \in 1..(l + k)
      OBVIOUS
    <3>3. ASSUME NEW i \in 1..(l + k), c[i] = x PROVE (\E j \in 1..l : f[j] = x) \/ \E j \in 1..k : new[j] = x
      <4>1. CASE i \in 1..l
        BY <1>10, <3>3, <4>1
      <4>2. CASE i \notin 1..l
        <5>1. PICK j \in 1..k : i = l + j
          BY <1>13, <4>2
        <5>2. new[j] = x
          BY <1>10, <3>3, <5>1
        <5> QED
          BY <5>2
      <4> QED
        BY <4>1, <4>2
    <3>4. ASSUME NEW i \in 1..k, new[i] = x PROVE \E j \in 1..(l + k) : c[j] = x
      <4>1. c[l + i] = x /\ l + i \in 1..(l + k)
        BY <1>10, <3>2, <3>4
      <4> QED
        BY <4>1
    <3>5. ASSUME NEW i \in 1..l, f[i] = x PROVE \E j \in 1..(l + k) : c[j] = x
      BY <1>10, <3>1, <3>5
    <3> QED
      BY <3>3, <3>4, <3>5
  <2>2. (\E i \in 1..k : new[i] = x) <=> (x \in EnvCallers(a) /\ x # t /\ ~ \E i \in 1..l : f[i] = x)
    BY <1>6, <1>9
  <2>3. (\E i \in 1..(d + 1) : x \in EnvCallers(Who(t, c, i)))
          <=> ((\E i \in 1..d : x \in EnvCallers(Who(t, f, i))) \/ x \in EnvCallers(a))
    <3>1. \A i \in 1..(d + 1) : i \in 1..d \/ i = d + 1
      BY <1>3
    <3>2. \A i \in 1..d : i \in 1..(d + 1)
      BY <1>3
    <3>3. d + 1 \in 1..(d + 1)
      BY <1>3
    <3>4. \A i \in 1..(d + 1) : i \in 1..(l + 1)
      BY <1>3
    <3> QED
      BY <1>17, <3>1, <3>2, <3>3, <3>4
  <2> QED
    BY <1>4, <2>1, <2>2, <2>3
<1>20. a \in h[d]
  <2>1. CASE d = 0
    BY <2>1 DEF Who, Levels
  <2>2. CASE d # 0
    <3>1. d \in 1..l /\ d + 1 # 1 /\ (d + 1) - 1 = d
      BY <1>3, <2>2
    <3> QED
      BY <1>4, <3>1 DEF Who
  <2> QED
    BY <2>1, <2>2
<1>21. ASSUME NEW i \in 1..(l + k) PROVE c[i] \in h[i]
  <2>1. CASE i \in 1..l
    BY <1>4, <1>10, <2>1
  <2>2. CASE i \notin 1..l
    <3>1. PICK j \in 1..k : i = l + j
      BY <1>13, <2>2
    <3>2. c[i] \in EnvCallers(a)
      BY <1>10, <1>12, <3>1
    <3>3. h[d + 1] = h[d] \cup UNION {EnvCallers(b) : b \in h[d]}
      BY <1>3 DEF Levels
    <3>4. c[i] \in h[d + 1]
      BY <1>20, <3>2, <3>3
    <3>5. d + 1 \in Nat /\ i \in Nat /\ d + 1 <= i
      BY <1>3, <3>1
    <3>6. h[d + 1] \subseteq h[i]
      BY <3>5, LevelsGrow
    <3> QED
      BY <3>4, <3>6
  <2> QED
    BY <2>1, <2>2
<1>22. Search(t, c, q, d + 1, h)
  BY <1>10, <1>11, <1>14, <1>15, <1>16, <1>18, <1>19, <1>21 DEF Search
<1> QED
  BY <1>1, <1>3, <1>10, <1>22 DEF c, q

(* At every turn of a search, and from one turn to a later one. *)
LEMMA SearchGoesOn ==
  ASSUME NEW t \in Workloads, OnlyAppsCall, NEW h, Levels(h, t), NEW f, Goes(f, t)
  PROVE  \A n \in Nat : /\ Search(t, f[n].found, f[n].waiting, Asked(n, f[n].found), h)
                        /\ Len(f[n].found) \in Nat /\ Len(f[n + 1].found) \in Nat
                        /\ Len(f[n].found) <= Len(f[n + 1].found)
                        /\ \A i \in 1..Len(f[n].found) : f[n + 1].found[i] = f[n].found[i]
<1> DEFINE At(n) == Search(t, f[n].found, f[n].waiting, Asked(n, f[n].found), h)
           P == {n \in Nat : At(n)}
           Grows(n) == /\ Len(f[n].found) <= Len(f[n + 1].found)
                       /\ \A i \in 1..Len(f[n].found) : f[n + 1].found[i] = f[n].found[i]
<1>1. 0 \in P
  <2>1. f[0].found = <<>> /\ f[0].waiting = <<t>>
    BY DEF Goes
  <2>2. Asked(0, <<>>) = 0
    BY DEF Asked
  <2>3. Search(t, <<>>, <<t>>, 0, h)
    BY DEF Search, Who
  <2> QED
    BY <2>1, <2>2, <2>3
<1>2. ASSUME NEW n \in Nat, At(n) PROVE At(n + 1) /\ Grows(n)
  <2>1. PICK a : a = f[n]
    OBVIOUS
  <2>2. f[n + 1] = Ask(a, t)
    BY <2>1 DEF Goes
  <2>3. PICK d : d = Asked(n, a.found)
    OBVIOUS
  <2>4. Search(t, a.found, a.waiting, d, h)
    BY <1>2, <2>1, <2>3
  <2>5. PICK l \in Nat : l = Len(a.found)
    BY <2>4 DEF Search
  <2>6. d = IF n <= l + 1 THEN n ELSE l + 1
    BY <2>3, <2>5 DEF Asked
  <2>7. CASE a.waiting = <<>>
    <3>1. f[n + 1] = a
      BY <2>2, <2>7 DEF Ask
    <3>2. d \in 0..(l + 1) /\ l + 1 - d = 0
      BY <2>4, <2>5, <2>7 DEF Search
    <3>3. d = l + 1
      BY <2>6, <3>2
    <3>4. Asked(n + 1, a.found) = d
      BY <2>5, <2>6, <3>3 DEF Asked
    <3>5. At(n + 1)
      BY <2>4, <3>1, <3>4
    <3> QED
      BY <2>1, <2>5, <3>1, <3>5
  <2>8. CASE a.waiting # <<>>
    <3>1. PICK new : new = Unseen(EnvCallers(Head(a.waiting)), a.found, t)
      OBVIOUS
    <3>2. f[n + 1] = [found |-> a.found \o new, waiting |-> Tail(a.waiting) \o new]
      BY <2>2, <2>8, <3>1 DEF Ask
    <3>3. PICK c, q : c = a.found \o new /\ q = Tail(a.waiting) \o new
      OBVIOUS
    <3>4. Search(t, c, q, d + 1, h) /\ d <= l /\ l <= Len(c) /\ \A i \in 1..l : c[i] = a.found[i]
      <4>1. /\ Search(t, a.found \o new, Tail(a.waiting) \o new, d + 1, h)
            /\ d <= Len(a.found) /\ Len(a.found) <= Len(a.found \o new)
            /\ \A i \in 1..Len(a.found) : (a.found \o new)[i] = a.found[i]
        <5>1. PICK s, w : s = a.found /\ w = a.waiting
          OBVIOUS
        <5>2. Search(t, s, w, d, h) /\ w # <<>> /\ new = Unseen(EnvCallers(Head(w)), s, t)
          BY <2>4, <2>8, <3>1, <5>1
        <5>3. /\ Search(t, s \o new, Tail(w) \o new, d + 1, h)
              /\ d <= Len(s) /\ Len(s) <= Len(s \o new)
              /\ \A i \in 1..Len(s) : (s \o new)[i] = s[i]
          BY <5>2, AskKeepsSearch
        <5> QED
          BY <5>1, <5>3
      <4> QED
        BY <2>5, <3>3, <4>1
    <3>5. f[n + 1].found = c /\ f[n + 1].waiting = q
      <4>1. f[n + 1] = [found |-> c, waiting |-> q]
        BY <3>2, <3>3, Zenon
      <4> QED
        BY <4>1
    <3>6. PICK m \in Nat : m = Len(c)
      BY <3>4 DEF Search
    <3>7. d = n /\ n + 1 <= m + 1
      BY <2>6, <3>4, <3>6
    <3>8. Asked(n + 1, c) = d + 1
      BY <3>6, <3>7 DEF Asked
    <3>9. At(n + 1)
      BY <3>4, <3>5, <3>8
    <3> QED
      BY <2>1, <2>5, <3>4, <3>5, <3>9
  <2> QED
    BY <2>7, <2>8
<1> HIDE DEF At
<1>3. \A n \in Nat : n \in P => n + 1 \in P
  BY <1>2
<1> HIDE DEF P
<1>4. \A n \in Nat : n \in P
  BY <1>1, <1>3, EveryNatural
<1>5. \A n \in Nat : At(n) /\ At(n + 1) /\ Grows(n)
  BY <1>2, <1>4 DEF P
<1>6. \A n \in Nat : At(n) => Len(f[n].found) \in Nat
  BY DEF At, Search
<1>7. \A n \in Nat : Len(f[n].found) \in Nat /\ Len(f[n + 1].found) \in Nat
  BY <1>5, <1>6
<1> HIDE DEF Grows
<1>8. \A n \in Nat : At(n) /\ Grows(n) /\ Len(f[n].found) \in Nat /\ Len(f[n + 1].found) \in Nat
  BY <1>5, <1>7, Zenon
<1> QED
  BY <1>8, Zenon DEF At, Grows

(* What was found stays where it was found. *)
LEMMA FoundStays ==
  ASSUME NEW t \in Workloads, OnlyAppsCall, NEW h, Levels(h, t), NEW f, Goes(f, t), NEW m \in Nat
  PROVE  \A n \in Nat : m <= n => /\ Len(f[m].found) <= Len(f[n].found)
                                  /\ \A i \in 1..Len(f[m].found) : f[n].found[i] = f[m].found[i]
<1> DEFINE Has(n) == /\ Len(f[m].found) <= Len(f[n].found)
                     /\ \A i \in 1..Len(f[m].found) : f[n].found[i] = f[m].found[i]
           P == {n \in Nat : m <= n => Has(n)}
<1>0. \A n \in Nat : /\ Len(f[n].found) \in Nat /\ Len(f[n + 1].found) \in Nat
                     /\ Len(f[n].found) <= Len(f[n + 1].found)
                     /\ \A i \in 1..Len(f[n].found) : f[n + 1].found[i] = f[n].found[i]
  BY SearchGoesOn
<1>1. 0 \in P
  <2> SUFFICES ASSUME m <= 0 PROVE Has(0)
    OBVIOUS
  <2>1. m = 0
    OBVIOUS
  <2>2. Len(f[0].found) \in Nat
    BY <1>0
  <2> QED
    BY <2>1, <2>2
<1>2. ASSUME NEW n \in Nat, n \in P PROVE n + 1 \in P
  <2> SUFFICES ASSUME m <= n + 1 PROVE Has(n + 1)
    OBVIOUS
  <2>1. CASE m = n + 1
    BY <1>0, <2>1
  <2>2. CASE m <= n
    <3>1. PICK j \in Nat, k \in Nat, l \in Nat : j = Len(f[m].found) /\ k = Len(f[n].found) /\ l = Len(f[n + 1].found)
      BY <1>0
    <3>2. j <= k /\ k <= l /\ \A i \in 1..j : f[n].found[i] = f[m].found[i]
      BY <1>0, <1>2, <2>2, <3>1
    <3>3. \A i \in 1..k : f[n + 1].found[i] = f[n].found[i]
      BY <1>0, <3>1
    <3>4. j <= l /\ \A i \in 1..j : f[n + 1].found[i] = f[m].found[i]
      BY <3>2, <3>3
    <3> QED
      BY <3>1, <3>4
  <2> QED
    BY <2>1, <2>2
<1> HIDE DEF P
<1>3. \A n \in Nat : n \in P
  BY <1>1, <1>2, EveryNatural
<1> QED
  BY <1>3 DEF P

(* The workloads but the target are room enough. *)
LEMMA FoundHasRoom ==
  ASSUME NEW t \in Workloads, NEW s \in Seq(Workloads), IsInjective(s), t \notin Range(s)
  PROVE  /\ Len(s) + 1 <= Len(Apps) /\ Len(Apps) \in Nat /\ Cardinality(Range(s)) = Len(s)
<1>1. Apps \in Seq(Workloads) /\ IsInjective(Apps)
  BY CallGraphAssumption DEF Workloads
<1>2. IsFiniteSet(Workloads) /\ Cardinality(Workloads) = Len(Apps)
  BY <1>1, InjectiveCounts DEF Workloads
<1>3. Cardinality(Range(s)) = Len(s)
  BY InjectiveCounts
<1>4. Range(s) \in SUBSET (Workloads \ {t})
  BY DEF Range
<1>5. IsFiniteSet(Workloads \ {t}) /\ Cardinality(Workloads \ {t}) = Len(Apps) - 1
  BY <1>2, FS_RemoveElement
<1>6. Cardinality(Range(s)) <= Cardinality(Workloads \ {t})
  BY <1>4, <1>5, FS_Subset
<1>7. Len(Apps) \in Nat /\ Len(s) \in Nat
  BY <1>1
<1> QED
  BY <1>3, <1>5, <1>6, <1>7

(* When a search has asked all it had found at some turn, it has found whom *)
(* the target's failure hits within one call more.                         *)
FoundBy(f, n) == {f[n].found[i] : i \in 1..Len(f[n].found)}

LEMMA LevelsAreFound ==
  ASSUME NEW t \in Workloads, OnlyAppsCall, NEW h, Levels(h, t), NEW f, Goes(f, t)
  PROVE  \A k \in Nat : \E m \in Nat : m <= Len(f[m].found) + 1 /\ FoundBy(f, m) = h[k] \ {t}
<1> DEFINE Done(k) == \E m \in Nat : m <= Len(f[m].found) + 1 /\ FoundBy(f, m) = h[k] \ {t}
           P == {k \in Nat : Done(k)}
<1>1. 0 \in P
  <2>1. f[0].found = <<>>
    BY DEF Goes
  <2>2. FoundBy(f, 0) = {} /\ 0 <= Len(f[0].found) + 1
    BY <2>1 DEF FoundBy
  <2>3. h[0] = {t}
    BY DEF Levels
  <2> QED
    BY <2>2, <2>3
<1>2. ASSUME NEW k \in Nat, k \in P PROVE k + 1 \in P
  <2>1. PICK m \in Nat : m <= Len(f[m].found) + 1 /\ FoundBy(f, m) = h[k] \ {t}
    BY <1>2
  <2>2. PICK s : s = f[m].found
    OBVIOUS
  <2>3. PICK l \in Nat : l = Len(s)
    BY <2>2, SearchGoesOn
  <2>4. l + 1 \in Nat /\ m <= l + 1
    BY <2>1, <2>2, <2>3
  <2>5. PICK c : c = f[l + 1].found
    OBVIOUS
  <2>6. PICK w : w = f[l + 1].waiting
    OBVIOUS
  <2>7. l <= Len(c) /\ \A i \in 1..l : c[i] = s[i]
    BY <2>2, <2>3, <2>4, <2>5, FoundStays
  <2>8. Search(t, c, w, Asked(l + 1, c), h)
    BY <2>4, <2>5, <2>6, SearchGoesOn
  <2>9. PICK j \in Nat : j = Len(c)
    BY <2>4, <2>5, SearchGoesOn
  <2>10. Asked(l + 1, c) = l + 1
    BY <2>7, <2>9 DEF Asked
  <2>11. /\ c \in Seq(Workloads)
         /\ \A x \in Workloads : (\E i \in 1..j : c[i] = x) <=> (x # t /\ \E i \in 1..(l + 1) : x \in EnvCallers(Who(t, c, i)))
    BY <2>8, <2>9, <2>10 DEF Search
  <2>12. FoundBy(f, m) = {s[i] : i \in 1..l}
    BY <2>2, <2>3 DEF FoundBy
  <2>13. FoundBy(f, l + 1) = {c[i] : i \in 1..j}
    BY <2>5, <2>9 DEF FoundBy
  <2>14. t \in h[k] /\ h[k] \subseteq Workloads /\ h[k + 1] = h[k] \cup UNION {EnvCallers(b) : b \in h[k]}
    BY LevelsGrow DEF Levels
  <2>15. \A b : b \in h[k] <=> \E i \in 1..(l + 1) : b = Who(t, c, i)
    <3>1. ASSUME NEW b \in h[k] PROVE \E i \in 1..(l + 1) : b = Who(t, c, i)
      <4>1. CASE b = t
        BY <4>1 DEF Who
      <4>2. CASE b # t
        <5>1. PICK i \in 1..l : b = s[i]
          BY <2>1, <2>12, <3>1, <4>2
        <5>2. i + 1 \in 1..(l + 1) /\ i + 1 # 1 /\ (i + 1) - 1 = i
          OBVIOUS
        <5>3. b = Who(t, c, i + 1)
          BY <2>7, <5>1, <5>2 DEF Who
        <5> QED
          BY <5>2, <5>3
      <4> QED
        BY <4>1, <4>2
    <3>2. ASSUME NEW i \in 1..(l + 1) PROVE Who(t, c, i) \in h[k]
      <4>1. CASE i = 1
        BY <2>14, <4>1 DEF Who
      <4>2. CASE i # 1
        <5>1. i - 1 \in 1..l
          BY <4>2
        <5>2. Who(t, c, i) = s[i - 1]
          BY <2>7, <4>2, <5>1 DEF Who
        <5> QED
          BY <2>1, <2>12, <5>1, <5>2
      <4> QED
        BY <4>1, <4>2
    <3> QED
      BY <3>1, <3>2
  <2>16. \A x \in Workloads : x \in UNION {EnvCallers(b) : b \in h[k]} <=> \E i \in 1..(l + 1) : x \in EnvCallers(Who(t, c, i))
    BY <2>15
  <2>17. \A i \in 1..l : i \in 1..j /\ c[i] = s[i]
    BY <2>7, <2>9
  <2>18. ASSUME NEW x \in h[k + 1] \ {t} PROVE x \in {c[i] : i \in 1..j}
    <3>1. CASE x \in h[k]
      <4>1. PICK i \in 1..l : x = s[i]
        BY <2>1, <2>12, <2>18, <3>1
      <4> QED
        BY <2>17, <4>1
    <3>2. CASE x \in UNION {EnvCallers(b) : b \in h[k]}
      <4>1. x \in Workloads
        BY <3>2 DEF OnlyAppsCall
      <4> QED
        BY <2>11, <2>16, <2>18, <3>2, <4>1
    <3> QED
      BY <2>14, <2>18, <3>1, <3>2
  <2>19. ASSUME NEW i \in 1..j PROVE c[i] \in h[k + 1] \ {t}
    <3>1. c[i] \in Workloads
      BY <2>9, <2>11
    <3>2. c[i] # t /\ c[i] \in UNION {EnvCallers(b) : b \in h[k]}
      BY <2>11, <2>16, <3>1
    <3> QED
      BY <2>14, <3>2
  <2>20. FoundBy(f, l + 1) = h[k + 1] \ {t}
    BY <2>13, <2>18, <2>19
  <2>21. l + 1 <= Len(f[l + 1].found) + 1
    BY <2>5, <2>7, <2>9
  <2>22. Done(k + 1)
    BY <2>4, <2>20, <2>21
  <2> QED
    BY <2>22
<1> HIDE DEF P
<1>3. \A k \in Nat : k \in P
  BY <1>1, <1>2, EveryNatural
<1> QED
  BY <1>3 DEF P

LEMMA CallersOfOne ==
  ASSUME OnlyAppsCall, NEW t \in Workloads
  PROVE  /\ \A n \in 0..Len(Apps) :
              /\ Cardinality(HitWithin(t, n)) <= Len(Callers(t))
              /\ Range(SubSeq(Callers(t), 1, Cardinality(HitWithin(t, n)))) = HitWithin(t, n)
         /\ Len(Callers(t)) = Cardinality(HitWithin(t, Len(Apps)))
<1>1. PICK f : Goes(f, t) /\ Callers(t) = f[Len(Apps) + 1].found
  BY CallersAreSearched
<1>2. PICK h : Levels(h, t) /\ \A n \in Nat : HitWithin(t, n) = h[n] \ {t}
  BY HitsAreLevels
<1>3. PICK N \in Nat : N = Len(Apps) /\ N + 1 \in Nat
  BY CallGraphAssumption
<1>4. ASSUME NEW n \in Nat
      PROVE  /\ f[n].found \in Seq(Workloads) /\ IsInjective(f[n].found) /\ Range(f[n].found) = FoundBy(f, n)
             /\ Len(f[n].found) \in Nat /\ Len(f[n].found) + 1 <= N /\ Cardinality(FoundBy(f, n)) = Len(f[n].found)
             /\ \A i \in 1..Len(f[n].found) : f[n].found[i] \in h[i] /\ f[n].found[i] # t
  <2>1. PICK s : s = f[n].found
    OBVIOUS
  <2>2. PICK w : w = f[n].waiting
    OBVIOUS
  <2>3. Search(t, s, w, Asked(n, s), h)
    BY <1>1, <1>2, <2>1, <2>2, SearchGoesOn
  <2>4. PICK l \in Nat : l = Len(s) /\ DOMAIN s = 1..l
    BY <2>3 DEF Search
  <2>5. /\ s \in Seq(Workloads)
        /\ \A i \in 1..l : s[i] # t /\ s[i] \in h[i]
        /\ \A i, j \in 1..l : s[i] = s[j] => i = j
    BY <2>3, <2>4 DEF Search
  <2>6. IsInjective(s) /\ Range(s) = {s[i] : i \in 1..l} /\ t \notin Range(s)
    BY <2>4, <2>5 DEF IsInjective, Range
  <2>7. Len(s) + 1 <= Len(Apps) /\ Cardinality(Range(s)) = Len(s)
    BY <2>5, <2>6, FoundHasRoom
  <2>8. FoundBy(f, n) = {s[i] : i \in 1..l}
    BY <2>1, <2>4 DEF FoundBy
  <2> QED
    BY <1>3, <2>1, <2>4, <2>5, <2>6, <2>7, <2>8
<1>5. PICK c : c = Callers(t) /\ c = f[N + 1].found
  BY <1>1, <1>3
<1>6. PICK l \in Nat : l = Len(c) /\ c \in Seq(Workloads)
  BY <1>3, <1>4, <1>5
<1>7. ASSUME NEW n \in Nat
      PROVE  \E j \in Nat : /\ Cardinality(HitWithin(t, n)) = j /\ j <= l
                            /\ HitWithin(t, n) = {c[i] : i \in 1..j}
  <2>1. PICK m \in Nat : m <= Len(f[m].found) + 1 /\ FoundBy(f, m) = h[n] \ {t}
    <3>1. Goes(f, t) /\ Levels(h, t)
      BY <1>1, <1>2
    <3>2. \A k \in Nat : \E m \in Nat : m <= Len(f[m].found) + 1 /\ FoundBy(f, m) = h[k] \ {t}
      BY <3>1, LevelsAreFound
    <3> QED
      BY <3>2
  <2>2. PICK j \in Nat : j = Len(f[m].found)
    BY <1>4
  <2>3. m <= N + 1
    BY <1>3, <1>4, <2>1, <2>2
  <2>4. j <= l /\ \A i \in 1..j : c[i] = f[m].found[i]
    BY <1>1, <1>2, <1>3, <1>5, <1>6, <2>2, <2>3, FoundStays
  <2>5. FoundBy(f, m) = {c[i] : i \in 1..j}
    BY <2>2, <2>4 DEF FoundBy
  <2>6. HitWithin(t, n) = FoundBy(f, m)
    BY <1>2, <2>1
  <2>7. Cardinality(FoundBy(f, m)) = j
    BY <1>4, <2>2
  <2> QED
    BY <2>4, <2>5, <2>6, <2>7
<1>8. ASSUME NEW n \in 0..Len(Apps)
      PROVE  /\ Cardinality(HitWithin(t, n)) <= Len(Callers(t))
             /\ Range(SubSeq(Callers(t), 1, Cardinality(HitWithin(t, n)))) = HitWithin(t, n)
  <2>1. PICK j \in Nat : /\ Cardinality(HitWithin(t, n)) = j /\ j <= l
                         /\ HitWithin(t, n) = {c[i] : i \in 1..j}
    <3>1. n \in Nat
      BY <1>3
    <3> QED
      BY <1>7, <3>1
  <2>2. PICK s : s = SubSeq(c, 1, j)
    OBVIOUS
  <2>3. DOMAIN s = 1..j /\ \A i \in 1..j : s[i] = c[i]
    BY <1>6, <2>1, <2>2
  <2>4. Range(s) = {s[i] : i \in 1..j}
    BY <2>3 DEF Range
  <2>5. Range(s) = {c[i] : i \in 1..j}
    BY <2>3, <2>4
  <2> QED
    BY <1>5, <1>6, <2>1, <2>2, <2>5
<1>9. Len(Callers(t)) = Cardinality(HitWithin(t, Len(Apps)))
  <2>1. PICK j \in Nat : /\ Cardinality(HitWithin(t, N)) = j /\ j <= l
                         /\ HitWithin(t, N) = {c[i] : i \in 1..j}
    BY <1>7
  <2>2. FoundBy(f, N + 1) \subseteq HitWithin(t, N)
    <3> SUFFICES ASSUME NEW i \in 1..l PROVE c[i] \in h[N] \ {t}
      BY <1>2, <1>5, <1>6 DEF FoundBy
    <3>1. c[i] \in h[i] /\ c[i] # t /\ l <= N
      BY <1>3, <1>4, <1>5, <1>6
    <3>2. h[i] \subseteq h[N]
      BY <1>2, <3>1, LevelsGrow
    <3> QED
      BY <3>1, <3>2
  <2>3. HitWithin(t, N) \subseteq FoundBy(f, N + 1)
    <3>1. \A i \in 1..j : i \in 1..l
      BY <2>1
    <3> QED
      BY <1>5, <1>6, <2>1, <3>1 DEF FoundBy
  <2>4. Cardinality(FoundBy(f, N + 1)) = l
    BY <1>3, <1>4, <1>5, <1>6
  <2> QED
    <3>1. FoundBy(f, N + 1) = HitWithin(t, N)
      BY <2>2, <2>3
    <3>2. Len(c) = Cardinality(HitWithin(t, N))
      BY <1>6, <2>4, <3>1
    <3>3. N = Len(Apps) /\ c = Callers(t)
      BY <1>3, <1>5
    <3> QED
      BY <3>2, <3>3, Zenon
<1> QED
  BY <1>8, <1>9

LEMMA GraphShowsCallers ==
  ASSUME OnlyAppsCall
  PROVE  CallersAreAllItCanHit
<1> SUFFICES ASSUME NEW a \in Range(Apps)
             PROVE  /\ \A n \in 0..Len(Apps) :
                         LET hit == HitWithin(a, n)
                         IN  /\ Cardinality(hit) <= Len(Callers(a))
                             /\ Range(SubSeq(Callers(a), 1, Cardinality(hit))) = hit
                    /\ Len(Callers(a)) = Cardinality(HitWithin(a, Len(Apps)))
                    /\ a \in Nodes => CallGraphView({a})[a].affects = Cardinality(HitWithin(a, Len(Apps)))
  BY Zenon DEF CallersAreAllItCanHit
<1>1. /\ \A n \in 0..Len(Apps) :
           /\ Cardinality(HitWithin(a, n)) <= Len(Callers(a))
           /\ Range(SubSeq(Callers(a), 1, Cardinality(HitWithin(a, n)))) = HitWithin(a, n)
      /\ Len(Callers(a)) = Cardinality(HitWithin(a, Len(Apps)))
  BY CallersOfOne DEF Workloads
<1>2. a \in Nodes => CallGraphView({a})[a].affects = Len(Callers(a))
  BY DEF CallGraphView
<1> QED
  BY <1>1, <1>2

(* Only listed workloads name services, at each point of a refresh.        *)
GraphInv ==
  /\ DOMAIN declared \subseteq Workloads
  /\ DOMAIN refresh = {"next", "apps", "services", "doors", "alone"}
  /\ DOMAIN refresh.apps \subseteq Workloads
  /\ \A e \in graph.edges : e.source = "env" => e.from \in Workloads

LEMMA GraphStarts ==
  ASSUME GraphInit
  PROVE  GraphInv
<1>1. /\ DOMAIN declared = Range(Apps) /\ refresh = NotRefreshing /\ graph = NoGraph
  BY DEF GraphInit
<1>2. DOMAIN NotRefreshing = {"next", "apps", "services", "doors", "alone"} /\ DOMAIN NotRefreshing.apps = {}
  BY DEF NotRefreshing
<1>3. NoGraph.edges = {}
  BY DEF NoGraph
<1> QED
  BY <1>1, <1>2, <1>3 DEF GraphInv, Workloads

LEMMA GraphStays ==
  ASSUME GraphInv, [GraphNext]_graphVars
  PROVE  GraphInv'
<1> USE DEF GraphInv
<1> DEFINE Same == UNCHANGED declared /\ UNCHANGED graph /\ UNCHANGED refresh.apps /\ DOMAIN refresh' = DOMAIN refresh
<1>1. Same => GraphInv'
  OBVIOUS
<1>2. ASSUME Edit PROVE /\ DOMAIN refresh' = DOMAIN refresh /\ refresh'.apps = refresh.apps /\ graph' = graph
  BY <1>2 DEF Edit
<1>3. ASSUME NEW i \in DOMAIN Apps, NEW v, EditApp(Apps[i], v) PROVE GraphInv'
  <2>1. Apps[i] \in Workloads
    BY DEF Workloads, Range
  <2>2. DOMAIN declared' = DOMAIN declared \cup {Apps[i]}
    BY <1>3 DEF EditApp, Over
  <2>3. Edit
    BY <1>3 DEF EditApp
  <2> QED
    BY <1>2, <2>1, <2>2, <2>3
<1>4. ASSUME NEW a, RemoveApp(a) PROVE GraphInv'
  <2>1. DOMAIN declared' \subseteq DOMAIN declared /\ Edit
    BY <1>4 DEF RemoveApp
  <2> QED
    BY <1>2, <2>1
<1>5. ASSUME NEW x, NEW y, EditService(x, y) \/ EditDoor(x, y) PROVE GraphInv'
  BY <1>2, <1>5 DEF EditService, EditDoor
<1>6. CASE RefreshBegin
  BY <1>6 DEF RefreshBegin, Move
<1>7. CASE ListApps
  <2>1. PICK a : a = Apps[refresh.next]
    OBVIOUS
  <2>2. CASE a \in DOMAIN declared
    <3>1. Move([refresh EXCEPT !.apps = Over(@, a, declared[a])])
      BY <1>7, <2>1, <2>2 DEF ListApps
    <3>2. /\ DOMAIN refresh' = DOMAIN refresh /\ refresh'.apps = Over(refresh.apps, a, declared[a])
          /\ declared' = declared /\ graph' = graph
      BY <3>1 DEF Move
    <3>3. DOMAIN refresh'.apps = DOMAIN refresh.apps \cup {a}
      BY <3>2 DEF Over
    <3> QED
      BY <2>2, <3>2, <3>3
  <2>3. CASE a \notin DOMAIN declared
    <3>1. Move(refresh)
      BY <1>7, <2>1, <2>3 DEF ListApps
    <3> QED
      BY <3>1 DEF Move
  <2> QED
    BY <2>2, <2>3
<1>8. CASE ListServices
  BY <1>8 DEF ListServices, Move
<1>9. CASE RefreshFails
  BY <1>9 DEF RefreshFails, NotRefreshing
<1>10. ASSUME NEW read, ListDoors(read) PROVE GraphInv'
  <2>1. PICK entries : graph' = Build(refresh.apps, refresh.services, entries)
    BY <1>10 DEF ListDoors
  <2>2. refresh' = NotRefreshing /\ declared' = declared
    BY <1>10 DEF ListDoors
  <2>3. graph'.edges = EnvEdges(refresh.apps, refresh.services) \cup DoorEdges(refresh.apps, refresh.services, entries)
    BY <2>1 DEF Build
  <2>4. \A e \in EnvEdges(refresh.apps, refresh.services) : e.from \in Workloads
    BY DEF EnvEdges
  <2>5. \A e \in DoorEdges(refresh.apps, refresh.services, entries) : e.source = "door"
    BY DEF DoorEdges
  <2>6. \A e \in graph'.edges : e.source = "env" => e.from \in Workloads
    BY <2>3, <2>4, <2>5
  <2> QED
    BY <2>2, <2>6 DEF NotRefreshing
<1>11. CASE UNCHANGED graphVars
  BY <1>11 DEF graphVars
<1>12. CASE GraphNext
  <2>1. CASE \E i \in DOMAIN Apps : RemoveApp(Apps[i]) \/ \E services \in SUBSET Targets : EditApp(Apps[i], services)
    BY <1>3, <1>4, <2>1
  <2>2. CASE \/ \E x \in Targets, apps \in {{Apps[i]} : i \in DOMAIN Apps} \cup {Range(Apps)} : EditService(x, apps)
             \/ \E d \in Doors, x \in Targets : EditDoor(d, x)
    BY <1>5, <2>2
  <2>3. CASE \E read \in SUBSET Doors : ListDoors(read)
    BY <1>10, <2>3
  <2> QED
    BY <1>6, <1>7, <1>8, <1>9, <1>12, <2>1, <2>2, <2>3 DEF GraphNext
<1> QED
  BY <1>11, <1>12

LEMMA GraphInvShows ==
  ASSUME GraphInv
  PROVE  CallersAreAllItCanHit
<1>1. OnlyAppsCall
  BY DEF OnlyAppsCall, EnvCallers, GraphInv
<1> QED
  BY <1>1, GraphShowsCallers

(* Whatever the cluster declares, with cycles, and however it changed       *)
(* between the lists of a refresh, Callers lists every workload that reaches *)
(* its target, nearest first and each once (Graph.Callers), and the view    *)
(* counts the same.                                                        *)
THEOREM CallersStayFound == MCSpec => []CallersAreAlwaysFound
<1>1. MCInit => GraphInv
  BY GraphStarts DEF MCInit
<1>2. GraphInv /\ [MCNext]_<<part, vars, fusionVars, podOwnerVars, graphVars, Rest>> => GraphInv'
  <2>1. [MCNext]_<<part, vars, fusionVars, podOwnerVars, graphVars, Rest>> => [GraphNext]_graphVars
    BY DEF MCNext
  <2> QED
    BY <2>1, GraphStays
<1>3. GraphInv => CallersAreAlwaysFound
  BY GraphInvShows DEF CallersAreAlwaysFound
<1> QED
  BY <1>1, <1>2, <1>3, PTL DEF MCSpec

----------------------------------------------------------------------------
(***************************************************************************)
(* What is concluded of a pod, and the readings it rests on.               *)
(***************************************************************************)

(* A run that began r polls ago and was last read `last` polls ago stands  *)
(* in the log of readings, unless the silence since is too long for it.    *)
Stands(log, value, r, last) ==
  /\ last # None
  /\ last <= MaxGap =>
       /\ last <= r
       /\ log[last] = value
       /\ \A a \in 0..r : log[a] \in {value, "none"}
       /\ \A a \in last..(r - MaxGap) : \E b \in a..(a + MaxGap - 1) : log[b] = value
       /\ r < Oldest => log[r] = value

RunsStand ==
  \A p \in Pods :
    LET c == Pod(p).cond
    IN  /\ c.run # None => Stands(readings[p], "hot", c.run, c.last)
        /\ c.below # None => Stands(readings[p], "cool", c.below, c.last)

(* The window of a forecast begins after the last restart, or the restart   *)
(* empties it at the next reading with usage, unless the counter fell.      *)
Window(s) ==
  s.from # None =>
    /\ s.satCount # None /\ s.count # None
    /\ ~s.fell =>
         /\ s.satCount <= s.count
         /\ s.restarts # <<>> => (Latest(s.restarts) >= s.from \/ s.count > s.satCount)

WindowsFollowRestarts == \A p \in Pods : Window(Pod(p))

ReadingTypes ==
  /\ PodTypes
  /\ made \in [Pods -> OptionalAge]
  /\ readings \in [Pods -> [Ages -> {"none", "hot", "cool"}]]

ReadingsInv == ReadingTypes /\ RunsStand /\ WindowsFollowRestarts

LEMMA GapIsShort == MaxGap \in Nat /\ MaxGap >= 1 /\ Oldest \in Nat /\ MaxGap < Oldest
<1>1. MaxGap \in Nat \ {0} /\ RaiseAfter \in Nat /\ Oldest \in Nat /\ RaiseAfter + MaxGap < Oldest
  BY EstimatesAssumption
<1> QED
  BY <1>1

LEMMA RunBegins ==
  ASSUME NEW log, NEW value, log[0] = value
  PROVE  Stands(log, value, 0, 0)
<1>1. 0 # None
  BY EstimatesAssumption
<1>2. \A a \in 0..0 : a = 0
  OBVIOUS
<1>3. 0..(0 - MaxGap) = {}
  BY GapIsShort
<1> QED
  BY <1>1, <1>2, <1>3 DEF Stands

(* A reading that comes before the silence is too long carries the run on. *)
LEMMA RunGoesOn ==
  ASSUME NEW log, NEW more, NEW value, NEW r \in 0..Oldest, NEW last \in 0..Oldest,
         Stands(log, value, r, last), last <= MaxGap,
         more[0] = value, \A a \in 1..Oldest : more[a] = log[a]
  PROVE  Stands(more, value, r, 0)
<1>1. /\ MaxGap \in Nat /\ MaxGap >= 1 /\ Oldest \in Nat /\ 0 # None
      /\ r \in Nat /\ r <= Oldest /\ last \in Nat /\ last <= Oldest /\ last <= r
  BY GapIsShort, EstimatesAssumption DEF Stands
<1>2. /\ log[last] = value /\ (r < Oldest => log[r] = value)
      /\ \A a \in 0..r : log[a] \in {value, "none"}
      /\ \A a \in last..(r - MaxGap) : \E b \in a..(a + MaxGap - 1) : log[b] = value
  BY DEF Stands
<1>3. \A a \in 0..r : more[a] \in {value, "none"}
  BY <1>1, <1>2
<1>4. r < Oldest => more[r] = value
  BY <1>1, <1>2
<1>5. ASSUME NEW a \in 0..(r - MaxGap) PROVE \E b \in a..(a + MaxGap - 1) : more[b] = value
  <2>1. CASE a = 0
    <3>1. 0 \in a..(a + MaxGap - 1)
      BY <1>1, <2>1
    <3> QED
      BY <3>1
  <2>2. CASE a # 0 /\ a <= last
    <3>1. last \in a..(a + MaxGap - 1) /\ last \in 1..Oldest
      BY <1>1, <2>2
    <3>2. more[last] = value
      BY <1>2, <3>1
    <3> QED
      BY <3>1, <3>2
  <2>3. CASE a > last
    <3>0. a \in last..(r - MaxGap)
      BY <1>1, <2>3
    <3>1. PICK b \in a..(a + MaxGap - 1) : log[b] = value
      BY <1>2, <3>0
    <3>2. b \in 1..Oldest
      BY <1>1, <2>3, <3>1
    <3>3. more[b] = value
      BY <3>1, <3>2
    <3> QED
      BY <3>1, <3>3
  <2> QED
    BY <1>1, <2>1, <2>2, <2>3
<1> QED
  BY <1>1, <1>3, <1>4, <1>5 DEF Stands

(* Every stamp of a run grows older with the log it stands in. *)
LEMMA RunAges ==
  ASSUME NEW log, NEW more, NEW value, NEW r \in 0..Oldest, NEW last \in OptionalAge,
         Stands(log, value, r, last),
         more[0] = "none", \A a \in 1..Oldest : more[a] = log[a - 1]
  PROVE  Stands(more, value, Older(r), Older(last))
<1>0. MaxGap \in Nat /\ MaxGap >= 1 /\ Oldest \in Nat /\ MaxGap < Oldest /\ None \notin Int
  BY GapIsShort, EstimatesAssumption
<1>1. last # None /\ last \in 0..Oldest /\ Older(last) # None
  BY <1>0 DEF Stands, OptionalAge, Older
<1>2. CASE ~(Older(last) <= MaxGap)
  BY <1>1, <1>2 DEF Stands
<1>3. CASE Older(last) <= MaxGap
  <2>1. Older(last) = last + 1 /\ last < MaxGap /\ last < Oldest
    BY <1>0, <1>1, <1>3 DEF Older
  <2>2. PICK s \in Nat : s = Older(r)
    BY <1>0 DEF Older
  <2>3. r \in Nat /\ r <= Oldest /\ s <= Oldest /\ s <= r + 1 /\ r <= s /\ (s < Oldest => s = r + 1)
    BY <1>0, <2>2 DEF Older
  <2>4. /\ last <= r /\ log[last] = value /\ (r < Oldest => log[r] = value)
        /\ \A a \in 0..r : log[a] \in {value, "none"}
        /\ \A a \in last..(r - MaxGap) : \E b \in a..(a + MaxGap - 1) : log[b] = value
    BY <1>0, <1>1, <2>1 DEF Stands
  <2>5. last + 1 <= s /\ more[last + 1] = value
    <3>1. last + 1 \in 1..Oldest /\ (last + 1) - 1 = last
      BY <1>0, <1>1, <2>1
    <3>2. more[last + 1] = log[(last + 1) - 1]
      BY <3>1
    <3>3. last + 1 <= s
      BY <1>0, <1>1, <2>1, <2>2, <2>3, <2>4 DEF Older
    <3> QED
      BY <2>4, <3>1, <3>2, <3>3
  <2>6. ASSUME NEW a \in 0..s PROVE more[a] \in {value, "none"}
    <3>1. CASE a = 0
      BY <3>1
    <3>2. CASE a # 0
      <4>1. a \in 1..Oldest /\ a - 1 \in 0..r
        BY <1>0, <2>3, <3>2
      <4> QED
        BY <2>4, <4>1
    <3> QED
      BY <3>1, <3>2
  <2>7. ASSUME NEW a \in (last + 1)..(s - MaxGap)
        PROVE  \E b \in a..(a + MaxGap - 1) : more[b] = value
    <3>1. a - 1 \in last..(r - MaxGap)
      BY <1>0, <1>1, <2>3
    <3>2. PICK b \in (a - 1)..((a - 1) + MaxGap - 1) : log[b] = value
      BY <2>4, <3>1
    <3>3. b + 1 \in a..(a + MaxGap - 1) /\ b + 1 \in 1..Oldest /\ (b + 1) - 1 = b
      BY <1>0, <1>1, <2>3, <3>2
    <3>4. more[b + 1] = log[(b + 1) - 1]
      BY <3>3
    <3> QED
      BY <3>2, <3>3, <3>4
  <2>8. s < Oldest => more[s] = value
    <3> SUFFICES ASSUME s < Oldest PROVE more[s] = value
      OBVIOUS
    <3>1. s = r + 1 /\ r < Oldest /\ s \in 1..Oldest /\ s - 1 = r
      BY <1>0, <2>3
    <3>2. more[s] = log[s - 1]
      BY <3>1
    <3> QED
      BY <2>4, <3>1, <3>2
  <2> QED
    BY <1>1, <2>1, <2>2, <2>5, <2>6, <2>7, <2>8 DEF Stands
<1> QED
  BY <1>2, <1>3

(* A run that was just read, and has lasted, is what the readings agree on. *)
LEMMA RunAgrees ==
  ASSUME NEW log, NEW value, NEW r \in 0..Oldest, NEW span \in Nat,
         Stands(log, value, r, 0), r >= span, span + MaxGap < Oldest
  PROVE  Agree(log, value, span)
<1>0. MaxGap \in Nat /\ MaxGap >= 1 /\ Oldest \in Nat /\ MaxGap < Oldest /\ 0 <= MaxGap
  BY GapIsShort
<1>1. /\ r < Oldest => log[r] = value
      /\ \A a \in 0..r : log[a] \in {value, "none"}
      /\ \A a \in 0..(r - MaxGap) : \E b \in a..(a + MaxGap - 1) : log[b] = value
  BY <1>0 DEF Stands
<1>2. PICK first \in 0..r : first >= span /\ log[first] = value
  <2>1. CASE r < Oldest
    BY <1>1, <2>1
  <2>2. CASE r = Oldest
    <3>1. r - MaxGap \in 0..(r - MaxGap)
      BY <1>0, <2>2
    <3>2. PICK b \in (r - MaxGap)..((r - MaxGap) + MaxGap - 1) : log[b] = value
      BY <1>1, <3>1
    <3>3. b \in 0..r /\ b >= span
      BY <1>0, <2>2, <3>2
    <3> QED
      BY <3>2, <3>3
  <2> QED
    BY <1>0, <2>1, <2>2
<1>3. first \in Ages /\ \A a \in 0..first : a \in 0..r
  BY <1>0, <1>2 DEF Ages
<1>4. \A a \in 0..(first - MaxGap) : a \in 0..(r - MaxGap)
  BY <1>0, <1>2
<1> QED
  BY <1>1, <1>2, <1>3, <1>4 DEF Agree

LEMMA NewPodIsQuiet ==
  /\ NewPod.cond.run = None /\ NewPod.cond.below = None /\ NewPod.cond.active = FALSE
  /\ NewPod.from = None /\ NewPod.restarts = <<>>
  BY DEF NewPod

(* A step that changes one pod, and nothing of its condition. *)
LEMMA RunsStay ==
  ASSUME PodTypes, RunsStand, NEW p \in Pods, NEW s, pods' = [pods EXCEPT ![p] = s],
         s # None => s.cond = Pod(p).cond, UNCHANGED readings
  PROVE  /\ RunsStand'
         /\ \A q \in Pods : /\ Active(q)' => Active(q)
                            /\ pods'[q] # None /\ Active(q) => Active(q)'
<1>1. ASSUME NEW q \in Pods
      PROVE  IF pods'[q] = None THEN Pod(q)' = NewPod ELSE Pod(q)'.cond = Pod(q).cond
  <2>1. CASE q = p
    BY <2>1 DEF Pod, PodTypes
  <2>2. CASE q # p
    BY <2>2 DEF Pod, PodTypes
  <2> QED
    BY <2>1, <2>2
<1>2. RunsStand'
  BY <1>1, NewPodIsQuiet DEF RunsStand
<1>3. \A q \in Pods : /\ Active(q)' => Active(q)
                      /\ pods'[q] # None /\ Active(q) => Active(q)'
  BY <1>1, NewPodIsQuiet DEF Active
<1> QED
  BY <1>2, <1>3

LEMMA WindowsStay ==
  ASSUME PodTypes, WindowsFollowRestarts, NEW p \in Pods, NEW s, pods' = [pods EXCEPT ![p] = s],
         s # None => Window(s)
  PROVE  WindowsFollowRestarts'
<1>1. ASSUME NEW q \in Pods
      PROVE  Pod(q)' = NewPod \/ Pod(q)' = Pod(q) \/ (s # None /\ Pod(q)' = s)
  <2>1. CASE q = p
    BY <2>1 DEF Pod, PodTypes
  <2>2. CASE q # p
    BY <2>2 DEF Pod, PodTypes
  <2> QED
    BY <2>1, <2>2
<1> QED
  BY <1>1, NewPodIsQuiet DEF WindowsFollowRestarts, Window

LEMMA SameWindow ==
  ASSUME NEW s, NEW t, Window(s), t.from = s.from, t.restarts = s.restarts,
         t.count = s.count, t.satCount = s.satCount, t.fell = s.fell
  PROVE  Window(t)
  BY DEF Window

LEMMA LatestIsAge ==
  ASSUME NEW t \in Seq(0..Oldest), t # <<>>
  PROVE  Latest(t) \in 0..Oldest
<1> DEFINE D == 0..Oldest
<1>1. t \in Seq(D)
  OBVIOUS
<1> HIDE DEF D
<1>2. Len(t) \in 1..Len(t)
  BY <1>1
<1>3. t[Len(t)] \in D
  BY <1>1, <1>2
<1> QED
  BY <1>3 DEF Latest, D

(* A restart that is counted came after the window began, or empties it. *)
LEMMA CountedWindow ==
  ASSUME NEW s \in PodState, Window(s), NEW n \in Counts
  PROVE  Window(Counted(s, n))
<1>1. PICK c : c = Counted(s, n)
  OBVIOUS
<1>2. /\ c.from = s.from /\ c.satCount = s.satCount /\ c.count = n
      /\ c.fell = (s.from # None /\ (s.fell \/ n < s.count))
      /\ c.restarts = s.restarts \/ (s.count # None /\ n > s.count)
  BY <1>1, CountedIs
<1>3. n \in Nat /\ n # None
      /\ s.count \in Nat \cup {None} /\ s.satCount \in Nat \cup {None}
  BY CountsAreNatural DEF PodState
<1>4. SUFFICES ASSUME c.from # None
               PROVE  /\ c.satCount # None /\ c.count # None
                      /\ ~c.fell =>
                           /\ c.satCount <= c.count
                           /\ c.restarts # <<>> => (Latest(c.restarts) >= c.from \/ c.count > c.satCount)
  BY <1>1 DEF Window
<1>5. /\ s.satCount \in Nat /\ s.count \in Nat
      /\ ~s.fell => /\ s.satCount <= s.count
                    /\ s.restarts # <<>> => (Latest(s.restarts) >= s.from \/ s.count > s.satCount)
  BY <1>2, <1>3, <1>4 DEF Window
<1>6. c.satCount # None /\ c.count # None
  BY <1>2, <1>3, <1>5, CountsAreNatural
<1>7. ASSUME ~c.fell
      PROVE  /\ c.satCount <= c.count
             /\ c.restarts # <<>> => (Latest(c.restarts) >= c.from \/ c.count > c.satCount)
  <2>0. ~s.fell /\ ~(n < s.count)
    <3>1. s.from # None
      BY <1>2, <1>4
    <3> QED
      BY <1>2, <1>7, <3>1, Zenon
  <2>1. ~s.fell /\ s.count <= n
    BY <1>3, <1>5, <2>0
  <2>2. s.satCount <= s.count
    BY <1>5, <2>1
  <2>3. CASE c.restarts = s.restarts
    <3>1. s.restarts # <<>> => (Latest(s.restarts) >= s.from \/ s.count > s.satCount)
      BY <1>5, <2>1
    <3>2. s.count > s.satCount => n > s.satCount
      BY <1>3, <1>5, <2>1
    <3>3. s.satCount <= n
      BY <1>3, <1>5, <2>1, <2>2
    <3>4. c.restarts # <<>> => (Latest(c.restarts) >= c.from \/ c.count > c.satCount)
      BY <1>2, <2>3, <3>1, <3>2, Zenon
    <3> QED
      BY <1>2, <3>3, <3>4
  <2>4. CASE n > s.count
    BY <1>2, <1>3, <1>5, <2>2, <2>4
  <2> QED
    BY <1>2, <2>3, <2>4
<1> QED
  BY <1>6, <1>7

(* A window that a reading with usage leaves has no restart in it: it was   *)
(* emptied, or no counter has moved since the one before.                  *)
LEMMA WindowedWindow ==
  ASSUME NEW s \in PodState, Window(s), NEW n \in Counts, NEW limited \in BOOLEAN
  PROVE  LET w == Windowed(s, n, limited)
         IN  /\ Window(w)
             /\ w.from # None /\ ~w.fell /\ w.restarts # <<>> =>
                  /\ w.from \in Nat /\ Latest(w.restarts) \in Nat
                  /\ Latest(w.restarts) >= w.from
<1>1. PICK c, w : c = Counted(s, n) /\ w = Windowed(s, n, limited)
  OBVIOUS
<1>2. /\ w \in PodState /\ w.restarts = c.restarts /\ w.count = n /\ w.satCount = n
      /\ \/ w.from = None \/ w.from = 0
         \/ w.from = s.from /\ ~Empties(s, n) /\ w.fell = c.fell
  BY <1>1, WindowedIs
<1>3. /\ c.fell = (s.from # None /\ (s.fell \/ n < s.count))
      /\ c.restarts = s.restarts \/ (s.count # None /\ n > s.count)
  BY <1>1, CountedIs
<1>4. n \in Nat /\ n # None
      /\ s.count \in Nat \cup {None} /\ s.satCount \in Nat \cup {None}
      /\ w.from \in Nat \cup {None}
  BY <1>2, CountsAreNatural DEF PodState
<1>5. ASSUME w.from # None, ~w.fell, w.restarts # <<>>
      PROVE  w.from \in Nat /\ Latest(w.restarts) \in Nat /\ Latest(w.restarts) >= w.from
  <2>1. Latest(w.restarts) \in Nat
    <3>1. w.restarts \in Seq(0..Oldest)
      BY <1>2 DEF PodState
    <3>2. Latest(w.restarts) \in 0..Oldest
      BY <3>1, <1>5, LatestIsAge
    <3> QED
      BY <3>2
  <2>2. CASE w.from = 0
    BY <2>1, <2>2
  <2>3. CASE w.from = s.from /\ ~Empties(s, n) /\ w.fell = c.fell
    <3>1. ~s.fell /\ ~(n < s.count) /\ s.from # None
      BY <1>3, <1>5, <2>3
    <3>2. /\ s.satCount \in Nat /\ s.count \in Nat /\ s.satCount <= s.count
          /\ s.restarts # <<>> => (Latest(s.restarts) >= s.from \/ s.count > s.satCount)
      BY <1>4, <3>1 DEF Window
    <3>3. n <= s.satCount
      BY <1>4, <2>3, <3>2, CountsAreNatural DEF Empties
    <3>4. s.count = n /\ s.satCount = n
      BY <1>4, <3>1, <3>2, <3>3
    <3>5. w.restarts = s.restarts
      BY <1>2, <1>3, <1>4, <3>4
    <3>6. ~(s.count > s.satCount)
      BY <1>4, <3>4
    <3> QED
      BY <1>4, <1>5, <2>1, <2>3, <3>2, <3>5, <3>6
  <2> QED
    BY <1>2, <1>5, <2>2, <2>3
<1>6. Window(w)
  BY <1>2, <1>4, <1>5 DEF Window
<1> QED
  BY <1>1, <1>5, <1>6

(* The steps of the two action properties: ForecastStartsOver and           *)
(* ThrottleFollowsReadings.                                                *)
Forecasted ==
  \A p \in Pods :
    made[p] # 0 /\ made'[p] = 0 /\ ~Pod(p)'.fell =>
      LET restarts == Pod(p)'.restarts
      IN  restarts = <<>> \/ Latest(restarts) >= MinSpan

Throttled ==
  \A p \in Pods :
    /\ ~Active(p) /\ Active(p)' => Agree(readings'[p], "hot", RaiseAfter)
    /\ Active(p) /\ pods'[p] # None /\ ~Active(p)' =>
         Restart \/ Agree(readings'[p], "cool", ClearAfter)

(* Observe: a forecast is made of a window as long as MinSpan, with no      *)
(* restart in it.                                                          *)
LEMMA UsageFollows ==
  ASSUME ReadingsInv, NEW p \in Pods, Observe(p)
  PROVE  made' \in [Pods -> OptionalAge] /\ RunsStand' /\ WindowsFollowRestarts' /\ Forecasted /\ Throttled
<1>0. /\ PodTypes /\ RunsStand /\ WindowsFollowRestarts /\ made \in [Pods -> OptionalAge]
      /\ 0 \in OptionalAge /\ None \in OptionalAge /\ None \notin Int /\ MinSpan \in Nat
      /\ OptionalAge \subseteq Nat \cup {None}
  <2>1. PodTypes /\ RunsStand /\ WindowsFollowRestarts /\ made \in [Pods -> OptionalAge]
    BY DEF ReadingsInv, ReadingTypes
  <2>2. Oldest \in Nat /\ None \notin Int /\ MinSpan \in Nat
    BY EstimatesAssumption
  <2>3. 0 \in OptionalAge /\ None \in OptionalAge /\ OptionalAge \subseteq Nat \cup {None}
    BY <2>2 DEF OptionalAge
  <2> QED
    BY <2>1, <2>2, <2>3
<1>1. PICK n \in Counts, limited \in BOOLEAN :
        \E etf \in (IF limited THEN Verdicts(Windowed(Pod(p), n, limited)) ELSE {None}) :
          /\ pods' = [pods EXCEPT ![p] = [Windowed(Pod(p), n, limited) EXCEPT !.etf = etf, !.seen = 0]]
          /\ made' = [made EXCEPT ![p] = IF etf = None THEN None ELSE 0]
          /\ UNCHANGED readings
  BY Zenon DEF Observe
<1>2. Pod(p) \in PodState /\ Window(Pod(p))
  BY <1>0, PodIsTyped DEF WindowsFollowRestarts
<1>3. PICK w : w = Windowed(Pod(p), n, limited)
  OBVIOUS
<1>4. /\ w \in PodState /\ w.cond = Pod(p).cond /\ Window(w)
      /\ w.from # None /\ ~w.fell /\ w.restarts # <<>> =>
           w.from \in Nat /\ Latest(w.restarts) \in Nat /\ Latest(w.restarts) >= w.from
  BY <1>2, <1>3, WindowedIs, WindowedWindow
<1>5. PICK etf \in (IF limited THEN Verdicts(w) ELSE {None}) :
        /\ pods' = [pods EXCEPT ![p] = [w EXCEPT !.etf = etf, !.seen = 0]]
        /\ made' = [made EXCEPT ![p] = IF etf = None THEN None ELSE 0]
        /\ UNCHANGED readings
  BY <1>1, <1>3
<1>6. etf # None => w.from # None /\ w.from >= MinSpan
  BY <1>5 DEF Verdicts
<1>7. PICK next : next = [w EXCEPT !.etf = etf, !.seen = 0]
  OBVIOUS
<1>8. /\ next.cond = Pod(p).cond /\ next.restarts = w.restarts /\ next.from = w.from
      /\ next.count = w.count /\ next.satCount = w.satCount /\ next.fell = w.fell
  BY <1>4, <1>7 DEF PodState
<1>9. pods' = [pods EXCEPT ![p] = next]
  BY <1>5, <1>7
<1>10. Window(next)
  BY <1>4, <1>8, SameWindow
<1>11. RunsStand' /\ Throttled
  <2>2. pods' = [pods EXCEPT ![p] = next] /\ next.cond = Pod(p).cond /\ UNCHANGED readings
    BY <1>5, <1>8, <1>9
  <2>3. /\ RunsStand'
        /\ \A q \in Pods : /\ Active(q)' => Active(q)
                           /\ pods'[q] # None /\ Active(q) => Active(q)'
    BY <1>0, <2>2, RunsStay
  <2> QED
    BY <2>3 DEF Throttled
<1>12. WindowsFollowRestarts'
  BY <1>0, <1>9, <1>10, WindowsStay
<1>13. made' \in [Pods -> OptionalAge]
  BY <1>0, <1>5
<1>14. Forecasted
  <2> SUFFICES ASSUME NEW q \in Pods, made[q] # 0, made'[q] = 0, ~Pod(q)'.fell, Pod(q)'.restarts # <<>>
               PROVE  Latest(Pod(q)'.restarts) >= MinSpan
    BY DEF Forecasted
  <2>1. q = p
    BY <1>0, <1>5
  <2>2. etf # None
    BY <1>0, <1>5, <2>1
  <2>3. pods'[p] = next
    BY <1>0, <1>9 DEF PodTypes
  <2>4. Pod(q)' = NewPod \/ Pod(q)' = next
    BY <2>1, <2>3 DEF Pod
  <2>5. Pod(q)'.restarts = w.restarts /\ ~w.fell
    BY <1>8, <2>4, NewPodIsQuiet
  <2>6. /\ w.from \in Nat /\ w.from >= MinSpan
        /\ Latest(w.restarts) >= w.from /\ Latest(w.restarts) \in Nat
    BY <1>4, <1>6, <2>2, <2>5
  <2> QED
    BY <1>0, <2>5, <2>6
<1> QED
  BY <1>11, <1>12, <1>13, <1>14

(* What else happens to one pod leaves its condition and its readings, and *)
(* makes no forecast.                                                      *)
LEMMA OneChangeFollows ==
  ASSUME ReadingsInv, NEW p \in Pods,
         \/ ObserveRestarts(p) \/ ObserveEvent(p) \/ ObserveOOM(p) \/ Prune(p)
  PROVE  made' \in [Pods -> OptionalAge] /\ RunsStand' /\ WindowsFollowRestarts' /\ Forecasted /\ Throttled
<1>0. /\ PodTypes /\ RunsStand /\ WindowsFollowRestarts /\ made \in [Pods -> OptionalAge]
      /\ None \in OptionalAge /\ None # 0
  BY EstimatesAssumption DEF ReadingsInv, ReadingTypes, OptionalAge
<1>1. Pod(p) \in PodState /\ Window(Pod(p))
  BY <1>0, PodIsTyped DEF WindowsFollowRestarts
<1>2. UNCHANGED readings /\ (made' = made \/ made' = [made EXCEPT ![p] = None])
  BY DEF ObserveRestarts, ObserveEvent, ObserveOOM, Prune
<1>3. PICK s : /\ pods' = [pods EXCEPT ![p] = s]
               /\ s # None => /\ s.cond = Pod(p).cond
                              /\ Window(s)
  <2>1. CASE ObserveRestarts(p)
    <3>1. PICK n \in Counts : pods' = [pods EXCEPT ![p] = [Counted(Pod(p), n) EXCEPT !.seen = 0]]
      BY <2>1 DEF ObserveRestarts
    <3>2. PICK c : c = Counted(Pod(p), n)
      OBVIOUS
    <3>3. c \in PodState /\ c.cond = Pod(p).cond /\ Window(c)
      BY <1>1, <3>2, CountedIs, CountedWindow
    <3>4. PICK s : s = [c EXCEPT !.seen = 0]
      OBVIOUS
    <3>5. /\ s.cond = c.cond /\ s.from = c.from /\ s.restarts = c.restarts
          /\ s.count = c.count /\ s.satCount = c.satCount /\ s.fell = c.fell
      BY <3>3, <3>4 DEF PodState
    <3>6. pods' = [pods EXCEPT ![p] = s]
      BY <3>1, <3>2, <3>4
    <3>7. Window(s)
      BY <3>3, <3>5, SameWindow
    <3> QED
      BY <3>3, <3>5, <3>6, <3>7
  <2>2. CASE ObserveEvent(p)
    <3>1. PICK a \in Ages : \/ pods' = [pods EXCEPT ![p] = [Pod(p) EXCEPT !.stuck = a]]
                            \/ pods' = [pods EXCEPT ![p] = [Pod(p) EXCEPT !.backOff = a]]
      BY <2>2 DEF ObserveEvent
    <3>2. PICK s : /\ s = [Pod(p) EXCEPT !.stuck = a] \/ s = [Pod(p) EXCEPT !.backOff = a]
                   /\ pods' = [pods EXCEPT ![p] = s]
      BY <3>1, Zenon
    <3>3. /\ s.cond = Pod(p).cond /\ s.from = Pod(p).from /\ s.restarts = Pod(p).restarts
          /\ s.count = Pod(p).count /\ s.satCount = Pod(p).satCount /\ s.fell = Pod(p).fell
      BY <1>1, <3>2 DEF PodState
    <3>4. Window(s)
      BY <1>1, <3>3, SameWindow
    <3> QED
      BY <3>2, <3>3, <3>4
  <2>3. CASE ObserveOOM(p)
    <3>1. PICK oom \in BOOLEAN : pods' = [pods EXCEPT ![p] = [Pod(p) EXCEPT !.oom = oom]]
      BY <2>3 DEF ObserveOOM
    <3>2. PICK s : s = [Pod(p) EXCEPT !.oom = oom]
      OBVIOUS
    <3>3. /\ s.cond = Pod(p).cond /\ s.from = Pod(p).from /\ s.restarts = Pod(p).restarts
          /\ s.count = Pod(p).count /\ s.satCount = Pod(p).satCount /\ s.fell = Pod(p).fell
      BY <1>1, <3>2 DEF PodState
    <3>4. Window(s)
      BY <1>1, <3>3, SameWindow
    <3> QED
      BY <3>1, <3>2, <3>3, <3>4
  <2>4. CASE Prune(p)
    BY <2>4 DEF Prune
  <2> QED
    BY <2>1, <2>2, <2>3, <2>4
<1>4. RunsStand' /\ Throttled
  <2>1. /\ RunsStand'
        /\ \A q \in Pods : /\ Active(q)' => Active(q)
                           /\ pods'[q] # None /\ Active(q) => Active(q)'
    BY <1>0, <1>2, <1>3, RunsStay
  <2> QED
    BY <2>1 DEF Throttled
<1>5. WindowsFollowRestarts'
  BY <1>0, <1>3, WindowsStay
<1>6. made' \in [Pods -> OptionalAge] /\ Forecasted
  BY <1>0, <1>2 DEF Forecasted
<1> QED
  BY <1>4, <1>5, <1>6

(* Steps that touch no pod, and a restart of the engine. *)
LEMMA OtherStepsFollow ==
  ASSUME ReadingsInv, ObserveReplicas \/ ObserveRollout \/ Restart \/ UNCHANGED vars
  PROVE  made' \in [Pods -> OptionalAge] /\ RunsStand' /\ WindowsFollowRestarts' /\ Forecasted /\ Throttled
<1>0. /\ PodTypes /\ RunsStand /\ WindowsFollowRestarts /\ made \in [Pods -> OptionalAge]
      /\ None \in OptionalAge /\ None # 0
  BY EstimatesAssumption DEF ReadingsInv, ReadingTypes, OptionalAge
<1>1. CASE Restart
  <2>1. \A q \in Pods : pods'[q] = None /\ Pod(q)' = NewPod
    BY <1>1 DEF Restart, Unknown, Pod
  <2>2. made' = Unknown
    BY <1>1 DEF Restart
  <2>3. RunsStand' /\ WindowsFollowRestarts'
    BY <2>1, NewPodIsQuiet DEF RunsStand, WindowsFollowRestarts, Window
  <2>4. made' \in [Pods -> OptionalAge] /\ Forecasted
    BY <1>0, <2>2 DEF Unknown, Forecasted
  <2>5. Throttled
    BY <2>1, NewPodIsQuiet DEF Throttled, Active
  <2> QED
    BY <2>3, <2>4, <2>5
<1>2. CASE UNCHANGED <<pods, made, readings>>
  <2>1. \A q \in Pods : Pod(q)' = Pod(q)
    BY <1>2 DEF Pod
  <2>2. RunsStand' /\ WindowsFollowRestarts'
    BY <1>0, <1>2, <2>1 DEF RunsStand, WindowsFollowRestarts
  <2>3. Forecasted /\ Throttled
    BY <1>2, <2>1 DEF Forecasted, Throttled, Active
  <2> QED
    BY <1>0, <1>2, <2>2, <2>3
<1> QED
  BY <1>1, <1>2 DEF ObserveReplicas, ObserveRollout, vars

(* A window and the restarts in it grow older together. *)
LEMMA WindowAges ==
  ASSUME NEW s \in PodState, Window(s)
  PROVE  Window(OlderPod(s))
<1>1. PICK t : t = OlderPod(s)
  OBVIOUS
<1>2. /\ t \in PodState /\ t.from = Older(s.from)
      /\ t.count = s.count /\ t.satCount = s.satCount /\ t.fell = s.fell
      /\ Len(t.restarts) = Len(s.restarts)
      /\ \A i \in 1..Len(s.restarts) : t.restarts[i] = Older(s.restarts[i])
  BY <1>1, OlderPodTypes
<1>3. Oldest \in Nat /\ None \notin Int
  BY EstimatesAssumption
<1>4. t.from # None => s.from # None /\ s.from \in 0..Oldest
  BY <1>2 DEF Older, PodState, OptionalAge
<1>5. ASSUME t.from # None, t.restarts # <<>>, s.restarts # <<>> => Latest(s.restarts) >= s.from
      PROVE  Latest(t.restarts) >= t.from
  <2>1. s.restarts \in Seq(0..Oldest) /\ t.restarts \in Seq(0..Oldest)
    BY <1>2 DEF PodState
  <2>2. Len(s.restarts) \in 1..Len(s.restarts) /\ s.restarts # <<>>
    <3>1. Len(t.restarts) \in Nat /\ Len(t.restarts) # 0
      BY <1>5, <2>1
    <3>2. Len(<<>>) = 0
      OBVIOUS
    <3> QED
      BY <1>2, <3>1, <3>2
  <2>3. Latest(t.restarts) = Older(Latest(s.restarts))
    BY <1>2, <2>2 DEF Latest
  <2>4. Latest(s.restarts) \in 0..Oldest
    BY <2>1, <2>2, LatestIsAge
  <2>5. \A a, b \in 0..Oldest : a >= b => Older(a) >= Older(b)
    BY <1>3 DEF Older
  <2> QED
    BY <1>2, <1>4, <1>5, <2>2, <2>3, <2>4, <2>5
<1>6. SUFFICES ASSUME t.from # None
               PROVE  /\ t.satCount # None /\ t.count # None
                      /\ ~t.fell =>
                           /\ t.satCount <= t.count
                           /\ t.restarts # <<>> => (Latest(t.restarts) >= t.from \/ t.count > t.satCount)
  BY <1>1 DEF Window
<1>7. /\ s.satCount # None /\ s.count # None
      /\ ~s.fell =>
           /\ s.satCount <= s.count
           /\ s.restarts # <<>> => (Latest(s.restarts) >= s.from \/ s.count > s.satCount)
  BY <1>4, <1>6 DEF Window
<1>8. ~t.fell /\ t.restarts # <<>> => (Latest(t.restarts) >= t.from \/ t.count > t.satCount)
  BY <1>2, <1>5, <1>6, <1>7
<1> QED
  BY <1>2, <1>7, <1>8

(* Time: every stamp grows older, and the log of readings with it. *)
LEMMA TimeFollows ==
  ASSUME ReadingsInv, Tick
  PROVE  made' \in [Pods -> OptionalAge] /\ RunsStand' /\ WindowsFollowRestarts' /\ Forecasted /\ Throttled
<1>0. /\ PodTypes /\ RunsStand /\ WindowsFollowRestarts /\ made \in [Pods -> OptionalAge]
      /\ Oldest \in Nat /\ Oldest > 0 /\ None \notin Int /\ 0 \in Ages
  BY GapIsShort, EstimatesAssumption DEF ReadingsInv, ReadingTypes, Ages
<1>1. /\ pods' = [p \in Pods |-> IF pods[p] = None THEN None ELSE OlderPod(pods[p])]
      /\ made' = [p \in Pods |-> Older(made[p])]
      /\ readings' = [p \in Pods |-> [a \in Ages |-> IF a = 0 THEN "none" ELSE readings[p][a - 1]]]
  BY DEF Tick
<1>2. ASSUME NEW q \in Pods
      PROVE  IF pods'[q] = None THEN Pod(q)' = NewPod
             ELSE Pod(q) \in PodState /\ Pod(q)' = OlderPod(Pod(q)) /\ pods[q] # None
  <2>1. pods'[q] = IF pods[q] = None THEN None ELSE OlderPod(pods[q])
    BY <1>1
  <2>2. pods[q] # None => Pod(q) = pods[q] /\ Pod(q) \in PodState
    BY <1>0 DEF Pod, PodTypes
  <2> QED
    BY <2>1, <2>2 DEF Pod
<1>3. ASSUME NEW q \in Pods
      PROVE  readings'[q][0] = "none" /\ \A a \in 1..Oldest : readings'[q][a] = readings[q][a - 1]
  <2>1. readings'[q] = [a \in Ages |-> IF a = 0 THEN "none" ELSE readings[q][a - 1]]
    BY <1>1
  <2>2. \A a \in 1..Oldest : a \in Ages /\ a # 0
    BY <1>0 DEF Ages
  <2> QED
    BY <1>0, <2>1, <2>2
<1>4. ASSUME NEW q \in Pods, pods'[q] # None
      PROVE  LET c == Pod(q).cond
                 d == Pod(q)'.cond
             IN  /\ d.active = c.active
                 /\ d.run = Older(c.run) /\ d.below = Older(c.below) /\ d.last = Older(c.last)
                 /\ c.run \in OptionalAge /\ c.below \in OptionalAge /\ c.last \in OptionalAge
  <2>1. Pod(q) \in PodState /\ Pod(q)' = OlderPod(Pod(q))
    BY <1>2, <1>4
  <2>2. Pod(q).cond \in Cond
    BY <2>1 DEF PodState
  <2> QED
    BY <2>1, <2>2, OlderPodTypes DEF Cond
<1>5. \A a \in OptionalAge : Older(a) # None <=> a # None
  BY <1>0 DEF Older, OptionalAge
<1>6. RunsStand'
  <2>1. ASSUME NEW q \in Pods
        PROVE  LET d == Pod(q)'.cond
               IN  /\ d.run # None => Stands(readings'[q], "hot", d.run, d.last)
                   /\ d.below # None => Stands(readings'[q], "cool", d.below, d.last)
    <3>1. CASE pods'[q] = None
      BY <1>2, <3>1, NewPodIsQuiet
    <3>2. CASE pods'[q] # None
      <4>1. PICK c, d : c = Pod(q).cond /\ d = Pod(q)'.cond
        OBVIOUS
      <4>2. /\ d.run = Older(c.run) /\ d.below = Older(c.below) /\ d.last = Older(c.last)
            /\ c.run \in OptionalAge /\ c.below \in OptionalAge /\ c.last \in OptionalAge
        BY <1>4, <3>2, <4>1
      <4>3. /\ c.run # None => Stands(readings[q], "hot", c.run, c.last)
            /\ c.below # None => Stands(readings[q], "cool", c.below, c.last)
        BY <1>0, <4>1 DEF RunsStand
      <4>4. PICK log, more : log = readings[q] /\ more = readings'[q]
        OBVIOUS
      <4>5. more[0] = "none" /\ \A a \in 1..Oldest : more[a] = log[a - 1]
        BY <1>3, <4>4
      <4>6. ASSUME d.run # None PROVE Stands(more, "hot", d.run, d.last)
        <5>1. c.run # None /\ c.run \in 0..Oldest
          BY <1>5, <4>2, <4>6 DEF OptionalAge
        <5>2. Stands(log, "hot", c.run, c.last)
          BY <4>3, <4>4, <5>1
        <5> QED
          BY <4>2, <4>5, <5>1, <5>2, RunAges
      <4>7. ASSUME d.below # None PROVE Stands(more, "cool", d.below, d.last)
        <5>1. c.below # None /\ c.below \in 0..Oldest
          BY <1>5, <4>2, <4>7 DEF OptionalAge
        <5>2. Stands(log, "cool", c.below, c.last)
          BY <4>3, <4>4, <5>1
        <5> QED
          BY <4>2, <4>5, <5>1, <5>2, RunAges
      <4> QED
        BY <4>1, <4>4, <4>6, <4>7
    <3> QED
      BY <3>1, <3>2
  <2> QED
    BY <2>1 DEF RunsStand
<1>7. WindowsFollowRestarts'
  <2>1. ASSUME NEW q \in Pods PROVE Window(Pod(q)')
    <3>1. CASE pods'[q] = None
      BY <1>2, <3>1, NewPodIsQuiet DEF Window
    <3>2. CASE pods'[q] # None
      <4>1. PICK s, t : s = Pod(q) /\ t = Pod(q)'
        OBVIOUS
      <4>2. s \in PodState /\ t = OlderPod(s) /\ Window(s)
        BY <1>0, <1>2, <3>2, <4>1 DEF WindowsFollowRestarts
      <4> QED
        BY <4>1, <4>2, WindowAges
    <3> QED
      BY <3>1, <3>2
  <2> QED
    BY <2>1 DEF WindowsFollowRestarts
<1>8. made' \in [Pods -> OptionalAge] /\ Forecasted
  <2>1. made' \in [Pods -> OptionalAge]
    BY <1>0, <1>1, OlderIsAge
  <2>2. \A a \in OptionalAge : Older(a) # 0
    BY <1>0 DEF Older, OptionalAge
  <2> QED
    BY <1>0, <1>1, <2>1, <2>2 DEF Forecasted
<1>9. Throttled
  <2>1. \A q \in Pods : IF pods'[q] = None THEN Pod(q)' = NewPod ELSE Pod(q)'.cond.active = Pod(q).cond.active
    BY <1>2, <1>4
  <2> QED
    BY <2>1, NewPodIsQuiet DEF Throttled, Active
<1> QED
  BY <1>6, <1>7, <1>8, <1>9

(* Condition.Observe: a reading begins its run or carries it on, and what   *)
(* it raises or clears has lasted.                                         *)
LEMMA ReadingFollows ==
  ASSUME NEW c \in Cond, NEW log \in [Ages -> {"none", "hot", "cool"}], log[0] = "none",
         c.run # None => Stands(log, "hot", c.run, c.last),
         c.below # None => Stands(log, "cool", c.below, c.last),
         NEW hot \in BOOLEAN, NEW d, d = IF hot THEN Hot(Continued(c)) ELSE Cool(Continued(c)),
         NEW more, more = [log EXCEPT ![0] = IF hot THEN "hot" ELSE "cool"]
  PROVE  /\ d.run # None => Stands(more, "hot", d.run, d.last)
         /\ d.below # None => Stands(more, "cool", d.below, d.last)
         /\ ~c.active /\ d.active => Agree(more, "hot", RaiseAfter)
         /\ c.active /\ ~d.active => Agree(more, "cool", ClearAfter)
<1>0. /\ 0 \in Ages /\ 1..Oldest \subseteq Ages /\ 0 \in 0..Oldest /\ None \notin Int
      /\ RaiseAfter \in Nat /\ RaiseAfter + MaxGap < Oldest
      /\ ClearAfter \in Nat /\ ClearAfter + MaxGap < Oldest
      /\ MaxGap \in Nat
  BY GapIsShort, EstimatesAssumption DEF Ages
<1>1. more[0] = (IF hot THEN "hot" ELSE "cool") /\ \A a \in 1..Oldest : more[a] = log[a]
  BY <1>0
<1> DEFINE k == Continued(c)
<1>2. /\ k \in Cond /\ k.active = c.active
      /\ k.run # None => k.run = c.run /\ k.last = c.last /\ ~(c.last # None /\ c.last > MaxGap)
      /\ k.below # None => k.below = c.below /\ k.last = c.last /\ ~(c.last # None /\ c.last > MaxGap)
  <2>1. k \in Cond
    BY ConditionTypes
  <2>2. CASE c.last # None /\ c.last > MaxGap
    <3>1. k = [c EXCEPT !.run = None, !.below = None]
      BY <2>2 DEF Continued
    <3> QED
      BY <2>1, <3>1 DEF Cond
  <2>3. CASE ~(c.last # None /\ c.last > MaxGap)
    BY <2>1, <2>3 DEF Continued
  <2> QED
    BY <2>2, <2>3
<1> HIDE DEF k
<1>3. CASE hot
  <2>1. PICK r : r = IF k.run = None THEN 0 ELSE k.run
    OBVIOUS
  <2>2. d.run = r /\ d.below = None /\ d.last = 0 /\ d.active = (k.active \/ r >= RaiseAfter)
    BY <1>3, <2>1 DEF Hot, k
  <2>3. r \in 0..Oldest
    BY <1>0, <1>2, <2>1 DEF Cond, OptionalAge
  <2>4. more[0] = "hot"
    BY <1>1, <1>3
  <2>5. Stands(more, "hot", r, 0)
    <3>1. CASE k.run = None
      BY <2>1, <2>4, <3>1, RunBegins
    <3>2. CASE k.run # None
      <4>1. r = c.run /\ Stands(log, "hot", r, c.last) /\ c.last # None
        BY <1>2, <2>1, <3>2 DEF Stands
      <4>2. c.last \in 0..Oldest /\ c.last <= MaxGap
        BY <1>0, <1>2, <3>2, <4>1 DEF Cond, OptionalAge
      <4>3. PICK last \in 0..Oldest : last = c.last
        BY <4>2
      <4>4. Stands(log, "hot", r, last) /\ last <= MaxGap
        BY <4>1, <4>2, <4>3
      <4> QED
        BY <1>1, <2>3, <2>4, <4>4, RunGoesOn
    <3> QED
      BY <3>1, <3>2
  <2>6. ~c.active /\ d.active => Agree(more, "hot", RaiseAfter)
    <3> SUFFICES ASSUME ~c.active, d.active PROVE Agree(more, "hot", RaiseAfter)
      OBVIOUS
    <3>1. r >= RaiseAfter
      BY <1>2, <2>2
    <3> QED
      BY <1>0, <2>3, <2>5, <3>1, RunAgrees
  <2>7. c.active => d.active
    BY <1>2, <2>2
  <2> QED
    BY <2>2, <2>5, <2>6, <2>7
<1>4. CASE ~hot
  <2>1. PICK r : r = IF k.below = None THEN 0 ELSE k.below
    OBVIOUS
  <2>2. d.run = None /\ d.below = r /\ d.last = 0 /\ d.active = (k.active /\ r < ClearAfter)
    BY <1>4, <2>1 DEF Cool, k
  <2>3. r \in 0..Oldest
    BY <1>0, <1>2, <2>1 DEF Cond, OptionalAge
  <2>4. more[0] = "cool"
    BY <1>1, <1>4
  <2>5. Stands(more, "cool", r, 0)
    <3>1. CASE k.below = None
      BY <2>1, <2>4, <3>1, RunBegins
    <3>2. CASE k.below # None
      <4>1. r = c.below /\ Stands(log, "cool", r, c.last) /\ c.last # None
        BY <1>2, <2>1, <3>2 DEF Stands
      <4>2. c.last \in 0..Oldest /\ c.last <= MaxGap
        BY <1>0, <1>2, <3>2, <4>1 DEF Cond, OptionalAge
      <4>3. PICK last \in 0..Oldest : last = c.last
        BY <4>2
      <4>4. Stands(log, "cool", r, last) /\ last <= MaxGap
        BY <4>1, <4>2, <4>3
      <4> QED
        BY <1>1, <2>3, <2>4, <4>4, RunGoesOn
    <3> QED
      BY <3>1, <3>2
  <2>6. c.active /\ ~d.active => Agree(more, "cool", ClearAfter)
    <3> SUFFICES ASSUME c.active, ~d.active PROVE Agree(more, "cool", ClearAfter)
      OBVIOUS
    <3>1. r >= ClearAfter
      <4>1. ~(r < ClearAfter)
        BY <1>2, <2>2
      <4> QED
        BY <1>0, <2>3, <4>1
    <3> QED
      BY <1>0, <2>3, <2>5, <3>1, RunAgrees
  <2>7. ~c.active => ~d.active
    BY <1>2, <2>2
  <2> QED
    BY <2>2, <2>5, <2>6, <2>7
<1> QED
  BY <1>3, <1>4

LEMMA ConditionFollows ==
  ASSUME ReadingsInv, NEW p \in Pods, ObserveCondition(p)
  PROVE  /\ readings' \in [Pods -> [Ages -> {"none", "hot", "cool"}]]
         /\ made' \in [Pods -> OptionalAge] /\ RunsStand' /\ WindowsFollowRestarts' /\ Forecasted /\ Throttled
<1>0. /\ PodTypes /\ RunsStand /\ WindowsFollowRestarts /\ made \in [Pods -> OptionalAge]
      /\ readings \in [Pods -> [Ages -> {"none", "hot", "cool"}]]
      /\ 0 \in Ages
  BY GapIsShort DEF ReadingsInv, ReadingTypes, Ages
<1>1. readings[p][0] = "none" /\ UNCHANGED made
  BY DEF ObserveCondition
<1>2. PICK hot \in BOOLEAN :
        LET c == Continued(Pod(p).cond)
        IN  /\ pods' = [pods EXCEPT ![p] = [Pod(p) EXCEPT !.cond = IF hot THEN Hot(c) ELSE Cool(c)]]
            /\ readings' = [readings EXCEPT ![p][0] = IF hot THEN "hot" ELSE "cool"]
  BY DEF ObserveCondition
<1>3. PICK c, d, log, more, s :
        /\ c = Pod(p).cond /\ d = IF hot THEN Hot(Continued(c)) ELSE Cool(Continued(c))
        /\ log = readings[p] /\ more = [log EXCEPT ![0] = IF hot THEN "hot" ELSE "cool"]
        /\ s = [Pod(p) EXCEPT !.cond = d]
  OBVIOUS
<1>4. pods' = [pods EXCEPT ![p] = s] /\ readings' = [readings EXCEPT ![p] = more]
  <2>1. pods' = [pods EXCEPT ![p] = s]
    BY <1>2, <1>3
  <2>2. readings' = [readings EXCEPT ![p] = more]
    BY <1>0, <1>2, <1>3
  <2> QED
    BY <2>1, <2>2
<1>5. Pod(p) \in PodState /\ c \in Cond /\ log \in [Ages -> {"none", "hot", "cool"}] /\ log[0] = "none"
      /\ more \in [Ages -> {"none", "hot", "cool"}]
  <2>1. Pod(p) \in PodState
    BY <1>0, PodIsTyped
  <2>2. c \in Cond
    BY <1>3, <2>1 DEF PodState
  <2>3. log \in [Ages -> {"none", "hot", "cool"}] /\ log[0] = "none"
    BY <1>0, <1>1, <1>3
  <2>4. more \in [Ages -> {"none", "hot", "cool"}]
    BY <1>0, <1>3, <2>3
  <2> QED
    BY <2>1, <2>2, <2>3, <2>4
<1>6. /\ s.cond = d /\ s.from = Pod(p).from /\ s.restarts = Pod(p).restarts
      /\ s.count = Pod(p).count /\ s.satCount = Pod(p).satCount /\ s.fell = Pod(p).fell
  BY <1>3, <1>5 DEF PodState
<1>7. /\ d.run # None => Stands(more, "hot", d.run, d.last)
      /\ d.below # None => Stands(more, "cool", d.below, d.last)
      /\ ~c.active /\ d.active => Agree(more, "hot", RaiseAfter)
      /\ c.active /\ ~d.active => Agree(more, "cool", ClearAfter)
  <2>1. /\ c.run # None => Stands(log, "hot", c.run, c.last)
        /\ c.below # None => Stands(log, "cool", c.below, c.last)
    BY <1>0, <1>3 DEF RunsStand
  <2> QED
    BY <1>3, <1>5, <2>1, ReadingFollows
<1>8. ASSUME NEW q \in Pods
      PROVE  \/ q = p /\ readings'[q] = more /\ IF pods'[q] = None THEN Pod(q)' = NewPod ELSE Pod(q)'.cond = d
             \/ q # p /\ readings'[q] = readings[q] /\ Pod(q)' = Pod(q)
  <2>1. CASE q = p
    BY <1>0, <1>4, <1>6, <2>1 DEF Pod, PodTypes
  <2>2. CASE q # p
    BY <1>0, <1>4, <2>2 DEF Pod, PodTypes
  <2> QED
    BY <2>1, <2>2
<1>9. RunsStand'
  <2>1. ASSUME NEW q \in Pods
        PROVE  LET e == Pod(q)'.cond
               IN  /\ e.run # None => Stands(readings'[q], "hot", e.run, e.last)
                   /\ e.below # None => Stands(readings'[q], "cool", e.below, e.last)
    <3>1. CASE q = p
      BY <1>7, <1>8, <3>1, NewPodIsQuiet
    <3>2. CASE q # p
      BY <1>0, <1>8, <3>2 DEF RunsStand
    <3> QED
      BY <3>1, <3>2
  <2> QED
    BY <2>1 DEF RunsStand
<1>10. Throttled
  <2>1. ASSUME NEW q \in Pods
        PROVE  /\ ~Active(q) /\ Active(q)' => Agree(readings'[q], "hot", RaiseAfter)
               /\ Active(q) /\ pods'[q] # None /\ ~Active(q)' => Agree(readings'[q], "cool", ClearAfter)
    <3>1. CASE q = p
      BY <1>3, <1>7, <1>8, <3>1, NewPodIsQuiet DEF Active
    <3>2. CASE q # p
      BY <1>8, <3>2 DEF Active
    <3> QED
      BY <3>1, <3>2
  <2> QED
    BY <2>1 DEF Throttled
<1>11. WindowsFollowRestarts'
  <2>1. Window(Pod(p))
    BY <1>0 DEF WindowsFollowRestarts
  <2>2. Window(s)
    BY <1>6, <2>1, SameWindow
  <2> QED
    BY <1>0, <1>4, <2>2, WindowsStay
<1>12. readings' \in [Pods -> [Ages -> {"none", "hot", "cool"}]]
  BY <1>0, <1>4, <1>5
<1>13. Forecasted
  BY <1>1 DEF Forecasted
<1> QED
  BY <1>0, <1>1, <1>9, <1>10, <1>11, <1>12, <1>13

LEMMA ReadingsStart == Init => ReadingsInv
<1> SUFFICES ASSUME Init PROVE ReadingsInv
  OBVIOUS
<1>1. \A q \in Pods : Pod(q) = NewPod
  BY DEF Init, Unknown, Pod
<1>2. RunsStand /\ WindowsFollowRestarts
  BY <1>1, NewPodIsQuiet DEF RunsStand, WindowsFollowRestarts, Window
<1>3. ReadingTypes
  BY DEF Init, Unknown, ReadingTypes, PodTypes, OptionalAge
<1> QED
  BY <1>2, <1>3 DEF ReadingsInv

LEMMA ReadingsStep ==
  ASSUME ReadingsInv, [Next]_vars
  PROVE  ReadingsInv' /\ Forecasted /\ Throttled
<1>1. PodTypes'
  BY TrackerTypes DEF ReadingsInv, ReadingTypes
<1>2. made' \in [Pods -> OptionalAge] /\ RunsStand' /\ WindowsFollowRestarts' /\ Forecasted /\ Throttled
  <2>1. CASE \E p \in Pods : ObserveRestarts(p) \/ ObserveEvent(p) \/ ObserveOOM(p) \/ Prune(p)
    BY <2>1, OneChangeFollows
  <2>2. CASE \E p \in Pods : Observe(p)
    BY <2>2, UsageFollows
  <2>3. CASE \E p \in Pods : ObserveCondition(p)
    BY <2>3, ConditionFollows
  <2>4. CASE Tick
    BY <2>4, TimeFollows
  <2>5. CASE ObserveReplicas \/ ObserveRollout \/ Restart \/ UNCHANGED vars
    BY <2>5, OtherStepsFollow
  <2> QED
    BY <2>1, <2>2, <2>3, <2>4, <2>5 DEF Next
<1>3. readings' \in [Pods -> [Ages -> {"none", "hot", "cool"}]]
  <2>0. readings \in [Pods -> [Ages -> {"none", "hot", "cool"}]]
    BY DEF ReadingsInv, ReadingTypes
  <2>1. CASE \E p \in Pods : ObserveCondition(p)
    BY <2>1, ConditionFollows
  <2>2. CASE Tick
    <3>1. readings' = [q \in Pods |-> [a \in Ages |-> IF a = 0 THEN "none" ELSE readings[q][a - 1]]]
      BY <2>2 DEF Tick
    <3>2. \A a \in Ages : a # 0 => a - 1 \in Ages
      BY GapIsShort DEF Ages
    <3> QED
      BY <2>0, <3>1, <3>2
  <2>3. CASE UNCHANGED readings
    BY <2>0, <2>3
  <2> QED
    BY <2>1, <2>2, <2>3 DEF Next, vars, Observe, ObserveRestarts, ObserveEvent, ObserveOOM, Prune,
       ObserveReplicas, ObserveRollout, Restart
<1> QED
  BY <1>1, <1>2, <1>3 DEF ReadingsInv, ReadingTypes

(* Throttling is raised only by readings that stayed above the threshold    *)
(* for RaiseAfter, and cleared only by readings that stayed below it for    *)
(* ClearAfter, and a forecast rests on readings of after the last restart:  *)
(* whatever came in which order, with silences, prunes and restarts between *)
(* (Condition.Observe, recordRestarts, Saturation.Observe).                *)
THEOREM EstimatesAlwaysFollow == MCSpec => EstimatesFollowReadings
<1>1. MCInit => ReadingsInv
  BY ReadingsStart DEF MCInit
<1>2. ReadingsInv /\ [MCNext]_<<part, vars, fusionVars, podOwnerVars, graphVars, Rest>> =>
        ReadingsInv' /\ [Forecasted]_vars /\ [Throttled]_vars
  <2> SUFFICES ASSUME ReadingsInv, [MCNext]_<<part, vars, fusionVars, podOwnerVars, graphVars, Rest>>
               PROVE  ReadingsInv' /\ [Forecasted]_vars /\ [Throttled]_vars
    OBVIOUS
  <2>1. [Next]_vars
    BY DEF MCNext
  <2> QED
    BY <2>1, ReadingsStep
<1>3. MCSpec => [][Forecasted]_vars /\ [][Throttled]_vars
  BY <1>1, <1>2, PTL DEF MCSpec
<1> QED
  BY <1>3 DEF EstimatesFollowReadings, ThrottleFollowsReadings, ForecastStartsOver, Throttled, Forecasted
=============================================================================
