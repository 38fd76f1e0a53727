--------------------------- MODULE DiscoveryProofs ---------------------------
(***************************************************************************)
(* Whatever the cluster, the kinds and the interleaving: the first-sync    *)
(* prune spares what was there from the start, and a watch that has nothing *)
(* left to say knows the cluster, provided that a list holds every workload *)
(* of its kind.  And wherever the process is when it is told to stop, or    *)
(* fails: what was answered is written, and what is owed is flushed.       *)
(***************************************************************************)
EXTENDS Discovery, Lifecycle, FiniteSetTheorems, SequenceTheorems, TLAPS

(* Only a workload that came or went is ever reported. *)
EventsAreTouched ==
  \A k \in Kinds :
    /\ \A i \in 1..Len(stream[k]) : stream[k][i].ref \in touched
    /\ hand[k].type = "deleted" => hand[k].ref \in touched

(* What was there from the start is in the list being handled, or known    *)
(* already; it is known once the kind was listed, and to the prune.        *)
Lasting == cluster \ touched

LastingIsKnown ==
  \A w \in Lasting :
    /\ pc[KindOf[w]] = "items" => w \in known \cup items[KindOf[w]]
    /\ pc[KindOf[w]] = "watch" \/ KindOf[w] \in listed => w \in known
    /\ prune.at \in {"refs", "judging"} => w \in prune.known

DiscoveryInv ==
  /\ TypeOK
  /\ EventsAreTouched
  /\ LastingIsKnown

(* No kind has more workloads than one list answers. *)
OnePage == IsFiniteSet(Workloads) /\ \A k \in Kinds : Cardinality(Of(k)) <= Page

LEMMA PageIsAll ==
  ASSUME OnePage, NEW k \in Kinds, NEW page \in Answers(k), cluster \subseteq Workloads
  PROVE  page = cluster \cap Of(k)
  <1> DEFINE all == cluster \cap Of(k)
  <1>1. Of(k) \subseteq Workloads /\ IsFiniteSet(Of(k))
    BY FS_Subset DEF Of, OnePage
  <1>2. IsFiniteSet(all) /\ Cardinality(all) <= Cardinality(Of(k))
    BY <1>1, FS_Subset
  <1>3. /\ Cardinality(all) \in Nat
        /\ Cardinality(Of(k)) \in Nat
    BY <1>1, <1>2, FS_CardinalityType
  <1>4. Cardinality(all) <= Page
    BY <1>2, <1>3, DiscoveryAssumption DEF OnePage
  <1>5. page \subseteq all /\ Cardinality(page) = Cardinality(all)
    BY <1>3, <1>4, DiscoveryAssumption DEF Answers, Smaller
  <1> QED
    BY <1>2, <1>5, FS_Subset

----------------------------------------------------------------------------
(* An informer that has heard nothing, beside any cluster and an empty     *)
(* fleet, satisfies the invariant (NewInformer).                           *)
THEOREM DiscoveryStarts == Init => DiscoveryInv
  <1> SUFFICES ASSUME Init PROVE DiscoveryInv
    OBVIOUS
  <1> USE DiscoveryAssumption DEF Init
  <1>1. TypeOK
    BY DEF TypeOK, Idle
  <1>2. EventsAreTouched
    BY DEF EventsAreTouched, Idle
  <1>3. LastingIsKnown
    BY DEF LastingIsKnown, Lasting
  <1> QED
    BY <1>1, <1>2, <1>3 DEF DiscoveryInv

----------------------------------------------------------------------------
(***************************************************************************)
(* Types.                                                                  *)
(***************************************************************************)
LEMMA TypeStep == TypeOK /\ [Next]_vars => TypeOK'
  <1> SUFFICES ASSUME TypeOK, Next PROVE TypeOK'
    BY DEF vars, clusterVars, informerVars, TypeOK
  <1> USE DiscoveryAssumption
  <1>1. ASSUME NEW w \in Workloads, Created(w) \/ Deleted(w)
        PROVE  TypeOK'
    <2>1. stream' \in [Kinds -> Seq(Events)]
      <3>1. PICK e \in Events : stream' = [stream EXCEPT ![KindOf[w]] =
              IF pc[KindOf[w]] = "list" THEN @ ELSE Append(@, e)]
        BY <1>1 DEF Created, Deleted, Change, Report, Events
      <3> QED
        BY <3>1 DEF TypeOK
    <2> QED
      BY <1>1, <2>1 DEF Created, Deleted, Change, TypeOK
  <1>2. ASSUME NEW k \in Kinds, Loop(k)
        PROVE  TypeOK'
    <2>1. CASE List(k)
      BY <2>1 DEF List, Answers, TypeOK, clusterVars
    <2>2. CASE HandleItem(k)
      <3>1. PICK w \in items[k] : /\ Track(k, [type |-> "put", ref |-> w])
                                  /\ items' = [items EXCEPT ![k] = @ \ {w}]
        BY <2>2 DEF HandleItem
      <3>2. w \in Workloads
        BY <3>1 DEF TypeOK
      <3> QED
        BY <2>2, <3>1, <3>2 DEF HandleItem, Track, Events, TypeOK, clusterVars
    <2>3. CASE Listed(k)
      BY <2>3 DEF Listed, TypeOK, clusterVars
    <2>4. CASE HandleEvent(k)
      <3>1. Head(stream[k]) \in Events /\ Tail(stream[k]) \in Seq(Events)
        BY <2>4 DEF HandleEvent, TypeOK
      <3> QED
        BY <2>4, <3>1 DEF HandleEvent, Track, Events, TypeOK, clusterVars
    <2>5. CASE WatchEnds(k)
      BY <2>5 DEF WatchEnds, TypeOK, clusterVars
    <2>6. CASE Call(k)
      BY <2>6 DEF Call, RegisterWorkload, UnregisterWorkload, TypeOK, clusterVars
    <2> QED
      BY <1>2, <2>1, <2>2, <2>3, <2>4, <2>5, <2>6 DEF Loop
  <1>3. ASSUME NEW r \in Refs, Telemetry(r)
        PROVE  TypeOK'
    BY <1>3 DEF Telemetry, TypeOK, clusterVars, informerVars
  <1>4. CASE Prune
    <2>1. CASE TakeKnown \/ PruneDone
      <3> DEFINE Prunes == [at : {"waiting", "refs", "judging", "done"},
                            known : SUBSET Workloads, left : SUBSET Refs]
      <3>1. prune' \in Prunes
        <4>1. prune.left \in SUBSET Refs /\ known \in SUBSET Workloads /\ prune \in Prunes
          BY DEF TypeOK
        <4>2. CASE TakeKnown
          <5>1. prune' = [at |-> "refs", known |-> known, left |-> prune.left]
            BY <4>1, <4>2 DEF TakeKnown
          <5> QED
            BY <4>1, <5>1
        <4>3. CASE PruneDone
          <5>1. prune' = [at |-> "done", known |-> {}, left |-> prune.left]
            BY <4>1, <4>3 DEF PruneDone
          <5> QED
            BY <4>1, <5>1
        <4> QED
          BY <2>1, <4>2, <4>3
      <3> QED
        BY <2>1, <3>1 DEF TakeKnown, PruneDone, TypeOK, clusterVars, informerVars
    <2>2. CASE TakeRefs
      BY <2>2 DEF TakeRefs, TypeOK, clusterVars, informerVars
    <2>3. ASSUME NEW r \in Refs, Judge(r)
          PROVE  TypeOK'
      <3>1. fleet' \in [Refs -> {"none", "pending", "reporting"}]
        BY <2>3 DEF Judge, UnregisterWorkload, TypeOK
      <3> QED
        BY <2>3, <3>1 DEF Judge, TypeOK, clusterVars, informerVars
    <2> QED
      BY <1>4, <2>1, <2>2, <2>3 DEF Prune
  <1> QED
    BY <1>1, <1>2, <1>3, <1>4 DEF Next

----------------------------------------------------------------------------
(***************************************************************************)
(* Events.                                                                 *)
(***************************************************************************)
LEMMA EventsStep == TypeOK /\ EventsAreTouched /\ [Next]_vars => EventsAreTouched'
  <1> SUFFICES ASSUME TypeOK, EventsAreTouched, Next PROVE EventsAreTouched'
    BY DEF vars, clusterVars, informerVars, EventsAreTouched
  <1> USE DiscoveryAssumption
  <1>1. ASSUME NEW w \in Workloads, Created(w) \/ Deleted(w)
        PROVE  EventsAreTouched'
    <2>1. PICK e \in Events :
            /\ e.ref = w
            /\ stream' = [stream EXCEPT ![KindOf[w]] =
                            IF pc[KindOf[w]] = "list" THEN @ ELSE Append(@, e)]
      BY <1>1 DEF Created, Deleted, Change, Report, Events
    <2>2. touched' = touched \cup {w} /\ hand' = hand
      BY <1>1 DEF Created, Deleted, Change
    <2>3. ASSUME NEW k \in Kinds, NEW i \in 1..Len(stream'[k])
          PROVE  stream'[k][i].ref \in touched'
      <3>1. stream[k] \in Seq(Events)
        BY DEF TypeOK
      <3>2. CASE stream'[k] = stream[k]
        BY <2>2, <3>2 DEF EventsAreTouched
      <3>3. CASE stream'[k] = Append(stream[k], e)
        <4>1. CASE i = Len(stream[k]) + 1
          BY <2>1, <2>2, <3>1, <3>3, <4>1
        <4>2. CASE i \in 1..Len(stream[k])
          <5>1. stream'[k][i] = stream[k][i]
            BY <3>1, <3>3, <4>2
          <5> QED
            BY <2>2, <4>2, <5>1 DEF EventsAreTouched
        <4> QED
          BY <3>1, <3>3, <4>1, <4>2
      <3> QED
        BY <2>1, <3>2, <3>3 DEF TypeOK
    <2> QED
      BY <2>2, <2>3 DEF EventsAreTouched
  <1>2. ASSUME NEW k \in Kinds, HandleEvent(k)
        PROVE  EventsAreTouched'
    <2> DEFINE e == Head(stream[k])
    <2>1. stream[k] \in Seq(Events) /\ stream[k] # <<>>
      BY <1>2 DEF HandleEvent, TypeOK
    <2>2. e = stream[k][1] /\ 1 \in 1..Len(stream[k])
      BY <2>1
    <2>3. e.ref \in touched
      BY <2>2 DEF EventsAreTouched
    <2>4. /\ hand' = [hand EXCEPT ![k] = e] /\ touched' = touched
          /\ stream' = [stream EXCEPT ![k] = Tail(@)]
      BY <1>2 DEF HandleEvent, Track, clusterVars
    <2>5. \A i \in 1..Len(Tail(stream[k])) :
            Tail(stream[k])[i] = stream[k][i + 1] /\ i + 1 \in 1..Len(stream[k])
      BY <2>1
    <2> HIDE DEF e
    <2>6. ASSUME NEW j \in Kinds
          PROVE  /\ \A i \in 1..Len(stream'[j]) : stream'[j][i].ref \in touched'
                 /\ hand'[j].type = "deleted" => hand'[j].ref \in touched'
      BY <2>3, <2>4, <2>5 DEF EventsAreTouched, TypeOK
    <2> QED
      BY <2>6 DEF EventsAreTouched
  <1>3. ASSUME NEW k \in Kinds, List(k) \/ Listed(k) \/ WatchEnds(k)
        PROVE  EventsAreTouched'
    <2>1. hand' = hand /\ touched' = touched
      BY <1>3 DEF List, Listed, WatchEnds, clusterVars
    <2>2. stream' = stream \/ stream' = [stream EXCEPT ![k] = <<>>]
      BY <1>3 DEF List, Listed, WatchEnds
    <2>3. \A j \in Kinds : stream'[j] = stream[j] \/ stream'[j] = <<>>
      BY <2>2 DEF TypeOK
    <2>4. \A j \in Kinds : \A i \in 1..Len(stream'[j]) : stream'[j][i].ref \in touched
      BY <2>3 DEF EventsAreTouched
    <2> QED
      BY <2>1, <2>4 DEF EventsAreTouched
  <1>4. ASSUME NEW k \in Kinds, HandleItem(k) \/ Call(k)
        PROVE  EventsAreTouched'
    <2>1. stream' = stream /\ touched' = touched
      BY <1>4 DEF HandleItem, Call, clusterVars
    <2>2. \/ \E w \in Workloads : hand' = [hand EXCEPT ![k] = [type |-> "put", ref |-> w]]
          \/ hand' = [hand EXCEPT ![k] = Idle]
      BY <1>4 DEF HandleItem, Call, Track, TypeOK
    <2>3. \A j \in Kinds : hand'[j] = hand[j] \/ hand'[j].type # "deleted"
      BY <2>2 DEF TypeOK, Idle
    <2> QED
      BY <2>1, <2>3 DEF EventsAreTouched
  <1>5. ASSUME NEW r \in Refs, Telemetry(r)
        PROVE  EventsAreTouched'
    BY <1>5 DEF Telemetry, clusterVars, informerVars, EventsAreTouched
  <1>6. CASE Prune
    BY <1>6 DEF Prune, TakeKnown, TakeRefs, PruneDone, Judge, clusterVars,
       informerVars, EventsAreTouched
  <1> QED
    BY <1>1, <1>2, <1>3, <1>4, <1>5, <1>6 DEF Next, Loop

----------------------------------------------------------------------------
(***************************************************************************)
(* What was there from the start.                                          *)
(***************************************************************************)
LEMMA LastingStep ==
  ASSUME OnePage, DiscoveryInv, Next
  PROVE  LastingIsKnown'
  <1> USE DiscoveryAssumption
  <1>1. ASSUME NEW w \in Workloads, Created(w) \/ Deleted(w)
        PROVE  LastingIsKnown'
    <2>1. Lasting' \subseteq Lasting
      BY <1>1 DEF Created, Deleted, Change, Lasting
    <2> QED
      BY <1>1, <2>1 DEF Created, Deleted, Change, LastingIsKnown, DiscoveryInv
  <1>2. ASSUME NEW k \in Kinds, List(k)
        PROVE  LastingIsKnown'
    <2>1. PICK page \in Answers(k) : items' = [items EXCEPT ![k] = page]
      BY <1>2 DEF List
    <2>2. page = cluster \cap Of(k)
      BY <2>1, PageIsAll DEF DiscoveryInv, TypeOK
    <2>3. \A w \in Lasting : KindOf[w] = k => w \in items'[k]
      BY <2>1, <2>2 DEF Lasting, Of, DiscoveryInv, TypeOK
    <2>4. /\ pc' = [pc EXCEPT ![k] = "items"]
          /\ UNCHANGED <<known, listed, prune, cluster, touched>>
      BY <1>2 DEF List, clusterVars
    <2> QED
      BY <2>1, <2>3, <2>4 DEF LastingIsKnown, Lasting, DiscoveryInv, TypeOK
  <1>3. ASSUME NEW k \in Kinds, HandleItem(k)
        PROVE  LastingIsKnown'
    <2>1. PICK v \in items[k] : /\ known' = known \cup {v}
                                /\ items' = [items EXCEPT ![k] = @ \ {v}]
      BY <1>3 DEF HandleItem, Track
    <2>2. UNCHANGED <<pc, listed, prune, cluster, touched>>
      BY <1>3 DEF HandleItem, clusterVars
    <2> QED
      BY <2>1, <2>2 DEF LastingIsKnown, Lasting, DiscoveryInv, TypeOK
  <1>4. ASSUME NEW k \in Kinds, Listed(k)
        PROVE  LastingIsKnown'
    BY <1>4 DEF Listed, clusterVars, LastingIsKnown, Lasting, DiscoveryInv, TypeOK
  <1>5. ASSUME NEW k \in Kinds, HandleEvent(k)
        PROVE  LastingIsKnown'
    <2> DEFINE e == Head(stream[k])
    <2>1. e = stream[k][1] /\ 1 \in 1..Len(stream[k])
      BY <1>5 DEF HandleEvent, DiscoveryInv, TypeOK
    <2>2. e.ref \in touched
      BY <2>1 DEF DiscoveryInv, EventsAreTouched
    <2>3. known \ {e.ref} \subseteq known'
      BY <1>5 DEF HandleEvent, Track
    <2>4. UNCHANGED <<pc, items, listed, prune, cluster, touched>>
      BY <1>5 DEF HandleEvent, clusterVars
    <2> HIDE DEF e
    <2> QED
      BY <2>2, <2>3, <2>4 DEF LastingIsKnown, Lasting, DiscoveryInv
  <1>6. ASSUME NEW k \in Kinds, WatchEnds(k)
        PROVE  LastingIsKnown'
    BY <1>6 DEF WatchEnds, clusterVars, LastingIsKnown, Lasting, DiscoveryInv, TypeOK
  <1>7. ASSUME NEW k \in Kinds, Call(k)
        PROVE  LastingIsKnown'
    BY <1>7 DEF Call, clusterVars, LastingIsKnown, Lasting, DiscoveryInv
  <1>8. ASSUME NEW r \in Refs, Telemetry(r) \/ Judge(r)
        PROVE  LastingIsKnown'
    BY <1>8 DEF Telemetry, Judge, clusterVars, informerVars, LastingIsKnown, Lasting,
       DiscoveryInv, TypeOK
  <1>9. CASE TakeKnown
    <2>1. \A w \in Lasting : w \in known
      BY <1>9 DEF TakeKnown, FirstSyncDone, LastingIsKnown, Lasting, DiscoveryInv, TypeOK
    <2>2. prune'.known = known
      BY <1>9 DEF TakeKnown, DiscoveryInv, TypeOK
    <2> QED
      BY <1>9, <2>1, <2>2 DEF TakeKnown, clusterVars, informerVars, LastingIsKnown,
         Lasting, DiscoveryInv
  <1>10. CASE TakeRefs \/ PruneDone
    BY <1>10 DEF TakeRefs, PruneDone, clusterVars, informerVars, LastingIsKnown,
       Lasting, DiscoveryInv, TypeOK
  <1> QED
    BY <1>1, <1>2, <1>3, <1>4, <1>5, <1>6, <1>7, <1>8, <1>9, <1>10 DEF Next, Loop, Prune

LEMMA DiscoveryStep ==
  ASSUME OnePage
  PROVE  DiscoveryInv /\ [Next]_vars => DiscoveryInv'
  <1> SUFFICES ASSUME DiscoveryInv, [Next]_vars PROVE DiscoveryInv'
    OBVIOUS
  <1>1. TypeOK' /\ EventsAreTouched'
    BY TypeStep, EventsStep DEF DiscoveryInv
  <1>2. LastingIsKnown'
    <2>1. CASE Next
      BY <2>1, LastingStep
    <2>2. CASE UNCHANGED vars
      BY <2>2 DEF vars, clusterVars, informerVars, DiscoveryInv, LastingIsKnown, Lasting
    <2> QED
      BY <2>1, <2>2
  <1> QED
    BY <1>1, <1>2 DEF DiscoveryInv

LEMMA DiscoveryInvariant ==
  ASSUME OnePage
  PROVE  Spec => []DiscoveryInv
  <1>1. DiscoveryInv /\ [Next]_vars => DiscoveryInv'
    BY DiscoveryStep
  <1> QED
    BY <1>1, DiscoveryStarts, PTL DEF Spec

(***************************************************************************)
(* The state of the informer, the fleet and the prune is well formed       *)
(* (TypeOK), however many workloads there are.                             *)
(***************************************************************************)
THEOREM DiscoveryType == Spec => []TypeOK
  <1>1. Init => TypeOK
    BY DiscoveryStarts DEF DiscoveryInv
  <1> QED
    BY <1>1, TypeStep, PTL DEF Spec

(***************************************************************************)
(* A workload that was there from the start, and a host, never loses its   *)
(* registration or its readings (SettledStaysRegistered), as long as one   *)
(* list answers every workload of a kind.  Events name only workloads that *)
(* came or went, so none removes it; the prune starts after every kind was *)
(* listed, so it is among what the prune takes for known.                  *)
(***************************************************************************)
THEOREM SettledStays ==
  ASSUME OnePage
  PROVE  Spec => SettledStaysRegistered
  <1> USE DiscoveryAssumption
  <1>1. ASSUME DiscoveryInv, [Next]_vars, NEW r \in Refs \ touched',
               fleet[r] # "none", r \in cluster \cup Hosts
        PROVE  fleet'[r] \in {fleet[r], "reporting"}
    <2>0. /\ fleet \in [Refs -> {"none", "pending", "reporting"}] /\ r \in Refs
          /\ hand \in [Kinds -> Events \cup {Idle}]
      BY <1>1 DEF DiscoveryInv, TypeOK
    <2>1. ASSUME NEW k \in Kinds, Call(k)
          PROVE  fleet'[r] = fleet[r]
      <3>1. hand[k] \in Events /\ touched' = touched
        BY <2>0, <2>1 DEF Call, clusterVars
      <3>2. CASE hand[k].type = "put"
        BY <1>1, <2>0, <2>1, <3>2 DEF Call, RegisterWorkload
      <3>3. CASE hand[k].type # "put"
        <4>1. hand[k].ref \in touched
          BY <1>1, <3>1, <3>3 DEF Events, DiscoveryInv, EventsAreTouched
        <4>2. r # hand[k].ref
          BY <1>1, <3>1, <4>1
        <4> QED
          BY <2>0, <2>1, <3>3, <4>2 DEF Call, UnregisterWorkload
      <3> QED
        BY <3>2, <3>3
    <2>2. ASSUME NEW q \in Refs, Judge(q)
          PROVE  fleet'[r] = fleet[r]
      <3>1. touched' = touched
        BY <2>2 DEF Judge, clusterVars
      <3>2. r \in Workloads => r \in prune.known
        <4>1. r \in Workloads => r \in Lasting
          BY <1>1, <3>1 DEF Lasting
        <4> QED
          BY <1>1, <2>2, <4>1 DEF Judge, DiscoveryInv, LastingIsKnown
      <3> QED
        BY <2>0, <2>2, <3>2 DEF Judge, Unconfirmed, UnregisterWorkload
    <2>3. ASSUME NEW q \in Refs, Telemetry(q)
          PROVE  fleet'[r] \in {fleet[r], "reporting"}
      BY <2>0, <2>3 DEF Telemetry
    <2>4. ASSUME NEW k \in Kinds, Loop(k), ~Call(k)
          PROVE  fleet'[r] = fleet[r]
      BY <2>4 DEF Loop, List, HandleItem, Listed, HandleEvent, WatchEnds
    <2>5. ASSUME NEW w \in Workloads, Created(w) \/ Deleted(w)
          PROVE  fleet'[r] = fleet[r]
      BY <2>5 DEF Created, Deleted, Change
    <2>6. CASE TakeKnown \/ TakeRefs \/ PruneDone \/ UNCHANGED vars
      BY <2>6 DEF TakeKnown, TakeRefs, PruneDone, vars
    <2> QED
      BY <1>1, <2>1, <2>2, <2>3, <2>4, <2>5, <2>6 DEF Next, Prune
  <1>2. DiscoveryInv /\ [Next]_vars =>
          [\A r \in Refs \ touched' :
             (fleet[r] # "none" /\ r \in cluster \cup Hosts) =>
               fleet'[r] \in {fleet[r], "reporting"}]_vars
    BY <1>1
  <1> QED
    BY <1>2, DiscoveryInvariant, PTL DEF Spec, SettledStaysRegistered

----------------------------------------------------------------------------
(***************************************************************************)
(* Nothing is lost between a list and its watch.                           *)
(***************************************************************************)
(* Whether w exists, for one who starts from what exists and is then told   *)
(* the events s: the last one about w decides.                             *)
Present(s, w, start) ==
  \/ \E i \in 1..Len(s) : /\ s[i].ref = w /\ s[i].type = "put"
                          /\ \A j \in (i + 1)..Len(s) : s[j].ref # w
  \/ w \in start /\ \A i \in 1..Len(s) : s[i].ref # w

LEMMA PresentOfNone == ASSUME NEW w, NEW start PROVE Present(<<>>, w, start) <=> w \in start
  BY DEF Present

LEMMA PresentAppend ==
  ASSUME NEW s \in Seq(Events), NEW e \in Events, NEW w, NEW start
  PROVE  /\ e.ref = w => (Present(Append(s, e), w, start) <=> e.type = "put")
         /\ e.ref # w => (Present(Append(s, e), w, start) <=> Present(s, w, start))
<1> DEFINE t == Append(s, e)
<1>1. /\ Len(s) \in Nat /\ Len(t) = Len(s) + 1 /\ t[Len(t)] = e
      /\ \A i \in 1..Len(s) : t[i] = s[i]
  OBVIOUS
<1> HIDE DEF t
<1>2. /\ \A i \in 1..Len(s) : i \in 1..Len(t) /\ Len(t) \in (i + 1)..Len(t)
      /\ Len(t) \in 1..Len(t) /\ (Len(t) + 1)..Len(t) = {}
      /\ \A i \in 1..Len(t) : i = Len(t) \/ i \in 1..Len(s)
      /\ \A i \in 1..Len(s) : \A j \in (i + 1)..Len(t) : j = Len(t) \/ j \in (i + 1)..Len(s)
      /\ \A i \in 1..Len(s) : \A j \in (i + 1)..Len(s) : j \in (i + 1)..Len(t) /\ t[j] = s[j]
  BY <1>1
<1>3. CASE e.ref = w
  <2>1. ~\A i \in 1..Len(t) : t[i].ref # w
    BY <1>1, <1>2, <1>3
  <2>2. ASSUME NEW i \in 1..Len(t), \A j \in (i + 1)..Len(t) : t[j].ref # w PROVE i = Len(t)
    BY <1>1, <1>2, <1>3, <2>2
  <2> QED
    BY <1>1, <1>2, <1>3, <2>1, <2>2 DEF Present, t
<1>4. CASE e.ref # w
  <2>1. (\A i \in 1..Len(t) : t[i].ref # w) <=> (\A i \in 1..Len(s) : s[i].ref # w)
    BY <1>1, <1>2, <1>4
  <2>2. ASSUME NEW i \in 1..Len(s)
        PROVE  (\A j \in (i + 1)..Len(t) : t[j].ref # w) <=> (\A j \in (i + 1)..Len(s) : s[j].ref # w)
    BY <1>1, <1>2, <1>4
  <2>3. (\E i \in 1..Len(t) : /\ t[i].ref = w /\ t[i].type = "put"
                              /\ \A j \in (i + 1)..Len(t) : t[j].ref # w)
        <=> (\E i \in 1..Len(s) : /\ s[i].ref = w /\ s[i].type = "put"
                                  /\ \A j \in (i + 1)..Len(s) : s[j].ref # w)
    BY <1>1, <1>2, <1>4, <2>2
  <2> QED
    BY <1>4, <2>1, <2>3 DEF Present, t
<1> QED
  BY <1>3, <1>4

LEMMA PresentTail ==
  ASSUME NEW s \in Seq(Events), s # <<>>, NEW w, NEW start, NEW next,
         Head(s).ref = w => (w \in next <=> Head(s).type = "put"),
         Head(s).ref # w => (w \in next <=> w \in start)
  PROVE  Present(s, w, start) <=> Present(Tail(s), w, next)
<1> DEFINE t == Tail(s)
<1>1. /\ Len(s) \in Nat \ {0} /\ Len(t) = Len(s) - 1 /\ Head(s) = s[1] /\ Len(t) \in Nat
      /\ \A i \in 1..Len(t) : t[i] = s[i + 1] /\ i + 1 \in 1..Len(s)
  OBVIOUS
<1>2. /\ 1 \in 1..Len(s)
      /\ \A i \in 1..Len(s) : i = 1 \/ (i - 1 \in 1..Len(t) /\ t[i - 1] = s[i])
  BY <1>1
<1> HIDE DEF t
<1>3. (\A i \in 1..Len(s) : s[i].ref # w) <=> Head(s).ref # w /\ (\A i \in 1..Len(t) : t[i].ref # w)
  BY <1>1, <1>2
<1>4. (\A j \in (1 + 1)..Len(s) : s[j].ref # w) <=> (\A i \in 1..Len(t) : t[i].ref # w)
  <2>1. /\ \A j \in (1 + 1)..Len(s) : j - 1 \in 1..Len(t) /\ s[j] = t[j - 1]
        /\ \A i \in 1..Len(t) : i + 1 \in (1 + 1)..Len(s) /\ s[i + 1] = t[i]
    BY <1>1, <1>2
  <2> QED
    BY <2>1
<1>5. ASSUME NEW i \in 1..Len(t)
      PROVE  (\A j \in ((i + 1) + 1)..Len(s) : s[j].ref # w) <=> (\A j \in (i + 1)..Len(t) : t[j].ref # w)
  <2>1. /\ \A j \in ((i + 1) + 1)..Len(s) : j - 1 \in (i + 1)..Len(t) /\ s[j] = t[j - 1]
        /\ \A j \in (i + 1)..Len(t) : j + 1 \in ((i + 1) + 1)..Len(s) /\ s[j + 1] = t[j]
    BY <1>1, <1>2
  <2> QED
    BY <2>1
<1>6. (\E i \in 1..Len(s) : /\ s[i].ref = w /\ s[i].type = "put"
                            /\ \A j \in (i + 1)..Len(s) : s[j].ref # w)
      <=> \/ /\ Head(s).ref = w /\ Head(s).type = "put"
             /\ \A i \in 1..Len(t) : t[i].ref # w
          \/ \E i \in 1..Len(t) : /\ t[i].ref = w /\ t[i].type = "put"
                                  /\ \A j \in (i + 1)..Len(t) : t[j].ref # w
  <2>1. ASSUME NEW i \in 1..Len(s), s[i].ref = w, s[i].type = "put",
               \A j \in (i + 1)..Len(s) : s[j].ref # w
        PROVE  \/ /\ Head(s).ref = w /\ Head(s).type = "put"
                  /\ \A l \in 1..Len(t) : t[l].ref # w
               \/ \E l \in 1..Len(t) : /\ t[l].ref = w /\ t[l].type = "put"
                                       /\ \A j \in (l + 1)..Len(t) : t[j].ref # w
    <3>1. CASE i = 1
      BY <1>1, <1>4, <2>1, <3>1
    <3>2. CASE i # 1
      <4>1. i - 1 \in 1..Len(t) /\ t[i - 1] = s[i] /\ ((i - 1) + 1) + 1 = i + 1
        BY <1>1, <1>2, <3>2
      <4>2. \A j \in ((i - 1) + 1)..Len(t) : t[j].ref # w
        BY <1>5, <2>1, <4>1
      <4> QED
        BY <2>1, <4>1, <4>2
    <3> QED
      BY <3>1, <3>2
  <2>2. ASSUME NEW i \in 1..Len(t), t[i].ref = w, t[i].type = "put",
               \A j \in (i + 1)..Len(t) : t[j].ref # w
        PROVE  \E l \in 1..Len(s) : /\ s[l].ref = w /\ s[l].type = "put"
                                    /\ \A j \in (l + 1)..Len(s) : s[j].ref # w
    <3>1. i + 1 \in 1..Len(s) /\ s[i + 1] = t[i]
      BY <1>1
    <3> QED
      BY <1>5, <2>2, <3>1
  <2>3. ASSUME Head(s).ref = w, Head(s).type = "put", \A i \in 1..Len(t) : t[i].ref # w
        PROVE  \E l \in 1..Len(s) : /\ s[l].ref = w /\ s[l].type = "put"
                                    /\ \A j \in (l + 1)..Len(s) : s[j].ref # w
    BY <1>1, <1>2, <1>4, <2>3
  <2> QED
    BY <2>1, <2>2, <2>3
<1> QED
  BY <1>3, <1>6 DEF Present, t

(* What the informer knows, the rest of its list and the events it has     *)
(* still to handle amount to the workloads of the kind that exist.         *)
Heard(k) == items[k] \cup (known \ missed)

KindInv(k) ==
  /\ items[k] \subseteq Of(k)
  /\ pc[k] = "watch" => items[k] = {}
  /\ \A i \in 1..Len(stream[k]) : stream[k][i].ref \in Of(k)
  /\ pc[k] # "list" => \A w \in Of(k) : w \in cluster <=> Present(stream[k], w, Heard(k))

InformerInv ==
  /\ missed \subseteq known
  /\ \A k \in Kinds : KindInv(k)

LEMMA PresentSame ==
  ASSUME NEW s, NEW w, NEW a, NEW b, w \in a <=> w \in b
  PROVE  Present(s, w, a) <=> Present(s, w, b)
  BY DEF Present

LEMMA OneKindEach == ASSUME NEW j \in Kinds, NEW k \in Kinds, NEW w \in Of(j), w \in Of(k) PROVE j = k
  BY DEF Of

(* A step that leaves the workloads of a kind alone, and what is heard of   *)
(* them.                                                                   *)
LEMMA KindStays ==
  ASSUME NEW k \in Kinds, KindInv(k),
         items'[k] = items[k], pc'[k] = pc[k], stream'[k] = stream[k],
         \A w \in Of(k) : /\ w \in cluster' <=> w \in cluster
                          /\ w \in Heard(k)' <=> w \in Heard(k)
  PROVE  KindInv(k)'
<1>1. \A w \in Of(k) : Present(stream'[k], w, Heard(k)') <=> Present(stream[k], w, Heard(k))
  BY PresentSame
<1> QED
  BY <1>1 DEF KindInv, Of

LEMMA InformerStarts == Init => InformerInv
  BY DEF Init, InformerInv, KindInv

LEMMA ClusterChanges ==
  ASSUME TypeOK, InformerInv, NEW v \in Workloads, Created(v) \/ Deleted(v)
  PROVE  InformerInv'
<1> USE DiscoveryAssumption
<1> DEFINE m == KindOf[v]
<1>1. PICK e \in Events :
        /\ e.ref = v /\ (v \in cluster' <=> e.type = "put")
        /\ stream' = [stream EXCEPT ![m] = IF pc[m] = "list" THEN @ ELSE Append(@, e)]
  <2>1. CASE Created(v)
    <3>1. [type |-> "put", ref |-> v] \in Events /\ v \in cluster'
      BY <2>1 DEF Created, Events
    <3> QED
      BY <2>1, <3>1 DEF Created, Change, Report
  <2>2. CASE Deleted(v)
    <3>1. [type |-> "deleted", ref |-> v] \in Events /\ v \notin cluster'
      BY <2>2 DEF Deleted, Events
    <3> QED
      BY <2>2, <3>1 DEF Deleted, Change, Report
  <2> QED
    BY <2>1, <2>2
<1>2. /\ UNCHANGED <<pc, items, missed, known>> /\ m \in Kinds /\ v \in Of(m)
      /\ \A w \in Workloads : w # v => (w \in cluster' <=> w \in cluster)
  BY DEF Created, Deleted, Change, Of
<1>3. \A k \in Kinds : Heard(k)' = Heard(k)
  BY <1>2 DEF Heard
<1> HIDE DEF m
<1>4. ASSUME NEW k \in Kinds, k # m PROVE KindInv(k)'
  <2>1. \A w \in Of(k) : w # v /\ w \in Workloads
    BY <1>2, <1>4, OneKindEach DEF Of
  <2>2. stream'[k] = stream[k]
    BY <1>1, <1>4 DEF TypeOK
  <2> QED
    BY <1>2, <1>3, <2>1, <2>2, KindStays DEF InformerInv
<1>5. CASE pc[m] = "list"
  <2>1. stream'[m] = stream[m] /\ KindInv(m)
    BY <1>1, <1>2, <1>5 DEF TypeOK, InformerInv
  <2>2. KindInv(m)'
    BY <1>2, <1>5, <2>1 DEF KindInv, Of
  <2> QED
    BY <1>2, <1>4, <2>2 DEF InformerInv
<1>6. CASE pc[m] # "list"
  <2>1. stream'[m] = Append(stream[m], e) /\ stream[m] \in Seq(Events) /\ KindInv(m)
    BY <1>1, <1>2, <1>6 DEF TypeOK, InformerInv
  <2>2. ASSUME NEW w \in Of(m) PROVE w \in cluster' <=> Present(stream'[m], w, Heard(m)')
    <3>1. CASE w = v
      BY <1>1, <1>3, <2>1, <3>1, PresentAppend
    <3>2. CASE w # v
      <4>1. Present(stream'[m], w, Heard(m)') <=> Present(stream[m], w, Heard(m))
        BY <1>1, <1>2, <1>3, <2>1, <3>2, PresentAppend
      <4>2. w \in cluster' <=> w \in cluster
        BY <1>2, <3>2 DEF Of
      <4> QED
        BY <1>6, <2>1, <4>1, <4>2 DEF KindInv
    <3> QED
      BY <3>1, <3>2
  <2>3. ASSUME NEW i \in 1..Len(stream'[m]) PROVE stream'[m][i].ref \in Of(m)
    <3>1. \/ i = Len(stream[m]) + 1 /\ stream'[m][i] = e
          \/ i \in 1..Len(stream[m]) /\ stream'[m][i] = stream[m][i]
      BY <2>1
    <3> QED
      BY <1>1, <1>2, <2>1, <3>1 DEF KindInv
  <2>4. KindInv(m)'
    BY <1>2, <2>1, <2>2, <2>3 DEF KindInv, Of
  <2> QED
    BY <1>2, <1>4, <2>4 DEF InformerInv
<1> QED
  BY <1>5, <1>6

LEMMA ListAnswers ==
  ASSUME OnePage, TypeOK, InformerInv, NEW k \in Kinds, List(k) PROVE InformerInv'
<1>1. PICK page \in Answers(k) : /\ items' = [items EXCEPT ![k] = page]
                                 /\ missed' = (missed \ Of(k)) \cup ((known \cap Of(k)) \ page)
  BY DEF List
<1>2. page = cluster \cap Of(k)
  BY PageIsAll DEF TypeOK
<1>3. /\ items'[k] = page /\ pc'[k] = "items" /\ stream'[k] = <<>> /\ known' = known /\ cluster' = cluster
      /\ \A j \in Kinds \ {k} : items'[j] = items[j] /\ pc'[j] = pc[j] /\ stream'[j] = stream[j]
  BY <1>1 DEF List, clusterVars, TypeOK
<1>4. ASSUME NEW j \in Kinds, j # k PROVE KindInv(j)'
  <2>1. \A w \in Of(j) : w \notin Of(k)
    BY <1>4, OneKindEach
  <2>2. \A w \in Of(j) : w \in Heard(j)' <=> w \in Heard(j)
    BY <1>1, <1>3, <1>4, <2>1 DEF Heard
  <2> QED
    BY <1>3, <1>4, <2>2, KindStays DEF InformerInv
<1>5. KindInv(k)'
  <2>1. \A w \in Of(k) : w \in Heard(k)' <=> w \in cluster
    BY <1>1, <1>2, <1>3 DEF Heard
  <2>2. \A w \in Of(k) : w \in cluster' <=> Present(stream'[k], w, Heard(k)')
    BY <1>3, <2>1, PresentOfNone
  <2> QED
    BY <1>2, <1>3, <2>2 DEF KindInv, Of
<1>6. missed' \subseteq known'
  BY <1>1, <1>3 DEF InformerInv
<1> QED
  BY <1>4, <1>5, <1>6 DEF InformerInv

(* An item or an event of the kind k is written in known.                   *)
LEMMA TrackKeeps ==
  ASSUME TypeOK, InformerInv, NEW k \in Kinds, NEW e \in Events, e.ref \in Of(k), Track(k, e),
         NEW j \in Kinds, j # k,
         items'[j] = items[j], pc' = pc, stream'[j] = stream[j], cluster' = cluster
  PROVE  KindInv(j)'
<1>1. \A w \in Of(j) : w # e.ref
  BY OneKindEach
<1>2. \A w \in Of(j) : w \in Heard(j)' <=> w \in Heard(j)
  BY <1>1 DEF Heard, Track
<1> QED
  BY <1>2, KindStays DEF InformerInv

LEMMA ItemIsHandled ==
  ASSUME TypeOK, InformerInv, NEW k \in Kinds, HandleItem(k) PROVE InformerInv'
<1>1. PICK v \in items[k] : Track(k, [type |-> "put", ref |-> v]) /\ items' = [items EXCEPT ![k] = @ \ {v}]
  BY DEF HandleItem
<1>2. /\ v \in Of(k) /\ KindInv(k) /\ pc[k] = "items" /\ v \in Workloads
  BY <1>1 DEF HandleItem, InformerInv, KindInv, Of
<1>3. /\ UNCHANGED <<pc, stream, cluster>> /\ items'[k] = items[k] \ {v}
      /\ \A j \in Kinds \ {k} : items'[j] = items[j]
      /\ known' = known \cup {v} /\ missed' = missed \ {v}
  BY <1>1 DEF HandleItem, clusterVars, Track, TypeOK
<1>4. ASSUME NEW j \in Kinds, j # k PROVE KindInv(j)'
  <2>1. [type |-> "put", ref |-> v] \in Events
    BY <1>2 DEF Events
  <2> QED
    BY <1>1, <1>2, <1>3, <1>4, <2>1, TrackKeeps
<1>5. KindInv(k)'
  <2>1. \A w \in Of(k) : w \in Heard(k)' <=> w \in Heard(k)
    BY <1>1, <1>3 DEF Heard
  <2>2. \A w \in Of(k) : Present(stream'[k], w, Heard(k)') <=> Present(stream[k], w, Heard(k))
    BY <1>3, <2>1, PresentSame
  <2> QED
    BY <1>2, <1>3, <2>2 DEF KindInv, Of
<1> QED
  BY <1>3, <1>4, <1>5 DEF InformerInv

LEMMA EventIsHandled ==
  ASSUME TypeOK, InformerInv, NEW k \in Kinds, HandleEvent(k) PROVE InformerInv'
<1> DEFINE e == Head(stream[k])
<1>1. /\ stream[k] \in Seq(Events) /\ stream[k] # <<>> /\ pc[k] = "watch" /\ Track(k, e) /\ KindInv(k)
  BY DEF HandleEvent, TypeOK, InformerInv
<1>2. /\ e \in Events /\ e = stream[k][1] /\ 1 \in 1..Len(stream[k]) /\ Tail(stream[k]) \in Seq(Events)
      /\ \A i \in 1..Len(Tail(stream[k])) : /\ Tail(stream[k])[i] = stream[k][i + 1]
                                            /\ i + 1 \in 1..Len(stream[k])
  BY <1>1
<1>3. /\ UNCHANGED <<pc, items, cluster>> /\ stream'[k] = Tail(stream[k])
      /\ \A j \in Kinds \ {k} : stream'[j] = stream[j]
  BY DEF HandleEvent, clusterVars, TypeOK
<1> HIDE DEF e
<1>4. e.ref \in Of(k) /\ \A i \in 1..Len(stream'[k]) : stream'[k][i].ref \in Of(k)
  BY <1>1, <1>2, <1>3 DEF KindInv
<1>5. ASSUME NEW j \in Kinds, j # k PROVE KindInv(j)'
  BY <1>1, <1>2, <1>3, <1>4, <1>5, TrackKeeps
<1>6. items[k] = {}
  BY <1>1 DEF KindInv
<1>7. /\ known' = IF e.type = "put" THEN known \cup {e.ref} ELSE known \ {e.ref}
      /\ missed' = missed \ {e.ref}
  BY <1>1 DEF Track
<1>8. ASSUME NEW w \in Of(k) PROVE w \in cluster' <=> Present(stream'[k], w, Heard(k)')
  <2>1. /\ e.ref = w => (w \in Heard(k)' <=> e.type = "put")
        /\ e.ref # w => (w \in Heard(k)' <=> w \in Heard(k))
    BY <1>3, <1>6, <1>7 DEF Heard
  <2>2. Present(stream[k], w, Heard(k)) <=> Present(Tail(stream[k]), w, Heard(k)')
    BY <1>1, <2>1, PresentTail DEF e
  <2> QED
    BY <1>1, <1>3, <2>2 DEF KindInv
<1>9. KindInv(k)'
  BY <1>1, <1>3, <1>4, <1>6, <1>8 DEF KindInv, Of
<1>10. missed' \subseteq known'
  BY <1>7 DEF InformerInv
<1> QED
  BY <1>5, <1>9, <1>10 DEF InformerInv

LEMMA InformerStays ==
  ASSUME OnePage
  PROVE  TypeOK /\ InformerInv /\ [Next]_vars => InformerInv'
<1> SUFFICES ASSUME TypeOK, InformerInv, [Next]_vars PROVE InformerInv'
  OBVIOUS
<1>1. ASSUME UNCHANGED <<cluster, pc, items, stream, missed, known>> PROVE InformerInv'
  BY <1>1 DEF InformerInv, KindInv, Heard, Of
<1>2. ASSUME NEW k \in Kinds, Listed(k) \/ WatchEnds(k) PROVE InformerInv'
  <2>1. /\ UNCHANGED <<cluster, items, missed, known>> /\ KindInv(k)
        /\ \A j \in Kinds \ {k} : pc'[j] = pc[j] /\ stream'[j] = stream[j]
    BY <1>2 DEF Listed, WatchEnds, clusterVars, TypeOK, InformerInv
  <2>2. \A j \in Kinds : Heard(j)' = Heard(j)
    BY <2>1 DEF Heard
  <2>3. ASSUME NEW j \in Kinds, j # k PROVE KindInv(j)'
    BY <2>1, <2>2, <2>3, KindStays DEF InformerInv
  <2>4. KindInv(k)'
    <3>1. CASE Listed(k)
      <4>1. pc'[k] = "watch" /\ pc[k] = "items" /\ items[k] = {} /\ stream' = stream
        BY <3>1 DEF Listed, TypeOK
      <4> QED
        BY <2>1, <2>2, <4>1 DEF KindInv, Of
    <3>2. CASE WatchEnds(k)
      <4>1. pc'[k] = "list" /\ stream'[k] = <<>>
        BY <3>2 DEF WatchEnds, TypeOK
      <4> QED
        BY <2>1, <4>1 DEF KindInv, Of
    <3> QED
      BY <1>2, <3>1, <3>2
  <2> QED
    BY <2>1, <2>3, <2>4 DEF InformerInv
<1>3. ASSUME NEW k \in Kinds, Loop(k) PROVE InformerInv'
  <2>1. CASE Call(k)
    BY <1>1, <2>1 DEF Call, clusterVars
  <2> QED
    BY <1>2, <1>3, <2>1, ListAnswers, ItemIsHandled, EventIsHandled DEF Loop
<1>4. ASSUME NEW r \in Refs, Telemetry(r) PROVE InformerInv'
  BY <1>1, <1>4 DEF Telemetry, clusterVars, informerVars
<1>5. CASE Prune
  BY <1>1, <1>5 DEF Prune, TakeKnown, TakeRefs, PruneDone, Judge, clusterVars, informerVars
<1>6. CASE UNCHANGED vars
  BY <1>1, <1>6 DEF vars, clusterVars, informerVars
<1> QED
  BY <1>3, <1>4, <1>5, <1>6, ClusterChanges DEF Next

(***************************************************************************)
(* Nothing is lost between a list and its watch, nor when a watch ends     *)
(* (watcher.go 55-96): an informer with nothing left to handle knows of    *)
(* its kind what exists, and beyond that only what was deleted while no    *)
(* watch was open (KnownIsTheCluster).                                     *)
(***************************************************************************)
THEOREM InformerKnows ==
  ASSUME OnePage
  PROVE  Spec => []KnownIsTheCluster
<1>1. TypeOK /\ InformerInv /\ [Next]_vars => InformerInv'
  BY InformerStays
<1>2. TypeOK /\ InformerInv => KnownIsTheCluster
  <2> SUFFICES ASSUME TypeOK, InformerInv, NEW k \in Kinds, CaughtUp(k)
               PROVE  /\ (known \ missed) \cap Of(k) = cluster \cap Of(k)
                      /\ missed \subseteq known
    BY DEF KnownIsTheCluster
  <2>1. /\ pc[k] = "watch" /\ stream[k] = <<>> /\ items[k] = {}
        /\ \A w \in Of(k) : w \in cluster <=> Present(stream[k], w, Heard(k))
    BY DEF CaughtUp, InformerInv, KindInv
  <2>2. Heard(k) = known \ missed
    BY <2>1 DEF Heard
  <2>3. \A w \in Of(k) : w \in cluster <=> w \in known \ missed
    BY <2>1, <2>2, PresentOfNone
  <2> QED
    BY <2>3 DEF InformerInv
<1>3. Spec => []TypeOK
  BY DiscoveryType
<1> QED
  BY <1>1, <1>2, <1>3, InformerStarts, PTL DEF Spec

(***************************************************************************)
(* The end of a process, wherever it failed or was told to stop.           *)
(***************************************************************************)
Base == <<"closeBus", "closeStore", "cancel">>
Holding(call) == <<call, "closeBus", "closeStore", "cancel">>

Stacks == {<<>>, <<"cancel">>, <<"closeStore", "cancel">>, Base,
           Holding("stopIngest"), Holding("stopGRPC"), Holding("stopped")}

Started == ticker.at # "none"
Quiet(door) == door \notin open /\ InFlight(door) = {}

ProcessTypeOK ==
  /\ stage \in {"opening", "listening", "grpc", "rules", "serving", "draining", "flushing",
                "returning", "exited"}
  /\ deferred \in Stacks
  /\ signalled \in BOOLEAN /\ cancelled \in BOOLEAN /\ failed \in BOOLEAN
  /\ store \in {"unopened", "open", "closed"}
  /\ ticker \in [at : {"none", "waiting", "storing", "stopped"}, tick : Nat, left : SUBSET Monitored]
  /\ open \subseteq Doors
  /\ line \in [Lines -> Doors \cup {"unsent", "kept", "unwritten", "late"}]
  /\ memory \in [Monitored -> Nat] /\ disk \in [Monitored -> Nat] /\ owed \in [Monitored -> Nat]
  /\ flush \subseteq Monitored \X Nat

(* What is deferred at each line, and the store with it. *)
StagesInv ==
  /\ stage = "opening" => deferred = <<>> /\ store = "unopened" /\ ~Started
  /\ stage \in {"listening", "grpc"} => deferred = Base /\ store = "open" /\ ~Started
  /\ stage \in {"rules", "serving", "draining", "flushing"} =>
       deferred = Holding("stopIngest") /\ store = "open"
  /\ stage = "exited" => deferred = <<>>
  /\ store = "closed" => deferred \in {<<>>, <<"cancel">>}

(* Stop goes on to the next receiver once the one before is closed and all *)
(* of its requests are answered.                                           *)
DoorsInv ==
  /\ Started /\ deferred # Holding("stopIngest") => Quiet("http")
  /\ Started /\ deferred \notin {Holding("stopIngest"), Holding("stopGRPC")} => Quiet("grpc")
  /\ Started \/ store # "closed" => \A l \in Lines : line[l] # "late"

(* A snapshot owed is on disk, or a later one is, or is about to be.       *)
FlushInv ==
  /\ cancelled => stage \in {"returning", "exited"}
  /\ stage \in {"draining", "flushing"} => signalled
  /\ \A m \in Monitored : owed[m] <= memory[m] /\ memory[m] <= ticker.tick
  /\ stage = "flushing" => \A f \in flush : f[2] >= owed[f[1]]
  /\ stage = "flushing" /\ ~failed =>
       \A m \in Monitored : disk[m] >= owed[m] \/ \E f \in flush : f[1] = m

ProcessInv == ProcessTypeOK /\ StagesInv /\ DoorsInv /\ FlushInv

(* A call put before the others. *)
LEMMA PushIs ==
  ASSUME NEW x
  PROVE  <<x>> \o Base = Holding(x)
<1>0. PICK S : S = {x, "closeBus", "closeStore", "cancel"}
  OBVIOUS
<1>9. x \in S /\ "closeBus" \in S /\ "closeStore" \in S /\ "cancel" \in S
  BY <1>0
<1> DEFINE p == <<x>> \o Base
<1> DEFINE q == <<x, "closeBus", "closeStore", "cancel">>
<1>1. <<x>> \in Seq(S) /\ Base \in Seq(S) /\ q \in Seq(S)
  <2>1. <<x>> \in Seq(S)
    BY <1>9
  <2>2. Base \in Seq(S)
    BY <1>9 DEF Base
  <2>3. q \in Seq(S)
    BY <1>9
  <2> QED
    BY <2>1, <2>2, <2>3
<1>2. Len(<<x>>) = 1 /\ Len(Base) = 3 /\ Len(q) = 4
  BY DEF Base
<1>3. /\ p \in Seq(S) /\ Len(p) = 4
      /\ \A i \in 1 .. 4 : p[i] = IF i <= 1 THEN <<x>>[i] ELSE Base[i - 1]
  <2>1. /\ p \in Seq(S) /\ Len(p) = Len(<<x>>) + Len(Base)
        /\ \A i \in 1 .. Len(<<x>>) + Len(Base) : p[i] = IF i <= Len(<<x>>) THEN <<x>>[i] ELSE Base[i - Len(<<x>>)]
    BY <1>1, ConcatProperties, Zenon
  <2>2. PICK r : r = p
    OBVIOUS
  <2>3. PICK w : w = <<x>>
    OBVIOUS
  <2>4. /\ r \in Seq(S) /\ Len(r) = Len(w) + Len(Base)
        /\ \A i \in 1 .. Len(w) + Len(Base) : r[i] = IF i <= Len(w) THEN w[i] ELSE Base[i - Len(w)]
    BY <2>1, <2>2, <2>3, Zenon
  <2>5. Len(w) = 1 /\ Len(Base) = 3
    BY <1>2, <2>3
  <2>6. /\ r \in Seq(S) /\ Len(r) = 4
        /\ \A i \in 1 .. 4 : r[i] = IF i <= 1 THEN w[i] ELSE Base[i - 1]
    BY <2>4, <2>5
  <2> QED
    BY <2>6, <2>2, <2>3, Zenon
<1>4. p[1] = x /\ p[2] = "closeBus" /\ p[3] = "closeStore" /\ p[4] = "cancel"
  <2>1. <<x>>[1] = x /\ Base[1] = "closeBus" /\ Base[2] = "closeStore" /\ Base[3] = "cancel"
    BY DEF Base
  <2> HIDE DEF p
  <2> QED
    BY <1>3, <2>1
<1>5. q[1] = x /\ q[2] = "closeBus" /\ q[3] = "closeStore" /\ q[4] = "cancel"
  OBVIOUS
<1>6. \A i \in 1 .. Len(p) : p[i] = q[i]
  <2> HIDE DEF p, q
  <2> QED
    BY <1>3, <1>4, <1>5
<1>7. Len(p) = Len(q)
  BY <1>2, <1>3
<1> HIDE DEF p, q
<1>8. p = q
  BY <1>1, <1>3, <1>6, <1>7, SeqEqual, Zenon
<1> QED
  BY <1>8 DEF p, q, Holding

(* What is at the head of the deferred calls, and what its return leaves.  *)
LEMMA HeadsAre ==
  ASSUME deferred \in Stacks, deferred # <<>>
  PROVE  /\ \A call \in {"stopIngest", "stopGRPC", "stopped"} :
              Head(deferred) = call => deferred = Holding(call) /\ Tail(deferred) = Base
         /\ Head(deferred) = "closeBus" => deferred = Base /\ Tail(deferred) = <<"closeStore", "cancel">>
         /\ Head(deferred) = "closeStore" => deferred = <<"closeStore", "cancel">> /\ Tail(deferred) = <<"cancel">>
         /\ Head(deferred) = "cancel" => deferred = <<"cancel">> /\ Tail(deferred) = <<>>
<1>1. ASSUME NEW call \in {"stopIngest", "stopGRPC", "stopped"}
      PROVE  Head(Holding(call)) = call /\ Tail(Holding(call)) = Base
  BY DEF Holding, Base
<1>2. Head(Base) = "closeBus" /\ Tail(Base) = <<"closeStore", "cancel">>
  BY DEF Base
<1>3. Head(<<"closeStore", "cancel">>) = "closeStore" /\ Tail(<<"closeStore", "cancel">>) = <<"cancel">>
  OBVIOUS
<1>4. Head(<<"cancel">>) = "cancel" /\ Tail(<<"cancel">>) = <<>>
  OBVIOUS
<1>5. CASE \E call \in {"stopIngest", "stopGRPC", "stopped"} : deferred = Holding(call)
  BY <1>1, <1>5
<1>6. CASE deferred = Base
  BY <1>2, <1>6
<1>7. CASE deferred = <<"closeStore", "cancel">>
  BY <1>3, <1>7
<1>8. CASE deferred = <<"cancel">>
  BY <1>4, <1>8
<1> QED
  BY <1>5, <1>6, <1>7, <1>8 DEF Stacks

(* The stacks are told apart. *)
LEMMA StacksDiffer ==
  /\ <<>> # <<"cancel">> /\ <<>> # <<"closeStore", "cancel">> /\ <<"cancel">> # <<"closeStore", "cancel">>
  /\ Base \notin {<<>>, <<"cancel">>, <<"closeStore", "cancel">>}
  /\ \A call : Holding(call) \notin {<<>>, <<"cancel">>, <<"closeStore", "cancel">>, Base}
  /\ \A x, y : Holding(x) = Holding(y) => x = y
<1>1. Len(<<>>) = 0 /\ Len(<<"cancel">>) = 1 /\ Len(<<"closeStore", "cancel">>) = 2
  OBVIOUS
<1>2. Len(Base) = 3
  BY DEF Base
<1>3. ASSUME NEW call PROVE Len(Holding(call)) = 4 /\ Holding(call)[1] = call
  BY DEF Holding
<1>8. 0 # 1 /\ 0 # 2 /\ 1 # 2 /\ 3 # 0 /\ 3 # 1 /\ 3 # 2 /\ 4 # 0 /\ 4 # 1 /\ 4 # 2 /\ 4 # 3
  OBVIOUS
<1>4. <<>> # <<"cancel">> /\ <<>> # <<"closeStore", "cancel">> /\ <<"cancel">> # <<"closeStore", "cancel">>
  BY <1>1, <1>8, Zenon
<1>5. Base # <<>> /\ Base # <<"cancel">> /\ Base # <<"closeStore", "cancel">>
  BY <1>1, <1>2, <1>8, Zenon
<1>6. ASSUME NEW call
      PROVE  /\ Holding(call) # <<>> /\ Holding(call) # <<"cancel">>
             /\ Holding(call) # <<"closeStore", "cancel">> /\ Holding(call) # Base
  <2>1. Len(Holding(call)) = 4
    BY <1>3
  <2> QED
    BY <1>1, <1>2, <1>8, <2>1, Zenon
<1>7. ASSUME NEW x, NEW y, Holding(x) = Holding(y) PROVE x = y
  <2>1. Holding(x)[1] = x /\ Holding(y)[1] = y
    BY <1>3
  <2> QED
    BY <2>1, <1>7
<1> QED
  BY <1>4, <1>5, <1>6, <1>7, Zenon

LEMMA ProcessStarts == LifecycleInit => ProcessInv
<1> SUFFICES ASSUME LifecycleInit PROVE ProcessInv
  OBVIOUS
<1> USE DEF LifecycleInit, NoSnapshots
<1>1. ProcessTypeOK
  BY DEF ProcessTypeOK, Stacks, Doors
<1>2. StagesInv
  BY DEF StagesInv, Started
<1>3. DoorsInv
  BY DEF DoorsInv, Started
<1>4. FlushInv
  BY DEF FlushInv
<1> QED
  BY <1>1, <1>2, <1>3, <1>4 DEF ProcessInv

(* Main, where it only moves on. *)
LEMMA ProcessMovesOn ==
  ASSUME ProcessInv,
         StartHTTP \/ StartActions \/ ServerFails \/ BeginShutdown \/ FlushEnds \/ Exit \/ CollectorTurn
  PROVE  ProcessInv'
<1> USE DEF ProcessInv, StartHTTP, StartActions, ServerFails, BeginShutdown, FlushEnds, Exit,
            CollectorTurn, LifeRest, Beside, ContextDone, Running
<1>1. ProcessTypeOK'
  BY DEF ProcessTypeOK, Doors
<1>2. StagesInv'
  BY StacksDiffer DEF ProcessTypeOK, StagesInv, Started
<1>3. DoorsInv'
  <2>1. CASE StartHTTP
    <3>1. store # "closed" /\ ~Started
      BY <2>1 DEF StagesInv
    <3> QED
      BY <2>1, <3>1 DEF DoorsInv, Started, ProcessTypeOK
  <2>2. CASE ~StartHTTP
    BY <2>2 DEF DoorsInv, Quiet, InFlight, Started
  <2> QED
    BY <2>1, <2>2
<1>4. FlushInv'
  BY DEF ProcessTypeOK, FlushInv
<1> QED
  BY <1>1, <1>2, <1>3, <1>4

LEMMA ProcessOpens ==
  ASSUME ProcessInv, OpenStore
  PROVE  ProcessInv'
<1> USE DEF ProcessInv, OpenStore, LifeRest
<1>1. deferred = <<>> /\ store = "unopened" /\ ~Started /\ deferred' \in {<<>>, Base}
  BY DEF StagesInv, Base
<1>2. ProcessTypeOK'
  BY <1>1 DEF ProcessTypeOK, Stacks
<1>3. StagesInv'
  BY <1>1, StacksDiffer DEF StagesInv, Started, Base
<1>4. DoorsInv'
  BY <1>1 DEF DoorsInv, Started
<1>5. FlushInv'
  BY DEF ProcessTypeOK, FlushInv
<1> QED
  BY <1>2, <1>3, <1>4, <1>5

LEMMA ReceiversStart ==
  ASSUME ProcessInv, StartOTLPGRPC
  PROVE  ProcessInv'
<1> USE DEF ProcessInv, StartOTLPGRPC, LifeRest
<1>1. deferred = Base /\ store = "open" /\ ~Started /\ stage' \in {"rules", "returning"}
  BY DEF StagesInv
<1>2. CASE stage' = "returning"
  <2>1. UNCHANGED <<open, deferred, ticker, store, collector, LifeRest>>
    BY <1>2
  <2>2. ProcessTypeOK' /\ FlushInv'
    BY <1>2, <2>1 DEF ProcessTypeOK, FlushInv
  <2>3. StagesInv'
    BY <1>1, <1>2, <2>1 DEF StagesInv, Started
  <2>4. DoorsInv'
    BY <1>1, <2>1 DEF DoorsInv, Started
  <2> QED
    BY <2>2, <2>3, <2>4
<1>3. CASE stage' = "rules"
  <2>1. deferred' = Holding("stopIngest")
    BY <1>1, <1>3, PushIs DEF Defer
  <2>2. ticker' = [ticker EXCEPT !.at = "waiting"] /\ open' = open \cup {"grpc"} /\ store' = "open"
    BY <1>1, <1>3
  <2>3. ProcessTypeOK'
    BY <1>3, <2>1, <2>2 DEF ProcessTypeOK, Stacks, Doors
  <2>4. StagesInv'
    BY <1>1, <1>3, <2>1, <2>2 DEF StagesInv
  <2>5. DoorsInv'
    BY <1>1, <2>1 DEF DoorsInv
  <2>6. FlushInv'
    BY <1>3, <2>2 DEF ProcessTypeOK, FlushInv
  <2> QED
    BY <2>3, <2>4, <2>5, <2>6
<1> QED
  BY <1>1, <1>2, <1>3

(* Stop: a receiver closes, then is left once its requests are answered.   *)
LEMMA ReceiversStop ==
  ASSUME ProcessInv, StopReceiver
  PROVE  ProcessInv'
<1> USE DEF ProcessInv, StopReceiver, LifeRest
<1>0. deferred \in Stacks /\ deferred # <<>> /\ stage = "returning"
  BY DEF ProcessTypeOK
<1>1. PICK door \in Doors, call \in {"stopIngest", "stopGRPC"}, next \in {"stopGRPC", "stopped"} :
        /\ <<door, call, next>> \in {<<"http", "stopIngest", "stopGRPC">>, <<"grpc", "stopGRPC", "stopped">>}
        /\ Head(deferred) = call /\ ReceiverCloses(door, next)
  BY DEF Doors
<1>2. deferred = Holding(call) /\ Tail(deferred) = Base
  BY <1>0, <1>1, HeadsAre
<1>3. CASE door \in open
  <2>1. open' = open \ {door} /\ UNCHANGED <<stage, store, collector, ticker, LifeRest, deferred>>
    BY <1>1, <1>3 DEF ReceiverCloses
  <2>2. ProcessTypeOK' /\ StagesInv' /\ FlushInv'
    BY <2>1 DEF ProcessTypeOK, StagesInv, FlushInv, Started
  <2>3. DoorsInv'
    BY <2>1 DEF DoorsInv, Quiet, InFlight, Started
  <2> QED
    BY <2>2, <2>3
<1>4. CASE door \notin open
  <2>1. UNCHANGED <<stage, store, collector, ticker, LifeRest, open>> /\ Quiet(door)
    BY <1>1, <1>4 DEF ReceiverCloses, Quiet
  <2>2. deferred' = Holding(next)
    BY <1>1, <1>2, <1>4, PushIs DEF ReceiverCloses
  <2>3. ProcessTypeOK'
    BY <2>1, <2>2 DEF ProcessTypeOK, Stacks
  <2>4. store # "closed"
    BY <1>2, StacksDiffer DEF StagesInv
  <2>5. StagesInv'
    BY <1>0, <2>1, <2>4 DEF StagesInv, Started
  <2>6. DoorsInv'
    <3>1. CASE call = "stopIngest"
      <4>1. Quiet("http") /\ deferred' = Holding("stopGRPC")
        BY <1>1, <2>1, <2>2, <3>1
      <4> QED
        BY <2>1, <4>1 DEF DoorsInv, Quiet, InFlight, Started
    <3>2. CASE call = "stopGRPC"
      <4>1. Quiet("grpc") /\ deferred = Holding("stopGRPC")
        BY <1>1, <1>2, <2>1, <3>2
      <4>2. Started => Quiet("http")
        BY <4>1, StacksDiffer DEF DoorsInv
      <4> QED
        BY <2>1, <4>1, <4>2 DEF DoorsInv, Quiet, InFlight, Started
    <3> QED
      BY <3>1, <3>2
  <2>7. FlushInv'
    BY <2>1 DEF FlushInv
  <2> QED
    BY <2>3, <2>5, <2>6, <2>7
<1> QED
  BY <1>3, <1>4

(* The other deferred calls return. *)
LEMMA ProcessUnwinds ==
  ASSUME ProcessInv, CloseStore \/ Cancel \/ OtherDeferred
  PROVE  ProcessInv'
<1> USE DEF ProcessInv, CloseStore, Cancel, OtherDeferred, LifeRest, Unwind
<1>0. deferred \in Stacks /\ deferred # <<>> /\ stage = "returning" /\ stage' = "returning"
      /\ UNCHANGED <<ticker, open, line, signalled, memory, disk, owed, flush, failed>>
  BY DEF ProcessTypeOK
<1>1. \/ deferred = Holding("stopped") /\ deferred' = Base /\ UNCHANGED <<store, cancelled>>
      \/ deferred = Base /\ deferred' = <<"closeStore", "cancel">> /\ UNCHANGED <<store, cancelled>>
      \/ deferred = <<"closeStore", "cancel">> /\ deferred' = <<"cancel">> /\ store' = "closed"
         /\ UNCHANGED cancelled
      \/ deferred = <<"cancel">> /\ deferred' = <<>> /\ cancelled' = TRUE /\ UNCHANGED store
  <2>1. CASE CloseStore
    BY <1>0, <2>1, HeadsAre
  <2>2. CASE Cancel
    BY <1>0, <2>2, HeadsAre
  <2>3. CASE OtherDeferred
    BY <1>0, <2>3, HeadsAre
  <2> QED
    BY <2>1, <2>2, <2>3
<1>2. ProcessTypeOK'
  BY <1>0, <1>1 DEF ProcessTypeOK, Stacks
<1>3. StagesInv'
  BY <1>0, <1>1, StacksDiffer DEF StagesInv, Started
<1>4. Started => Quiet("http") /\ Quiet("grpc")
  BY <1>1, StacksDiffer DEF DoorsInv
<1>5. DoorsInv'
  BY <1>0, <1>1, <1>4, StacksDiffer DEF DoorsInv, Quiet, InFlight, Started, StagesInv
<1>6. FlushInv'
  BY <1>0 DEF FlushInv
<1> QED
  BY <1>2, <1>3, <1>5, <1>6

(* The flush: what it reads covers what is owed, and what it has written   *)
(* is on disk.                                                             *)
LEMMA ProcessFlushes ==
  ASSUME ProcessInv, BeginFlush \/ FlushOne
  PROVE  ProcessInv'
<1> USE DEF ProcessInv
<1>1. UNCHANGED <<deferred, signalled, cancelled, store, collector, ticker, open, line, memory, owed>>
      /\ stage \in {"draining", "flushing"} /\ stage' = "flushing"
  BY DEF BeginFlush, FlushOne
<1>2. StagesInv' /\ DoorsInv'
  BY <1>1, StacksDiffer DEF StagesInv, DoorsInv, Quiet, InFlight, Started
<1>3. CASE BeginFlush
  <2>1. flush' = Snapshots /\ UNCHANGED <<disk, failed>>
    BY <1>3 DEF BeginFlush
  <2>2. \A f \in Snapshots : f \in Monitored \X Nat /\ f[2] = memory[f[1]]
    BY DEF Snapshots, ProcessTypeOK
  <2>3. ProcessTypeOK'
    BY <1>1, <2>1, <2>2 DEF ProcessTypeOK
  <2>4. ASSUME NEW m \in Monitored
        PROVE  disk[m] >= owed[m] \/ \E f \in Snapshots : f[1] = m
    <3>1. CASE memory[m] > 0
      <4>1. <<m, memory[m]>> \in Snapshots
        BY <3>1 DEF Snapshots
      <4> QED
        BY <4>1
    <3>2. CASE ~(memory[m] > 0)
      BY <3>2 DEF ProcessTypeOK, FlushInv
    <3> QED
      BY <3>1, <3>2
  <2>5. \A f \in Snapshots : f[2] >= owed[f[1]]
    BY <2>2 DEF ProcessTypeOK, FlushInv
  <2>6. FlushInv'
    BY <1>1, <2>1, <2>4, <2>5 DEF FlushInv
  <2> QED
    BY <1>2, <2>3, <2>6
<1>4. CASE FlushOne
  <2>1. PICK f \in flush :
          \/ disk' = [disk EXCEPT ![f[1]] = f[2]] /\ flush' = flush \ {f} /\ UNCHANGED failed
          \/ flush' = {} /\ failed' = TRUE /\ UNCHANGED disk
    BY <1>4 DEF FlushOne
  <2>2. stage = "flushing"
    BY <1>4 DEF FlushOne
  <2>3. CASE flush' = {} /\ failed' = TRUE /\ UNCHANGED disk
    BY <1>1, <1>2, <2>2, <2>3 DEF ProcessTypeOK, FlushInv
  <2>4. CASE disk' = [disk EXCEPT ![f[1]] = f[2]] /\ flush' = flush \ {f} /\ UNCHANGED failed
    <3>1. PICK n \in Monitored, v \in Nat : f = <<n, v>> /\ f[1] = n /\ f[2] = v
      BY DEF ProcessTypeOK
    <3>2. ProcessTypeOK'
      BY <1>1, <2>4, <3>1 DEF ProcessTypeOK
    <3>3. v >= owed[n]
      BY <2>2, <3>1 DEF FlushInv
    <3>4. ASSUME ~failed, NEW m \in Monitored
          PROVE  disk'[m] >= owed[m] \/ \E g \in flush \ {f} : g[1] = m
      <4>1. CASE m = n
        BY <2>4, <3>1, <3>3, <4>1 DEF ProcessTypeOK
      <4>2. CASE m # n
        <5>1. disk'[m] = disk[m]
          BY <2>4, <3>1, <4>2 DEF ProcessTypeOK
        <5>2. disk[m] >= owed[m] \/ \E g \in flush : g[1] = m
          BY <2>2, <3>4 DEF FlushInv
        <5> QED
          BY <3>1, <4>2, <5>1, <5>2
      <4> QED
        BY <4>1, <4>2
    <3>5. FlushInv'
      BY <1>1, <2>2, <2>4, <3>4 DEF FlushInv
    <3> QED
      BY <1>2, <3>2, <3>5
  <2> QED
    BY <2>1, <2>3, <2>4
<1> QED
  BY <1>3, <1>4

(* The signal, and the analyzer's ticker.  What is owed is what is in       *)
(* memory then, which only gets later.                                     *)
LEMMA MemoryGrows ==
  ASSUME ProcessInv, Signal \/ Tick \/ StoreSnapshot \/ TickerStops, LifecycleAssumption
  PROVE  ProcessInv'
<1> USE DEF ProcessInv
<1>1. UNCHANGED <<stage, deferred, cancelled, store, open, line, disk, flush, failed>>
  BY DEF Signal, Tick, StoreSnapshot, TickerStops, Beside
<1>2. Started' <=> Started
  <2>1. CASE Signal
    BY <2>1 DEF Signal, Started
  <2>2. CASE Tick
    BY <2>2 DEF Tick, Started
  <2>3. CASE StoreSnapshot
    <3>1. PICK h \in ticker.left :
            ticker' = [ticker EXCEPT !.left = @ \ {h}, !.at = IF ticker.left = {h} THEN "waiting" ELSE @]
      BY <2>3 DEF StoreSnapshot
    <3>2. ticker.at = "storing" /\ ticker'.at \in {"waiting", "storing"}
      BY <2>3, <3>1 DEF StoreSnapshot, ProcessTypeOK
    <3> QED
      BY <3>2 DEF Started
  <2>4. CASE TickerStops
    BY <2>4 DEF TickerStops, Started, ProcessTypeOK
  <2> QED
    BY <2>1, <2>2, <2>3, <2>4
<1>3. StagesInv' /\ DoorsInv'
  <2>1. StagesInv'
    BY <1>1, <1>2 DEF StagesInv
  <2>2. (Quiet("http"))' = Quiet("http") /\ (Quiet("grpc"))' = Quiet("grpc")
    BY <1>1 DEF Quiet, InFlight
  <2>3. DoorsInv'
    BY <1>1, <1>2, <2>2 DEF DoorsInv
  <2> QED
    BY <2>1, <2>3
<1>4. CASE Signal
  <2>1. stage \notin {"draining", "flushing"} /\ owed' = memory /\ signalled' = TRUE
        /\ UNCHANGED <<ticker, memory>>
    BY <1>4 DEF Signal, FlushInv
  <2>2. ProcessTypeOK'
    BY <1>1, <2>1 DEF ProcessTypeOK
  <2>3. FlushInv'
    BY <1>1, <2>1 DEF FlushInv, ProcessTypeOK
  <2> QED
    BY <1>3, <2>2, <2>3
<1>5. CASE Tick
  <2>1. ticker' = [at |-> "storing", tick |-> ticker.tick + 1, left |-> Monitored]
        /\ UNCHANGED <<memory, owed, signalled>>
    BY <1>5 DEF Tick, Beside
  <2>2. ProcessTypeOK'
    BY <1>1, <2>1 DEF ProcessTypeOK
  <2>3. FlushInv'
    BY <1>1, <2>1 DEF FlushInv, ProcessTypeOK
  <2> QED
    BY <1>3, <2>2, <2>3
<1>6. CASE StoreSnapshot
  <2>1. PICK h \in ticker.left :
          /\ memory' = [memory EXCEPT ![h] = ticker.tick]
          /\ ticker' = [ticker EXCEPT !.left = @ \ {h}, !.at = IF ticker.left = {h} THEN "waiting" ELSE @]
    BY <1>6 DEF StoreSnapshot
  <2>2. UNCHANGED <<owed, signalled>> /\ ticker.tick \in Nat /\ h \in Monitored
    BY <1>6 DEF StoreSnapshot, Beside, ProcessTypeOK
  <2>3. ticker' \in [at : {"none", "waiting", "storing", "stopped"}, tick : Nat, left : SUBSET Monitored]
        /\ ticker'.tick = ticker.tick
    BY <2>1 DEF ProcessTypeOK
  <2>4. ProcessTypeOK'
    BY <1>1, <2>1, <2>2, <2>3 DEF ProcessTypeOK
  <2>5. \A m \in Monitored : memory'[m] = IF m = h THEN ticker.tick ELSE memory[m]
    BY <2>1, <2>2 DEF ProcessTypeOK
  <2>6. FlushInv'
    BY <1>1, <2>2, <2>3, <2>5 DEF FlushInv, ProcessTypeOK
  <2> QED
    BY <1>3, <2>4, <2>6
<1>7. CASE TickerStops
  <2>1. ticker' = [ticker EXCEPT !.at = "stopped"] /\ UNCHANGED <<memory, owed, signalled>>
    BY <1>7 DEF TickerStops, Beside
  <2>2. ProcessTypeOK' /\ ticker'.tick = ticker.tick
    BY <1>1, <2>1 DEF ProcessTypeOK
  <2>3. FlushInv'
    BY <1>1, <2>1, <2>2 DEF FlushInv
  <2> QED
    BY <1>3, <2>2, <2>3
<1> QED
  BY <1>4, <1>5, <1>6, <1>7

(* A request is let in by an open receiver only, so none is in flight once  *)
(* Stop is through.                                                        *)
LEMMA RequestsAreAnswered ==
  ASSUME ProcessInv, Send \/ Answer \/ AnswerUnwritten
  PROVE  ProcessInv'
<1> USE DEF ProcessInv
<1>1. UNCHANGED <<stage, deferred, signalled, cancelled, store, ticker, open, memory, disk, flush, failed, owed>>
  BY DEF Send, Answer, AnswerUnwritten, Beside
<1>2. PICK l \in Lines, what \in Doors \cup {"kept", "unwritten", "late"} :
        /\ line' = [line EXCEPT ![l] = what]
        /\ what \in Doors => what \in open
        /\ what \notin Doors => line[l] \in Doors
        /\ what = "late" => store = "closed"
  <2>1. CASE Send
    BY <2>1 DEF Send, ProcessTypeOK, Doors
  <2>2. CASE Answer
    <3>1. PICK l \in Lines : line[l] \in Doors
                             /\ line' = [line EXCEPT ![l] = IF store = "closed" THEN "late" ELSE "kept"]
      BY <2>2 DEF Answer
    <3>2. "late" \notin Doors /\ "kept" \notin Doors /\ "kept" # "late"
      BY DEF Doors
    <3>3. CASE store = "closed"
      <4>1. line' = [line EXCEPT ![l] = "late"]
        BY <3>1, <3>3
      <4> QED
        BY <3>1, <3>2, <3>3, <4>1
    <3>4. CASE store # "closed"
      <4>1. line' = [line EXCEPT ![l] = "kept"]
        BY <3>1, <3>4
      <4> QED
        BY <3>1, <3>2, <4>1
    <3> QED
      BY <3>3, <3>4
  <2>3. CASE AnswerUnwritten
    <3>1. PICK l \in Lines : line[l] \in Doors /\ line' = [line EXCEPT ![l] = "unwritten"]
      BY <2>3 DEF AnswerUnwritten
    <3>2. "unwritten" \notin Doors /\ "unwritten" # "late"
      BY DEF Doors
    <3> QED
      BY <3>1, <3>2
  <2> QED
    BY <2>1, <2>2, <2>3
<1>3. line \in [Lines -> Doors \cup {"unsent", "kept", "unwritten", "late"}]
      /\ \A m \in Lines : line'[m] = IF m = l THEN what ELSE line[m]
  BY <1>2 DEF ProcessTypeOK
<1>4. ProcessTypeOK' /\ FlushInv' /\ StagesInv'
  <2>1. line' \in [Lines -> Doors \cup {"unsent", "kept", "unwritten", "late"}]
    BY <1>2, <1>3
  <2> QED
    BY <1>1, <2>1 DEF ProcessTypeOK, FlushInv, StagesInv, Started
<1>5. ASSUME NEW door \in Doors, Quiet(door)
      PROVE  (Quiet(door))'
  BY <1>1, <1>2, <1>3, <1>5 DEF Quiet, InFlight
<1>6. Started /\ what = "late" => FALSE
  <2> SUFFICES ASSUME Started, what = "late" PROVE FALSE
    OBVIOUS
  <2>1. deferred \in {<<>>, <<"cancel">>} /\ line[l] \in Doors
    BY <1>2 DEF StagesInv, Doors
  <2>2. Quiet("http") /\ Quiet("grpc")
    BY <2>1, StacksDiffer DEF DoorsInv
  <2> QED
    BY <2>1, <2>2 DEF Quiet, InFlight, Doors
<1>7. DoorsInv'
  <2>1. Started' <=> Started
    BY <1>1 DEF Started
  <2>2. Started \/ store # "closed" => what # "late"
    BY <1>2, <1>6
  <2> QED
    BY <1>1, <1>3, <1>5, <2>1, <2>2 DEF DoorsInv, Doors
<1> QED
  BY <1>4, <1>7

LEMMA ProcessSteps == LifecycleAssumption /\ ProcessInv /\ [LifecycleNext]_processVars => ProcessInv'
<1> SUFFICES ASSUME LifecycleAssumption, ProcessInv, [LifecycleNext]_processVars PROVE ProcessInv'
  OBVIOUS
<1>1. CASE UNCHANGED processVars
  BY <1>1 DEF processVars, ProcessInv, ProcessTypeOK, StagesInv, DoorsInv, FlushInv, Started, Quiet, InFlight
<1>2. CASE LifecycleNext
  BY <1>2, ProcessMovesOn, ProcessOpens, ReceiversStart, ReceiversStop, ProcessUnwinds,
     ProcessFlushes, MemoryGrows, RequestsAreAnswered DEF LifecycleNext, Main
<1> QED
  BY <1>1, <1>2

(* Once Stop is deferred, no answered request has lost its line to a closed *)
(* store, wherever runWithContext returned from.                           *)
THEOREM AnsweredStayWritten == LifecycleSpec => []AnsweredIsWritten
<1>1. ProcessInv => AnsweredIsWritten
  BY DEF ProcessInv, DoorsInv, AnsweredIsWritten, Started
<1> QED
  BY <1>1, LifecycleAssumption, ProcessStarts, ProcessSteps, PTL DEF LifecycleSpec

(* A flush that ends without a failed write leaves on disk, of each         *)
(* workload, what was in memory at the signal, or later (FlushSnapshots).  *)
THEOREM FlushesKeepWhatIsOwed == LifecycleSpec => FlushKeepsWhatWasOwed
<1>1. ProcessInv /\ [LifecycleNext]_processVars =>
        [stage = "flushing" /\ stage' = "returning" /\ ~failed =>
           \A h \in Monitored : disk[h] >= owed[h]]_processVars
  <2> SUFFICES ASSUME ProcessInv, LifecycleNext, stage = "flushing", stage' = "returning", ~failed,
                      NEW h \in Monitored
               PROVE  disk[h] >= owed[h]
    OBVIOUS
  <2>1. flush = {}
    BY DEF LifecycleNext, Main, OpenStore, StartHTTP, StartOTLPGRPC, StartActions, ServerFails,
           BeginShutdown, BeginFlush, FlushOne, FlushEnds, StopReceiver, CloseStore, Cancel, OtherDeferred,
           Unwind, Exit, Signal, CollectorTurn, Tick, StoreSnapshot, TickerStops, Send, Answer,
           AnswerUnwritten, Beside
  <2> QED
    BY <2>1 DEF ProcessInv, FlushInv
<1> QED
  BY <1>1, LifecycleAssumption, ProcessStarts, ProcessSteps, PTL DEF LifecycleSpec, FlushKeepsWhatWasOwed
=============================================================================
