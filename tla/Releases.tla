------------------------------ MODULE Releases ------------------------------
(***************************************************************************)
(* The comparison of memory growth between releases and between replicas   *)
(* (internal/failuremodes/release.go, divergence.go), as Tracker.Worst     *)
(* reads it: a release that grows far faster than the one before it, and a *)
(* replica that grows far faster than its siblings.                        *)
(*                                                                         *)
(* Times are ages, in polls.  The slope fitted to the readings of a window *)
(* is an arbitrary pace, the same over every window of one read; the time  *)
(* it leaves before the limit is an arbitrary forecast.                    *)
(***************************************************************************)
EXTENDS Integers, FiniteSets

CONSTANTS
  Replicas,       \* the pods of one workload
  VersionOf,      \* the ReplicaSet of each
  Paces,          \* growth rates a window may show
  Outlooks,       \* times to failure a rate may give
  Floor,          \* releaseFloor
  Factor,         \* releaseFactor, divergenceFactor
  MinReadings,    \* the five readings a rate takes
  YoungUntil,     \* releaseMinAge
  RateWindow,     \* releaseWindow, divergenceWindow
  SustainFor,     \* releaseSustain, divergenceSustain
  SteadyAfter,    \* releaseSteady
  MinGroup,       \* divergenceMinReplicas
  FarthestOut,    \* releaseHorizon
  SilentFor,      \* failureModePodTTL
  ProfileTTL,     \* releaseProfileTTL
  Eldest,         \* bound: ages from here on are all the same
  MaxReads,       \* bound: reads of the workload
  Unmarked

Versions == {VersionOf[p] : p \in Replicas}
Replica == [version : Versions, first : Nat, log : SUBSET Nat, limited : BOOLEAN,
            since : Nat \cup {Unmarked}, apart : Nat \cup {Unmarked}]

ASSUME ReleasesAssumption ==
  /\ Unmarked \notin Int /\ Unmarked \notin Replica
  /\ Paces \subseteq Nat /\ Outlooks \subseteq Nat
  /\ Floor \in Nat \ {0} /\ Factor \in Nat \ {0}
  /\ MinGroup >= 2
  /\ \A limit \in {YoungUntil, RateWindow, SustainFor, SteadyAfter, SilentFor, ProfileTTL} :
       limit \in Nat /\ limit < Eldest

VARIABLES
  tracked,    \* the pods that reported: their version, age, latest readings,
              \* whether their limit is known, and since when they have
              \* outgrown the release before, and their siblings
  profiles,   \* the steady rate of each version, and its age
  report,     \* what the last read found
  reads,
  run         \* ghost: how long ago the run of reads began, none of them to
              \* the contrary, that found each pod outgrow the release before,
              \* and its siblings

releaseVars == <<tracked, profiles, report, reads, run>>

NoRun == [p \in Replicas |-> [release |-> Unmarked, siblings |-> Unmarked]]
NothingTold == [regression |-> Unmarked, divergence |-> Unmarked]

(* newReleaseState *)
ReleasesInit ==
  /\ tracked = [p \in Replicas |-> Unmarked]
  /\ profiles = [v \in Versions |-> Unmarked]
  /\ report = NothingTold
  /\ reads = 0
  /\ run = NoRun

Known == {p \in Replicas : tracked[p] # Unmarked}
OneOlder(a) == IF a = Unmarked \/ a = Eldest THEN a ELSE a + 1

(* releaseState.observe: the version of a pod is its ReplicaSet, which it   *)
(* keeps.                                                                  *)
NewReplica(p) ==
  [version |-> VersionOf[p], first |-> 0, log |-> {}, limited |-> FALSE, since |-> Unmarked, apart |-> Unmarked]
ObserveRelease(s, limited) == [s EXCEPT !.log = @ \cup {0}, !.limited = limited]

(* A poll later: the pods in S are read, their limits with them or not.    *)
(* Prune, at the end of the poll, forgets silent pods and old profiles.    *)
OlderReplica(s) ==
  [s EXCEPT !.first = OneOlder(@), !.since = OneOlder(@), !.apart = OneOlder(@),
            !.log = {OneOlder(a) : a \in @} \ {Eldest}]
Aged(p) == IF tracked[p] = Unmarked THEN NewReplica(p) ELSE OlderReplica(tracked[p])
Unheard(s) == \A a \in s.log : a > SilentFor

PollReleases(S, limited) ==
  /\ tracked' = [p \in Replicas |->
                   IF p \in S THEN ObserveRelease(Aged(p), limited)
                   ELSE IF Unheard(Aged(p)) THEN Unmarked ELSE Aged(p)]
  /\ profiles' = [v \in Versions |->
                    IF profiles[v] = Unmarked THEN Unmarked
                    ELSE IF OneOlder(profiles[v].at) > ProfileTTL THEN Unmarked
                    ELSE [profiles[v] EXCEPT !.at = OneOlder(@)]]
  /\ report' = NothingTold
  /\ run' = [p \in Replicas |->
               IF tracked'[p] = Unmarked THEN NoRun[p]
               ELSE [release |-> OneOlder(run[p].release), siblings |-> OneOlder(run[p].siblings)]]
  /\ UNCHANGED reads

(* A restart of the engine: nothing of this is stored. *)
ForgetReleases ==
  /\ tracked' = [p \in Replicas |-> Unmarked]
  /\ profiles' = [v \in Versions |-> Unmarked]
  /\ report' = NothingTold
  /\ run' = NoRun
  /\ UNCHANGED reads

----------------------------------------------------------------------------
(***************************************************************************)
(* What a read makes of the paces of the pods.                             *)
(***************************************************************************)
(* rateBand.  The three windows of the code are one here, and a pod at its  *)
(* limit, whose mark goes as well, is one of those that show no pace.       *)
Rated(p) == Cardinality({a \in tracked[p].log : a <= RateWindow}) >= MinReadings
Grown(p) == tracked[p].first >= YoungUntil /\ tracked[p].limited

(* The middle one of the sorted paces, the upper of two. *)
MiddlePace(pace, S) ==
  CHOOSE x \in {pace[p] : p \in S} :
    /\ 2 * Cardinality({p \in S : pace[p] < x}) <= Cardinality(S)
    /\ 2 * Cardinality({p \in S : pace[p] <= x}) > Cardinality(S)

AtLeastFloor(x) == IF x < Floor THEN Floor ELSE x

(* refreshProfiles: only pods that have run long enough count. *)
Steady(v) == {p \in Known : tracked[p].version = v /\ tracked[p].first >= SteadyAfter /\ Rated(p)}
Refreshed(pace) ==
  [v \in Versions |-> IF Steady(v) = {} THEN profiles[v]
                      ELSE [rate |-> MiddlePace(pace, Steady(v)), at |-> 0]]

(* The newest version, and the one before it: the latest started, and the  *)
(* latest refreshed of the others.  Ties fall in the order of a map.       *)
Newest == {tracked[p].version : p \in {q \in Known : \A o \in Known : tracked[q].first <= tracked[o].first}}
Previous(newest, refreshed) ==
  LET others == {v \in Versions \ {newest} : refreshed[v] # Unmarked}
  IN  {v \in others : \A o \in others : refreshed[v].at <= refreshed[o].at}

(* Faulty variant: the mark of a pod stays when a read finds it calm.       *)
MarkStays(held, since) == IF since = Unmarked /\ held THEN 0 ELSE since

Mark(held, since) == IF ~held THEN Unmarked ELSE IF since = Unmarked THEN 0 ELSE since
LongEnough(since) == since # Unmarked /\ since >= SustainFor

(* estimate: the pods it looks at, and those it finds regressing. *)
Comparable(newest) == {p \in Known : tracked[p].version = newest /\ Grown(p)}
Regressing(p, pace, reference) == Rated(p) /\ pace[p] > Factor * AtLeastFloor(reference)

(* divergence: a pod is compared with the other pods of its version. *)
Group(v) == {p \in Known : tracked[p].version = v /\ Grown(p)}
Siblings(p) == {q \in Group(tracked[p].version) \ {p} : Rated(q)}
Judged(p) == Grown(p) /\ Cardinality(Group(tracked[p].version)) >= MinGroup
StandsOut(p, pace) ==
  /\ Judged(p) /\ Rated(p)
  /\ Cardinality(Siblings(p)) >= MinGroup - 1
  /\ pace[p] > Factor * AtLeastFloor(MiddlePace(pace, Siblings(p)))

(* The most urgent of the pods in S, if its forecast is near enough.       *)
Soonest(S) ==
  {[pod |-> p, version |-> tracked[p].version, etf |-> etf] :
     p \in S, etf \in {e \in Outlooks : e <= FarthestOut}}
  \cup {e \in {Unmarked} : S = {} \/ \E far \in Outlooks : far > FarthestOut}

(* Tracker.Worst: estimate, then divergence.  Pods that are not compared   *)
(* keep their mark.                                                        *)
Marked(refreshed, pace, newest, before) ==
  [p \in Replicas |->
     IF tracked[p] = Unmarked THEN Unmarked
     ELSE [tracked[p] EXCEPT
             !.since = IF before # Unmarked /\ p \in Comparable(newest)
                       THEN Mark(Regressing(p, pace, refreshed[before].rate), @) ELSE @,
             !.apart = IF Judged(p) THEN Mark(StandsOut(p, pace), @) ELSE @]]

RunOn(found, age) == IF ~found THEN Unmarked ELSE IF age = Unmarked THEN 0 ELSE age

ReadReleases ==
  /\ reads < MaxReads /\ Known # {}
  /\ \E pace \in [Known -> Paces], newest \in Newest :
       LET refreshed == Refreshed(pace)
           before == Previous(newest, refreshed)
       IN  \E previous \in IF before = {} THEN {Unmarked} ELSE before :
             LET marked == Marked(refreshed, pace, newest, previous)
                 regressed == {p \in Comparable(newest) : previous # Unmarked /\ LongEnough(marked[p].since)}
                 outliers == {p \in Known : Judged(p) /\ LongEnough(marked[p].apart)}
             IN  \E r \in Soonest(regressed), d \in Soonest(outliers) :
                   /\ tracked' = marked
                   /\ profiles' = refreshed
                   /\ report' = [regression |-> r, divergence |-> d]
                   /\ run' = [p \in Replicas |->
                        [release |-> IF previous = Unmarked \/ p \notin Comparable(newest) THEN run[p].release
                                     ELSE RunOn(Regressing(p, pace, refreshed[previous].rate), run[p].release),
                         siblings |-> IF p \notin Known \/ ~Judged(p) THEN run[p].siblings
                                      ELSE RunOn(StandsOut(p, pace), run[p].siblings)]]
  /\ reads' = reads + 1

ReleasesNext ==
  \/ \E S \in SUBSET Replicas, limited \in BOOLEAN : PollReleases(S, limited)
  \/ ReadReleases
  \/ ForgetReleases

ReleasesSpec == ReleasesInit /\ [][ReleasesNext]_releaseVars

----------------------------------------------------------------------------
(* What is told of a pod has been found since SustainFor ago at least, at   *)
(* every read that compared it: a single window that grows, a pod that     *)
(* comes back or a restart of the engine is not enough.  (release.go and   *)
(* divergence.go on since and divergentSince)                              *)
ReleasesAreSustained ==
  /\ report.regression # Unmarked =>
       LET age == run[report.regression.pod].release IN age # Unmarked /\ age >= SustainFor
  /\ report.divergence # Unmarked =>
       LET age == run[report.divergence.pod].siblings IN age # Unmarked /\ age >= SustainFor
=============================================================================
