------------------------ MODULE FailureHistoryProofs ------------------------
(***************************************************************************)
(* For any pods, workloads, limits and store: the tracker's state is well  *)
(* formed and its outcomes bounded, a failure on disk has been scored, a   *)
(* standing forecast is newer than every failure, no failure is invented,  *)
(* and the disk holds what is remembered but for the writes it refused.    *)
(*                                                                         *)
(* The invariant behind the types says that nothing is ahead of the clock, *)
(* although a poll, the API and the store each use a time of their own,    *)
(* and that the failure about to be saved has been scored already.  The one *)
(* behind the counts says how far the counters seen, and those of the poll *)
(* under way, are behind the pods.                                         *)
(*                                                                         *)
(* Of the alerts made of failures, for any Alertmanagers: one that stands  *)
(* is kept and one that is over ends.  The invariant behind says when the  *)
(* round will have posted to each, and how long each alert has left.       *)
(***************************************************************************)
EXTENDS MCFailureHistory, FiniteSetTheorems, SequenceTheorems, TLAPS

PollInv == DOMAIN poll.left # {} \/ poll.open => poll.at \in Times

NotAhead ==
  /\ poll.at <= clock
  /\ \A w \in Workloads : \A t \in Range(failures[w]) \cup saved[w] : t <= clock
  /\ unsaved # None => unsaved[2] <= clock

UnsavedIsScored ==
  unsaved # None => scored[unsaved[2]] # None \/ unsaved[2] \in unscored

CountsAreRestarts == \A p \in Pods : count[p] <= restarted[Owner[p]]

HistoryInv ==
  /\ TypeOK
  /\ CountsAreRestarts
  /\ PollInv
  /\ NotAhead
  /\ UnsavedIsScored
  /\ EveryFailureScored
  /\ ForecastIsOfThisCycle

----------------------------------------------------------------------------
LEMMA TrimBounds ==
  ASSUME NEW S, NEW s \in Seq(S), NEW limit \in Nat \ {0}
  PROVE  /\ Trim(s, limit) \in Seq(S)
         /\ Len(Trim(s, limit)) <= limit
         /\ Range(Trim(s, limit)) \subseteq Range(s)
  <1>1. CASE Len(s) > limit
    <2>1. Trim(s, limit) = SubSeq(s, Len(s) - limit + 1, Len(s))
      BY <1>1 DEF Trim, Newest
    <2> QED
      BY <1>1, <2>1 DEF Range
  <1>2. CASE ~(Len(s) > limit)
    BY <1>2 DEF Trim
  <1> QED
    BY <1>1, <1>2

LEMMA RangeOfAppend ==
  ASSUME NEW S, NEW s \in Seq(S), NEW x \in S
  PROVE  /\ Append(s, x) \in Seq(S)
         /\ Range(Append(s, x)) \subseteq Range(s) \cup {x}
  <1> DEFINE longer == Append(s, x)
  <1>1. longer \in Seq(S) /\ Len(longer) = Len(s) + 1
    OBVIOUS
  <1>2. ASSUME NEW i \in 1..Len(longer)
        PROVE  longer[i] \in Range(s) \cup {x}
    <2>1. CASE i = Len(s) + 1
      BY <2>1
    <2>2. CASE i \in 1..Len(s)
      BY <2>2 DEF Range
    <2> QED
      BY <1>1, <2>1, <2>2
  <1> QED
    BY <1>1, <1>2 DEF Range

(* What the store lists is a sequence of the times asked for.              *)
LEMMA ListedTimes ==
  ASSUME NEW S \in SUBSET Times, NEW s \in OldestFirst(S)
  PROVE  s \in Seq(Times) /\ Range(s) \subseteq S
  <1>1. Cardinality(S) \in Nat
    <2>1. IsFiniteSet(Times)
      BY FailureHistoryAssumption, FS_Interval DEF Times
    <2> QED
      BY <2>1, FS_Subset, FS_CardinalityType
  <1>2. s \in [1..Cardinality(S) -> S]
    BY DEF OldestFirst
  <1>3. s \in Seq(S)
    BY <1>1, <1>2
  <1> QED
    BY <1>2, <1>3 DEF Range

LEMMA LeadIsInt ==
  ASSUME TypeOK, NEW w \in Workloads, NEW at \in Times
  PROVE  Lead(w, at) \in Int /\ Lead(w, at) # None
  BY FailureHistoryAssumption DEF TypeOK, Lead, Times

----------------------------------------------------------------------------
(* A tracker and a store that are both empty satisfy the invariant         *)
(* (NewTracker).                                                           *)
THEOREM HistoryStarts == Init => HistoryInv
  <1> SUFFICES ASSUME Init PROVE HistoryInv
    OBVIOUS
  <1> USE FailureHistoryAssumption DEF Init
  <1>1. Range(<<>>) = {}
    BY DEF Range
  <1>2. TypeOK
    <2>1. NoReadings \in Readings
      <3>1. NoReadings \in [{} -> 0..MaxRestarts]
        BY DEF NoReadings
      <3> QED
        BY <3>1 DEF Readings
    <2>2. NoPoll \in [at : Times \cup {-1}, open : BOOLEAN, left : Readings]
      BY <2>1 DEF NoPoll
    <2> QED
      BY <2>2 DEF TypeOK, Times
  <1>3. PollInv
    BY DEF PollInv, NoPoll, NoReadings
  <1>4. NotAhead
    BY <1>1 DEF NotAhead, NoPoll
  <1> QED
    BY <1>1, <1>2, <1>3, <1>4 DEF HistoryInv, CountsAreRestarts, UnsavedIsScored,
       EveryFailureScored, ForecastIsOfThisCycle

(***************************************************************************)
(* The reading of a pod: with a failure it writes memory and the outcome.  *)
(***************************************************************************)
LEMMA RecordKeeps ==
  ASSUME HistoryInv, NEW w \in Workloads, poll.at \in Times,
         RecordFailure(w, poll.at)
  PROVE  /\ failures' \in [Workloads -> Seq(Times)]
         /\ forecasts' \in [Workloads -> Times \cup {None}]
         /\ outcomes' \in Seq([at : Times, lead : Int])
         /\ Len(outcomes') <= OutcomeLimit
         /\ scored' \in [Times -> Int \cup {None}]
         /\ unscored' \subseteq Times
         /\ \A t \in Times : scored[t] # None \/ t \in unscored =>
                             scored'[t] # None \/ t \in unscored'
         /\ scored'[poll.at] # None \/ poll.at \in unscored'
         /\ \A v \in Workloads : \A t \in Range(failures'[v]) : t <= clock
         /\ \A v \in Workloads : \A t \in Range(failures'[v]) :
              forecasts'[v] = None \/ forecasts'[v] >= t
  <1> USE FailureHistoryAssumption
  <1> DEFINE at == poll.at
             longer == Append(failures[w], at)
             outcome == [at |-> at, lead |-> Lead(w, at)]
  <1>1. Lead(w, at) \in Int /\ Lead(w, at) # None
    BY LeadIsInt DEF HistoryInv
  <1>2. failures' = [failures EXCEPT ![w] = Trim(longer, HistoryLimit)]
    BY DEF RecordFailure
  <1>3. /\ Trim(longer, HistoryLimit) \in Seq(Times)
        /\ Range(Trim(longer, HistoryLimit)) \subseteq Range(failures[w]) \cup {at}
    <2>1. failures[w] \in Seq(Times)
      BY DEF HistoryInv, TypeOK
    <2>2. longer \in Seq(Times) /\ Range(longer) \subseteq Range(failures[w]) \cup {at}
      BY <2>1, RangeOfAppend
    <2> HIDE DEF longer
    <2>3. Range(Trim(longer, HistoryLimit)) \subseteq Range(longer)
      BY <2>2, TrimBounds
    <2>4. Trim(longer, HistoryLimit) \in Seq(Times)
      BY <2>2, TrimBounds
    <2> QED
      BY <2>2, <2>3, <2>4
  <1>4. failures' \in [Workloads -> Seq(Times)]
    BY <1>2, <1>3 DEF HistoryInv, TypeOK
  <1>5. forecasts' = [forecasts EXCEPT ![w] = None]
    BY DEF RecordFailure, ForgetForecast
  <1>6. outcomes' \in Seq([at : Times, lead : Int]) /\ Len(outcomes') <= OutcomeLimit
    <2>1. outcomes \in Seq([at : Times, lead : Int]) /\ outcome \in [at : Times, lead : Int]
      BY <1>1 DEF HistoryInv, TypeOK
    <2>2. Append(outcomes, outcome) \in Seq([at : Times, lead : Int])
      BY <2>1, RangeOfAppend
    <2>3. outcomes' = Trim(Append(outcomes, outcome), OutcomeLimit)
      BY DEF RecordFailure
    <2> QED
      BY <2>2, <2>3, TrimBounds
  <1>7. \/ scored' = [scored EXCEPT ![at] = Lead(w, at)] /\ unscored' = unscored
        \/ scored' = scored /\ unscored' = unscored \cup {at}
    BY DEF RecordFailure, SaveOutcome
  <1>8. \A v \in Workloads : \A t \in Range(failures'[v]) :
          (t = at /\ v = w) \/ t \in Range(failures[v])
    BY <1>2, <1>3 DEF HistoryInv, TypeOK
  <1>9. \A v \in Workloads : \A t \in Range(failures'[v]) : t <= clock
    BY <1>8 DEF HistoryInv, NotAhead
  <1>10. \A v \in Workloads : \A t \in Range(failures'[v]) :
           forecasts'[v] = None \/ forecasts'[v] >= t
    BY <1>5, <1>8 DEF HistoryInv, ForecastIsOfThisCycle, TypeOK
  <1>11. forecasts' \in [Workloads -> Times \cup {None}]
    BY <1>5 DEF HistoryInv, TypeOK
  <1>12. scored' \in [Times -> Int \cup {None}] /\ unscored' \subseteq Times
    <2>1. scored \in [Times -> Int \cup {None}] /\ unscored \subseteq Times
      BY DEF HistoryInv, TypeOK
    <2> QED
      BY <1>1, <1>7, <2>1
  <1>13. \A t \in Times : scored[t] # None \/ t \in unscored =>
                           scored'[t] # None \/ t \in unscored'
    BY <1>1, <1>7 DEF HistoryInv, TypeOK
  <1>14. scored'[at] # None \/ at \in unscored'
    BY <1>1, <1>7 DEF HistoryInv, TypeOK
  <1> QED
    BY <1>4, <1>6, <1>9, <1>10, <1>11, <1>12, <1>13, <1>14

(***************************************************************************)
(* No step breaks the invariant.                                           *)
(***************************************************************************)
LEMMA ObserveKeeps ==
  ASSUME HistoryInv, NEW p \in Pods, Observe(p)
  PROVE  HistoryInv'
  <1> USE FailureHistoryAssumption
  <1>1. p \in DOMAIN poll.left /\ poll.at \in Times
    BY DEF Observe, HistoryInv, PollInv
  <1>2. poll.left[p] \in 0..MaxRestarts
    BY <1>1 DEF HistoryInv, TypeOK, Readings
  <1>3. pods' \in [Pods -> [restarts : 0..MaxRestarts, seen : Times] \cup {None}]
    BY <1>1, <1>2 DEF Observe, HistoryInv, TypeOK
  <1>4. /\ poll' \in [at : Times \cup {-1}, open : BOOLEAN, left : Readings]
        /\ poll'.at = poll.at
    <2>1. poll.left \in Readings
      BY DEF HistoryInv, TypeOK
    <2>2. Restrict(poll.left, DOMAIN poll.left \ {p}) \in Readings
      <3>1. PICK S \in SUBSET Pods : poll.left \in [S -> 0..MaxRestarts]
        BY <2>1 DEF Readings
      <3>2. Restrict(poll.left, S \ {p}) \in [S \ {p} -> 0..MaxRestarts]
        BY <3>1 DEF Restrict
      <3> QED
        BY <3>1, <3>2 DEF Readings
    <2> QED
      BY <2>2 DEF Observe, HistoryInv, TypeOK
  <1>5. PollInv'
    BY <1>1, <1>4 DEF PollInv
  <1>6. CASE Grew(p, poll.left[p])
    <2>1. RecordFailure(Owner[p], poll.at) /\ Owner[p] \in Workloads
      BY <1>6 DEF Observe
    <2> DEFINE w == Owner[p]
    <2>2. /\ failures' \in [Workloads -> Seq(Times)]
          /\ forecasts' \in [Workloads -> Times \cup {None}]
          /\ outcomes' \in Seq([at : Times, lead : Int])
          /\ Len(outcomes') <= OutcomeLimit
          /\ scored' \in [Times -> Int \cup {None}]
          /\ unscored' \subseteq Times
          /\ \A t \in Times : scored[t] # None \/ t \in unscored =>
                              scored'[t] # None \/ t \in unscored'
          /\ scored'[poll.at] # None \/ poll.at \in unscored'
          /\ \A v \in Workloads : \A t \in Range(failures'[v]) : t <= clock
          /\ \A v \in Workloads : \A t \in Range(failures'[v]) :
               forecasts'[v] = None \/ forecasts'[v] >= t
      BY <1>1, <2>1, RecordKeeps
    <2>3. /\ unsaved' = <<w, poll.at>> /\ saved' = saved /\ refused' = refused
          /\ clock' = clock /\ count' = count /\ restarted' = restarted /\ missed' = missed
      BY <2>1 DEF RecordFailure, Observe
    <2>4. TypeOK'
      BY <1>1, <1>3, <1>4, <2>1, <2>2, <2>3 DEF HistoryInv, TypeOK, Failure
    <2>5. NotAhead'
      BY <1>1, <1>4, <2>2, <2>3 DEF HistoryInv, NotAhead
    <2>6. UnsavedIsScored'
      BY <2>2, <2>3 DEF UnsavedIsScored
    <2>7. EveryFailureScored'
      BY <2>2, <2>3 DEF HistoryInv, EveryFailureScored, TypeOK
    <2>8. ForecastIsOfThisCycle'
      BY <2>2 DEF ForecastIsOfThisCycle
    <2> QED
      BY <1>5, <2>3, <2>4, <2>5, <2>6, <2>7, <2>8 DEF HistoryInv, CountsAreRestarts
  <1>7. CASE ~Grew(p, poll.left[p])
    <2>1. UNCHANGED <<failures, forecasts, outcomes, diskVars, unsaved, clock, count, restarted, missed>>
      BY <1>7 DEF Observe
    <2>2. TypeOK'
      BY <1>3, <1>4, <2>1 DEF HistoryInv, TypeOK, diskVars
    <2>3. NotAhead' /\ UnsavedIsScored' /\ EveryFailureScored' /\ ForecastIsOfThisCycle'
      BY <1>4, <2>1 DEF HistoryInv, NotAhead, UnsavedIsScored, EveryFailureScored,
         ForecastIsOfThisCycle, diskVars
    <2> QED
      BY <1>5, <2>1, <2>2, <2>3 DEF HistoryInv, CountsAreRestarts
  <1> QED
    BY <1>6, <1>7

LEMMA SaveKeeps ==
  ASSUME HistoryInv, SaveFailure
  PROVE  HistoryInv'
  <1> USE FailureHistoryAssumption
  <1>1. unsaved # None /\ unsaved \in Failure /\ unsaved' = None
    BY DEF SaveFailure, HistoryInv, TypeOK
  <1>2. unsaved[1] \in Workloads /\ unsaved[2] \in Times
    BY <1>1 DEF Failure
  <1>3. \/ /\ saved' = [saved EXCEPT ![unsaved[1]] = @ \cup {unsaved[2]}]
           /\ refused' = refused
        \/ /\ saved' = saved
           /\ refused' = refused \cup {unsaved}
    BY DEF SaveFailure
  <1>4. UNCHANGED <<clock, count, restarted, missed, trackerVars, scored, unscored, poll>>
    BY DEF SaveFailure
  <1> DEFINE owner == unsaved[1]
             at == unsaved[2]
  <1>5. saved \in [Workloads -> SUBSET Times] /\ refused \subseteq Failure
    BY DEF HistoryInv, TypeOK
  <1>6. \/ saved' = [saved EXCEPT ![owner] = @ \cup {at}] /\ refused' = refused
        \/ saved' = saved /\ refused' = refused \cup {unsaved}
    BY <1>3
  <1>7. owner \in Workloads /\ at \in Times
    BY <1>2
  <1> HIDE DEF owner, at
  <1>8. saved' \in [Workloads -> SUBSET Times] /\ refused' \subseteq Failure
    BY <1>1, <1>5, <1>6, <1>7
  <1>9. TypeOK'
    BY <1>1, <1>4, <1>8 DEF HistoryInv, TypeOK, trackerVars
  <1>10. \A w \in Workloads : \A t \in saved'[w] : t \in saved[w] \/ t = unsaved[2]
    BY <1>5, <1>6, <1>7 DEF at
  <1>11. NotAhead'
    BY <1>1, <1>4, <1>10 DEF HistoryInv, NotAhead, trackerVars
  <1>12. EveryFailureScored'
    BY <1>1, <1>4, <1>10 DEF HistoryInv, EveryFailureScored, UnsavedIsScored
  <1> QED
    BY <1>1, <1>4, <1>9, <1>11, <1>12 DEF HistoryInv, CountsAreRestarts, PollInv, UnsavedIsScored,
       ForecastIsOfThisCycle, trackerVars

LEMMA NoteKeeps ==
  ASSUME HistoryInv, NEW w \in Workloads, NoteForecast(w)
  PROVE  HistoryInv'
  <1> USE FailureHistoryAssumption
  <1>1. forecasts' = [forecasts EXCEPT ![w] = clock]
    BY DEF NoteForecast
  <1>2. UNCHANGED <<clock, count, restarted, missed, pods, failures, outcomes, diskVars, poll, unsaved>>
    BY DEF NoteForecast
  <1>3. TypeOK'
    BY <1>1, <1>2 DEF HistoryInv, TypeOK, diskVars
  <1>4. ForecastIsOfThisCycle'
    BY <1>1, <1>2 DEF HistoryInv, TypeOK, NotAhead, ForecastIsOfThisCycle
  <1> QED
    BY <1>2, <1>3, <1>4 DEF HistoryInv, CountsAreRestarts, PollInv, NotAhead, UnsavedIsScored,
       EveryFailureScored, diskVars

LEMMA RestartKeeps ==
  ASSUME HistoryInv, Restart
  PROVE  HistoryInv'
  <1> USE FailureHistoryAssumption
  <1>1. UNCHANGED <<clock, count, restarted, missed, diskVars>>
    BY DEF Restart
  <1>2. /\ forecasts' = [w \in Workloads |-> None] /\ unsaved' = None
        /\ pods' = [p \in Pods |-> None] /\ poll' = [NoPoll EXCEPT !.at = poll.at]
    BY DEF Restart
  <1>3. \A w \in Workloads : Kept(saved[w]) \subseteq saved[w] /\ saved[w] \subseteq Times
    BY DEF Kept, HistoryInv, TypeOK
  <1>4. PICK restored \in [Workloads -> UNION {OldestFirst(Kept(saved[w])) : w \in Workloads}] :
          /\ \A w \in Workloads : restored[w] \in OldestFirst(Kept(saved[w]))
          /\ failures' = restored
    BY DEF Restart
  <1>5. \A w \in Workloads :
          failures'[w] \in Seq(Times) /\ Range(failures'[w]) \subseteq saved[w]
    BY <1>3, <1>4, ListedTimes
  <1>6. failures' \in [Workloads -> Seq(Times)]
    BY <1>4, <1>5
  <1>7. outcomes' \in Seq([at : Times, lead : Int]) /\ Len(outcomes') <= OutcomeLimit
    <2> DEFINE known == {t \in Times : scored[t] # None}
    <2>1. PICK times \in OldestFirst(Kept(known)) :
            outcomes' = Trim([i \in DOMAIN times |->
                                [at |-> times[i], lead |-> scored[times[i]]]],
                             OutcomeLimit)
      BY DEF Restart
    <2>2. Kept(known) \subseteq Times /\ Kept(known) \subseteq known
      BY DEF Kept
    <2>3. times \in Seq(Times) /\ Range(times) \subseteq Kept(known)
      BY <2>1, <2>2, ListedTimes
    <2>4. \A i \in DOMAIN times : times[i] \in Times /\ scored[times[i]] \in Int
      BY <2>2, <2>3 DEF Range, HistoryInv, TypeOK
    <2> DEFINE listed == [i \in DOMAIN times |->
                            [at |-> times[i], lead |-> scored[times[i]]]]
    <2>5. listed \in Seq([at : Times, lead : Int])
      <3>1. DOMAIN times = 1..Len(times) /\ Len(times) \in Nat
        BY <2>3
      <3>2. listed \in [1..Len(times) -> [at : Times, lead : Int]]
        BY <2>4, <3>1
      <3> QED
        BY <3>1, <3>2
    <2>6. outcomes' = Trim(listed, OutcomeLimit)
      BY <2>1
    <2> HIDE DEF listed
    <2> QED
      BY <2>5, <2>6, TrimBounds
  <1>8. poll' = [at |-> poll.at, open |-> FALSE, left |-> NoReadings]
    BY <1>2 DEF NoPoll
  <1>9. NoReadings \in Readings /\ DOMAIN NoReadings = {}
    <2>1. NoReadings \in [{} -> 0..MaxRestarts]
      BY DEF NoReadings
    <2> QED
      BY <2>1 DEF Readings
  <1>10. poll' \in [at : Times \cup {-1}, open : BOOLEAN, left : Readings]
    <2>1. poll.at \in Times \cup {-1}
      BY DEF HistoryInv, TypeOK
    <2> QED
      BY <1>8, <1>9, <2>1
  <1>11. /\ forecasts' \in [Workloads -> Times \cup {None}]
         /\ pods' \in [Pods -> [restarts : 0..MaxRestarts, seen : Times] \cup {None}]
    BY <1>2
  <1>12. TypeOK'
    BY <1>1, <1>2, <1>6, <1>7, <1>10, <1>11 DEF HistoryInv, TypeOK, diskVars
  <1>13. PollInv'
    BY <1>8, <1>9 DEF PollInv
  <1>14. NotAhead'
    BY <1>1, <1>2, <1>5, <1>8 DEF HistoryInv, NotAhead, diskVars
  <1>15. UnsavedIsScored' /\ EveryFailureScored' /\ ForecastIsOfThisCycle'
    BY <1>1, <1>2 DEF HistoryInv, UnsavedIsScored, EveryFailureScored,
       ForecastIsOfThisCycle, diskVars
  <1> QED
    BY <1>1, <1>12, <1>13, <1>14, <1>15 DEF HistoryInv, CountsAreRestarts

LEMMA ClusterKeeps ==
  ASSUME HistoryInv, Tick \/ \E p \in Pods : PodRestarts(p) \/ PodReplaced(p)
  PROVE  HistoryInv'
  <1> USE FailureHistoryAssumption
  <1>1. UNCHANGED <<trackerVars, diskVars, poll, unsaved>>
    BY DEF Tick, PodRestarts, PodReplaced
  <1>2. clock \in Int /\ clock' \in Times /\ clock' >= clock
    BY SMTT(30) DEF Tick, PodRestarts, PodReplaced, HistoryInv, TypeOK, Times
  <1>3. /\ count' \in [Pods -> 0..MaxRestarts]
        /\ restarted' \in [Workloads -> 0..MaxRestarts]
        /\ CountsAreRestarts'
    <2>1. CASE Tick
      BY <2>1 DEF Tick, HistoryInv, TypeOK, CountsAreRestarts
    <2>2. ASSUME NEW p \in Pods, PodRestarts(p)
          PROVE  /\ count' \in [Pods -> 0..MaxRestarts]
                 /\ restarted' \in [Workloads -> 0..MaxRestarts]
                 /\ CountsAreRestarts'
      <3> DEFINE w == Owner[p]
      <3>1. /\ restarted[w] < MaxRestarts
            /\ count' = [count EXCEPT ![p] = @ + 1]
            /\ restarted' = [restarted EXCEPT ![w] = @ + 1]
        BY <2>2 DEF PodRestarts
      <3>2. /\ count \in [Pods -> 0..MaxRestarts]
            /\ restarted \in [Workloads -> 0..MaxRestarts]
            /\ w \in Workloads
        BY DEF HistoryInv, TypeOK
      <3>3. \A q \in Pods : count[q] <= restarted[Owner[q]] /\ Owner[q] \in Workloads
        BY DEF HistoryInv, CountsAreRestarts
      <3> HIDE DEF w
      <3>4. restarted' \in [Workloads -> 0..MaxRestarts]
        BY <3>1, <3>2
      <3>5. count' \in [Pods -> 0..MaxRestarts]
        BY <3>1, <3>2, <3>3 DEF w
      <3>6. \A q \in Pods : count'[q] <= restarted'[Owner[q]]
        BY <3>1, <3>2, <3>3 DEF w
      <3> QED
        BY <3>4, <3>5, <3>6 DEF CountsAreRestarts
    <2>3. ASSUME NEW p \in Pods, PodReplaced(p)
          PROVE  /\ count' \in [Pods -> 0..MaxRestarts]
                 /\ restarted' \in [Workloads -> 0..MaxRestarts]
                 /\ CountsAreRestarts'
      <3>1. \A q \in Pods : count'[q] <= count[q] /\ restarted' = restarted
        BY <2>3 DEF PodReplaced, HistoryInv, TypeOK
      <3> QED
        BY <2>3, <3>1 DEF PodReplaced, HistoryInv, TypeOK, CountsAreRestarts
    <2> QED
      BY <2>1, <2>2, <2>3
  <1>4. TypeOK'
    <2>1. missed' = missed
      BY DEF Tick, PodRestarts, PodReplaced
    <2> QED
      BY <1>1, <1>2, <1>3, <2>1 DEF HistoryInv, TypeOK, trackerVars, diskVars
  <1>5. NotAhead'
    <2>1. poll'.at <= clock'
      BY <1>1, <1>2 DEF HistoryInv, NotAhead, TypeOK, Times
    <2>2. ASSUME NEW w \in Workloads, NEW t \in Range(failures[w]) \cup saved[w]
          PROVE  t <= clock'
      <3>1. failures[w] \in Seq(Times) /\ saved[w] \subseteq Times
        BY DEF HistoryInv, TypeOK
      <3>2. t \in Times
        BY <3>1 DEF Range
      <3>3. t <= clock
        BY DEF HistoryInv, NotAhead
      <3> QED
        BY <1>2, <3>2, <3>3 DEF Times
    <2>3. unsaved # None => unsaved[2] <= clock'
      BY <1>2 DEF HistoryInv, NotAhead, TypeOK, Times, Failure
    <2> QED
      BY <1>1, <2>1, <2>2, <2>3 DEF NotAhead, trackerVars, diskVars
  <1> QED
    BY <1>1, <1>3, <1>4, <1>5 DEF HistoryInv, PollInv, UnsavedIsScored,
       EveryFailureScored, ForecastIsOfThisCycle, trackerVars, diskVars

LEMMA PollKeeps ==
  ASSUME HistoryInv, PollStart \/ PollEnd
  PROVE  HistoryInv'
  <1> USE FailureHistoryAssumption
  <1>1. UNCHANGED <<clock, count, restarted, failures, forecasts, outcomes, diskVars, unsaved>>
    BY DEF PollStart, PollEnd, trackerVars
  <1>2. /\ poll' \in [at : Times \cup {-1}, open : BOOLEAN, left : Readings]
        /\ poll'.at <= clock
        /\ PollInv'
    <2>1. CASE PollStart
      BY <2>1 DEF PollStart, HistoryInv, TypeOK, PollInv, Times
    <2>2. CASE PollEnd
      BY <2>2 DEF PollEnd, HistoryInv, TypeOK, PollInv, NotAhead, NoReadings
    <2> QED
      BY <2>1, <2>2
  <1>3. pods' \in [Pods -> [restarts : 0..MaxRestarts, seen : Times] \cup {None}]
    BY DEF PollStart, PollEnd, HistoryInv, TypeOK, trackerVars
  <1>5. missed' \in [Workloads -> Nat]
    <2>0. missed \in [Workloads -> Nat]
      BY DEF HistoryInv, TypeOK
    <2>1. CASE PollStart
      <3>1. PICK r \in Readings :
              missed' = [w \in Workloads |-> missed[w] + Cardinality(Misread(r, w))]
        BY <2>1 DEF PollStart
      <3>2. ASSUME NEW w \in Workloads PROVE Cardinality(Misread(r, w)) \in Nat
        <4>1. Misread(r, w) \subseteq Pods
          BY DEF Misread, Readings
        <4> QED
          BY <4>1, FS_Subset, FS_CardinalityType
      <3> QED
        BY <2>0, <3>1, <3>2
    <2>2. CASE PollEnd
      BY <2>0, <2>2 DEF PollEnd
    <2> QED
      BY <2>1, <2>2
  <1>4. TypeOK'
    BY <1>1, <1>2, <1>3, <1>5 DEF HistoryInv, TypeOK, diskVars
  <1> QED
    BY <1>1, <1>2, <1>4 DEF HistoryInv, CountsAreRestarts, NotAhead, UnsavedIsScored,
       EveryFailureScored, ForecastIsOfThisCycle, diskVars

LEMMA HistoryStep == HistoryInv /\ [Next]_vars => HistoryInv'
  <1> SUFFICES ASSUME HistoryInv, [Next]_vars PROVE HistoryInv'
    OBVIOUS
  <1>1. CASE UNCHANGED vars
    BY <1>1 DEF vars, trackerVars, diskVars, HistoryInv, TypeOK, CountsAreRestarts,
       PollInv, NotAhead, UnsavedIsScored, EveryFailureScored, ForecastIsOfThisCycle
  <1>2. CASE Next
    BY <1>2, ClusterKeeps, PollKeeps, ObserveKeeps, SaveKeeps, NoteKeeps, RestartKeeps
       DEF Next
  <1> QED
    BY <1>1, <1>2

LEMMA HistoryInvariant == Spec => []HistoryInv
  BY HistoryStarts, HistoryStep, PTL DEF Spec

----------------------------------------------------------------------------
(***************************************************************************)
(* The state of the tracker and of the store is well formed, and the       *)
(* outcomes in memory never exceed their limit (TypeOK; appendOutcome).    *)
(***************************************************************************)
THEOREM HistoryType == Spec => []TypeOK
  BY HistoryInvariant, PTL DEF HistoryInv

(***************************************************************************)
(* A failure on disk has been scored, whatever died in between             *)
(* (EveryFailureScored): a failure is saved only after its outcome, and    *)
(* UnsavedIsScored carries that over the step between the two writes.      *)
(***************************************************************************)
THEOREM FailuresAreScored == Spec => []EveryFailureScored
  BY HistoryInvariant, PTL DEF HistoryInv

(***************************************************************************)
(* A forecast that stands was noted after the last failure                 *)
(* (ForecastIsOfThisCycle), although the API's clock is not the poll's:    *)
(* NotAhead keeps every recorded failure at or before the clock.           *)
(***************************************************************************)
THEOREM ForecastsAreOfThisCycle == Spec => []ForecastIsOfThisCycle
  BY HistoryInvariant, PTL DEF HistoryInv

----------------------------------------------------------------------------
(***************************************************************************)
(* No failure is invented or counted twice.                                *)
(***************************************************************************)
(* The counter of a pod that the tracker is to have seen, when it has      *)
(* observed what is left of the poll; a pod it does not know is counted    *)
(* from its next reading on.                                               *)
Latest(p) ==
  IF p \in DOMAIN poll.left THEN poll.left[p]
  ELSE IF pods[p] # None THEN pods[p].restarts ELSE count[p]

(* A counter i that may still be taken for a failure: the one left to       *)
(* observe, and the one that the next poll would find.                     *)
Owed(p, i) ==
  \/ p \in DOMAIN poll.left /\ pods[p] # None /\ pods[p].restarts < i /\ i = poll.left[p]
  \/ Latest(p) < i /\ i = count[p]

Uncounted(w) == {r \in Pods \X (1..MaxRestarts) : Owner[r[1]] = w /\ Owed(r[1], r[2])}

(* The failures on disk, the one about to be saved included.               *)
OnDisk(w) == saved[w] \cup {t \in Times : unsaved = <<w, t>>}

(* The failures that the pods and the missing samples account for.         *)
Allowed(w) == restarted[w] + missed[w]

(* What was counted and what may still be is accounted for each time, in    *)
(* memory and for what a new engine would restore.                         *)
WithinRestarts(w) ==
  /\ Len(failures[w]) + Cardinality(Uncounted(w)) <= Allowed(w)
  /\ Cardinality(OnDisk(w)) + Cardinality(Uncounted(w)) <= Allowed(w)

CountedInv ==
  /\ ~poll.open => DOMAIN poll.left = {}
  /\ \A w \in Workloads : WithinRestarts(w)

LEMMA Fewer ==
  ASSUME NEW B, IsFiniteSet(B), NEW A, A \subseteq B
  PROVE  IsFiniteSet(A) /\ Cardinality(A) \in Nat /\ Cardinality(B) \in Nat
         /\ Cardinality(A) <= Cardinality(B)
  BY FS_Subset, FS_CardinalityType

LEMMA OneMore ==
  ASSUME NEW S, NEW x, IsFiniteSet(S)
  PROVE  /\ IsFiniteSet(S \cup {x}) /\ Cardinality(S) \in Nat
         /\ Cardinality(S \cup {x}) <= Cardinality(S) + 1
<1>1. Cardinality(S) \in Nat
  BY FS_CardinalityType
<1>2. /\ IsFiniteSet(S \cup {x})
      /\ Cardinality(S \cup {x}) = IF x \in S THEN Cardinality(S) ELSE Cardinality(S) + 1
  BY FS_AddElement
<1> QED
  BY <1>1, <1>2

LEMMA CountsAreFinite ==
  ASSUME IsFiniteSet(Pods), TypeOK, TypeOK', NEW w \in Workloads
  PROVE  /\ IsFiniteSet(Uncounted(w)) /\ IsFiniteSet(Uncounted(w)')
         /\ IsFiniteSet(OnDisk(w)) /\ IsFiniteSet(OnDisk(w)')
         /\ Len(failures[w]) \in Nat /\ Len(failures'[w]) \in Nat
         /\ Allowed(w) \in Nat /\ Allowed(w)' \in Nat
<1> USE FailureHistoryAssumption
<1>1. IsFiniteSet(1..MaxRestarts) /\ IsFiniteSet(Times)
  <2>1. MaxRestarts \in Int /\ MaxClock \in Int /\ 0 \in Int /\ 1 \in Int
    OBVIOUS
  <2>2. IsFiniteSet(1..MaxRestarts)
    BY <2>1, FS_Interval, Zenon
  <2>3. IsFiniteSet(0..MaxClock)
    BY <2>1, FS_Interval, Zenon
  <2> QED
    BY <2>2, <2>3 DEF Times
<1>2. IsFiniteSet(Pods \X (1..MaxRestarts))
  BY <1>1, FS_Product
<1>3. /\ Uncounted(w) \subseteq Pods \X (1..MaxRestarts) /\ Uncounted(w)' \subseteq Pods \X (1..MaxRestarts)
      /\ OnDisk(w) \subseteq Times /\ OnDisk(w)' \subseteq Times
  BY DEF Uncounted, OnDisk, TypeOK
<1>4. failures[w] \in Seq(Times) /\ failures'[w] \in Seq(Times)
  BY DEF TypeOK
<1>5. Allowed(w) \in Nat /\ Allowed(w)' \in Nat
  BY DEF TypeOK, Allowed
<1> QED
  BY <1>1, <1>2, <1>3, <1>4, <1>5, Fewer, SMTT(30)

(* A step that counts nothing, one that is a restart, and one that counts   *)
(* a restart for a failure.                                                *)
LEMMA NothingCounted ==
  ASSUME IsFiniteSet(Pods), TypeOK, TypeOK', NEW w \in Workloads, WithinRestarts(w),
         Uncounted(w)' \subseteq Uncounted(w), OnDisk(w)' \subseteq OnDisk(w),
         Len(failures'[w]) <= Len(failures[w]), Allowed(w)' = Allowed(w)
  PROVE  WithinRestarts(w)'
<1>1. /\ Cardinality(Uncounted(w)') <= Cardinality(Uncounted(w))
      /\ Cardinality(OnDisk(w)') <= Cardinality(OnDisk(w))
      /\ Cardinality(Uncounted(w)) \in Nat /\ Cardinality(Uncounted(w)') \in Nat
      /\ Cardinality(OnDisk(w)) \in Nat /\ Cardinality(OnDisk(w)') \in Nat
  BY CountsAreFinite, Fewer
<1>2. Len(failures[w]) \in Nat /\ Len(failures'[w]) \in Nat /\ Allowed(w) \in Nat
  BY CountsAreFinite
<1> QED
  BY <1>1, <1>2 DEF WithinRestarts

LEMMA OneRestart ==
  ASSUME IsFiniteSet(Pods), TypeOK, TypeOK', NEW w \in Workloads, WithinRestarts(w), NEW x,
         Uncounted(w)' \subseteq Uncounted(w) \cup {x}, OnDisk(w)' \subseteq OnDisk(w),
         Len(failures'[w]) <= Len(failures[w]), Allowed(w)' = Allowed(w) + 1
  PROVE  WithinRestarts(w)'
<1>1. IsFiniteSet(Uncounted(w)) /\ IsFiniteSet(OnDisk(w))
  BY CountsAreFinite
<1>2. IsFiniteSet(Uncounted(w) \cup {x}) /\ Cardinality(Uncounted(w) \cup {x}) <= Cardinality(Uncounted(w)) + 1
      /\ Cardinality(Uncounted(w)) \in Nat
  BY <1>1, OneMore
<1>3. /\ Cardinality(Uncounted(w)') <= Cardinality(Uncounted(w)) + 1
      /\ Cardinality(OnDisk(w)') <= Cardinality(OnDisk(w))
      /\ Cardinality(Uncounted(w)') \in Nat
      /\ Cardinality(OnDisk(w)) \in Nat /\ Cardinality(OnDisk(w)') \in Nat
  <2>1. Cardinality(Uncounted(w)') <= Cardinality(Uncounted(w) \cup {x})
        /\ Cardinality(Uncounted(w)') \in Nat /\ Cardinality(Uncounted(w) \cup {x}) \in Nat
    BY <1>2, Fewer
  <2>2. /\ Cardinality(OnDisk(w)') <= Cardinality(OnDisk(w))
        /\ Cardinality(OnDisk(w)) \in Nat /\ Cardinality(OnDisk(w)') \in Nat
    BY <1>1, Fewer
  <2> QED
    BY <1>2, <2>1, <2>2
<1>4. Len(failures[w]) \in Nat /\ Len(failures'[w]) \in Nat /\ Allowed(w) \in Nat
  BY CountsAreFinite
<1>5. Len(failures[w]) + Cardinality(Uncounted(w)) <= Allowed(w)
      /\ Cardinality(OnDisk(w)) + Cardinality(Uncounted(w)) <= Allowed(w)
  BY DEF WithinRestarts
<1>6. Len(failures'[w]) + Cardinality(Uncounted(w)') <= Allowed(w)'
  BY <1>2, <1>3, <1>4, <1>5, SMTT(30)
<1>7. Cardinality(OnDisk(w)') + Cardinality(Uncounted(w)') <= Allowed(w)'
  BY <1>2, <1>3, <1>4, <1>5, SMTT(30)
<1> QED
  BY <1>6, <1>7 DEF WithinRestarts

LEMMA OneFailure ==
  ASSUME IsFiniteSet(Pods), TypeOK, TypeOK', NEW w \in Workloads, WithinRestarts(w),
         NEW x \in Uncounted(w), NEW t,
         Uncounted(w)' \subseteq Uncounted(w) \ {x}, OnDisk(w)' \subseteq OnDisk(w) \cup {t},
         Len(failures'[w]) <= Len(failures[w]) + 1, Allowed(w)' = Allowed(w)
  PROVE  WithinRestarts(w)'
<1>1. IsFiniteSet(Uncounted(w)) /\ IsFiniteSet(OnDisk(w))
  BY CountsAreFinite
<1>2. IsFiniteSet(Uncounted(w) \ {x}) /\ Cardinality(Uncounted(w) \ {x}) = Cardinality(Uncounted(w)) - 1
      /\ Cardinality(Uncounted(w)) \in Nat
  BY <1>1, FS_RemoveElement, FS_CardinalityType
<1>3. IsFiniteSet(OnDisk(w) \cup {t}) /\ Cardinality(OnDisk(w) \cup {t}) <= Cardinality(OnDisk(w)) + 1
      /\ Cardinality(OnDisk(w)) \in Nat
  BY <1>1, OneMore
<1>4. Cardinality(Uncounted(w)') <= Cardinality(Uncounted(w) \ {x}) /\ Cardinality(Uncounted(w)') \in Nat
  BY <1>2, Fewer
<1>5. Cardinality(OnDisk(w)') <= Cardinality(OnDisk(w) \cup {t})
      /\ Cardinality(OnDisk(w)') \in Nat /\ Cardinality(OnDisk(w) \cup {t}) \in Nat
  BY <1>3, Fewer
<1>6. Len(failures[w]) \in Nat /\ Len(failures'[w]) \in Nat /\ Allowed(w) \in Nat
  BY CountsAreFinite
<1>7. /\ Cardinality(Uncounted(w)') <= Cardinality(Uncounted(w)) - 1
      /\ Cardinality(OnDisk(w)') <= Cardinality(OnDisk(w)) + 1
  BY <1>2, <1>3, <1>4, <1>5
<1> HIDE DEF WithinRestarts
<1>8. /\ Len(failures[w]) + Cardinality(Uncounted(w)) <= Allowed(w)
      /\ Cardinality(OnDisk(w)) + Cardinality(Uncounted(w)) <= Allowed(w)
  BY DEF WithinRestarts
<1>9. Len(failures'[w]) + Cardinality(Uncounted(w)') <= Allowed(w)'
  BY <1>2, <1>4, <1>6, <1>7, <1>8
<1>10. Cardinality(OnDisk(w)') + Cardinality(Uncounted(w)') <= Allowed(w)'
  BY <1>2, <1>3, <1>4, <1>5, <1>6, <1>7, <1>8
<1> QED
  BY <1>9, <1>10 DEF WithinRestarts

LEMMA OwedIsUncounted ==
  ASSUME NEW w \in Workloads,
         \A p \in Pods, i \in 1..MaxRestarts : Owed(p, i)' => Owed(p, i)
  PROVE  Uncounted(w)' \subseteq Uncounted(w)
<1> HIDE DEF Owed
<1> QED
  BY DEF Uncounted

LEMMA CountedStarts ==
  ASSUME IsFiniteSet(Pods), Init
  PROVE  CountedInv
<1> USE FailureHistoryAssumption DEF Init
<1>1. DOMAIN poll.left = {}
  BY DEF NoPoll, NoReadings
<1>2. ASSUME NEW w \in Workloads PROVE WithinRestarts(w)
  <2>1. \A p \in Pods, i \in 1..MaxRestarts : ~Owed(p, i)
    BY <1>1 DEF Owed, Latest
  <2>2. Uncounted(w) = {}
    BY <2>1 DEF Uncounted
  <2>3. OnDisk(w) = {}
    BY DEF OnDisk, Times
  <2>4. Len(failures[w]) = 0 /\ Allowed(w) = 0 /\ Cardinality({}) = 0
    BY FS_EmptySet DEF Allowed
  <2> QED
    BY <2>2, <2>3, <2>4 DEF WithinRestarts
<1> QED
  BY <1>1, <1>2 DEF CountedInv

(* What the cluster and the poll do outside of an observation.              *)
LEMMA ClusterCounts ==
  ASSUME IsFiniteSet(Pods), TypeOK, TypeOK', CountedInv,
         Tick \/ \E p \in Pods : PodRestarts(p) \/ PodReplaced(p)
  PROVE  CountedInv'
<1> USE FailureHistoryAssumption
<1>1. UNCHANGED <<trackerVars, diskVars, poll, unsaved>>
  BY DEF Tick, PodRestarts, PodReplaced
<1>2. ASSUME NEW w \in Workloads
      PROVE  OnDisk(w)' \subseteq OnDisk(w) /\ Len(failures'[w]) <= Len(failures[w])
  <2>1. failures[w] \in Seq(Times)
    BY DEF TypeOK
  <2> QED
    BY <1>1, <2>1 DEF OnDisk, trackerVars, diskVars
<1>3. \A p \in Pods : count[p] \in 0..MaxRestarts /\ count'[p] \in 0..MaxRestarts
  BY DEF TypeOK
<1>4. CASE Tick \/ \E p \in Pods : PodReplaced(p)
  <2>1. \A p \in Pods : count'[p] = count[p] \/ count'[p] = 0
    BY <1>4 DEF Tick, PodReplaced, TypeOK
  <2>2. \A w : Allowed(w)' = Allowed(w)
    BY <1>4 DEF Tick, PodReplaced, Allowed
  <2>3. ASSUME NEW p \in Pods, NEW i \in 1..MaxRestarts, Owed(p, i)'
        PROVE  Owed(p, i)
    BY <1>1, <1>3, <2>1, <2>3 DEF Owed, Latest, trackerVars
  <2>4. ASSUME NEW w \in Workloads PROVE WithinRestarts(w)'
    <3>1. Uncounted(w)' \subseteq Uncounted(w)
      BY <2>3, OwedIsUncounted
    <3> QED
      BY <1>2, <2>2, <3>1, NothingCounted DEF CountedInv
  <2> QED
    BY <1>1, <2>4 DEF CountedInv
<1>5. ASSUME NEW q \in Pods, PodRestarts(q)
      PROVE  CountedInv'
  <2> DEFINE x == <<q, count[q] + 1>>
  <2>1. /\ count' = [count EXCEPT ![q] = @ + 1]
        /\ restarted' = [restarted EXCEPT ![Owner[q]] = @ + 1]
    BY <1>5 DEF PodRestarts
  <2>2. \A p \in Pods : count'[p] = IF p = q THEN count[q] + 1 ELSE count[p]
    BY <2>1 DEF TypeOK
  <2>3. ASSUME NEW p \in Pods, NEW i \in 1..MaxRestarts, Owed(p, i)',
               ~(p = q /\ i = count[q] + 1)
        PROVE  Owed(p, i)
    BY <1>1, <1>3, <2>2, <2>3 DEF Owed, Latest, trackerVars
  <2>4. ASSUME NEW w \in Workloads PROVE WithinRestarts(w)'
    <3>1. CASE w = Owner[q]
      <4>1. Uncounted(w)' \subseteq Uncounted(w) \cup {x}
        <5> HIDE DEF Owed
        <5>1. ASSUME NEW r \in Pods \X (1..MaxRestarts), r # x, Owed(r[1], r[2])'
              PROVE  Owed(r[1], r[2])
          <6>1. r = <<r[1], r[2]>> /\ r[1] \in Pods /\ r[2] \in 1..MaxRestarts
            OBVIOUS
          <6>2. ~(r[1] = q /\ r[2] = count[q] + 1)
            BY <5>1, <6>1
          <6> QED
            BY <2>3, <5>1, <6>1, <6>2
        <5> HIDE DEF x
        <5> QED
          BY <5>1 DEF Uncounted
      <4>2. Allowed(w)' = Allowed(w) + 1
        <5>1. restarted'[w] = restarted[w] + 1 /\ missed' = missed
          BY <1>5, <2>1, <3>1 DEF PodRestarts, TypeOK
        <5>2. restarted[w] \in Int /\ missed[w] \in Int
          BY DEF TypeOK
        <5> QED
          BY <5>1, <5>2 DEF Allowed
      <4>3. WithinRestarts(w)
        BY DEF CountedInv
      <4> HIDE DEF x
      <4> QED
        BY <1>2, <4>1, <4>2, <4>3, OneRestart
    <3>2. CASE w # Owner[q]
      <4>1. Uncounted(w)' \subseteq Uncounted(w)
        <5> HIDE DEF Owed
        <5>1. ASSUME NEW r \in Pods \X (1..MaxRestarts), Owner[r[1]] = w, Owed(r[1], r[2])'
              PROVE  Owed(r[1], r[2])
          <6>1. r[1] \in Pods /\ r[2] \in 1..MaxRestarts /\ r[1] # q
            BY <3>2, <5>1
          <6> QED
            BY <2>3, <5>1, <6>1
        <5> QED
          BY <5>1 DEF Uncounted
      <4>2. Allowed(w)' = Allowed(w)
        <5>1. restarted'[w] = restarted[w] /\ missed' = missed
          BY <1>5, <2>1, <3>2 DEF PodRestarts, TypeOK
        <5> QED
          BY <5>1 DEF Allowed
      <4> QED
        BY <1>2, <4>1, <4>2, NothingCounted DEF CountedInv
    <3> QED
      BY <3>1, <3>2
  <2> QED
    BY <1>1, <2>4 DEF CountedInv
<1> QED
  BY <1>4, <1>5

LEMMA PollCounts ==
  ASSUME IsFiniteSet(Pods), TypeOK, TypeOK', CountedInv,
         PollEnd \/ SaveFailure \/ \E v \in Workloads : NoteForecast(v)
  PROVE  CountedInv'
<1> USE FailureHistoryAssumption
<1>1. UNCHANGED <<clock, count, restarted, missed, failures>>
  BY DEF PollEnd, SaveFailure, NoteForecast, trackerVars
<1>2. ASSUME NEW w \in Workloads
      PROVE  OnDisk(w)' \subseteq OnDisk(w) /\ Len(failures'[w]) <= Len(failures[w])
  <2>1. failures[w] \in Seq(Times)
    BY DEF TypeOK
  <2>2. CASE SaveFailure
    <3>1. saved' = saved \/ saved' = [saved EXCEPT ![unsaved[1]] = @ \cup {unsaved[2]}]
      BY <2>2 DEF SaveFailure
    <3>2. unsaved' = None /\ unsaved \in Failure
      BY <2>2 DEF SaveFailure, TypeOK
    <3>3. saved'[w] \subseteq saved[w] \cup {t \in Times : unsaved = <<w, t>>}
      <4>1. PICK v \in Workloads, at \in Times : unsaved = <<v, at>>
        BY <3>2 DEF Failure
      <4>2. saved'[w] \subseteq saved[w] \cup (IF v = w THEN {at} ELSE {})
        <5>1. unsaved[1] = v /\ unsaved[2] = at /\ saved \in [Workloads -> SUBSET Times]
          BY <4>1 DEF TypeOK
        <5> QED
          BY <3>1, <5>1
      <4> QED
        BY <4>1, <4>2
    <3>4. \A t \in Times : unsaved' # <<w, t>>
      BY <3>2 DEF Times
    <3> QED
      BY <1>1, <2>1, <3>3, <3>4 DEF OnDisk
  <2>3. CASE ~SaveFailure
    <3>1. UNCHANGED <<saved, unsaved>>
      BY <2>3 DEF PollEnd, NoteForecast, diskVars
    <3> QED
      BY <1>1, <2>1, <3>1 DEF OnDisk
  <2> QED
    BY <2>2, <2>3
<1>3. \A p \in Pods : count[p] \in 0..MaxRestarts
  BY DEF TypeOK
<1>4. /\ ~poll'.open => DOMAIN poll'.left = {}
      /\ \A p \in Pods, i \in 1..MaxRestarts : Owed(p, i)' => Owed(p, i)
  <2>2. CASE PollEnd
    <3>1. DOMAIN poll.left = {} /\ poll'.left = poll.left
      BY <2>2 DEF PollEnd, NoReadings, TypeOK
    <3>2. \A p \in Pods : pods'[p] = None \/ pods'[p] = pods[p]
      BY <2>2 DEF PollEnd
    <3>3. ASSUME NEW p \in Pods, NEW i \in 1..MaxRestarts, Owed(p, i)'
          PROVE  Owed(p, i)
      BY <1>1, <1>3, <3>1, <3>2, <3>3 DEF Owed, Latest
    <3> QED
      BY <3>1, <3>3
  <2>3. CASE SaveFailure \/ \E v \in Workloads : NoteForecast(v)
    <3>1. UNCHANGED <<poll, pods>>
      BY <2>3 DEF SaveFailure, NoteForecast, trackerVars
    <3>2. \A p \in Pods, i \in 1..MaxRestarts : Owed(p, i)' <=> Owed(p, i)
      BY <1>1, <3>1 DEF Owed, Latest
    <3>3. ~poll.open => DOMAIN poll.left = {}
      BY DEF CountedInv
    <3> HIDE DEF Owed
    <3> QED
      BY <3>1, <3>2, <3>3
  <2> QED
    BY <2>2, <2>3
<1>5. ASSUME NEW w \in Workloads PROVE WithinRestarts(w)'
  <2>1. Uncounted(w)' \subseteq Uncounted(w)
    BY <1>4, OwedIsUncounted
  <2>2. WithinRestarts(w)
    BY DEF CountedInv
  <2>3. Allowed(w)' = Allowed(w)
    BY <1>1 DEF Allowed
  <2> QED
    BY <1>2, <2>1, <2>2, <2>3, NothingCounted
<1> QED
  BY <1>4, <1>5 DEF CountedInv

(* A poll that misreads the counters of some pods: each of them may be      *)
(* taken for a failure once more.                                          *)
LEMMA MoreUncounted ==
  ASSUME NEW U, IsFiniteSet(U), NEW M, IsFiniteSet(M), NEW f, NEW V,
         V \subseteq U \cup {<<p, f[p]>> : p \in M}
  PROVE  /\ Cardinality(V) <= Cardinality(U) + Cardinality(M)
         /\ Cardinality(V) \in Nat /\ Cardinality(U) \in Nat /\ Cardinality(M) \in Nat
<1> DEFINE I == {<<p, f[p]>> : p \in M}
           g == [p \in M |-> <<p, f[p]>>]
<1>1. g \in Surjection(M, I)
  <2>1. g \in [M -> I]
    OBVIOUS
  <2>2. \A y \in I : \E p \in M : g[p] = y
    OBVIOUS
  <2> QED
    BY <2>1, <2>2 DEF Surjection
<1> HIDE DEF g, I
<1>2. IsFiniteSet(I) /\ Cardinality(I) <= Cardinality(M)
  BY <1>1, FS_Surjection
<1>3. IsFiniteSet(U \cup I) /\ Cardinality(U \cup I) = Cardinality(U) + Cardinality(I) - Cardinality(U \cap I)
  BY <1>2, FS_Union
<1>4. IsFiniteSet(U \cap I)
  BY <1>2, FS_Subset
<1>5. /\ Cardinality(U) \in Nat /\ Cardinality(I) \in Nat /\ Cardinality(U \cap I) \in Nat
      /\ Cardinality(M) \in Nat
  BY <1>2, <1>4, FS_CardinalityType
<1>6. V \subseteq U \cup I
  BY DEF I
<1>7. Cardinality(V) <= Cardinality(U \cup I) /\ Cardinality(V) \in Nat
  BY <1>3, <1>6, Fewer
<1> QED
  BY <1>2, <1>3, <1>5, <1>7

LEMMA SamplesCount ==
  ASSUME IsFiniteSet(Pods), TypeOK, TypeOK', CountedInv, PollStart
  PROVE  CountedInv'
<1> USE FailureHistoryAssumption
<1>1. UNCHANGED <<clock, count, restarted, failures, saved, unsaved, pods>>
  BY DEF PollStart, trackerVars, diskVars
<1>2. DOMAIN poll.left = {}
  BY DEF PollStart, CountedInv
<1>3. PICK r \in Readings : /\ \A p \in DOMAIN r : r[p] \in Reading(p)
                            /\ poll' = [at |-> clock, open |-> TRUE, left |-> r]
                            /\ missed' = [w \in Workloads |-> missed[w] + Cardinality(Misread(r, w))]
  BY DEF PollStart
<1>4. DOMAIN r \subseteq Pods /\ \A p \in DOMAIN r : r[p] = count[p] \/ r[p] = 0
  BY <1>3 DEF Readings, Reading
<1>5. \A p \in Pods : count[p] \in 0..MaxRestarts
  BY DEF TypeOK
<1>6. ASSUME NEW p \in Pods, NEW i \in 1..MaxRestarts, Owed(p, i)'
      PROVE  Owed(p, i) \/ (p \in DOMAIN r /\ r[p] # count[p] /\ i = count[p])
  <2>1. CASE p \notin DOMAIN r
    BY <1>1, <1>2, <1>3, <1>6, <2>1 DEF Owed, Latest
  <2>2. CASE p \in DOMAIN r /\ r[p] = count[p]
    <3>1. pods[p] # None /\ pods[p].restarts < i /\ i = count[p]
      BY <1>1, <1>3, <1>5, <1>6, <2>2 DEF Owed, Latest
    <3> QED
      BY <1>2, <3>1 DEF Owed, Latest
  <2>3. CASE p \in DOMAIN r /\ r[p] # count[p]
    <3>1. r[p] = 0
      BY <1>4, <2>3
    <3>2. i = r[p] => pods[p] = None \/ pods[p].restarts \notin Nat \/ ~(pods[p].restarts < i)
      BY <3>1
    <3>3. pods[p] = None \/ pods[p].restarts \in Nat
      BY DEF TypeOK
    <3>4. i = count[p]
      BY <1>1, <1>3, <1>6, <2>3, <3>2, <3>3 DEF Owed
    <3> QED
      BY <2>3, <3>4
  <2> QED
    BY <2>1, <2>2, <2>3
<1>7. ASSUME NEW w \in Workloads PROVE WithinRestarts(w)'
  <2> DEFINE M == Misread(r, w)
  <2>1. IsFiniteSet(M)
    <3>1. M \subseteq Pods
      BY <1>4 DEF Misread
    <3> QED
      BY <3>1, FS_Subset
  <2>2. Uncounted(w)' \subseteq Uncounted(w) \cup {<<p, count[p]>> : p \in M}
    <3> HIDE DEF Owed
    <3> SUFFICES ASSUME NEW x \in Uncounted(w)', x \notin Uncounted(w)
                 PROVE  x \in {<<p, count[p]>> : p \in M}
      OBVIOUS
    <3>1. PICK p \in Pods, i \in 1..MaxRestarts : x = <<p, i>> /\ Owner[p] = w /\ Owed(p, i)'
      BY DEF Uncounted
    <3>2. ~Owed(p, i)
      BY <3>1 DEF Uncounted
    <3>3. p \in DOMAIN r /\ r[p] # count[p] /\ i = count[p]
      BY <1>6, <3>1, <3>2
    <3>4. p \in M
      BY <3>1, <3>3 DEF Misread
    <3> QED
      BY <3>1, <3>3, <3>4
  <2> HIDE DEF M
  <2>3. /\ IsFiniteSet(Uncounted(w)) /\ Allowed(w) \in Nat /\ Len(failures[w]) \in Nat
        /\ IsFiniteSet(OnDisk(w))
    BY CountsAreFinite
  <2>4. /\ Cardinality(Uncounted(w)') <= Cardinality(Uncounted(w)) + Cardinality(M)
        /\ Cardinality(Uncounted(w)') \in Nat /\ Cardinality(Uncounted(w)) \in Nat /\ Cardinality(M) \in Nat
    BY <2>1, <2>2, <2>3, MoreUncounted
  <2>5. Allowed(w)' = Allowed(w) + Cardinality(M)
    <3>1. missed'[w] = missed[w] + Cardinality(M)
      BY <1>3 DEF M
    <3>2. restarted'[w] = restarted[w] /\ restarted[w] \in Int /\ missed[w] \in Int
      BY <1>1 DEF TypeOK
    <3> QED
      BY <2>4, <3>1, <3>2 DEF Allowed
  <2>6. OnDisk(w)' = OnDisk(w) /\ failures'[w] = failures[w]
    BY <1>1 DEF OnDisk
  <2>7. Cardinality(OnDisk(w)) \in Nat
    BY <2>3, FS_CardinalityType
  <2>8. /\ Len(failures[w]) + Cardinality(Uncounted(w)) <= Allowed(w)
        /\ Cardinality(OnDisk(w)) + Cardinality(Uncounted(w)) <= Allowed(w)
    BY DEF CountedInv, WithinRestarts
  <2>9. Len(failures'[w]) + Cardinality(Uncounted(w)') <= Allowed(w)'
    BY <2>3, <2>4, <2>5, <2>6, <2>8
  <2>10. Cardinality(OnDisk(w)') + Cardinality(Uncounted(w)') <= Allowed(w)'
    BY <2>3, <2>4, <2>5, <2>6, <2>7, <2>8
  <2> QED
    BY <2>9, <2>10 DEF WithinRestarts
<1> QED
  BY <1>3, <1>7 DEF CountedInv

(* A new engine knows no pod, and as many failures as it found on disk.     *)
LEMMA RestartCounts ==
  ASSUME IsFiniteSet(Pods), TypeOK, TypeOK', CountedInv, Restart
  PROVE  CountedInv'
<1> USE FailureHistoryAssumption
<1>1. /\ UNCHANGED <<count, restarted, missed, saved>>
      /\ unsaved' = None
      /\ pods' = [p \in Pods |-> None]
      /\ DOMAIN poll'.left = {}
  BY DEF Restart, diskVars, NoPoll, NoReadings
<1>2. ASSUME NEW w \in Workloads PROVE WithinRestarts(w)'
  <2>1. Uncounted(w)' = {}
    <3>1. \A p \in Pods, i \in 1..MaxRestarts : ~Owed(p, i)'
      BY <1>1, SMTT(30) DEF Owed, Latest, TypeOK
    <3> HIDE DEF Owed
    <3> QED
      BY <3>1 DEF Uncounted
  <2>2. /\ Kept(saved[w]) \subseteq OnDisk(w)
        /\ OnDisk(w)' \subseteq OnDisk(w)
    BY <1>1 DEF Kept, OnDisk, Times
  <2>3. Len(failures'[w]) = Cardinality(Kept(saved[w]))
    <3>1. failures'[w] \in OldestFirst(Kept(saved[w]))
      BY DEF Restart
    <3>2. DOMAIN failures'[w] = 1..Cardinality(Kept(saved[w]))
      BY <3>1 DEF OldestFirst
    <3>3. failures'[w] \in Seq(Times)
      BY DEF TypeOK
    <3>4. Cardinality(Kept(saved[w])) \in Nat
      BY <2>2, CountsAreFinite, Fewer
    <3> QED
      BY <3>2, <3>3, <3>4
  <2>4. /\ Cardinality(Kept(saved[w])) <= Cardinality(OnDisk(w))
        /\ Cardinality(OnDisk(w)') <= Cardinality(OnDisk(w))
        /\ Cardinality(OnDisk(w)) \in Nat /\ Cardinality(OnDisk(w)') \in Nat
        /\ Cardinality(Kept(saved[w])) \in Nat
    <3>1. IsFiniteSet(OnDisk(w))
      BY CountsAreFinite
    <3> QED
      BY <2>2, <3>1, Fewer
  <2>5. /\ Cardinality(Uncounted(w)) \in Nat
        /\ Cardinality(Uncounted(w)') = 0
        /\ Allowed(w) \in Nat
    <3>1. IsFiniteSet(Uncounted(w)) /\ Allowed(w) \in Nat
      BY CountsAreFinite
    <3> QED
      BY <2>1, <3>1, FS_EmptySet, FS_CardinalityType
  <2>6. Cardinality(OnDisk(w)) + Cardinality(Uncounted(w)) <= Allowed(w)
    BY DEF CountedInv, WithinRestarts
  <2>9. Allowed(w)' = Allowed(w)
    BY <1>1 DEF Allowed
  <2>7. Len(failures'[w]) + Cardinality(Uncounted(w)') <= Allowed(w)'
    BY <2>3, <2>4, <2>5, <2>6, <2>9
  <2>8. Cardinality(OnDisk(w)') + Cardinality(Uncounted(w)') <= Allowed(w)'
    BY <2>4, <2>5, <2>6, <2>9
  <2> QED
    BY <2>7, <2>8 DEF WithinRestarts
<1> QED
  BY <1>1, <1>2 DEF CountedInv

LEMMA TrimAddsOne ==
  ASSUME NEW S, NEW s \in Seq(S), NEW x \in S, NEW limit \in Nat \ {0}
  PROVE  Len(Trim(Append(s, x), limit)) <= Len(s) + 1
<1>1. Append(s, x) \in Seq(S) /\ Len(Append(s, x)) = Len(s) + 1
  OBVIOUS
<1> DEFINE longer == Append(s, x)
<1>2. longer \in Seq(S) /\ Len(longer) = Len(s) + 1 /\ Len(s) \in Nat
  BY <1>1
<1> HIDE DEF longer
<1>3. CASE Len(longer) > limit
  <2>1. Trim(longer, limit) = SubSeq(longer, Len(longer) - limit + 1, Len(longer))
    BY <1>3 DEF Trim, Newest
  <2>2. Len(SubSeq(longer, Len(longer) - limit + 1, Len(longer))) = limit
    BY <1>2, <1>3
  <2> QED
    BY <1>2, <1>3, <2>1, <2>2 DEF longer
<1>4. CASE ~(Len(longer) > limit)
  BY <1>2, <1>4 DEF Trim
<1> QED
  BY <1>3, <1>4 DEF longer

(* The reading of a pod counts the restarts up to it as one failure.        *)
LEMMA ObserveCounts ==
  ASSUME IsFiniteSet(Pods), HistoryInv, TypeOK', CountedInv, NEW p \in Pods, Observe(p)
  PROVE  CountedInv'
<1> USE FailureHistoryAssumption
<1>1. TypeOK /\ Owner[p] \in Workloads
  BY DEF HistoryInv
<1>2. /\ UNCHANGED <<count, restarted, missed>>
      /\ unsaved = None
      /\ p \in DOMAIN poll.left
      /\ pods' = [pods EXCEPT ![p] = [restarts |-> poll.left[p], seen |-> poll.at]]
      /\ poll' = [poll EXCEPT !.left = Restrict(@, DOMAIN @ \ {p})]
  BY DEF Observe
<1>3. /\ pods'[p] = [restarts |-> poll.left[p], seen |-> poll.at]
      /\ \A q \in Pods : q # p => pods'[q] = pods[q]
  BY <1>1, <1>2 DEF TypeOK
<1>4. /\ poll'.open = poll.open
      /\ DOMAIN poll'.left = DOMAIN poll.left \ {p}
      /\ \A q \in DOMAIN poll'.left : poll'.left[q] = poll.left[q]
  BY <1>1, <1>2 DEF TypeOK, Restrict
<1>5. poll.left[p] \in 0..MaxRestarts
  <2>1. poll.left \in Readings
    BY <1>1 DEF TypeOK
  <2> QED
    BY <1>2, <2>1 DEF Readings
<1>6. ASSUME NEW q \in Pods, NEW i \in 1..MaxRestarts, Owed(q, i)'
      PROVE  Owed(q, i) /\ ~(q = p /\ i = poll.left[p])
  <2>1. CASE q = p
    <3>1. p \notin DOMAIN poll'.left
      BY <1>4
    <3>2. Latest(p)' = poll.left[p] \/ Latest(p)' = count'[p]
      BY <1>3, <3>1 DEF Latest
    <3>3. Latest(p)' < i /\ i = count'[p]
      BY <1>6, <2>1, <3>1 DEF Owed
    <3>4. count'[p] \in Int /\ poll.left[p] \in Int
      BY <1>1, <1>2, <1>5 DEF TypeOK
    <3>5. poll.left[p] < i /\ i = count[p]
      BY <1>2, <3>2, <3>3, <3>4
    <3>6. Latest(p) = poll.left[p]
      BY <1>2 DEF Latest
    <3> QED
      BY <2>1, <3>4, <3>5, <3>6 DEF Owed
  <2>2. CASE q # p
    BY <1>2, <1>3, <1>4, <1>6, <2>2 DEF Owed, Latest
  <2> QED
    BY <2>1, <2>2
<1>7. ASSUME NEW w \in Workloads PROVE WithinRestarts(w)'
  <2>1. Uncounted(w)' \subseteq Uncounted(w)
    BY <1>6, OwedIsUncounted
  <2>2. WithinRestarts(w) /\ Allowed(w)' = Allowed(w)
    BY <1>2 DEF CountedInv, Allowed
  <2>3. failures[w] \in Seq(Times)
    BY <1>1 DEF TypeOK
  <2>4. CASE w = Owner[p] /\ Grew(p, poll.left[p])
    <3> DEFINE x == <<p, poll.left[p]>>
    <3>1. poll.at \in Times
      BY <1>2 DEF HistoryInv, PollInv
    <3>2. /\ failures' = [failures EXCEPT ![w] = Trim(Append(@, poll.at), HistoryLimit)]
          /\ unsaved' = <<w, poll.at>> /\ saved' = saved
      BY <2>4 DEF Observe, RecordFailure
    <3>3. Len(failures'[w]) <= Len(failures[w]) + 1
      <4>1. failures'[w] = Trim(Append(failures[w], poll.at), HistoryLimit)
        BY <1>1, <3>2 DEF TypeOK
      <4> QED
        BY <2>3, <3>1, <4>1, TrimAddsOne
    <3>4. OnDisk(w)' \subseteq OnDisk(w) \cup {poll.at}
      BY <3>2 DEF OnDisk
    <3>5. x \in Uncounted(w)
      <4>1. pods[p] # None /\ pods[p].restarts < poll.left[p] /\ pods[p].restarts \in Nat
        BY <1>1, <2>4 DEF Grew, TypeOK
      <4>2. Owed(p, poll.left[p]) /\ poll.left[p] \in 1..MaxRestarts
        BY <1>2, <1>5, <4>1 DEF Owed
      <4> HIDE DEF Owed
      <4> QED
        BY <2>4, <4>2 DEF Uncounted
    <3>6. x \notin Uncounted(w)'
      <4> HIDE DEF Owed
      <4>1. SUFFICES ASSUME NEW r \in Uncounted(w)' PROVE r # x
        OBVIOUS
      <4>2. r[1] \in Pods /\ r[2] \in 1..MaxRestarts /\ Owed(r[1], r[2])'
        BY DEF Uncounted
      <4>3. ~(r[1] = p /\ r[2] = poll.left[p])
        BY <1>6, <4>2
      <4> QED
        BY <4>3
    <3> HIDE DEF x
    <3>7. Uncounted(w)' \subseteq Uncounted(w) \ {x}
      BY <2>1, <3>6
    <3> QED
      BY <1>1, <2>2, <3>3, <3>4, <3>5, <3>7, OneFailure
  <2>5. CASE ~(w = Owner[p] /\ Grew(p, poll.left[p]))
    <3>1. failures'[w] = failures[w] /\ saved' = saved
      BY <1>1, <2>5, SMTT(30) DEF Observe, RecordFailure, diskVars, TypeOK
    <3>2. \A t \in Times : unsaved' # <<w, t>>
      <4>1. unsaved' = None \/ (w # Owner[p] /\ unsaved' = <<Owner[p], poll.at>>)
        BY <1>2, <2>5 DEF Observe, RecordFailure
      <4> QED
        BY <4>1 DEF Times
    <3>3. OnDisk(w)' \subseteq OnDisk(w)
      BY <3>1, <3>2 DEF OnDisk
    <3>4. Len(failures'[w]) <= Len(failures[w])
      BY <2>3, <3>1
    <3> QED
      BY <1>1, <2>1, <2>2, <3>3, <3>4, NothingCounted
  <2> QED
    BY <2>4, <2>5
<1>8. ~poll'.open => DOMAIN poll'.left = {}
  BY <1>2, <1>4 DEF CountedInv
<1> QED
  BY <1>7, <1>8 DEF CountedInv

LEMMA CountedStep ==
  ASSUME IsFiniteSet(Pods)
  PROVE  HistoryInv /\ HistoryInv' /\ CountedInv /\ [Next]_vars => CountedInv'
<1> SUFFICES ASSUME HistoryInv, HistoryInv', CountedInv, [Next]_vars PROVE CountedInv'
  OBVIOUS
<1>1. TypeOK /\ TypeOK'
  BY DEF HistoryInv
<1>2. CASE UNCHANGED vars
  <2>1. UNCHANGED <<poll, pods, count, restarted, missed, saved, unsaved, failures>>
    BY <1>2 DEF vars, trackerVars, diskVars
  <2>2. ASSUME NEW w \in Workloads PROVE WithinRestarts(w)'
    <3>1. Uncounted(w)' = Uncounted(w) /\ OnDisk(w)' = OnDisk(w)
      BY <2>1 DEF Uncounted, OnDisk, Owed, Latest
    <3>2. Allowed(w)' = Allowed(w)
      BY <2>1 DEF Allowed
    <3> QED
      BY <2>1, <3>1, <3>2 DEF CountedInv, WithinRestarts
  <2> QED
    BY <2>1, <2>2 DEF CountedInv
<1>3. CASE Next
  BY <1>1, <1>3, ClusterCounts, SamplesCount, PollCounts, RestartCounts, ObserveCounts DEF Next
<1> QED
  BY <1>2, <1>3

(***************************************************************************)
(* NoPhantomFailure: the failures counted against a workload are never     *)
(* more than the restarts its pods really had and the samples that were    *)
(* missing and read as zero (sources/thanos.go:336), one for each,         *)
(* whatever is polled, pruned, replaced, saved or restored in whatever     *)
(* order.  By itself the property is lost by the next reading: CountedInv  *)
(* also bounds the counters that the tracker has yet to take for a         *)
(* failure, at most one for each pod and reading, and what the store would *)
(* give back to a new engine.                                              *)
(***************************************************************************)
THEOREM NoFailureIsInvented == Spec => []NoPhantomFailure
<1>1. Init => CountedInv
  BY CountedStarts, FailureHistoryAssumption
<1>2. HistoryInv /\ HistoryInv' /\ CountedInv /\ [Next]_vars => CountedInv'
  BY CountedStep, FailureHistoryAssumption
<1>3. HistoryInv /\ CountedInv => NoPhantomFailure
  <2> SUFFICES ASSUME HistoryInv, CountedInv, NEW w \in Workloads
               PROVE  Len(failures[w]) <= restarted[w] + missed[w]
    BY DEF NoPhantomFailure
  <2>1. TypeOK
    BY DEF HistoryInv
  <2>2. /\ Cardinality(Uncounted(w)) \in Nat
        /\ Len(failures[w]) \in Nat /\ restarted[w] + missed[w] \in Nat
    <3>1. Uncounted(w) \subseteq Pods \X (1..MaxRestarts)
      BY DEF Uncounted
    <3>2. IsFiniteSet(1..MaxRestarts)
      BY FailureHistoryAssumption, FS_Interval
    <3>3. IsFiniteSet(Pods \X (1..MaxRestarts))
      BY <3>2, FailureHistoryAssumption, FS_Product
    <3>4. failures[w] \in Seq(Times) /\ restarted[w] \in 0..MaxRestarts /\ missed[w] \in Nat
      BY <2>1 DEF TypeOK
    <3> QED
      BY <3>1, <3>3, <3>4, Fewer
  <2> QED
    BY <2>2 DEF CountedInv, WithinRestarts, Allowed
<1> QED
  BY <1>1, <1>2, <1>3, HistoryInvariant, PTL DEF Spec

----------------------------------------------------------------------------
(***************************************************************************)
(* Memory and disk agree on the failures.                                  *)
(***************************************************************************)
Sorted(s) == \A i, j \in 1..Len(s) : i <= j => s[i] <= s[j]

(* The history of a workload is in order and not ahead of the poll, and the *)
(* failure that is being saved is the last one recorded.                   *)
SavedInv ==
  /\ \A w \in Workloads : Sorted(failures[w])
  /\ \A w \in Workloads : \A t \in Range(failures[w]) \cup saved[w] : t <= poll.at
  /\ unsaved # None => unsaved[2] \in Range(failures[unsaved[1]])
  /\ DiskHoldsHistory

(* A history that gets a time no earlier than its own stays in order; what  *)
(* the limit drops from it is older than all it keeps.                     *)
LEMMA TrimDropsOldest ==
  ASSUME NEW f \in Seq(Int), NEW at \in Int, NEW limit \in Nat \ {0},
         Sorted(f), \A t \in Range(f) : t <= at
  PROVE  LET g == Trim(Append(f, at), limit)
         IN  /\ Sorted(g)
             /\ at \in Range(g)
             /\ Range(g) \subseteq Range(f) \cup {at}
             /\ Len(f) >= limit => Len(g) >= limit
             /\ \A t \in Range(f) \ Range(g) :
                  Len(g) >= limit /\ \A u \in Range(g) : t < u
<1> DEFINE longer == Append(f, at)
           g == Trim(longer, limit)
           n == Len(f)
           d == IF n + 1 > limit THEN n + 1 - limit ELSE 0
<1>1. /\ n \in Nat /\ f \in [1..n -> Int]
      /\ longer \in Seq(Int) /\ Len(longer) = n + 1
      /\ \A i \in 1..n : longer[i] = f[i]
      /\ longer[n + 1] = at
  OBVIOUS
<1>2. \A i \in 1..n : f[i] \in Range(f) /\ f[i] <= at
  BY <1>1 DEF Range
<1> HIDE DEF longer
<1>3. d \in 0..n
  BY <1>1
<1>4. /\ Len(g) = n + 1 - d
      /\ g \in Seq(Int)
      /\ \A i \in 1..(n + 1 - d) : g[i] = longer[i + d]
  <2>1. CASE n + 1 > limit
    <3>0. Len(longer) = n + 1 /\ Len(longer) > limit
      BY <1>1, <2>1
    <3>1. g = SubSeq(longer, n + 1 - limit + 1, n + 1)
      <4>1. n \in Nat /\ longer \in Seq(Int)
        BY <1>1
      <4> HIDE DEF n
      <4>2. g = Newest(longer, limit)
        BY <3>0 DEF Trim
      <4>3. g = SubSeq(longer, Len(longer) - limit + 1, Len(longer))
        BY <4>2, Zenon DEF Newest
      <4> HIDE DEF g
      <4> QED
        BY <3>0, <4>1, <4>3
    <3>2. d = n + 1 - limit /\ d \in 0..n
      BY <1>1, <2>1
    <3> HIDE DEF g, d, n
    <3>3. g = SubSeq(longer, d + 1, n + 1) /\ n + 1 - d = limit
      BY <1>1, <3>1, <3>2
    <3>4. Len(g) = n + 1 - d /\ g \in Seq(Int)
      BY <1>1, <3>2, <3>3
    <3>5. \A i \in 1..(n + 1 - d) : g[i] = longer[i + d]
      BY <1>1, <3>2, <3>3
    <3> QED
      BY <3>4, <3>5
  <2>2. CASE ~(n + 1 > limit)
    <3>1. g = longer
      BY <1>1, <2>2 DEF Trim
    <3> QED
      BY <1>1, <2>2, <3>1
  <2> QED
    BY <2>1, <2>2
<1>5. /\ n >= limit => Len(g) >= limit
      /\ d # 0 => Len(g) >= limit
  BY <1>1, <1>4
<1> HIDE DEF g, d, n
<1>6. \A i, j \in 1..(n + 1) : i <= j => longer[i] <= longer[j]
  <2> SUFFICES ASSUME NEW i \in 1..(n + 1), NEW j \in 1..(n + 1), i <= j
               PROVE  longer[i] <= longer[j]
    OBVIOUS
  <2>1. CASE j = n + 1
    <3>1. CASE i = n + 1
      BY <1>1, <2>1, <3>1
    <3>2. CASE i \in 1..n
      BY <1>1, <1>2, <2>1, <3>2
    <3> QED
      BY <1>1, <3>1, <3>2
  <2>2. CASE j \in 1..n
    <3>1. i \in 1..n
      BY <1>1, <2>2
    <3> QED
      BY <1>1, <2>2, <3>1 DEF Sorted, n
  <2> QED
    BY <1>1, <2>1, <2>2
<1>7. \A i \in 1..(n + 1 - d) : i + d \in 1..(n + 1)
  BY <1>1, <1>3
<1>8. Sorted(g)
  <2> SUFFICES ASSUME NEW i \in 1..Len(g), NEW j \in 1..Len(g), i <= j
               PROVE  g[i] <= g[j]
    BY DEF Sorted
  <2>1. i + d \in 1..(n + 1) /\ j + d \in 1..(n + 1) /\ i + d <= j + d
    BY <1>1, <1>3, <1>4
  <2>2. longer[i + d] <= longer[j + d]
    BY <1>6, <2>1
  <2> QED
    BY <1>4, <2>2
<1>9. Range(g) = {longer[k] : k \in (d + 1)..(n + 1)}
  <2>1. Range(g) = {g[i] : i \in 1..(n + 1 - d)}
    BY <1>4 DEF Range
  <2>2. ASSUME NEW i \in 1..(n + 1 - d)
        PROVE  i + d \in (d + 1)..(n + 1) /\ g[i] = longer[i + d]
    BY <1>1, <1>3, <1>4
  <2>3. ASSUME NEW k \in (d + 1)..(n + 1)
        PROVE  k - d \in 1..(n + 1 - d) /\ g[k - d] = longer[k]
    <3>1. k - d \in 1..(n + 1 - d) /\ (k - d) + d = k
      BY <1>1, <1>3
    <3> QED
      BY <1>4, <3>1
  <2> HIDE DEF d, g, n
  <2>4. ASSUME NEW i \in 1..(n + 1 - d)
        PROVE  g[i] \in {longer[k] : k \in (d + 1)..(n + 1)}
    BY <2>2
  <2>5. ASSUME NEW k \in (d + 1)..(n + 1)
        PROVE  longer[k] \in {g[i] : i \in 1..(n + 1 - d)}
    BY <2>3
  <2> QED
    BY <2>1, <2>4, <2>5
<1>10. at \in Range(g)
  <2>1. n + 1 \in (d + 1)..(n + 1)
    BY <1>1, <1>3
  <2> QED
    BY <1>1, <1>9, <2>1
<1>11. Range(g) \subseteq Range(f) \cup {at}
  <2> SUFFICES ASSUME NEW k \in (d + 1)..(n + 1)
               PROVE  longer[k] \in Range(f) \cup {at}
    BY <1>9
  <2>1. k = n + 1 \/ k \in 1..n
    BY <1>1, <1>3
  <2> QED
    BY <1>1, <1>2, <2>1
<1>12. ASSUME NEW t \in Range(f), t \notin Range(g)
       PROVE  Len(g) >= limit /\ \A u \in Range(g) : t < u
  <2>1. PICK i \in 1..n : t = f[i]
    BY <1>1 DEF Range
  <2>2. i \notin (d + 1)..(n + 1)
    BY <1>1, <1>9, <1>12, <2>1
  <2>3. i <= d /\ d # 0
    BY <1>1, <1>3, <2>2
  <2>4. ASSUME NEW k \in (d + 1)..(n + 1) PROVE t < longer[k]
    <3>1. i \in 1..(n + 1) /\ k \in 1..(n + 1) /\ i <= k
      BY <1>1, <1>3, <2>3
    <3>2. t = longer[i] /\ longer[i] <= longer[k] /\ longer[k] \in Int /\ t \in Int
      BY <1>1, <1>6, <2>1, <3>1
    <3>3. longer[k] \in Range(g)
      BY <1>9
    <3> QED
      BY <1>12, <3>2, <3>3
  <2> QED
    BY <1>5, <1>9, <2>3, <2>4
<1> QED
  BY <1>5, <1>8, <1>10, <1>11, <1>12 DEF g, longer, n

(* What the store lists is all it was asked for, in order.                  *)
LEMMA ListedWhole ==
  ASSUME NEW S \in SUBSET Times, NEW s \in OldestFirst(S)
  PROVE  s \in Seq(Times) /\ Range(s) = S /\ Sorted(s)
<1> DEFINE n == Cardinality(S)
<1>1. IsFiniteSet(S) /\ n \in Nat /\ S \subseteq Int
  <2>1. IsFiniteSet(Times)
    BY FailureHistoryAssumption, FS_Interval DEF Times
  <2>2. IsFiniteSet(S)
    BY <2>1, FS_Subset
  <2>3. n \in Nat
    BY <2>2, FS_CardinalityType
  <2> QED
    BY <2>2, <2>3 DEF Times
<1> HIDE DEF n
<1>2. /\ s \in [1..n -> S]
      /\ \A i, j \in 1..n : i < j => s[i] < s[j]
  BY DEF OldestFirst, n
<1>3. s \in Seq(Times)
  BY ListedTimes
<1>4. s \in Injection(1..n, S)
  <2> SUFFICES ASSUME NEW i \in 1..n, NEW j \in 1..n, s[i] = s[j]
               PROVE  i = j
    BY <1>2 DEF Injection, IsInjective
  <2>1. s[i] \in Int
    BY <1>1, <1>2
  <2>2. i < j => s[i] < s[j]
    BY <1>2
  <2>3. j < i => s[j] < s[i]
    BY <1>2
  <2> QED
    BY <1>1, <2>1, <2>2, <2>3
<1>5. Cardinality(1..n) = Cardinality(S)
  <2>1. Cardinality(1..n) = n
    BY <1>1, FS_Interval
  <2> QED
    BY <2>1 DEF n
<1>6. s \in Surjection(1..n, S)
  BY <1>1, <1>4, <1>5, FS_Injection
<1>7. Range(s) = S
  BY <1>2, <1>6 DEF Surjection, Range
<1>8. Sorted(s)
  <2>1. Len(s) = n
    BY <1>1, <1>2, <1>3
  <2> SUFFICES ASSUME NEW i \in 1..n, NEW j \in 1..n, i <= j PROVE s[i] <= s[j]
    BY <2>1 DEF Sorted
  <2>2. s[i] \in Int /\ s[j] \in Int
    BY <1>1, <1>2
  <2>3. i = j \/ i < j
    OBVIOUS
  <2> QED
    BY <1>2, <2>2, <2>3
<1> QED
  BY <1>3, <1>7, <1>8

LEMMA SavedStarts == Init => SavedInv
<1> SUFFICES ASSUME Init PROVE SavedInv
  OBVIOUS
<1>1. Range(<<>>) = {}
  BY DEF Range
<1> QED
  BY <1>1 DEF Init, SavedInv, Sorted, DiskHoldsHistory

(* The cluster, the clock, the poll and the API leave failures and disk as  *)
(* they are; time passes for both.                                         *)
LEMMA OthersKeepSaved ==
  ASSUME HistoryInv, HistoryInv', SavedInv,
         UNCHANGED <<failures, saved, refused, unsaved>>,
         clock' >= clock, poll'.at >= poll.at
  PROVE  SavedInv'
<1> USE FailureHistoryAssumption
<1>1. /\ clock \in Int /\ clock' \in Int
      /\ poll.at \in Int /\ poll'.at \in Int
      /\ \A w \in Workloads : failures[w] \in Seq(Times) /\ saved[w] \subseteq Times
  BY DEF HistoryInv, TypeOK, Times
<1>2. ASSUME NEW w \in Workloads, NEW t \in Range(failures[w]) \cup saved[w]
      PROVE  t <= poll'.at
  <2>1. t \in Int
    BY <1>1 DEF Range, Times
  <2>2. t <= poll.at
    BY DEF SavedInv
  <2> QED
    BY <1>1, <2>1, <2>2
<1>3. DiskHoldsHistory'
  <2>1. \A t \in Int : clock - t >= Retention => clock' - t >= Retention
    BY <1>1
  <2>2. DiskHoldsHistory
    BY DEF SavedInv
  <2> SUFFICES ASSUME NEW w \in Workloads
               PROVE  /\ \A t \in Range(failures'[w]) :
                           t \in saved'[w] \/ <<w, t>> = unsaved' \/ <<w, t>> \in refused'
                      /\ \A t \in saved'[w] \ Range(failures'[w]) :
                           \/ clock' - t >= Retention
                           \/ /\ Len(failures'[w]) >= HistoryLimit
                              /\ \A u \in Range(failures'[w]) : t < u
    BY DEF DiskHoldsHistory
  <2>3. saved[w] \subseteq Int
    BY <1>1 DEF Times
  <2> QED
    BY <2>1, <2>2, <2>3 DEF DiskHoldsHistory
<1> QED
  BY <1>2, <1>3 DEF SavedInv

LEMMA SaveKeepsSaved ==
  ASSUME HistoryInv, SavedInv, SaveFailure
  PROVE  SavedInv'
<1> USE FailureHistoryAssumption
<1>1. PICK v \in Workloads, at \in Times : unsaved = <<v, at>>
  BY DEF SaveFailure, HistoryInv, TypeOK, Failure
<1>2. /\ UNCHANGED <<failures, poll, clock>>
      /\ unsaved' = None
      /\ refused \subseteq refused'
      /\ \/ /\ saved' = [saved EXCEPT ![v] = @ \cup {at}]
         \/ /\ saved' = saved
            /\ <<v, at>> \in refused'
  <2>1. unsaved[1] = v /\ unsaved[2] = at
    BY <1>1
  <2> QED
    BY <1>1, <2>1 DEF SaveFailure, trackerVars
<1>3. \A w \in Workloads : /\ saved[w] \subseteq saved'[w]
                           /\ saved'[w] \subseteq saved[w] \cup (IF w = v THEN {at} ELSE {})
  <2>1. saved \in [Workloads -> SUBSET Times]
    BY DEF HistoryInv, TypeOK
  <2> QED
    BY <1>2, <2>1
<1>4. at \in saved'[v] \/ <<v, at>> \in refused'
  <2>1. saved \in [Workloads -> SUBSET Times]
    BY DEF HistoryInv, TypeOK
  <2> QED
    BY <1>2, <2>1
<1>5. at \in Range(failures[v])
  <2>1. unsaved # None
    BY DEF SaveFailure
  <2> QED
    BY <1>1, <2>1 DEF SavedInv
<1>6. \A w \in Workloads : \A t \in Range(failures'[w]) \cup saved'[w] : t <= poll'.at
  <2>1. \A w \in Workloads : \A t \in Range(failures[w]) \cup saved[w] : t <= poll.at
    BY DEF SavedInv
  <2> QED
    BY <1>2, <1>3, <1>5, <2>1
<1>7. DiskHoldsHistory'
  <2> SUFFICES ASSUME NEW w \in Workloads
               PROVE  /\ \A t \in Range(failures[w]) :
                           t \in saved'[w] \/ <<w, t>> \in refused'
                      /\ \A t \in saved'[w] \ Range(failures[w]) :
                           \/ clock - t >= Retention
                           \/ /\ Len(failures[w]) >= HistoryLimit
                              /\ \A u \in Range(failures[w]) : t < u
    BY <1>2 DEF DiskHoldsHistory
  <2>1. /\ \A t \in Range(failures[w]) :
             t \in saved[w] \/ <<w, t>> = unsaved \/ <<w, t>> \in refused
        /\ \A t \in saved[w] \ Range(failures[w]) :
             \/ clock - t >= Retention
             \/ /\ Len(failures[w]) >= HistoryLimit
                /\ \A u \in Range(failures[w]) : t < u
    BY DEF SavedInv, DiskHoldsHistory
  <2>2. ASSUME NEW t \in Range(failures[w])
        PROVE  t \in saved'[w] \/ <<w, t>> \in refused'
    <3>1. CASE <<w, t>> = unsaved
      BY <1>1, <1>4, <3>1
    <3>2. CASE <<w, t>> # unsaved
      BY <1>2, <1>3, <2>1, <3>2
    <3> QED
      BY <3>1, <3>2
  <2>3. saved'[w] \ Range(failures[w]) \subseteq saved[w] \ Range(failures[w])
    BY <1>3, <1>5
  <2> QED
    BY <2>1, <2>2, <2>3
<1> QED
  BY <1>2, <1>6, <1>7 DEF SavedInv

LEMMA RestartKeepsSaved ==
  ASSUME HistoryInv, SavedInv, Restart
  PROVE  SavedInv'
<1> USE FailureHistoryAssumption
<1>1. /\ UNCHANGED <<saved, refused, clock>>
      /\ unsaved' = None
      /\ poll'.at = poll.at
  BY DEF Restart, diskVars, NoPoll
<1>2. ASSUME NEW w \in Workloads
      PROVE  /\ Range(failures'[w]) = Kept(saved[w])
             /\ Sorted(failures'[w])
             /\ Kept(saved[w]) \subseteq saved[w]
  <2>1. failures'[w] \in OldestFirst(Kept(saved[w]))
    BY DEF Restart
  <2>2. Kept(saved[w]) \in SUBSET Times /\ Kept(saved[w]) \subseteq saved[w]
    BY DEF HistoryInv, TypeOK, Kept
  <2> QED
    BY <2>1, <2>2, ListedWhole
<1>3. \A w \in Workloads : \A t \in Range(failures'[w]) \cup saved'[w] : t <= poll'.at
  <2>1. \A w \in Workloads : \A t \in saved[w] : t <= poll.at
    BY DEF SavedInv
  <2> QED
    BY <1>1, <1>2, <2>1
<1>4. DiskHoldsHistory'
  <2>1. \A w \in Workloads : \A t \in saved[w] \ Kept(saved[w]) : clock - t >= Retention
    BY DEF HistoryInv, TypeOK, Kept, Times
  <2> QED
    BY <1>1, <1>2, <2>1 DEF DiskHoldsHistory
<1> QED
  BY <1>1, <1>2, <1>3, <1>4 DEF SavedInv

(* A failure is recorded: it waits to be saved, and what it pushes out of   *)
(* memory is older than what stays.                                        *)
LEMMA RecordKeepsSaved ==
  ASSUME HistoryInv, SavedInv, NEW v \in Workloads, poll.at \in Times,
         RecordFailure(v, poll.at), unsaved = None, clock' = clock, poll'.at = poll.at
  PROVE  SavedInv'
<1> USE FailureHistoryAssumption
<1>1. /\ \A w \in Workloads : /\ failures[w] \in Seq(Times)
                              /\ saved[w] \subseteq Times
      /\ Times \subseteq Int
  BY DEF HistoryInv, TypeOK, Times
<1>2. /\ failures'[v] = Trim(Append(failures[v], poll.at), HistoryLimit)
      /\ \A w \in Workloads : w # v => failures'[w] = failures[w]
      /\ unsaved' = <<v, poll.at>>
      /\ UNCHANGED <<saved, refused>>
  <2>1. failures \in [Workloads -> Seq(Times)]
    BY DEF HistoryInv, TypeOK
  <2>2. failures' = [failures EXCEPT ![v] = Trim(Append(@, poll.at), HistoryLimit)]
    BY DEF RecordFailure
  <2>3. unsaved' = <<v, poll.at>> /\ UNCHANGED <<saved, refused>>
    BY DEF RecordFailure
  <2>4. failures'[v] = Trim(Append(failures[v], poll.at), HistoryLimit)
    BY <2>1, <2>2
  <2>5. \A w \in Workloads : w # v => failures'[w] = failures[w]
    BY <2>1, <2>2
  <2> QED
    BY <2>3, <2>4, <2>5
<1>3. /\ \A w \in Workloads : Sorted(failures[w])
      /\ \A w \in Workloads : \A t \in Range(failures[w]) \cup saved[w] : t <= poll.at
  BY DEF SavedInv
<1>4. ASSUME NEW w \in Workloads
      PROVE  /\ \A t \in Range(failures[w]) : t \in saved[w] \/ <<w, t>> \in refused
             /\ \A t \in saved[w] \ Range(failures[w]) :
                  \/ clock - t >= Retention
                  \/ /\ Len(failures[w]) >= HistoryLimit
                     /\ \A u \in Range(failures[w]) : t < u
  <2>1. ASSUME NEW t \in Range(failures[w]) PROVE <<w, t>> # unsaved
    <3>1. failures[w] \in Seq(Times)
      BY <1>1
    <3>2. t \in Times
      BY <3>1 DEF Range
    <3>3. <<w, t>> \in Workloads \X Int
      BY <1>1, <3>2
    <3> QED
      BY <3>3
  <2> QED
    BY <2>1 DEF SavedInv, DiskHoldsHistory
<1> DEFINE f == failures[v]
           g == failures'[v]
<1>5. f \in Seq(Int) /\ poll.at \in Int /\ HistoryLimit \in Nat \ {0}
  <2>1. f \in Seq(Times)
    BY <1>1
  <2> HIDE DEF f
  <2>2. PICK n \in Nat : f \in [1..n -> Times]
    BY <2>1
  <2>3. f \in [1..n -> Int]
    BY <1>1, <2>2
  <2>4. f \in Seq(Int)
    BY <2>3
  <2> QED
    BY <1>1, <2>4
<1>6. Sorted(f) /\ \A t \in Range(f) : t <= poll.at
  BY <1>3
<1>7. g = Trim(Append(f, poll.at), HistoryLimit)
  BY <1>2
<1> HIDE DEF f, g
<1>8. /\ Sorted(g)
      /\ poll.at \in Range(g)
      /\ Range(g) \subseteq Range(f) \cup {poll.at}
      /\ Len(f) >= HistoryLimit => Len(g) >= HistoryLimit
      /\ \A t \in Range(f) \ Range(g) :
           Len(g) >= HistoryLimit /\ \A u \in Range(g) : t < u
  BY <1>5, <1>6, <1>7, TrimDropsOldest
<1>9. \A w \in Workloads : Sorted(failures'[w])
  BY <1>2, <1>3, <1>8 DEF g
<1>10. \A w \in Workloads : \A t \in Range(failures'[w]) \cup saved'[w] : t <= poll'.at
  <2>1. \A t \in Range(g) \cup saved[v] : t <= poll.at
    BY <1>3, <1>5, <1>6, <1>8
  <2> QED
    BY <1>2, <1>3, <2>1 DEF g
<1>11. unsaved'[2] \in Range(failures'[unsaved'[1]])
  BY <1>2, <1>8 DEF g
<1>12. DiskHoldsHistory'
  <2> SUFFICES ASSUME NEW w \in Workloads
               PROVE  /\ \A t \in Range(failures'[w]) :
                           t \in saved[w] \/ <<w, t>> = <<v, poll.at>> \/ <<w, t>> \in refused
                      /\ \A t \in saved[w] \ Range(failures'[w]) :
                           \/ clock - t >= Retention
                           \/ /\ Len(failures'[w]) >= HistoryLimit
                              /\ \A u \in Range(failures'[w]) : t < u
    BY <1>2 DEF DiskHoldsHistory
  <2>1. CASE w # v
    BY <1>2, <1>4, <2>1
  <2>2. CASE w = v
    <3>1. \A t \in Range(g) : t \in saved[v] \/ t = poll.at \/ <<v, t>> \in refused
      BY <1>4, <1>8 DEF f
    <3>2. ASSUME NEW t \in saved[v], t \notin Range(g), ~(clock - t >= Retention)
          PROVE  Len(g) >= HistoryLimit /\ \A u \in Range(g) : t < u
      <4>1. CASE t \in Range(f)
        BY <1>8, <3>2, <4>1
      <4>2. CASE t \notin Range(f)
        <5>1. Len(f) >= HistoryLimit /\ \A u \in Range(f) : t < u
          BY <1>4, <3>2, <4>2 DEF f
        <5>2. t <= poll.at /\ t # poll.at /\ t \in Int
          BY <1>1, <1>3, <1>8, <3>2
        <5>3. t < poll.at
          BY <1>5, <5>2
        <5> QED
          BY <1>8, <5>1, <5>3
      <4> QED
        BY <4>1, <4>2
    <3> QED
      BY <2>2, <3>1, <3>2 DEF g
  <2> QED
    BY <2>1, <2>2
<1> QED
  BY <1>9, <1>10, <1>11, <1>12 DEF SavedInv

LEMMA SavedStep == HistoryInv /\ HistoryInv' /\ SavedInv /\ [Next]_vars => SavedInv'
<1> SUFFICES ASSUME HistoryInv, HistoryInv', SavedInv, [Next]_vars PROVE SavedInv'
  OBVIOUS
<1> USE FailureHistoryAssumption
<1>1. clock \in Int /\ poll.at \in Int
  BY DEF HistoryInv, TypeOK, Times
<1>2. CASE UNCHANGED vars
  <2>1. /\ UNCHANGED <<failures, saved, refused, unsaved>>
        /\ clock' = clock /\ poll'.at = poll.at
    BY <1>2 DEF vars, trackerVars, diskVars
  <2>2. clock' >= clock /\ poll'.at >= poll.at
    BY <1>1, <2>1
  <2> QED
    BY <2>1, <2>2, OthersKeepSaved
<1>3. CASE \/ Tick \/ PollStart \/ PollEnd
           \/ \E p \in Pods : PodRestarts(p) \/ PodReplaced(p)
           \/ \E w \in Workloads : NoteForecast(w)
  <2>1. UNCHANGED <<failures, saved, refused, unsaved>>
    BY <1>3 DEF Tick, PollStart, PollEnd, PodRestarts, PodReplaced, NoteForecast,
       trackerVars, diskVars
  <2>2. clock' = clock \/ clock' = clock + 1
    BY <1>3 DEF Tick, PollStart, PollEnd, PodRestarts, PodReplaced, NoteForecast
  <2>3. poll'.at = poll.at \/ (clock > poll.at /\ poll'.at = clock)
    <3>1. CASE PollStart
      <4>1. clock > poll.at /\ poll'.at = clock
        BY <3>1 DEF PollStart
      <4> QED
        BY <4>1
    <3>2. CASE PollEnd
      BY <3>2 DEF PollEnd, HistoryInv, TypeOK
    <3>3. CASE ~PollStart /\ ~PollEnd
      BY <1>3, <3>3 DEF Tick, PodRestarts, PodReplaced, NoteForecast
    <3> QED
      BY <3>1, <3>2, <3>3
  <2>4. clock' >= clock /\ poll'.at >= poll.at
    BY <1>1, <2>2, <2>3
  <2> QED
    BY <2>1, <2>4, OthersKeepSaved
<1>4. ASSUME NEW p \in Pods, Observe(p) PROVE SavedInv'
  <2>1. /\ clock' = clock /\ poll'.at = poll.at /\ unsaved = None
        /\ p \in DOMAIN poll.left
    BY <1>4 DEF Observe, HistoryInv, TypeOK
  <2>2. CASE Grew(p, poll.left[p])
    <3>1. RecordFailure(Owner[p], poll.at) /\ Owner[p] \in Workloads
      BY <1>4, <2>2 DEF Observe
    <3>2. poll.at \in Times
      BY <2>1 DEF HistoryInv, PollInv
    <3> QED
      BY <2>1, <3>1, <3>2, RecordKeepsSaved
  <2>3. CASE ~Grew(p, poll.left[p])
    <3>1. UNCHANGED <<failures, saved, refused, unsaved>>
      BY <1>4, <2>3 DEF Observe, diskVars
    <3>2. clock' >= clock /\ poll'.at >= poll.at
      BY <1>1, <2>1
    <3> QED
      BY <3>1, <3>2, OthersKeepSaved
  <2> QED
    BY <2>2, <2>3
<1> QED
  BY <1>2, <1>3, <1>4, SaveKeepsSaved, RestartKeepsSaved DEF Next

(***************************************************************************)
(* DiskHoldsHistory: the tracker answers from what a restart would give    *)
(* it back, up to a failure that is being saved, one the store refused,    *)
(* one that expired, and those the limit dropped for newer ones.  It needs *)
(* the histories in order and behind the poll (SavedInv), so that the      *)
(* limit drops the oldest, and the failure being saved still in memory.    *)
(***************************************************************************)
THEOREM DiskAlwaysHoldsHistory == Spec => []DiskHoldsHistory
<1>1. SavedInv => DiskHoldsHistory
  BY DEF SavedInv
<1> QED
  BY <1>1, SavedStarts, SavedStep, HistoryInvariant, PTL DEF Spec

----------------------------------------------------------------------------
(***************************************************************************)
(* Alerts: what the last post to an Alertmanager told is still active      *)
(* there, since at most two intervals and the length of a round have       *)
(* passed; what has no failure any more ends in time, since its last post  *)
(* began with a round that still saw one.                                  *)
(***************************************************************************)
Elapsed == AlertInterval - wait
Slow == IF sending.slow THEN 1 ELSE 0

(* A round begins with the tick that fires it and ends before the next.    *)
ARound(s) ==
  /\ s = [alerts |-> s.alerts, left |-> s.left, slow |-> s.slow]
  /\ s.left \in Seq(Posted) /\ Len(s.left) \in 1..Len(Alertmanagers) /\ s.slow \in BOOLEAN
RoundInv ==
  /\ wait \in 1..AlertInterval /\ fired \in BOOLEAN
  /\ fired => sending = Nil /\ wait = AlertInterval
  /\ sending # Nil => /\ ARound(sending)
                      /\ Slow <= Elapsed
                      /\ Elapsed <= Len(Alertmanagers) - Len(sending.left) + Slow

AnAlert(h) == h = [alert |-> h.alert, left |-> h.left] /\ h.left \in 1..AlertTTL
HeldInv ==
  /\ DOMAIN held = Posted
  /\ \A c \in Posted : \A h \in held[c] : AnAlert(h)

(* The next post to c is still to come in the round that is due.           *)
Pending(c) == fired \/ (sending # Nil /\ \E i \in 1..Len(sending.left) : sending.left[i] = c)
(* How long ago the last answered post can have begun.                     *)
SinceTold(c) ==
  (IF told[c].lost = 1 THEN AlertInterval ELSE 0) + (IF Pending(c) THEN AlertInterval ELSE 0) + Elapsed
Keeps(H, as, floor) == \A a \in as : \E h \in H : h.alert = a /\ h.left >= floor
ToldInv ==
  /\ DOMAIN told = Posted
  /\ \A c \in Posted :
      /\ told[c] = [alerts |-> told[c].alerts, lost |-> told[c].lost] /\ told[c].lost \in 0..2
      /\ told[c].lost <= 1 => Keeps(held[c], told[c].alerts, AlertTTL - SinceTold(c))

(* What has no failure is counted from the turn that cleared it.           *)
Ages(G) ==
  /\ \A g \in G : g = [alert |-> g.alert, age |-> g.age] /\ g.age \in Nat
  /\ \A g, h \in G : g.alert = h.alert => g.age = h.age
AgeIn(G, a) == LET at == {g.age : g \in {h \in G : h.alert = a}}
               IN  IF at = {} THEN 0 ELSE CHOOSE n \in at : TRUE
GoneInv ==
  /\ Ages(gone)
  /\ \A g \in gone : g.alert \notin Alerts
  /\ sending # Nil => \A a \in sending.alerts : AgeIn(gone, a) <= Elapsed
  /\ \A c \in Posted : \A h \in held[c] : h.left + AgeIn(gone, h.alert) < AlertTTL + Len(Alertmanagers)

DeliveryInv == RoundInv /\ HeldInv /\ ToldInv /\ GoneInv

(* A round is told from none.                                              *)
NilIsNoRound == \A as, l, s : Nil # [alerts |-> as, left |-> l, slow |-> s]

LEMMA TimesAreNumbers ==
  /\ AlertInterval \in Nat /\ AlertTTL \in Nat /\ AlertTTL = 3 * AlertInterval
  /\ Len(Alertmanagers) \in Nat /\ Len(Alertmanagers) < AlertInterval
  /\ Alertmanagers \in Seq(Posted)
  BY DeliveryAssumption

LEMMA AgeIs ==
  ASSUME NEW G, Ages(G), NEW a
  PROVE  /\ AgeIn(G, a) \in Nat
         /\ \A g \in G : g.alert = a => AgeIn(G, a) = g.age
         /\ (\A g \in G : g.alert # a) => AgeIn(G, a) = 0
<1> DEFINE at == {g.age : g \in {h \in G : h.alert = a}}
<1>1. CASE \E g \in G : g.alert = a
  <2>1. PICK g \in G : g.alert = a
    BY <1>1
  <2>2. at = {g.age} /\ g.age \in Nat
    BY <2>1 DEF Ages
  <2>3. AgeIn(G, a) = g.age
    BY <2>2 DEF AgeIn
  <2> QED
    BY <2>1, <2>2, <2>3 DEF Ages
<1>2. CASE \A g \in G : g.alert # a
  <2>1. at = {}
    BY <1>2
  <2> QED
    BY <1>2, <2>1 DEF AgeIn
<1> QED
  BY <1>1, <1>2

LEMMA DeliveryStarts == DeliveryInit => DeliveryInv
<1> SUFFICES ASSUME DeliveryInit PROVE DeliveryInv
  OBVIOUS
<1> USE DEF DeliveryInit
<1>1. RoundInv
  <2>1. wait \in 1..AlertInterval
    BY TimesAreNumbers
  <2>2. fired = FALSE /\ fired \in BOOLEAN /\ sending = Nil
    BY Zenon
  <2> QED
    BY <2>1, <2>2, Zenon DEF RoundInv
<1>2. HeldInv
  BY DEF HeldInv
<1>3. ToldInv
  BY DEF ToldInv, Keeps
<1>4. GoneInv
  BY DEF GoneInv, Ages
<1> QED
  BY <1>1, <1>2, <1>3, <1>4 DEF DeliveryInv

LEMMA TurnKeeps == ASSUME DeliveryInv, NEW w \in Watched, TakeTurn(w) PROVE DeliveryInv'
<1>1. /\ UNCHANGED <<scope, wait, fired, sending, held, told>>
      /\ gone' = {g \in gone : g.alert \notin Alerts'}
  BY DEF TakeTurn
<1>2. RoundInv' /\ HeldInv'
  BY <1>1 DEF DeliveryInv, RoundInv, HeldInv, Elapsed, Slow
<1>3. ToldInv'
  BY <1>1 DEF DeliveryInv, ToldInv, SinceTold, Pending, Elapsed
<1>4. Ages(gone) /\ Ages(gone')
  BY <1>1 DEF DeliveryInv, GoneInv, Ages
<1>5. \A a : AgeIn(gone', a) <= AgeIn(gone, a) /\ AgeIn(gone, a) \in Nat /\ AgeIn(gone', a) \in Nat
  <2> SUFFICES ASSUME NEW a
               PROVE  AgeIn(gone', a) <= AgeIn(gone, a) /\ AgeIn(gone, a) \in Nat /\ AgeIn(gone', a) \in Nat
    OBVIOUS
  <2>1. CASE \E g \in gone' : g.alert = a
    <3>1. PICK g \in gone' : g.alert = a
      BY <2>1
    <3>2. g \in gone
      BY <1>1
    <3>3. AgeIn(gone', a) = g.age /\ AgeIn(gone, a) = g.age /\ g.age \in Nat
      BY <1>4, <3>1, <3>2, AgeIs
    <3> QED
      BY <3>3
  <2>2. CASE \A g \in gone' : g.alert # a
    <3>1. AgeIn(gone', a) = 0 /\ AgeIn(gone, a) \in Nat
      BY <1>4, <2>2, AgeIs
    <3> QED
      BY <3>1
  <2> QED
    BY <2>1, <2>2
<1>6. GoneInv'
  <2>1. \A g \in gone' : g.alert \notin Alerts'
    BY <1>1
  <2>2. ASSUME sending # Nil PROVE \A a \in sending.alerts : AgeIn(gone', a) <= Elapsed
    <3>1. Elapsed \in Int
      BY TimesAreNumbers DEF DeliveryInv, RoundInv, Elapsed
    <3> QED
      BY <1>5, <2>2, <3>1 DEF DeliveryInv, GoneInv
  <2>3. ASSUME NEW c \in Posted, NEW h \in held[c]
        PROVE  h.left + AgeIn(gone', h.alert) < AlertTTL + Len(Alertmanagers)
    <3>1. h.left + AgeIn(gone, h.alert) < AlertTTL + Len(Alertmanagers) /\ h.left \in Nat
      BY TimesAreNumbers DEF DeliveryInv, GoneInv, HeldInv, AnAlert
    <3> QED
      BY <1>5, <3>1, TimesAreNumbers
  <2>4. Elapsed' = Elapsed
    BY <1>1 DEF Elapsed
  <2> QED
    BY <1>1, <1>4, <2>1, <2>2, <2>3, <2>4 DEF GoneInv
<1> QED
  BY <1>2, <1>3, <1>6 DEF DeliveryInv

LEMMA AlertsAreStill ==
  ASSUME UNCHANGED <<scope, situation>> PROVE Alerts' = Alerts
<1>1. \A w : FailureResult(w)' = FailureResult(w)
  BY DEF FailureResult
<1>2. Selected' = Selected
  BY <1>1 DEF Selected
<1>3. \A r : Scoped(r)' = Scoped(r)
  BY DEF Scoped
<1>4. Failures' = Failures
  BY <1>2, <1>3 DEF Failures
<1> QED
  BY <1>4 DEF Alerts

LEMMA StartKeeps == ASSUME DeliveryInv, StartRound, NilIsNoRound, Alertmanagers # <<>> PROVE DeliveryInv'
<1>1. /\ fired /\ sending = Nil /\ fired' = FALSE
      /\ sending' = [alerts |-> Alerts, left |-> Alertmanagers, slow |-> FALSE]
      /\ UNCHANGED <<scope, situation, wait, held, told, gone>>
  BY DEF StartRound
<1>0. Len(Alertmanagers) \in Nat \ {0} /\ Alertmanagers \in Seq(Posted)
  BY TimesAreNumbers, EmptySeq
<1>2. wait = AlertInterval /\ Elapsed = 0 /\ Elapsed' = 0 /\ Slow' = 0
  BY <1>1, TimesAreNumbers DEF DeliveryInv, RoundInv, Elapsed, Slow
<1>3. /\ sending'.alerts = Alerts /\ sending'.left = Alertmanagers /\ sending'.slow = FALSE
  BY <1>1
<1>4. RoundInv'
  <2>1. wait' \in 1..AlertInterval /\ fired' \in BOOLEAN /\ ~fired'
    BY <1>1 DEF DeliveryInv, RoundInv
  <2>2. ARound(sending')
    BY <1>0, <1>1, <1>3 DEF ARound
  <2> QED
    BY <1>0, <1>2, <1>3, <2>1, <2>2 DEF RoundInv
<1>5. HeldInv'
  BY <1>1 DEF DeliveryInv, HeldInv
<1>6. \A c \in Posted : Pending(c) /\ Pending(c)'
  <2>1. sending' # Nil
    BY <1>1 DEF NilIsNoRound
  <2>2. \A c \in Posted : \E i \in 1..Len(Alertmanagers) : Alertmanagers[i] = c
    BY <1>0 DEF Posted
  <2> QED
    BY <1>1, <1>3, <2>1, <2>2 DEF Pending
<1>7. ToldInv'
  <2>1. \A c \in Posted : SinceTold(c)' = SinceTold(c)
    BY <1>1, <1>2, <1>6 DEF SinceTold
  <2> QED
    BY <1>1, <2>1 DEF DeliveryInv, ToldInv
<1>8. GoneInv'
  <2>1. Alerts' = Alerts
    BY <1>1, AlertsAreStill
  <2>2. Ages(gone) /\ \A g \in gone : g.alert \notin Alerts
    BY DEF DeliveryInv, GoneInv
  <2>3. \A a \in Alerts : AgeIn(gone, a) = 0
    BY <2>2, AgeIs
  <2> QED
    BY <1>1, <1>2, <1>3, <2>1, <2>2, <2>3 DEF DeliveryInv, GoneInv
<1> QED
  BY <1>4, <1>5, <1>7, <1>8 DEF DeliveryInv

(* A post has been answered or has failed: the round goes on to the next.  *)
LEMMA RoundGoesOn ==
  ASSUME DeliveryInv, NilIsNoRound, sending # Nil, NEW ok, sending' = RoundAfter(ok), UNCHANGED <<wait, fired>>
  PROVE  /\ RoundInv'
         /\ Elapsed' = Elapsed
         /\ sending' # Nil => sending'.alerts = sending.alerts
         /\ \A d : d # Head(sending.left) /\ Pending(d) => Pending(d)'
<1>1. /\ ARound(sending) /\ Slow <= Elapsed
      /\ Elapsed <= Len(Alertmanagers) - Len(sending.left) + Slow
      /\ wait \in 1..AlertInterval /\ ~fired
  BY DEF DeliveryInv, RoundInv
<1>2. PICK left \in Seq(Posted) : left = sending.left
  BY <1>1 DEF ARound
<1>3. Len(left) \in 1..Len(Alertmanagers) /\ left # <<>> /\ sending.slow \in BOOLEAN
  BY <1>1, <1>2, TimesAreNumbers, EmptySeq DEF ARound
<1>4. PICK rest \in Seq(Posted) : rest = Tail(left) /\ Len(rest) = Len(left) - 1
                                   /\ \A i \in 1..Len(rest) : rest[i] = left[i + 1]
  <2>1. /\ Tail(left) \in Seq(Posted) /\ Len(Tail(left)) = Len(left) - 1
        /\ \A i \in 1..Len(Tail(left)) : Tail(left)[i] = left[i + 1]
    BY <1>2, <1>3, HeadTailProperties
  <2> QED
    BY <2>1, Zenon
<1>5. sending' = IF rest = <<>> THEN Nil ELSE [alerts |-> sending.alerts, left |-> rest, slow |-> FALSE]
  BY <1>2, <1>4 DEF RoundAfter, AfterSend
<1>6. Elapsed' = Elapsed /\ Elapsed \in Int
  BY <1>1, TimesAreNumbers DEF Elapsed
<1>7. CASE rest = <<>>
  <2>1. sending' = Nil
    BY <1>5, <1>7
  <2>2. RoundInv'
    <3>1. wait' \in 1..AlertInterval /\ fired' = FALSE /\ fired' \in BOOLEAN
      BY <1>1 DEF DeliveryInv, RoundInv
    <3> QED
      BY <2>1, <3>1, Zenon DEF RoundInv
  <2>3. Len(left) = 1
    <3>1. Len(rest) = 0
      BY <1>7, EmptySeq
    <3>2. PICK n \in Nat : n = Len(left)
      BY <1>3, TimesAreNumbers
    <3> QED
      BY <1>4, <3>1, <3>2
  <2>4. \A d : Pending(d) => d = Head(left)
    BY <1>1, <1>2, <1>3, <2>3 DEF Pending
  <2> QED
    BY <1>2, <1>6, <2>1, <2>2, <2>4
<1>8. CASE rest # <<>>
  <2>1. sending' = [alerts |-> sending.alerts, left |-> rest, slow |-> FALSE]
    BY <1>5, <1>8
  <2>2. /\ sending' # Nil /\ sending'.alerts = sending.alerts /\ sending'.left = rest
        /\ sending'.slow = FALSE /\ Slow' = 0
    BY <2>1 DEF NilIsNoRound, Slow
  <2>3. Len(rest) \in 1..Len(Alertmanagers)
    BY <1>3, <1>4, <1>8, EmptySeq, TimesAreNumbers
  <2>4. 0 <= Elapsed /\ Elapsed <= Len(Alertmanagers) - Len(rest)
    <3>1. Slow \in {0, 1}
      BY DEF Slow
    <3> QED
      BY <1>1, <1>2, <1>3, <1>4, <1>6, <2>3, <3>1, TimesAreNumbers
  <2>5. ARound(sending')
    BY <2>1, <2>2, <2>3 DEF ARound
  <2>6. RoundInv'
    <3>1. Elapsed' <= Len(Alertmanagers) - Len(sending'.left) + Slow'
      BY <1>6, <2>2, <2>3, <2>4, TimesAreNumbers
    <3>2. Slow' <= Elapsed'
      BY <1>6, <2>2, <2>4
    <3>3. wait' \in 1..AlertInterval /\ fired' = FALSE /\ fired' \in BOOLEAN
      BY <1>1 DEF DeliveryInv, RoundInv
    <3> QED
      BY <2>5, <3>1, <3>2, <3>3, Zenon DEF RoundInv
  <2>7. ASSUME NEW d, d # Head(left), Pending(d) PROVE Pending(d)'
    <3>1. PICK i \in 1..Len(left) : left[i] = d
      BY <1>1, <1>2, <2>7 DEF Pending
    <3>2. i # 1
      BY <1>3, <2>7, <3>1
    <3>3. i - 1 \in 1..Len(rest) /\ rest[i - 1] = d
      BY <1>3, <1>4, <3>1, <3>2, TimesAreNumbers
    <3> QED
      BY <2>2, <3>3 DEF Pending
  <2> QED
    BY <1>2, <1>6, <2>2, <2>6, <2>7
<1> QED
  BY <1>7, <1>8

(* What a post leaves at an Alertmanager.                                  *)
Left == IF sending.slow THEN AlertTTL - 1 ELSE AlertTTL

LEMMA PostsAreInTime ==
  ASSUME DeliveryInv, sending # Nil
  PROVE  /\ Left \in 1..AlertTTL /\ Elapsed \in Nat
         /\ AlertTTL - Elapsed <= Left
         /\ Left + Elapsed < AlertTTL + Len(Alertmanagers)
<1>1. /\ ARound(sending) /\ Slow <= Elapsed
      /\ Elapsed <= Len(Alertmanagers) - Len(sending.left) + Slow
      /\ wait \in 1..AlertInterval
  BY DEF DeliveryInv, RoundInv
<1>2. PICK n \in Nat : n = Len(sending.left) /\ n >= 1
  BY <1>1, TimesAreNumbers DEF ARound
<1>3. Elapsed \in Nat
  BY <1>1, TimesAreNumbers DEF Elapsed
<1>4. CASE sending.slow
  <2>1. Slow = 1 /\ Left = AlertTTL - 1
    BY <1>4 DEF Slow, Left
  <2> QED
    BY <1>1, <1>2, <1>3, <2>1, TimesAreNumbers
<1>5. CASE ~sending.slow
  <2>1. Slow = 0 /\ Left = AlertTTL
    BY <1>5 DEF Slow, Left
  <2> QED
    BY <1>1, <1>2, <1>3, <2>1, TimesAreNumbers
<1> QED
  BY <1>4, <1>5

LEMMA ReceivedIs ==
  ASSUME DeliveryInv, sending # Nil, NEW c \in Posted
  PROVE  /\ \A h \in Received(c) : AnAlert(h) /\ h.left + AgeIn(gone, h.alert) < AlertTTL + Len(Alertmanagers)
         /\ \A a \in sending.alerts : \E h \in Received(c) : h.alert = a /\ h.left = Left
         /\ \A h \in held[c] : h.alert \notin sending.alerts => h \in Received(c)
<1>1. Received(c) = {h \in held[c] : h.alert \notin sending.alerts} \cup [alert : sending.alerts, left : {Left}]
  BY DEF Received, Left
<1>2. \A a \in sending.alerts : AgeIn(gone, a) <= Elapsed /\ AgeIn(gone, a) \in Nat
  BY AgeIs DEF DeliveryInv, GoneInv
<1>3. ASSUME NEW h \in [alert : sending.alerts, left : {Left}]
      PROVE  AnAlert(h) /\ h.left + AgeIn(gone, h.alert) < AlertTTL + Len(Alertmanagers)
  <2>1. h = [alert |-> h.alert, left |-> h.left] /\ h.alert \in sending.alerts /\ h.left = Left
    OBVIOUS
  <2>2. Left + AgeIn(gone, h.alert) < AlertTTL + Len(Alertmanagers)
    BY <1>2, <2>1, PostsAreInTime, TimesAreNumbers
  <2> QED
    BY <2>1, <2>2, PostsAreInTime DEF AnAlert
<1>4. ASSUME NEW h \in held[c]
      PROVE  AnAlert(h) /\ h.left + AgeIn(gone, h.alert) < AlertTTL + Len(Alertmanagers)
  BY DEF DeliveryInv, HeldInv, GoneInv
<1>5. ASSUME NEW a \in sending.alerts PROVE \E h \in Received(c) : h.alert = a /\ h.left = Left
  <2>1. [alert |-> a, left |-> Left] \in [alert : sending.alerts, left : {Left}]
    OBVIOUS
  <2>2. [alert |-> a, left |-> Left] \in Received(c)
    BY <1>1, <2>1
  <2> QED
    BY <2>2
<1> QED
  BY <1>1, <1>3, <1>4, <1>5

LEMMA ReceivedKeeps ==
  ASSUME DeliveryInv, sending # Nil, NEW c \in Posted, NEW as, NEW floor \in Int, floor <= Left, Keeps(held[c], as, floor)
  PROVE  Keeps(Received(c), as, floor)
<1> SUFFICES ASSUME NEW a \in as PROVE \E h \in Received(c) : h.alert = a /\ h.left >= floor
  BY DEF Keeps
<1>1. CASE a \in sending.alerts
  <2>1. PICK h \in Received(c) : h.alert = a /\ h.left = Left
    BY <1>1, ReceivedIs
  <2> QED
    BY <2>1, PostsAreInTime, TimesAreNumbers
<1>2. CASE a \notin sending.alerts
  <2>1. PICK h \in held[c] : h.alert = a /\ h.left >= floor
    BY DEF Keeps
  <2> QED
    BY <1>2, <2>1, ReceivedIs
<1> QED
  BY <1>1, <1>2

(* A lower floor is kept as well.                                          *)
LEMMA KeepsLess ==
  ASSUME NEW H, \A h \in H : AnAlert(h), NEW as, NEW floor \in Int, NEW less \in Int, less <= floor, Keeps(H, as, floor)
  PROVE  Keeps(H, as, less)
<1>1. \A h \in H : h.left \in Int
  BY TimesAreNumbers DEF AnAlert
<1>2. ASSUME NEW a \in as PROVE \E h \in H : h.alert = a /\ h.left >= less
  <2>1. PICK h \in H : h.alert = a /\ h.left >= floor
    BY DEF Keeps
  <2>2. h.left >= less
    BY <1>1, <2>1
  <2> QED
    BY <2>1, <2>2
<1> QED
  BY <1>2 DEF Keeps

LEMMA SinceIsANumber ==
  ASSUME RoundInv, NEW c \in Posted PROVE SinceTold(c) \in Nat /\ Elapsed \in Nat /\ Elapsed <= SinceTold(c)
<1>1. Elapsed \in Nat
  BY TimesAreNumbers DEF RoundInv, Elapsed
<1> HIDE DEF Elapsed
<1> QED
  BY <1>1, TimesAreNumbers DEF SinceTold

LEMMA PostKeeps ==
  ASSUME DeliveryInv, NilIsNoRound, NEW c \in Posted, Send(c) \/ SendFails(c) PROVE DeliveryInv'
<1>1. /\ sending # Nil /\ c = Head(sending.left)
      /\ UNCHANGED <<scope, situation, wait, fired, gone>>
      /\ \E ok \in BOOLEAN : sending' = RoundAfter(ok)
  BY DEF Send, SendFails
<1>2. /\ RoundInv' /\ Elapsed' = Elapsed
      /\ sending' # Nil => sending'.alerts = sending.alerts
      /\ \A d : d # c /\ Pending(d) => Pending(d)'
  BY <1>1, RoundGoesOn
<1>3. held' = [held EXCEPT ![c] = Received(c)] \/ held' = held
  BY DEF Send, SendFails
<1>4. DOMAIN held = Posted /\ DOMAIN held' = Posted
  BY <1>3 DEF DeliveryInv, HeldInv
<1>5. (\A d \in Posted : d # c => held'[d] = held[d]) /\ (held'[c] = Received(c) \/ held'[c] = held[c])
  BY <1>3, <1>4
<1>6. HeldInv'
  BY <1>1, <1>4, <1>5, ReceivedIs DEF DeliveryInv, HeldInv
<1>7. GoneInv'
  <2>1. Alerts' = Alerts
    BY <1>1, AlertsAreStill
  <2>2. ASSUME NEW d \in Posted, NEW h \in held'[d]
        PROVE  h.left + AgeIn(gone, h.alert) < AlertTTL + Len(Alertmanagers)
    BY <1>1, <1>5, ReceivedIs DEF DeliveryInv, GoneInv
  <2> QED
    BY <1>1, <1>2, <2>1, <2>2 DEF DeliveryInv, GoneInv
<1>8. ASSUME NEW d \in Posted
      PROVE  /\ told'[d] = [alerts |-> told'[d].alerts, lost |-> told'[d].lost] /\ told'[d].lost \in 0..2
             /\ told'[d].lost <= 1 => Keeps(held'[d], told'[d].alerts, AlertTTL - SinceTold(d)')
  <2>0. /\ DOMAIN told = Posted
        /\ told[d] = [alerts |-> told[d].alerts, lost |-> told[d].lost] /\ told[d].lost \in 0..2
        /\ told[d].lost <= 1 => Keeps(held[d], told[d].alerts, AlertTTL - SinceTold(d))
    BY DEF DeliveryInv, ToldInv
  <2>1. SinceTold(d) \in Nat /\ SinceTold(d)' \in Nat /\ Elapsed \in Nat /\ Elapsed <= SinceTold(d)'
    <3>1. SinceTold(d) \in Nat /\ Elapsed \in Nat
      BY SinceIsANumber DEF DeliveryInv
    <3>2. /\ told'[d].lost = 1 => TRUE
          /\ SinceTold(d)' = (IF told'[d].lost = 1 THEN AlertInterval ELSE 0)
                             + (IF Pending(d)' THEN AlertInterval ELSE 0) + Elapsed
      BY <1>2 DEF SinceTold
    <3> QED
      BY <3>1, <3>2, TimesAreNumbers
  <2>2. CASE d # c
    <3>1. told'[d] = told[d] /\ held'[d] = held[d]
      BY <1>5, <2>0, <2>2 DEF Send, SendFails
    <3>2. SinceTold(d) <= SinceTold(d)'
      BY <1>2, <2>1, <2>2, <3>1, TimesAreNumbers DEF SinceTold
    <3>3. told[d].lost <= 1 => Keeps(held[d], told[d].alerts, AlertTTL - SinceTold(d)')
      <4>1. \A h \in held[d] : AnAlert(h)
        BY DEF DeliveryInv, HeldInv
      <4>2. /\ AlertTTL - SinceTold(d) \in Int /\ AlertTTL - SinceTold(d)' \in Int
            /\ AlertTTL - SinceTold(d)' <= AlertTTL - SinceTold(d)
        BY <2>1, <3>2, TimesAreNumbers
      <4> QED
        BY <2>0, <4>1, <4>2, KeepsLess
    <3> QED
      BY <2>0, <3>1, <3>3
  <2>3. CASE d = c /\ Send(c)
    <3>1. told'[d] = [alerts |-> sending.alerts, lost |-> 0] /\ held'[d] = Received(c)
      BY <1>4, <2>0, <2>3 DEF Send
    <3>2. AlertTTL - SinceTold(d)' <= Left
      BY <1>1, <2>1, PostsAreInTime, TimesAreNumbers
    <3>3. Keeps(Received(c), sending.alerts, AlertTTL - SinceTold(d)')
      <4> SUFFICES ASSUME NEW a \in sending.alerts
                   PROVE  \E h \in Received(c) : h.alert = a /\ h.left >= AlertTTL - SinceTold(d)'
        BY DEF Keeps
      <4>1. PICK h \in Received(c) : h.alert = a /\ h.left = Left
        BY <1>1, ReceivedIs
      <4>2. h.left >= AlertTTL - SinceTold(d)'
        BY <1>1, <2>1, <3>2, <4>1, PostsAreInTime, TimesAreNumbers
      <4> QED
        BY <4>1, <4>2
    <3> QED
      BY <3>1, <3>3
  <2>4. CASE d = c /\ SendFails(c)
    <3>1. told'[d] = [told[d] EXCEPT !.lost = IF @ = 2 THEN 2 ELSE @ + 1]
      BY <2>0, <2>4 DEF SendFails
    <3>2. /\ told'[d] = [alerts |-> told[d].alerts, lost |-> IF told[d].lost = 2 THEN 2 ELSE told[d].lost + 1]
          /\ told'[d].alerts = told[d].alerts
          /\ told'[d].lost = IF told[d].lost = 2 THEN 2 ELSE told[d].lost + 1
      BY <2>0, <3>1
    <3>3. SUFFICES ASSUME told'[d].lost <= 1 PROVE Keeps(held'[d], told[d].alerts, AlertTTL - SinceTold(d)')
      BY <2>0, <3>2
    <3>4. told[d].lost = 0 /\ told'[d].lost = 1
      BY <2>0, <3>2, <3>3
    <3>5. SinceTold(d) <= SinceTold(d)'
      <4>1. SinceTold(d) = (IF Pending(d) THEN AlertInterval ELSE 0) + Elapsed
        BY <3>4, TimesAreNumbers, <2>1 DEF SinceTold
      <4>2. SinceTold(d)' = AlertInterval + (IF Pending(d)' THEN AlertInterval ELSE 0) + Elapsed
        BY <1>2, <3>4 DEF SinceTold
      <4> QED
        BY <2>1, <4>1, <4>2, TimesAreNumbers
    <3>6. Keeps(held[d], told[d].alerts, AlertTTL - SinceTold(d)')
      <4>1. \A h \in held[d] : AnAlert(h)
        BY DEF DeliveryInv, HeldInv
      <4>2. /\ AlertTTL - SinceTold(d) \in Int /\ AlertTTL - SinceTold(d)' \in Int
            /\ AlertTTL - SinceTold(d)' <= AlertTTL - SinceTold(d)
        BY <2>1, <3>5, TimesAreNumbers
      <4>3. Keeps(held[d], told[d].alerts, AlertTTL - SinceTold(d))
        BY <2>0, <3>4
      <4> QED
        BY <4>1, <4>2, <4>3, KeepsLess
    <3>7. AlertTTL - SinceTold(d)' <= Left /\ AlertTTL - SinceTold(d)' \in Int
      BY <1>1, <2>1, PostsAreInTime, TimesAreNumbers
    <3>8. Keeps(Received(c), told[d].alerts, AlertTTL - SinceTold(d)')
      BY <1>1, <2>4, <3>6, <3>7, ReceivedKeeps
    <3> QED
      BY <1>5, <2>4, <3>6, <3>8
  <2> QED
    BY <2>2, <2>3, <2>4
<1>9. DOMAIN told' = Posted
  BY DEF Send, SendFails, DeliveryInv, ToldInv
<1>10. ToldInv'
  BY <1>8, <1>9 DEF ToldInv
<1> QED
  BY <1>2, <1>6, <1>7, <1>10 DEF DeliveryInv

(* A post that was answered, or followed by one that was lost at most, is  *)
(* younger than an alert lives.                                            *)
InTime ==
  RoundInv => \A c \in Posted : told[c].lost \in 0..2 /\ told[c].lost <= 1
                                  => SinceTold(c) \in Nat /\ SinceTold(c) < AlertTTL
LEMMA ToldInTime == InTime
<1> SUFFICES ASSUME RoundInv, NEW c \in Posted, told[c].lost \in 0..2, told[c].lost <= 1
             PROVE  SinceTold(c) \in Nat /\ SinceTold(c) < AlertTTL
  BY DEF InTime
<1>1. Elapsed \in Nat /\ Elapsed < AlertInterval
  BY TimesAreNumbers DEF RoundInv, Elapsed
<1>2. ASSUME Pending(c) PROVE Elapsed <= Len(Alertmanagers)
  <2>1. CASE fired
    BY <2>1, TimesAreNumbers DEF RoundInv, Elapsed
  <2>2. CASE ~fired
    <3>1. sending # Nil
      BY <1>2, <2>2 DEF Pending
    <3>2. ARound(sending) /\ Elapsed <= Len(Alertmanagers) - Len(sending.left) + Slow
      BY <3>1 DEF RoundInv
    <3>3. PICK n \in Nat : n = Len(sending.left) /\ n >= 1
      BY <3>2, TimesAreNumbers DEF ARound
    <3>4. Slow \in {0, 1}
      BY DEF Slow
    <3> QED
      BY <1>1, <3>2, <3>3, <3>4, TimesAreNumbers
  <2> QED
    BY <2>1, <2>2
<1> HIDE DEF Elapsed
<1>3. PICK e \in Nat : e = Elapsed
  BY <1>1
<1>4. CASE Pending(c)
  <2>1. SinceTold(c) = (IF told[c].lost = 1 THEN AlertInterval ELSE 0) + AlertInterval + e
    BY <1>3, <1>4 DEF SinceTold
  <2> QED
    BY <1>2, <1>3, <1>4, <2>1, TimesAreNumbers
<1>5. CASE ~Pending(c)
  <2>1. SinceTold(c) = (IF told[c].lost = 1 THEN AlertInterval ELSE 0) + 0 + e
    BY <1>3, <1>5 DEF SinceTold
  <2> QED
    BY <1>1, <1>3, <2>1, TimesAreNumbers
<1> QED
  BY <1>4, <1>5

LEMMA AlwaysInTime == []InTime
  BY ToldInTime, PTL

LEMMA UnitKeepsRound ==
  ASSUME DeliveryInv, NilIsNoRound, UnitPasses
  PROVE  /\ RoundInv'
         /\ sending # Nil => Elapsed' = Elapsed + 1 /\ sending' # Nil /\ sending'.alerts = sending.alerts
         /\ sending' # Nil => sending # Nil
         /\ \A c \in Posted : SinceTold(c)' = SinceTold(c) + 1
<1>0. /\ wait \in 1..AlertInterval /\ fired \in BOOLEAN
      /\ fired => sending = Nil /\ wait = AlertInterval
      /\ UNCHANGED told
  BY DEF DeliveryInv, RoundInv, UnitPasses
<1>1. CASE sending = Nil
  <2>1. /\ ~fired /\ sending' = Nil /\ fired' = (wait = 1)
        /\ wait' = IF wait = 1 THEN AlertInterval ELSE wait - 1
    BY <1>0, <1>1 DEF UnitPasses
  <2>2. wait' \in 1..AlertInterval /\ (wait = 1 => wait' = AlertInterval)
    BY <1>0, <2>1, TimesAreNumbers
  <2>3. RoundInv'
    <3>1. fired' \in BOOLEAN /\ (fired' => wait' = AlertInterval)
      BY <2>1, <2>2
    <3> QED
      BY <2>1, <2>2, <3>1, Zenon DEF RoundInv
  <2>4. ASSUME NEW c \in Posted PROVE SinceTold(c)' = SinceTold(c) + 1
    <3>1. ~Pending(c) /\ (Pending(c)' <=> wait = 1)
      BY <1>1, <2>1 DEF Pending
    <3>2. PICK w \in 1..AlertInterval : w = wait
      BY <1>0
    <3>3. CASE w = 1
      <4>1. SinceTold(c)' = (IF told[c].lost = 1 THEN AlertInterval ELSE 0) + AlertInterval + (AlertInterval - AlertInterval)
        BY <1>0, <2>2, <3>1, <3>2, <3>3 DEF SinceTold, Elapsed
      <4>2. SinceTold(c) = (IF told[c].lost = 1 THEN AlertInterval ELSE 0) + 0 + (AlertInterval - 1)
        BY <3>1, <3>2, <3>3 DEF SinceTold, Elapsed
      <4> QED
        BY <4>1, <4>2, TimesAreNumbers
    <3>4. CASE w # 1
      <4>1. SinceTold(c)' = (IF told[c].lost = 1 THEN AlertInterval ELSE 0) + 0 + (AlertInterval - (w - 1))
        BY <1>0, <2>1, <3>1, <3>2, <3>4 DEF SinceTold, Elapsed
      <4>2. SinceTold(c) = (IF told[c].lost = 1 THEN AlertInterval ELSE 0) + 0 + (AlertInterval - w)
        BY <3>1, <3>2 DEF SinceTold, Elapsed
      <4> QED
        BY <4>1, <4>2, TimesAreNumbers
    <3> QED
      BY <3>3, <3>4
  <2> QED
    BY <1>1, <2>1, <2>3, <2>4
<1>2. CASE sending # Nil
  <2>1. /\ ~fired /\ ~sending.slow
        /\ ARound(sending) /\ Elapsed <= Len(Alertmanagers) - Len(sending.left) + Slow
    BY <1>0, <1>2 DEF DeliveryInv, RoundInv, UnitPasses
  <2>2. PICK n \in 1..Len(Alertmanagers) : n = Len(sending.left)
    BY <2>1 DEF ARound
  <2>3. Slow = 0
    BY <2>1 DEF Slow
  <2>4. wait > 1 /\ Elapsed \in Nat /\ Elapsed <= Len(Alertmanagers) - n
    BY <1>0, <2>1, <2>2, <2>3, TimesAreNumbers DEF Elapsed
  <2>5. wait' = wait - 1 /\ fired' = FALSE
    BY <1>0, <2>1, <2>4 DEF UnitPasses
  <2>6. Elapsed' = Elapsed + 1
    BY <1>0, <2>5, TimesAreNumbers DEF Elapsed
  <2>7. sending' = [alerts |-> sending.alerts, left |-> sending.left, slow |-> TRUE]
    <3>1. sending' = [sending EXCEPT !.slow = TRUE]
      BY <1>2 DEF UnitPasses
    <3> QED
      BY <2>1, <3>1 DEF ARound
  <2>8. /\ sending' # Nil /\ sending'.alerts = sending.alerts /\ sending'.left = sending.left
        /\ sending'.slow = TRUE /\ Slow' = 1
    BY <2>7 DEF NilIsNoRound, Slow
  <2>9. RoundInv'
    <3>1. ARound(sending')
      BY <2>1, <2>7, <2>8 DEF ARound
    <3>2. Slow' <= Elapsed' /\ Elapsed' <= Len(Alertmanagers) - Len(sending'.left) + Slow'
      <4>1. PICK e \in Nat : e = Elapsed /\ Elapsed' = e + 1 /\ e <= Len(Alertmanagers) - n
        BY <2>4, <2>6
      <4>2. 1 <= e + 1 /\ e + 1 <= Len(Alertmanagers) - n + 1
        BY <4>1, TimesAreNumbers
      <4> QED
        BY <2>2, <2>8, <4>1, <4>2
    <3>3. wait' \in 1..AlertInterval /\ fired' \in BOOLEAN
      <4>1. wait - 1 \in 1..AlertInterval
        BY <1>0, <2>4, TimesAreNumbers
      <4>2. wait' \in 1..AlertInterval
        BY <2>5, <4>1
      <4>3. fired' \in BOOLEAN
        BY <2>5
      <4> QED
        BY <4>2, <4>3
    <3> QED
      BY <2>5, <3>1, <3>2, <3>3, Zenon DEF RoundInv
  <2>10. ASSUME NEW c \in Posted PROVE SinceTold(c)' = SinceTold(c) + 1
    <3>1. Pending(c)' <=> Pending(c)
      BY <1>2, <2>1, <2>5, <2>8 DEF Pending
    <3>2. PICK e \in Nat : e = Elapsed /\ Elapsed' = e + 1
      BY <2>4, <2>6
    <3>3. SinceTold(c) = (IF told[c].lost = 1 THEN AlertInterval ELSE 0) + (IF Pending(c) THEN AlertInterval ELSE 0) + e
      BY <3>2 DEF SinceTold
    <3>4. SinceTold(c)' = (IF told[c].lost = 1 THEN AlertInterval ELSE 0) + (IF Pending(c) THEN AlertInterval ELSE 0) + (e + 1)
      BY <1>0, <3>1, <3>2 DEF SinceTold
    <3>5. PICK a \in Int :
            a = (IF told[c].lost = 1 THEN AlertInterval ELSE 0) + (IF Pending(c) THEN AlertInterval ELSE 0)
      BY TimesAreNumbers
    <3>6. SinceTold(c) = a + e /\ SinceTold(c)' = a + (e + 1)
      BY <3>3, <3>4, <3>5
    <3> HIDE DEF SinceTold
    <3> QED
      BY <3>5, <3>6
  <2> QED
    BY <1>2, <2>6, <2>8, <2>9, <2>10
<1> QED
  BY <1>1, <1>2

LEMMA UnitKeeps == ASSUME DeliveryInv, NilIsNoRound, UnitPasses PROVE DeliveryInv'
<1>1. /\ held' = [c \in Posted |-> {[h EXCEPT !.left = @ - 1] : h \in {g \in held[c] : g.left > 1}}]
      /\ gone' = {[alert |-> a, age |-> GoneFor(a) + 1] :
                    a \in {b \in Seen \ Alerts : GoneFor(b) <= AlertTTL + Len(Alertmanagers)}}
      /\ UNCHANGED <<scope, situation, told>>
  BY DEF UnitPasses
<1>2. RoundInv'
  BY UnitKeepsRound
<1>3. ASSUME NEW c \in Posted, NEW h \in held'[c]
      PROVE  \E g \in held[c] : AnAlert(g) /\ g.left > 1 /\ h = [alert |-> g.alert, left |-> g.left - 1]
  <2>1. PICK g \in held[c] : g.left > 1 /\ h = [g EXCEPT !.left = @ - 1]
    BY <1>1
  <2>2. AnAlert(g)
    BY DEF DeliveryInv, HeldInv
  <2>3. h = [alert |-> g.alert, left |-> g.left - 1]
    BY <2>1, <2>2 DEF AnAlert
  <2> QED
    BY <2>1, <2>2, <2>3
<1>4. HeldInv'
  <2>1. ASSUME NEW c \in Posted, NEW h \in held'[c] PROVE AnAlert(h)
    <3>1. PICK g \in held[c] : AnAlert(g) /\ g.left > 1 /\ h = [alert |-> g.alert, left |-> g.left - 1]
      BY <1>3
    <3> QED
      BY <3>1, TimesAreNumbers DEF AnAlert
  <2> QED
    BY <1>1, <2>1 DEF HeldInv
<1>5. ToldInv'
  <2>1. ASSUME NEW c \in Posted, told'[c].lost <= 1
        PROVE  Keeps(held'[c], told'[c].alerts, AlertTTL - SinceTold(c)')
    <3>1. /\ told'[c] = told[c] /\ told[c].lost \in 0..2 /\ told[c].lost <= 1
          /\ Keeps(held[c], told[c].alerts, AlertTTL - SinceTold(c))
      BY <1>1, <2>1 DEF DeliveryInv, ToldInv
    <3>2. SinceTold(c)' \in Nat /\ SinceTold(c)' < AlertTTL
      <4>1. InTime'
        BY AlwaysInTime, PTL
      <4> QED
        BY <1>2, <3>1, <4>1 DEF InTime
    <3>3. SinceTold(c)' = SinceTold(c) + 1 /\ SinceTold(c) \in Nat
      BY UnitKeepsRound, SinceIsANumber DEF DeliveryInv
    <3>4. ASSUME NEW a \in told[c].alerts
          PROVE  \E h \in held'[c] : h.alert = a /\ h.left >= AlertTTL - SinceTold(c)'
      <4>1. PICK g \in held[c] : g.alert = a /\ g.left >= AlertTTL - SinceTold(c)
        BY <3>1 DEF Keeps
      <4>2. AnAlert(g)
        BY DEF DeliveryInv, HeldInv
      <4>3. g.left \in Nat /\ g.left > 1 /\ g.left - 1 >= AlertTTL - SinceTold(c)'
        BY <3>2, <3>3, <4>1, <4>2, TimesAreNumbers DEF AnAlert
      <4>4. [g EXCEPT !.left = @ - 1] \in held'[c]
        BY <1>1, <4>3
      <4>5. [g EXCEPT !.left = @ - 1] = [alert |-> a, left |-> g.left - 1]
        BY <4>1, <4>2 DEF AnAlert
      <4> QED
        BY <4>3, <4>4, <4>5
    <3> QED
      BY <3>1, <3>4 DEF Keeps
  <2> QED
    BY <1>1, <2>1 DEF DeliveryInv, ToldInv
<1>6. GoneInv'
  <2>1. Alerts' = Alerts
    BY <1>1, AlertsAreStill
  <2>2. Ages(gone) /\ \A a : GoneFor(a) = AgeIn(gone, a) /\ AgeIn(gone, a) \in Nat
    <3>1. Ages(gone)
      BY DEF DeliveryInv, GoneInv
    <3> QED
      BY <3>1, AgeIs, ZenonT(40) DEF GoneFor, AgeIn
  <2>3. \A g \in gone' : /\ g = [alert |-> g.alert, age |-> g.age] /\ g.age = AgeIn(gone, g.alert) + 1
                         /\ g.alert \notin Alerts
    BY <1>1, <2>2
  <2>4. Ages(gone')
    BY <2>2, <2>3 DEF Ages
  <2>5. \A a : AgeIn(gone', a) \in Nat /\ AgeIn(gone', a) <= AgeIn(gone, a) + 1
    <3> SUFFICES ASSUME NEW a PROVE AgeIn(gone', a) \in Nat /\ AgeIn(gone', a) <= AgeIn(gone, a) + 1
      OBVIOUS
    <3>1. CASE \E g \in gone' : g.alert = a
      <4>1. PICK g \in gone' : g.alert = a
        BY <3>1
      <4>2. AgeIn(gone', a) = g.age
        BY <2>4, <4>1, AgeIs
      <4> QED
        BY <2>2, <2>3, <4>1, <4>2
    <3>2. CASE \A g \in gone' : g.alert # a
      <4>1. AgeIn(gone', a) = 0
        BY <2>4, <3>2, AgeIs
      <4> QED
        BY <2>2, <4>1
    <3> QED
      BY <3>1, <3>2
  <2>6. ASSUME sending' # Nil PROVE \A a \in sending'.alerts : AgeIn(gone', a) <= Elapsed'
    <3>1. sending # Nil /\ Elapsed' = Elapsed + 1 /\ sending'.alerts = sending.alerts
      BY <2>6, UnitKeepsRound
    <3>2. \A a \in sending.alerts : AgeIn(gone, a) <= Elapsed
      BY <3>1 DEF DeliveryInv, GoneInv
    <3>3. Elapsed \in Nat
      BY <3>1, PostsAreInTime
    <3> QED
      BY <2>2, <2>5, <3>1, <3>2, <3>3
  <2>7. ASSUME NEW c \in Posted, NEW h \in held'[c]
        PROVE  h.left + AgeIn(gone', h.alert) < AlertTTL + Len(Alertmanagers)
    <3>1. PICK g \in held[c] : AnAlert(g) /\ g.left > 1 /\ h = [alert |-> g.alert, left |-> g.left - 1]
      BY <1>3
    <3>2. g.left + AgeIn(gone, g.alert) < AlertTTL + Len(Alertmanagers) /\ g.left \in Nat
      BY <3>1, TimesAreNumbers DEF DeliveryInv, GoneInv, AnAlert
    <3>3. h.alert = g.alert /\ h.left = g.left - 1
      BY <3>1
    <3> QED
      BY <2>2, <2>5, <3>1, <3>2, <3>3, TimesAreNumbers
  <2> QED
    BY <2>1, <2>3, <2>4, <2>6, <2>7 DEF GoneInv
<1> QED
  BY <1>2, <1>4, <1>5, <1>6 DEF DeliveryInv

(* An alert that is repeated does not expire for one lost post, and one     *)
(* whose failure has cleared ends in time, for any workloads, situations    *)
(* and Alertmanagers, whichever of them answer, late or not at all, and     *)
(* even if one is configured twice.  Rounds and none are told apart.        *)
(* (cmd/ruptura/alerts.go, internal/alertmanager/client.go)                 *)
THEOREM AlertsStayAndEnd == ASSUME NilIsNoRound PROVE MCSpec => []AlertsAlwaysFollow
<1>1. CASE Alertmanagers = <<>>
  <2>1. Posted = {}
    BY <1>1 DEF Posted
  <2>2. AlertsAlwaysFollow
    BY <2>1 DEF AlertsAlwaysFollow, AlertsFollowFailures, RepeatedAlertsStay, ClearedAlertsEnd
  <2> QED
    BY <2>2, PTL
<1>2. CASE Alertmanagers # <<>>
  <2>1. MCInit => DeliveryInv
    BY DeliveryStarts DEF MCInit
  <2>2. DeliveryInv /\ [MCNext]_<<part, vars, deliveryVars>> => DeliveryInv'
    <3> SUFFICES ASSUME DeliveryInv, [MCNext]_<<part, vars, deliveryVars>> PROVE DeliveryInv'
      OBVIOUS
    <3>1. CASE UNCHANGED deliveryVars
      <4>1. UNCHANGED <<scope, situation, wait, fired, sending, held, told, gone>>
        BY <3>1 DEF deliveryVars
      <4>2. RoundInv' /\ HeldInv'
        BY <4>1 DEF DeliveryInv, RoundInv, HeldInv, Elapsed, Slow
      <4>3. ToldInv'
        BY <4>1 DEF DeliveryInv, ToldInv, SinceTold, Pending, Elapsed
      <4>4. Alerts' = Alerts
        BY <4>1, AlertsAreStill
      <4>5. GoneInv'
        BY <4>1, <4>4 DEF DeliveryInv, GoneInv, Elapsed
      <4> QED
        BY <4>2, <4>3, <4>5 DEF DeliveryInv
    <3>2. CASE DeliveryNext
      BY <1>2, <3>2, TurnKeeps, StartKeeps, PostKeeps, UnitKeeps DEF DeliveryNext
    <3> QED
      BY <3>1, <3>2 DEF MCNext
  <2>3. DeliveryInv => AlertsAlwaysFollow
    <3> SUFFICES ASSUME DeliveryInv PROVE RepeatedAlertsStay /\ ClearedAlertsEnd
      BY DEF AlertsAlwaysFollow, AlertsFollowFailures
    <3>1. RepeatedAlertsStay
      BY DEF RepeatedAlertsStay, DeliveryInv, ToldInv, Keeps, ActiveAt
    <3>2. ASSUME NEW c \in Posted, NEW a \in ActiveAt(c) PROVE GoneFor(a) < AlertTTL + Len(Alertmanagers)
      <4>1. PICK h \in held[c] : h.alert = a
        BY DEF ActiveAt
      <4>2. h.left \in 1..AlertTTL /\ h.left + AgeIn(gone, a) < AlertTTL + Len(Alertmanagers)
        BY <4>1 DEF DeliveryInv, HeldInv, GoneInv, AnAlert
      <4>3. GoneFor(a) = AgeIn(gone, a) /\ AgeIn(gone, a) \in Nat
        <5>1. Ages(gone)
          BY DEF DeliveryInv, GoneInv
        <5>2. GoneFor(a) = AgeIn(gone, a)
          BY DEF GoneFor, AgeIn
        <5> QED
          BY <5>1, <5>2, AgeIs
      <4> QED
        BY <4>2, <4>3, TimesAreNumbers
    <3> QED
      BY <3>1, <3>2 DEF ClearedAlertsEnd
  <2> QED
    BY <2>1, <2>2, <2>3, PTL DEF MCSpec
<1> QED
  BY <1>1, <1>2
=============================================================================
