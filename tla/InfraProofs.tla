---------------------------- MODULE InfraProofs ----------------------------
(***************************************************************************)
(* The pressure of a namespace is the worst way of the graph to its        *)
(* workloads, for any objects, namespaces and reports.                     *)
(*                                                                         *)
(* The recursion over the groups is solved first: what each hears is a     *)
(* greatest number, of what reaches it along one edge (PropPressureIs).    *)
(* The nine ways are then compared with it (WorstWay), and each source     *)
(* alone with all of them (PressuresHaveSources).  What is left is the     *)
(* registry: what it multiplies lies between 0 and 1, and a namespace      *)
(* whose turn has come has the pressure of the snapshots that are shown.   *)
(***************************************************************************)
EXTENDS MCInfra, FoldLemmas

(***************************************************************************)
(* The greatest of some numbers.                                           *)
(***************************************************************************)
LEMMA MaxIs ==
  ASSUME NEW S, S \subseteq Int, NEW m \in S, \A x \in S : x <= m
  PROVE  Max(S) = m
<1>1. \E x \in S : \A y \in S : x >= y
  OBVIOUS
<1>2. Max(S) \in S /\ \A y \in S : Max(S) >= y
  BY <1>1, Zenon DEF Max
<1>3. PICK v : v = Max(S)
  OBVIOUS
<1>4. v \in Int /\ m \in Int
  BY <1>2, <1>3
<1>5. v <= m /\ v >= m
  BY <1>2, <1>3
<1> QED
  BY <1>3, <1>4, <1>5

LEMMA LeastIsIn ==
  ASSUME NEW S, \E x \in S : \A y \in S : x <= y
  PROVE  Min(S) \in S /\ \A y \in S : Min(S) <= y
BY Zenon DEF Min

(* Thousandths, and what is cut off at one.                                *)
Share == 0..1000
Capped(v) == Min({1000, v})

LEMMA ShareIs ==
  /\ Share \subseteq Int /\ 0 \in Share
  /\ \A x \in Share : x \in Int /\ 0 <= x
BY DEF Share

LEMMA CappedIsSame ==
  ASSUME NEW m \in Share
  PROVE  Capped(m) = m
<1>1. m \in 0..1000
  BY DEF Share
<1>2. \E x \in {1000, m} : \A y \in {1000, m} : x <= y
  BY <1>1
<1>3. Capped(m) \in {1000, m} /\ \A y \in {1000, m} : Capped(m) <= y
  BY <1>2, LeastIsIn DEF Capped
<1> QED
  BY <1>1, <1>3

LEMMA GreatestShare ==
  ASSUME NEW S, S \subseteq Share, S # {}
  PROVE  \E x \in S : \A y \in S : y <= x
<1>1. PICK n \in Nat : n = 1000
  OBVIOUS
<1>2. S \subseteq 0..n
  BY <1>1 DEF Share
<1> HIDE <1>1
<1> QED
  BY <1>2, GreatestOfNaturals, Zenon

----------------------------------------------------------------------------
(***************************************************************************)
(* The recursion over the groups, solved.  What a group is pressed with is *)
(* a greatest number, of those of the ways that reach it.                  *)
(***************************************************************************)
Activations == [Groups -> Share]
Worst(S) == CHOOSE m \in S : \A x \in S : x <= m

Tenths(x, w) == (x * w) \div 10

OnStorage(a) == Tenths(a["operators"], 6)
ToNetwork(a) == {Tenths(a["controlplane"], 9), Tenths(a["admission"], 6), Tenths(a["operators"], 6)}
OnNetwork(a) == Worst(ToNetwork(a))
ToWorkload(a) ==
  {Tenths(a["controlplane"], 10), Tenths(a["network"], 9), Tenths(a["storage"], 8), Tenths(a["admission"], 7),
   Tenths(a["operators"], 5), Tenths(OnNetwork(a), 9), Tenths(OnStorage(a), 8)}
OnWorkload(a) == Worst(ToWorkload(a))

Heard(a, g) ==
  CASE g = "storage" -> OnStorage(a) [] g = "network" -> OnNetwork(a) [] g = "workload" -> OnWorkload(a) [] OTHER -> 0

(* The step of the recursion. *)
Effective(a, h, i, g) == Max({a[g], IF Turn(g) < i THEN h[Turn(g)] ELSE 0})
PressuresOn(a, h, i) ==
  {Tenths(Effective(a, h, i, e.from), e.omega) : e \in {e \in CanonicalEdges : e.to = TopoOrder[i]}}
Hears(a, h, i) == Capped(Max(PressuresOn(a, h, i) \cup {0}))

LEMMA Turns ==
  /\ Turn("controlplane") = 1 /\ Turn("operators") = 2 /\ Turn("admission") = 3 /\ Turn("tenancy") = 4
  /\ Turn("storage") = 5 /\ Turn("network") = 6 /\ Turn("workload") = 7
  /\ Len(TopoOrder) = 7 /\ DOMAIN TopoOrder = 1..7
  /\ TopoOrder[1] = "controlplane" /\ TopoOrder[2] = "operators" /\ TopoOrder[3] = "admission"
  /\ TopoOrder[4] = "tenancy" /\ TopoOrder[5] = "storage" /\ TopoOrder[6] = "network" /\ TopoOrder[7] = "workload"
<1>1. /\ Len(TopoOrder) = 7 /\ DOMAIN TopoOrder = 1..7
      /\ TopoOrder[1] = "controlplane" /\ TopoOrder[2] = "operators" /\ TopoOrder[3] = "admission"
      /\ TopoOrder[4] = "tenancy" /\ TopoOrder[5] = "storage" /\ TopoOrder[6] = "network" /\ TopoOrder[7] = "workload"
  BY DEF TopoOrder
<1>2. \A i \in 1..7 : i = 1 \/ i = 2 \/ i = 3 \/ i = 4 \/ i = 5 \/ i = 6 \/ i = 7
  OBVIOUS
<1>3. \A i, j \in 1..7 : TopoOrder[i] = TopoOrder[j] => i = j
  BY <1>1, <1>2
<1>4. ASSUME NEW i \in 1..7 PROVE Turn(TopoOrder[i]) = i
  <2>1. \E j \in DOMAIN TopoOrder : TopoOrder[j] = TopoOrder[i]
    BY <1>1
  <2>2. Turn(TopoOrder[i]) \in DOMAIN TopoOrder /\ TopoOrder[Turn(TopoOrder[i])] = TopoOrder[i]
    BY <2>1, Zenon DEF Turn
  <2> QED
    BY <1>1, <1>3, <2>2
<1>5. Turn(TopoOrder[1]) = 1 /\ Turn(TopoOrder[2]) = 2 /\ Turn(TopoOrder[3]) = 3 /\ Turn(TopoOrder[4]) = 4
      /\ Turn(TopoOrder[5]) = 5 /\ Turn(TopoOrder[6]) = 6 /\ Turn(TopoOrder[7]) = 7
  BY <1>4
<1> QED
  BY <1>1, <1>5

(* The edges that end in a group. *)
LEMMA EdgesTo ==
  /\ \A g \in {"controlplane", "operators", "admission", "tenancy"} : {e \in CanonicalEdges : e.to = g} = {}
  /\ {e \in CanonicalEdges : e.to = "storage"} = {Edge("operators", "storage", 6)}
  /\ {e \in CanonicalEdges : e.to = "network"}
       = {Edge("controlplane", "network", 9), Edge("admission", "network", 6), Edge("operators", "network", 6)}
  /\ {e \in CanonicalEdges : e.to = "workload"}
       = {Edge("controlplane", "workload", 10), Edge("network", "workload", 9), Edge("storage", "workload", 8),
          Edge("admission", "workload", 7), Edge("operators", "workload", 5)}
<1>1. \A f, t, w : Edge(f, t, w).to = t
  BY DEF Edge
<1> USE DEF CanonicalEdges
<1>2. \A g \in {"controlplane", "operators", "admission", "tenancy"} : {e \in CanonicalEdges : e.to = g} = {}
  BY <1>1
<1>3. {e \in CanonicalEdges : e.to = "storage"} = {Edge("operators", "storage", 6)}
  BY <1>1
<1>4. {e \in CanonicalEdges : e.to = "network"}
       = {Edge("controlplane", "network", 9), Edge("admission", "network", 6), Edge("operators", "network", 6)}
  BY <1>1
<1>5. {e \in CanonicalEdges : e.to = "workload"}
       = {Edge("controlplane", "workload", 10), Edge("network", "workload", 9), Edge("storage", "workload", 8),
          Edge("admission", "workload", 7), Edge("operators", "workload", 5)}
  BY <1>1
<1> QED
  BY <1>2, <1>3, <1>4, <1>5

LEMMA ActivationOf ==
  ASSUME NEW a \in Activations
  PROVE  /\ a["controlplane"] \in Share /\ a["operators"] \in Share /\ a["admission"] \in Share
         /\ a["storage"] \in Share /\ a["network"] \in Share
BY Zenon DEF Activations, Groups

LEMMA WorstIs ==
  ASSUME NEW S, S \subseteq Share, S # {}
  PROVE  Worst(S) \in S /\ (\A x \in S : x <= Worst(S)) /\ Max(S) = Worst(S)
<1>1. \E m \in S : \A x \in S : x <= m
  BY GreatestShare, Zenon
<1>2. Worst(S) \in S /\ \A x \in S : x <= Worst(S)
  BY <1>1, Zenon DEF Worst
<1>3. S \subseteq Int
  BY ShareIs
<1> QED
  BY <1>2, <1>3, MaxIs, Zenon

LEMMA TenthsOf ==
  ASSUME NEW x \in Share, NEW w \in 0..10
  PROVE  Tenths(x, w) \in Share
<1>1. PICK y \in Nat : y = x * w /\ y <= 10000
  <2>1. x \in 0..1000
    BY DEF Share
  <2>2. x * w <= x * 10 /\ 0 <= x * w
    BY <2>1, ProductKeepsOrder
  <2> QED
    BY <2>1, <2>2
<1>2. y \div 10 \in Share
  BY <1>1 DEF Share
<1>3. y = x * w
  BY <1>1
<1> QED
  BY <1>2, <1>3, Zenon DEF Tenths

(* Pressures are none at least, and one at most.                           *)
LEMMA PressuresAre ==
  ASSUME NEW a \in Activations
  PROVE  /\ OnStorage(a) \in Share /\ OnNetwork(a) \in Share /\ OnWorkload(a) \in Share
         /\ ToNetwork(a) \subseteq Share /\ OnNetwork(a) \in ToNetwork(a)
         /\ \A x \in ToNetwork(a) : x <= OnNetwork(a)
         /\ ToWorkload(a) \subseteq Share /\ OnWorkload(a) \in ToWorkload(a)
         /\ \A x \in ToWorkload(a) : x <= OnWorkload(a)
<1>1. /\ a["controlplane"] \in Share /\ a["operators"] \in Share /\ a["admission"] \in Share
      /\ a["storage"] \in Share /\ a["network"] \in Share
  BY ActivationOf
<1>2. \A x \in Share : /\ Tenths(x, 9) \in Share /\ Tenths(x, 6) \in Share /\ Tenths(x, 10) \in Share
                         /\ Tenths(x, 8) \in Share /\ Tenths(x, 7) \in Share /\ Tenths(x, 5) \in Share
  BY TenthsOf
<1>3. OnStorage(a) \in Share
  BY <1>1, <1>2 DEF OnStorage
<1>4. ToNetwork(a) \subseteq Share /\ ToNetwork(a) # {}
  BY <1>1, <1>2 DEF ToNetwork
<1>5. OnNetwork(a) \in ToNetwork(a) /\ \A x \in ToNetwork(a) : x <= OnNetwork(a)
  BY <1>4, WorstIs DEF OnNetwork
<1>6. OnNetwork(a) \in Share
  BY <1>4, <1>5
<1>7. ToWorkload(a) \subseteq Share /\ ToWorkload(a) # {}
  BY <1>1, <1>2, <1>3, <1>6 DEF ToWorkload
<1>8. OnWorkload(a) \in ToWorkload(a) /\ \A x \in ToWorkload(a) : x <= OnWorkload(a)
  BY <1>7, WorstIs DEF OnWorkload
<1>9. OnWorkload(a) \in Share
  BY <1>7, <1>8
<1> QED
  BY <1>3, <1>4, <1>5, <1>6, <1>7, <1>8, <1>9

(* The greatest of some pressures, capped, and of none.                    *)
LEMMA CappedWorst ==
  ASSUME NEW S, S \subseteq Share
  PROVE  /\ S = {} => Capped(Max(S \cup {0})) = 0
         /\ \A m \in S : (\A x \in S : x <= m) => Capped(Max(S \cup {0})) = m
<1>1. ASSUME NEW m \in Share, m \in S \cup {0}, \A x \in S \cup {0} : x <= m
      PROVE  Capped(Max(S \cup {0})) = m
  <2>1. S \cup {0} \subseteq Int
    BY ShareIs
  <2>2. Max(S \cup {0}) = m
    BY <1>1, <2>1, MaxIs
  <2> QED
    BY <2>2, CappedIsSame, Zenon
<1>2. S = {} => Capped(Max(S \cup {0})) = 0
  <2>1. S = {} => (0 \in S \cup {0} /\ \A x \in S \cup {0} : x <= 0)
    OBVIOUS
  <2> QED
    BY <1>1, <2>1, ShareIs
<1>3. ASSUME NEW m \in S, \A x \in S : x <= m PROVE Capped(Max(S \cup {0})) = m
  <2>1. m \in Share /\ 0 <= m
    BY ShareIs
  <2>2. m \in S \cup {0} /\ \A x \in S \cup {0} : x <= m
    BY <1>3, <2>1
  <2> QED
    BY <1>1, <2>1, <2>2
<1> QED
  BY <1>2, <1>3, Zenon

Greater(x, y) == IF x <= y THEN y ELSE x

LEMMA MaxOfTwo ==
  ASSUME NEW x \in Share, NEW y \in Share
  PROVE  Max({x, y}) = Greater(x, y)
<1>1. {x, y} \subseteq Int /\ x \in Int /\ y \in Int
  BY ShareIs
<1>2. CASE x <= y
  <2>1. y \in {x, y} /\ \A z \in {x, y} : z <= y
    BY <1>1, <1>2
  <2>2. Max({x, y}) = y
    BY <1>1, <2>1, MaxIs
  <2> QED
    BY <1>2, <2>2 DEF Greater
<1>3. CASE ~(x <= y)
  <2>1. x \in {x, y} /\ \A z \in {x, y} : z <= x
    BY <1>1, <1>3
  <2>2. Max({x, y}) = x
    BY <1>1, <2>1, MaxIs
  <2> QED
    BY <1>3, <2>2 DEF Greater
<1> QED
  BY <1>2, <1>3

LEMMA EffectiveIs ==
  ASSUME NEW a \in Activations, NEW h, NEW i, NEW g \in Groups, Turn(g) < i, h[Turn(g)] \in Share
  PROVE  Effective(a, h, i, g) = Greater(a[g], h[Turn(g)])
<1>1. a[g] \in Share
  BY DEF Activations
<1>2. Effective(a, h, i, g) = Max({a[g], h[Turn(g)]})
  BY Zenon DEF Effective
<1> QED
  BY <1>1, <1>2, MaxOfTwo, Zenon

LEMMA TenthsKeepOrder ==
  ASSUME NEW x \in Share, NEW y \in Share, NEW w \in 0..10
  PROVE  Tenths(Greater(x, y), w) = Greater(Tenths(x, w), Tenths(y, w))
<1>0. x \in 0..1000 /\ y \in 0..1000
  BY DEF Share
<1>1. PICK p \in Nat, q \in Nat : p = x * w /\ q = y * w
  BY <1>0
<1>2. p <= q => p \div 10 <= q \div 10
  OBVIOUS
<1>3. q <= p => q \div 10 <= p \div 10
  OBVIOUS
<1>4. p \div 10 \in Int /\ q \div 10 \in Int
  OBVIOUS
<1>5. PICK m, n : m = p \div 10 /\ n = q \div 10
  OBVIOUS
<1>6. Tenths(x, w) = m /\ Tenths(y, w) = n
  BY <1>1, <1>5, Zenon DEF Tenths
<1>7. m \in Int /\ n \in Int /\ (p <= q => m <= n) /\ (q <= p => n <= m)
  BY <1>2, <1>3, <1>4, <1>5, Zenon
<1>8. CASE x <= y
  <2>1. p <= q
    BY <1>0, <1>1, <1>8, ProductKeepsOrder
  <2> QED
    BY <1>6, <1>7, <1>8, <2>1 DEF Greater
<1>9. CASE ~(x <= y)
  <2>1. q <= p
    BY <1>0, <1>1, <1>9, ProductKeepsOrder
  <2>2. n <= m
    BY <1>7, <2>1
  <2>3. Greater(x, y) = x
    BY <1>9 DEF Greater
  <2>4. Greater(m, n) = m
    BY <1>7, <2>2 DEF Greater
  <2> QED
    BY <1>6, <2>3, <2>4
<1> QED
  BY <1>8, <1>9

(* What each group hears, if those before it heard what they should.       *)
LEMMA HearsWorst ==
  ASSUME NEW a, NEW h, NEW i, PressuresOn(a, h, i) \subseteq Share
  PROVE  /\ PressuresOn(a, h, i) = {} => Hears(a, h, i) = 0
         /\ \A m \in PressuresOn(a, h, i) : (\A x \in PressuresOn(a, h, i) : x <= m) => Hears(a, h, i) = m
<1>1. Hears(a, h, i) = Capped(Max(PressuresOn(a, h, i) \cup {0}))
  BY Zenon DEF Hears
<1>2. \A S : S \subseteq Share =>
         /\ S = {} => Capped(Max(S \cup {0})) = 0
         /\ \A m \in S : (\A x \in S : x <= m) => Capped(Max(S \cup {0})) = m
  BY CappedWorst, Zenon
<1> QED
  BY <1>1, <1>2, Zenon

LEMMA SourcesHearNothing ==
  ASSUME NEW a, NEW h, NEW i \in 1..4
  PROVE  Hears(a, h, i) = 0
<1>1. TopoOrder[i] \in {"controlplane", "operators", "admission", "tenancy"}
  <2>1. i = 1 \/ i = 2 \/ i = 3 \/ i = 4
    OBVIOUS
  <2> QED
    BY <2>1, Turns
<1>2. {e \in CanonicalEdges : e.to = TopoOrder[i]} = {}
  BY <1>1, EdgesTo, Zenon
<1>3. PressuresOn(a, h, i) = {}
  BY <1>2 DEF PressuresOn
<1>4. PressuresOn(a, h, i) \subseteq Share
  BY <1>3
<1> QED
  BY <1>3, <1>4, HearsWorst, Zenon

(* A group without pressure of its own has its activation.                 *)
LEMMA EffectiveOfSource ==
  ASSUME NEW a \in Activations, NEW h, h[1] = 0, h[2] = 0, h[3] = 0, NEW i \in 5..7
  PROVE  /\ Effective(a, h, i, "controlplane") = a["controlplane"]
         /\ Effective(a, h, i, "operators") = a["operators"]
         /\ Effective(a, h, i, "admission") = a["admission"]
<1>1. \A x \in Share : Greater(x, 0) = x
  <2> SUFFICES ASSUME NEW x \in Share PROVE Greater(x, 0) = x
    OBVIOUS
  <2>1. x \in Int /\ 0 <= x
    BY ShareIs
  <2> QED
    BY <2>1 DEF Greater
<1>2. ASSUME NEW g \in {"controlplane", "operators", "admission"} PROVE Effective(a, h, i, g) = a[g]
  <2>1. g \in Groups /\ a[g] \in Share
    BY DEF Groups, Activations
  <2>2. Turn(g) < i /\ h[Turn(g)] = 0
    BY Turns
  <2>3. Effective(a, h, i, g) = Max({a[g], 0})
    BY <2>2 DEF Effective
  <2>4. 0 \in Share
    BY ShareIs
  <2>5. Max({a[g], 0}) = Greater(a[g], 0)
    BY <2>1, <2>4, MaxOfTwo, Zenon
  <2> QED
    BY <1>1, <2>1, <2>3, <2>5, Zenon
<1> QED
  BY <1>2

LEMMA StorageHears ==
  ASSUME NEW a \in Activations, NEW h, h[1] = 0, h[2] = 0, h[3] = 0
  PROVE  Hears(a, h, 5) = OnStorage(a)
<1>1. {e \in CanonicalEdges : e.to = TopoOrder[5]} = {Edge("operators", "storage", 6)}
  BY Turns, EdgesTo, Zenon
<1>2. Effective(a, h, 5, "operators") = a["operators"]
  BY EffectiveOfSource
<1>3. PressuresOn(a, h, 5) = {OnStorage(a)}
  <2>1. Edge("operators", "storage", 6).from = "operators" /\ Edge("operators", "storage", 6).omega = 6
    BY DEF Edge
  <2>2. PressuresOn(a, h, 5) = {Tenths(Effective(a, h, 5, e.from), e.omega) : e \in {Edge("operators", "storage", 6)}}
    BY <1>1, Zenon DEF PressuresOn
  <2> QED
    BY <1>2, <2>1, <2>2, Zenon DEF OnStorage
<1>4. PICK s \in Share : s = OnStorage(a)
  BY PressuresAre
<1>5. PressuresOn(a, h, 5) \subseteq Share /\ s \in PressuresOn(a, h, 5) /\ \A x \in PressuresOn(a, h, 5) : x <= s
  <2>1. s \in Int
    BY ShareIs
  <2> QED
    BY <1>3, <1>4, <2>1
<1> QED
  BY <1>4, <1>5, HearsWorst, Zenon

LEMMA NetworkHears ==
  ASSUME NEW a \in Activations, NEW h, h[1] = 0, h[2] = 0, h[3] = 0
  PROVE  Hears(a, h, 6) = OnNetwork(a)
<1> DEFINE E == {Edge("controlplane", "network", 9), Edge("admission", "network", 6), Edge("operators", "network", 6)}
<1>1. {e \in CanonicalEdges : e.to = TopoOrder[6]} = E
  BY Turns, EdgesTo, Zenon
<1>2. /\ Effective(a, h, 6, "controlplane") = a["controlplane"]
      /\ Effective(a, h, 6, "operators") = a["operators"]
      /\ Effective(a, h, 6, "admission") = a["admission"]
  BY EffectiveOfSource
<1>3. PressuresOn(a, h, 6) = ToNetwork(a)
  <2>1. \A f, t, w : Edge(f, t, w).from = f /\ Edge(f, t, w).omega = w
    BY DEF Edge
  <2>2. PressuresOn(a, h, 6) = {Tenths(Effective(a, h, 6, e.from), e.omega) : e \in E}
    BY <1>1, Zenon DEF PressuresOn
  <2>3. PressuresOn(a, h, 6) = {Tenths(Effective(a, h, 6, "controlplane"), 9), Tenths(Effective(a, h, 6, "admission"), 6),
                                Tenths(Effective(a, h, 6, "operators"), 6)}
    BY <2>1, <2>2
  <2> QED
    BY <1>2, <2>3, Zenon DEF ToNetwork
<1>4. PressuresOn(a, h, 6) \subseteq Share /\ OnNetwork(a) \in PressuresOn(a, h, 6)
      /\ \A x \in PressuresOn(a, h, 6) : x <= OnNetwork(a)
  BY <1>3, PressuresAre
<1> QED
  BY <1>4, HearsWorst, Zenon

(* The network and the storage pass on what they heard, if it is worse.    *)
LEMMA WorkloadHears ==
  ASSUME NEW a \in Activations, NEW h, h[1] = 0, h[2] = 0, h[3] = 0, h[5] = OnStorage(a), h[6] = OnNetwork(a)
  PROVE  Hears(a, h, 7) = OnWorkload(a)
<1> DEFINE E == {Edge("controlplane", "workload", 10), Edge("network", "workload", 9), Edge("storage", "workload", 8),
                 Edge("admission", "workload", 7), Edge("operators", "workload", 5)}
           n == Greater(Tenths(a["network"], 9), Tenths(OnNetwork(a), 9))
           s == Greater(Tenths(a["storage"], 8), Tenths(OnStorage(a), 8))
<1>1. {e \in CanonicalEdges : e.to = TopoOrder[7]} = E
  BY Turns, EdgesTo, Zenon
<1>2. /\ Effective(a, h, 7, "controlplane") = a["controlplane"]
      /\ Effective(a, h, 7, "operators") = a["operators"]
      /\ Effective(a, h, 7, "admission") = a["admission"]
  BY EffectiveOfSource
<1>3. OnStorage(a) \in Share /\ OnNetwork(a) \in Share /\ a["network"] \in Share /\ a["storage"] \in Share
  BY PressuresAre, ActivationOf
<1>4. Effective(a, h, 7, "network") = Greater(a["network"], OnNetwork(a))
  <2>1. "network" \in Groups /\ Turn("network") < 7 /\ OnNetwork(a) = h[Turn("network")] /\ 7 \in 1..7
    BY Turns DEF Groups
  <2> QED
    BY <1>3, <2>1, EffectiveIs, Zenon
<1>5. Effective(a, h, 7, "storage") = Greater(a["storage"], OnStorage(a))
  <2>1. "storage" \in Groups /\ Turn("storage") < 7 /\ OnStorage(a) = h[Turn("storage")] /\ 7 \in 1..7
    BY Turns DEF Groups
  <2> QED
    BY <1>3, <2>1, EffectiveIs, Zenon
<1>6. Tenths(Greater(a["network"], OnNetwork(a)), 9) = n /\ Tenths(Greater(a["storage"], OnStorage(a)), 8) = s
  <2>1. 9 \in 0..10 /\ 8 \in 0..10
    OBVIOUS
  <2> QED
    BY <1>3, <2>1, TenthsKeepOrder, Zenon
<1>7. PressuresOn(a, h, 7) = {Tenths(a["controlplane"], 10), n, s, Tenths(a["admission"], 7), Tenths(a["operators"], 5)}
  <2>1. \A f, t, w : Edge(f, t, w).from = f /\ Edge(f, t, w).omega = w
    BY DEF Edge
  <2>2. PressuresOn(a, h, 7) = {Tenths(Effective(a, h, 7, e.from), e.omega) : e \in E}
    BY <1>1, Zenon DEF PressuresOn
  <2>3. PressuresOn(a, h, 7) = {Tenths(Effective(a, h, 7, "controlplane"), 10), Tenths(Effective(a, h, 7, "network"), 9),
             Tenths(Effective(a, h, 7, "storage"), 8), Tenths(Effective(a, h, 7, "admission"), 7),
             Tenths(Effective(a, h, 7, "operators"), 5)}
    <3> HIDE DEF n, s
    <3> QED
      BY <2>1, <2>2
  <2> HIDE DEF n, s
  <2> QED
    BY <1>2, <1>4, <1>5, <1>6, <2>3
<1> HIDE DEF n, s
<1>8. PICK m : m = OnWorkload(a)
  OBVIOUS
<1>9. /\ m \in ToWorkload(a) /\ ToWorkload(a) \subseteq Share /\ \A x \in ToWorkload(a) : x <= m
  BY <1>8, PressuresAre
<1>10. PICK n1, n2, s1, s2 : /\ n1 = Tenths(a["network"], 9) /\ n2 = Tenths(OnNetwork(a), 9)
                             /\ s1 = Tenths(a["storage"], 8) /\ s2 = Tenths(OnStorage(a), 8)
  OBVIOUS
<1>11. PICK c, d, o : c = Tenths(a["controlplane"], 10) /\ d = Tenths(a["admission"], 7) /\ o = Tenths(a["operators"], 5)
  OBVIOUS
<1>12. ToWorkload(a) = {c, n1, s1, d, o, n2, s2}
  BY <1>10, <1>11 DEF ToWorkload
<1>13. PressuresOn(a, h, 7) = {c, Greater(n1, n2), Greater(s1, s2), d, o}
  BY <1>7, <1>10, <1>11 DEF n, s
<1>14. \A x \in {c, n1, s1, d, o, n2, s2} : x \in Share /\ x \in Int /\ x <= m
  BY <1>9, <1>12, ShareIs
<1>15. m \in Int /\ m \in {c, n1, s1, d, o, n2, s2}
  BY <1>9, <1>12, <1>14
<1>16. PressuresOn(a, h, 7) \subseteq Share /\ \A x \in PressuresOn(a, h, 7) : x <= m
  BY <1>13, <1>14 DEF Greater
<1>17. m \in PressuresOn(a, h, 7)
  <2>1. n1 \in Int /\ n2 \in Int /\ s1 \in Int /\ s2 \in Int /\ n1 <= m /\ n2 <= m /\ s1 <= m /\ s2 <= m
    BY <1>14
  <2>2. (m = n1 \/ m = n2) => m = Greater(n1, n2)
    BY <1>15, <2>1 DEF Greater
  <2>3. (m = s1 \/ m = s2) => m = Greater(s1, s2)
    BY <1>15, <2>1 DEF Greater
  <2> QED
    BY <1>13, <1>15, <2>2, <2>3
<1> QED
  BY <1>8, <1>16, <1>17, HearsWorst, Zenon

(* What is heard, turn by turn: there is one function that satisfies the   *)
(* recursion.                                                              *)
Hearing(a, h) == h = [i \in 1..Len(TopoOrder) |-> Hears(a, h, i)]

LEMMA HearingIs ==
  ASSUME NEW a \in Activations
  PROVE  /\ \E h : Hearing(a, h)
         /\ \A h : Hearing(a, h) => \A g \in Groups : h[Turn(g)] = Heard(a, g)
<1>0. Len(TopoOrder) = 7
  BY Turns
<1> DEFINE w == <<0, 0, 0, 0, OnStorage(a), OnNetwork(a), OnWorkload(a)>>
<1>1. w[1] = 0 /\ w[2] = 0 /\ w[3] = 0 /\ w[4] = 0 /\ w[5] = OnStorage(a) /\ w[6] = OnNetwork(a) /\ w[7] = OnWorkload(a)
  OBVIOUS
<1>2. w = [i \in 1..7 |-> w[i]]
  OBVIOUS
<1> HIDE DEF w
<1>3. ASSUME NEW h, h[1] = 0, h[2] = 0, h[3] = 0, h[5] = OnStorage(a), h[6] = OnNetwork(a)
      PROVE  /\ Hears(a, h, 1) = 0 /\ Hears(a, h, 2) = 0 /\ Hears(a, h, 3) = 0 /\ Hears(a, h, 4) = 0
             /\ Hears(a, h, 5) = OnStorage(a) /\ Hears(a, h, 6) = OnNetwork(a) /\ Hears(a, h, 7) = OnWorkload(a)
  BY <1>3, SourcesHearNothing, StorageHears, NetworkHears, WorkloadHears
<1>4. \E h : Hearing(a, h)
  <2>1. \A i \in 1..7 : i = 1 \/ i = 2 \/ i = 3 \/ i = 4 \/ i = 5 \/ i = 6 \/ i = 7
    OBVIOUS
  <2>2. \A i \in 1..7 : w[i] = Hears(a, w, i)
    BY <1>1, <1>3, <2>1
  <2>3. [i \in 1..7 |-> w[i]] = [i \in 1..7 |-> Hears(a, w, i)]
    BY <2>2
  <2>4. Hearing(a, w)
    BY <1>0, <1>2, <2>3, Zenon DEF Hearing
  <2> QED
    BY <2>4
<1>5. ASSUME NEW h, Hearing(a, h) PROVE \A g \in Groups : h[Turn(g)] = Heard(a, g)
  <2>1. h = [i \in 1..7 |-> Hears(a, h, i)]
    BY <1>0, <1>5, Zenon DEF Hearing
  <2>2. \A i \in 1..7 : h[i] = Hears(a, h, i)
    <3>1. \A f : (h = [i \in 1..7 |-> f[i]]) => \A i \in 1..7 : h[i] = f[i]
      OBVIOUS
    <3> QED
      BY <2>1, Zenon
  <2>3. h[1] = 0 /\ h[2] = 0 /\ h[3] = 0 /\ h[4] = 0
    <3>1. \A i \in 1..4 : i \in 1..7
      OBVIOUS
    <3>2. \A i \in 1..4 : h[i] = 0
      BY <2>2, <3>1, SourcesHearNothing, Zenon
    <3> QED
      BY <3>2
  <2>4. h[5] = OnStorage(a)
    BY <2>2, <2>3, StorageHears
  <2>5. h[6] = OnNetwork(a)
    BY <2>2, <2>3, NetworkHears
  <2>6. h[7] = OnWorkload(a)
    BY <2>2, <2>3, <2>4, <2>5, WorkloadHears
  <2>7. ASSUME NEW g \in Groups PROVE h[Turn(g)] = Heard(a, g)
    BY <2>3, <2>4, <2>5, <2>6, Turns DEF Groups, Heard
  <2> QED
    BY <2>7
<1> QED
  BY <1>4, <1>5, Zenon

LEMMA PropPressureIs ==
  ASSUME NEW a \in Activations
  PROVE  PropPressure(a) = [g \in Groups |-> Heard(a, g)]
<1> DEFINE it == CHOOSE h : Hearing(a, h)
<1>1. PropPressure(a) = [g \in Groups |-> it[Turn(g)]]
  BY Zenon DEF PropPressure, Hearing, Hears, PressuresOn, Effective, Capped, Tenths
<1>2. Hearing(a, it)
  BY HearingIs, Zenon
<1> HIDE DEF it
<1>3. \A g \in Groups : it[Turn(g)] = Heard(a, g)
  BY <1>2, HearingIs, Zenon
<1> QED
  BY <1>1, <1>3

(***************************************************************************)
(* The ways to the workloads: five of one edge, four of two.               *)
(***************************************************************************)
Along(a) ==
  {Tenths(a["controlplane"], 10), Tenths(a["network"], 9), Tenths(a["storage"], 8), Tenths(a["admission"], 7),
   Tenths(a["operators"], 5)} \cup {Tenths(x, 9) : x \in ToNetwork(a)} \cup {Tenths(OnStorage(a), 8)}

Through ==
  {<<Edge("controlplane", "network", 9), Edge("network", "workload", 9)>>,
   <<Edge("admission", "network", 6), Edge("network", "workload", 9)>>,
   <<Edge("operators", "network", 6), Edge("network", "workload", 9)>>,
   <<Edge("operators", "storage", 6), Edge("storage", "workload", 8)>>}

LEMMA WaysThrough ==
  {way \in CanonicalEdges \X CanonicalEdges : way[1].to = way[2].from /\ way[2].to = "workload"} = Through
<1>1. \A f, t, w : Edge(f, t, w).from = f /\ Edge(f, t, w).to = t
  BY DEF Edge
<1>2. ASSUME NEW e \in CanonicalEdges, NEW f \in CanonicalEdges, e.to = f.from, f.to = "workload"
      PROVE  <<e, f>> \in Through
  <2>1. f \in {e1 \in CanonicalEdges : e1.to = "workload"} /\ e \in {e1 \in CanonicalEdges : e1.to = f.from}
    BY <1>2
  <2>2. f \in {Edge("controlplane", "workload", 10), Edge("network", "workload", 9), Edge("storage", "workload", 8),
               Edge("admission", "workload", 7), Edge("operators", "workload", 5)}
    BY <2>1, EdgesTo, Zenon
  <2>3. CASE f = Edge("network", "workload", 9)
    <3>1. f.from = "network"
      BY <1>1, <2>3
    <3>2. e \in {Edge("controlplane", "network", 9), Edge("admission", "network", 6), Edge("operators", "network", 6)}
      BY <2>1, <3>1, EdgesTo, Zenon
    <3> QED
      BY <2>3, <3>2 DEF Through
  <2>4. CASE f = Edge("storage", "workload", 8)
    <3>1. f.from = "storage"
      BY <1>1, <2>4
    <3>2. e \in {Edge("operators", "storage", 6)}
      BY <2>1, <3>1, EdgesTo, Zenon
    <3> QED
      BY <2>4, <3>2 DEF Through
  <2>5. CASE f.from \in {"controlplane", "operators", "admission", "tenancy"}
    <3>1. {e1 \in CanonicalEdges : e1.to = f.from} = {}
      BY <2>5, EdgesTo, Zenon
    <3> QED
      BY <2>1, <3>1
  <2>6. f = Edge("network", "workload", 9) \/ f = Edge("storage", "workload", 8)
        \/ f.from \in {"controlplane", "operators", "admission", "tenancy"}
    BY <1>1, <2>2
  <2> QED
    BY <2>3, <2>4, <2>5, <2>6
<1>3. ASSUME NEW way \in Through
      PROVE  way \in CanonicalEdges \X CanonicalEdges /\ way[1].to = way[2].from /\ way[2].to = "workload"
  <2>1. /\ Edge("network", "workload", 9) \in CanonicalEdges /\ Edge("storage", "workload", 8) \in CanonicalEdges
        /\ Edge("controlplane", "network", 9) \in CanonicalEdges /\ Edge("admission", "network", 6) \in CanonicalEdges
        /\ Edge("operators", "network", 6) \in CanonicalEdges /\ Edge("operators", "storage", 6) \in CanonicalEdges
    BY DEF CanonicalEdges
  <2>2. PICK e \in CanonicalEdges, f \in CanonicalEdges : way = <<e, f>> /\ e.to = f.from /\ f.to = "workload"
    BY <1>1, <2>1 DEF Through
  <2> QED
    BY <2>2
<1>4. \A way \in CanonicalEdges \X CanonicalEdges : way = <<way[1], way[2]>>
  OBVIOUS
<1>5. \A way \in CanonicalEdges \X CanonicalEdges : way[1] \in CanonicalEdges /\ way[2] \in CanonicalEdges
  OBVIOUS
<1>6. \A way \in CanonicalEdges \X CanonicalEdges :
         way[1].to = way[2].from /\ way[2].to = "workload" => way \in Through
  BY <1>2, <1>4, <1>5, Zenon
<1> QED
  BY <1>3, <1>6

LEMMA WaysPress ==
  ASSUME NEW a
  PROVE  {WayPressure(a, way) : way \in Ways} = Along(a)
<1>1. \A e : WayPressure(a, <<e>>) = Tenths(a[e.from], e.omega)
  <2> TAKE e
  <2>1. Len(<<e>>) = 1 /\ <<e>>[1] = e
    OBVIOUS
  <2> QED
    BY <2>1, Zenon DEF WayPressure, Tenths
<1>2. \A e, f : WayPressure(a, <<e, f>>) = Tenths(Tenths(a[e.from], e.omega), f.omega)
  <2> TAKE e, f
  <2>1. Len(<<e, f>>) # 1 /\ <<e, f>>[1] = e /\ <<e, f>>[2] = f
    OBVIOUS
  <2> QED
    BY <2>1, Zenon DEF WayPressure, Tenths
<1>3. \A f, t, w : Edge(f, t, w).from = f /\ Edge(f, t, w).omega = w
  BY DEF Edge
<1> DEFINE E == {Edge("controlplane", "workload", 10), Edge("network", "workload", 9), Edge("storage", "workload", 8),
                 Edge("admission", "workload", 7), Edge("operators", "workload", 5)}
<1>4. Ways = {<<e>> : e \in E} \cup Through
  BY EdgesTo, WaysThrough, Zenon DEF Ways
<1>5. {WayPressure(a, way) : way \in {<<e>> : e \in E}}
        = {Tenths(a["controlplane"], 10), Tenths(a["network"], 9), Tenths(a["storage"], 8), Tenths(a["admission"], 7),
           Tenths(a["operators"], 5)}
  <2>1. {WayPressure(a, way) : way \in {<<e>> : e \in E}} = {WayPressure(a, <<e>>) : e \in E}
    OBVIOUS
  <2>2. {WayPressure(a, <<e>>) : e \in E}
          = {WayPressure(a, <<Edge("controlplane", "workload", 10)>>), WayPressure(a, <<Edge("network", "workload", 9)>>),
             WayPressure(a, <<Edge("storage", "workload", 8)>>), WayPressure(a, <<Edge("admission", "workload", 7)>>),
             WayPressure(a, <<Edge("operators", "workload", 5)>>)}
    OBVIOUS
  <2> QED
    BY <1>1, <1>3, <2>1, <2>2
<1>6. {WayPressure(a, way) : way \in Through} = {Tenths(x, 9) : x \in ToNetwork(a)} \cup {Tenths(OnStorage(a), 8)}
  <2>1. {WayPressure(a, way) : way \in Through}
          = {Tenths(Tenths(a["controlplane"], 9), 9), Tenths(Tenths(a["admission"], 6), 9),
             Tenths(Tenths(a["operators"], 6), 9), Tenths(Tenths(a["operators"], 6), 8)}
    BY <1>2, <1>3 DEF Through
  <2> QED
    BY <2>1 DEF ToNetwork, OnStorage
<1>7. {WayPressure(a, way) : way \in Ways}
        = {WayPressure(a, way) : way \in {<<e>> : e \in E}} \cup {WayPressure(a, way) : way \in Through}
  BY <1>4
<1> QED
  BY <1>5, <1>6, <1>7 DEF Along

LEMMA TenthsClimb ==
  ASSUME NEW x \in Share, NEW y \in Share, x <= y, NEW w \in 0..10
  PROVE  Tenths(x, w) <= Tenths(y, w)
<1>1. Greater(x, y) = y
  BY DEF Greater
<1>2. PICK m, n : m = Tenths(x, w) /\ n = Tenths(y, w)
  OBVIOUS
<1>3. m \in Int /\ n \in Int
  BY <1>2, TenthsOf, ShareIs
<1>4. n = Greater(m, n)
  BY <1>1, <1>2, TenthsKeepOrder, Zenon
<1> QED
  BY <1>2, <1>3, <1>4 DEF Greater

(* The single pass hears the worst of the ways.                            *)
LEMMA WorstWay ==
  ASSUME NEW a \in Activations
  PROVE  Max({WayPressure(a, way) : way \in Ways}) = OnWorkload(a)
<1> DEFINE One == {Tenths(a["controlplane"], 10), Tenths(a["network"], 9), Tenths(a["storage"], 8),
                   Tenths(a["admission"], 7), Tenths(a["operators"], 5)}
<1>1. ToWorkload(a) = One \cup {Tenths(OnNetwork(a), 9)} \cup {Tenths(OnStorage(a), 8)}
  BY DEF ToWorkload
<1>2. Along(a) = One \cup {Tenths(x, 9) : x \in ToNetwork(a)} \cup {Tenths(OnStorage(a), 8)}
  BY Zenon DEF Along
<1> HIDE DEF One
<1>3. OnWorkload(a) \in Along(a)
  BY <1>1, <1>2, PressuresAre
<1>4. \A x \in ToNetwork(a) : Tenths(x, 9) \in Share /\ Tenths(x, 9) <= Tenths(OnNetwork(a), 9)
  BY PressuresAre, TenthsClimb, TenthsOf
<1>5. Tenths(OnNetwork(a), 9) \in Share /\ Tenths(OnNetwork(a), 9) <= OnWorkload(a)
  BY <1>1, PressuresAre
<1>6. Along(a) \subseteq Share
  BY <1>1, <1>2, <1>4, PressuresAre
<1>7. \A y \in Along(a) : y <= OnWorkload(a)
  <2> SUFFICES ASSUME NEW y \in Along(a) PROVE y <= OnWorkload(a)
    OBVIOUS
  <2>1. CASE y \in One \cup {Tenths(OnStorage(a), 8)}
    <3>1. y \in ToWorkload(a)
      BY <1>1, <2>1
    <3> QED
      BY <3>1, PressuresAre
  <2>2. CASE \E x \in ToNetwork(a) : y = Tenths(x, 9)
    <3>1. PICK m, n : m = Tenths(OnNetwork(a), 9) /\ n = OnWorkload(a)
      OBVIOUS
    <3>2. y \in Share /\ y <= m
      BY <1>4, <2>2, <3>1
    <3>3. m \in Share /\ n \in Share /\ m <= n
      BY <1>5, <3>1, PressuresAre
    <3>4. y \in Int /\ m \in Int /\ n \in Int
      BY <3>2, <3>3, ShareIs
    <3>5. y <= n
      BY <3>2, <3>3, <3>4
    <3> QED
      BY <3>1, <3>5
  <2> QED
    BY <1>2, <2>1, <2>2
<1>8. {WayPressure(a, way) : way \in Ways} = Along(a)
  BY WaysPress, Zenon
<1>9. Along(a) \subseteq Int
  BY <1>6, ShareIs
<1> QED
  BY <1>3, <1>7, <1>8, <1>9, MaxIs, Zenon

(***************************************************************************)
(* A source alone: what it reaches is under pressure, and what is under    *)
(* pressure is reached by one of the sources.                              *)
(***************************************************************************)
LEMMA TenthsLose ==
  ASSUME NEW x \in Share, NEW w \in 0..10
  PROVE  Tenths(x, w) <= x
<1>1. x \in 0..1000
  BY DEF Share
<1>2. PICK y \in Nat : y = x * w /\ y <= 10 * x
  <2>1. x * w <= x * 10 /\ 0 <= x * w
    BY <1>1, ProductKeepsOrder
  <2> QED
    BY <1>1, <2>1
<1>3. y \div 10 <= x
  BY <1>1, <1>2
<1>4. y = x * w
  BY <1>2
<1> QED
  BY <1>3, <1>4, Zenon DEF Tenths

LEMMA AloneIs ==
  ASSUME NEW a \in Activations, NEW src \in Groups
  PROVE  /\ Alone(a, src) \in Activations
         /\ Alone(a, src)[src] = a[src]
         /\ \A g \in Groups : Alone(a, src)[g] <= a[g]
<1>1. \A g \in Groups : a[g] \in Share /\ a[g] <= a[g] /\ 0 <= a[g]
  <2> TAKE g \in Groups
  <2>1. a[g] \in Share
    BY DEF Activations
  <2>2. a[g] \in Int /\ 0 <= a[g]
    BY <2>1, ShareIs
  <2> QED
    BY <2>1, <2>2
<1>2. \A g \in Groups : Alone(a, src)[g] = IF g = src THEN a[g] ELSE 0
  BY DEF Alone
<1>3. Alone(a, src) = [g \in Groups |-> IF g = src THEN a[g] ELSE 0]
  BY DEF Alone
<1> QED
  BY <1>1, <1>2, <1>3, ShareIs DEF Activations

LEMMA HeardKeepsOrder ==
  ASSUME NEW a \in Activations, NEW b \in Activations, \A g \in Groups : b[g] <= a[g]
  PROVE  \A g \in Groups : Heard(b, g) <= Heard(a, g)
<1>0. {"controlplane", "operators", "admission", "storage", "network"} \subseteq Groups
  BY DEF Groups
<1>1. \A g \in {"controlplane", "operators", "admission", "storage", "network"} :
         b[g] <= a[g] /\ b[g] \in Share /\ a[g] \in Share
  BY <1>0 DEF Activations
<1>2. \A w \in 0..10 : \A g \in {"controlplane", "operators", "admission", "storage", "network"} :
         Tenths(b[g], w) <= Tenths(a[g], w)
  BY <1>1, TenthsClimb
<1>3. OnStorage(b) <= OnStorage(a)
  BY <1>2 DEF OnStorage
<1>4. OnNetwork(b) <= OnNetwork(a)
  <2>1. \A x \in ToNetwork(b) : \E y \in ToNetwork(a) : x <= y
    BY <1>2 DEF ToNetwork
  <2>2. PICK S, T, m, n : S = ToNetwork(b) /\ T = ToNetwork(a) /\ m = OnNetwork(b) /\ n = OnNetwork(a)
    OBVIOUS
  <2>3. m \in S /\ T \subseteq Share /\ S \subseteq Share /\ n \in T /\ (\A y \in T : y <= n)
    BY <2>2, PressuresAre
  <2>4. \A x \in S : \E y \in T : x <= y
    BY <2>1, <2>2
  <2>5. m <= n
    <3>1. PICK y \in T : m <= y
      BY <2>3, <2>4
    <3>2. m \in Int /\ y \in Int /\ n \in Int /\ y <= n
      BY <2>3, ShareIs
    <3> QED
      BY <3>1, <3>2
  <2> QED
    BY <2>2, <2>5
<1>5. OnWorkload(b) <= OnWorkload(a)
  <2>1. Tenths(OnStorage(b), 8) <= Tenths(OnStorage(a), 8) /\ Tenths(OnNetwork(b), 9) <= Tenths(OnNetwork(a), 9)
    BY <1>3, <1>4, PressuresAre, TenthsClimb
  <2>2. \A x \in ToWorkload(b) : \E y \in ToWorkload(a) : x <= y
    BY <1>2, <2>1 DEF ToWorkload
  <2>3. PICK S, T, m, n : S = ToWorkload(b) /\ T = ToWorkload(a) /\ m = OnWorkload(b) /\ n = OnWorkload(a)
    OBVIOUS
  <2>4. m \in S /\ T \subseteq Share /\ S \subseteq Share /\ n \in T /\ (\A y \in T : y <= n)
    BY <2>3, PressuresAre
  <2>5. \A x \in S : \E y \in T : x <= y
    BY <2>2, <2>3
  <2>6. m <= n
    <3>1. PICK y \in T : m <= y
      BY <2>4, <2>5
    <3>2. m \in Int /\ y \in Int /\ n \in Int /\ y <= n
      BY <2>4, ShareIs
    <3> QED
      BY <3>1, <3>2
  <2> QED
    BY <2>3, <2>6
<1> QED
  BY <1>3, <1>4, <1>5 DEF Heard

(* What is heard comes along a way from one group, of which it is a part.  *)
From(a, g, src) ==
  /\ src \in Groups \ {g}
  /\ Heard(a, g) <= a[src]
  /\ \A b \in Activations : b[src] = a[src] => Heard(a, g) <= Heard(b, g)

LEMMA HeardFromOne ==
  ASSUME NEW a \in Activations, NEW g \in {"storage", "network", "workload"}
  PROVE  \E src \in Groups : From(a, g, src)
<1> DEFINE Few == {"controlplane", "operators", "admission"}
<1>1. \A x \in Groups : a[x] \in Share
  BY DEF Activations
<1>2. \A w \in 0..10 : \A x \in Groups : Tenths(a[x], w) <= a[x] /\ Tenths(a[x], w) \in Share
  BY <1>1, TenthsLose, TenthsOf
<1>3. /\ {"controlplane", "operators", "admission", "storage", "network"} \subseteq Groups
      /\ Heard(a, "storage") = OnStorage(a) /\ Heard(a, "network") = OnNetwork(a) /\ Heard(a, "workload") = OnWorkload(a)
      /\ \A b : Heard(b, "storage") = OnStorage(b) /\ Heard(b, "network") = OnNetwork(b) /\ Heard(b, "workload") = OnWorkload(b)
  BY DEF Groups, Heard
<1>4. ASSUME NEW x \in ToNetwork(a)
      PROVE  \E src \in Few : x <= a[src] /\ \A b \in Activations : b[src] = a[src] => x \in ToNetwork(b)
  BY <1>2, <1>3 DEF ToNetwork
<1>5. CASE g = "storage"
  <2>1. From(a, "storage", "operators")
    <3>1. OnStorage(a) <= a["operators"]
      BY <1>2, <1>3 DEF OnStorage
    <3>2. OnStorage(a) \in Int
      BY PressuresAre, ShareIs
    <3>3. \A b \in Activations : b["operators"] = a["operators"] => OnStorage(a) <= OnStorage(b)
      <4> TAKE b \in Activations
      <4>1. b["operators"] = a["operators"] => OnStorage(b) = OnStorage(a)
        BY DEF OnStorage
      <4> QED
        BY <3>2, <4>1
    <3>4. "operators" \in Groups \ {"storage"}
      BY <1>3
    <3> QED
      BY <1>3, <3>1, <3>3, <3>4, Zenon DEF From
  <2> QED
    BY <1>3, <1>5, <2>1
<1>6. PICK y : y = OnNetwork(a)
  OBVIOUS
<1>7. y \in ToNetwork(a) /\ y \in Share
  BY <1>6, PressuresAre
<1>8. PICK src \in Few : y <= a[src] /\ \A b \in Activations : b[src] = a[src] => y \in ToNetwork(b)
  BY <1>4, <1>7
<1>9. \A b \in Activations : b[src] = a[src] => y <= OnNetwork(b)
  BY <1>8, PressuresAre
<1>10. CASE g = "network"
  <2>1. From(a, "network", src)
    BY <1>3, <1>6, <1>8, <1>9 DEF From
  <2> QED
    BY <1>3, <1>8, <1>10, <2>1
<1>11. CASE g = "workload"
  <2>1. PICK v : v = OnWorkload(a)
    OBVIOUS
  <2>2. v \in ToWorkload(a) /\ v \in Share
    BY <2>1, PressuresAre
  <2>3. ASSUME NEW x \in {"controlplane", "operators", "admission", "storage", "network"}, v <= a[x],
               \A b \in Activations : b[x] = a[x] => v <= OnWorkload(b)
        PROVE  \E one \in Groups : From(a, g, one)
    <3>1. x \in Groups \ {"workload"}
      BY <1>3
    <3>2. From(a, "workload", x)
      BY <1>3, <2>1, <2>3, <3>1 DEF From
    <3> QED
      BY <1>11, <3>1, <3>2
  <2>4. ASSUME NEW x \in {"controlplane", "operators", "admission", "storage", "network"}, NEW w \in 0..10,
               v = Tenths(a[x], w), \A b \in Activations : Tenths(b[x], w) \in ToWorkload(b)
        PROVE  \E one \in Groups : From(a, g, one)
    <3>1. v <= a[x]
      BY <1>2, <1>3, <2>4
    <3>2. ASSUME NEW b \in Activations, b[x] = a[x] PROVE v <= OnWorkload(b)
      BY <2>4, <3>2, PressuresAre
    <3> QED
      BY <2>3, <3>1, <3>2
  <2>5. CASE v \in {Tenths(a["controlplane"], 10), Tenths(a["network"], 9), Tenths(a["storage"], 8),
                    Tenths(a["admission"], 7), Tenths(a["operators"], 5)}
    <3>1. \A b : /\ Tenths(b["controlplane"], 10) \in ToWorkload(b) /\ Tenths(b["network"], 9) \in ToWorkload(b)
                 /\ Tenths(b["storage"], 8) \in ToWorkload(b) /\ Tenths(b["admission"], 7) \in ToWorkload(b)
                 /\ Tenths(b["operators"], 5) \in ToWorkload(b)
      BY DEF ToWorkload
    <3>2. 10 \in 0..10 /\ 9 \in 0..10 /\ 8 \in 0..10 /\ 7 \in 0..10 /\ 5 \in 0..10
      OBVIOUS
    <3> QED
      BY <2>4, <2>5, <3>1, <3>2
  <2>6. CASE v = Tenths(OnNetwork(a), 9)
    <3>1. v <= y
      BY <1>6, <1>7, <2>6, TenthsLose
    <3>2. a[src] \in Int /\ y \in Int /\ v \in Int
      BY <1>1, <1>3, <1>7, <2>2, ShareIs
    <3>3. v <= a[src]
      BY <1>8, <3>1, <3>2
    <3>4. ASSUME NEW b \in Activations, b[src] = a[src] PROVE v <= OnWorkload(b)
      <4>1. y <= OnNetwork(b) /\ OnNetwork(b) \in Share /\ OnWorkload(b) \in Share
        BY <1>9, <3>4, PressuresAre
      <4>2. v <= Tenths(OnNetwork(b), 9)
        BY <1>6, <1>7, <2>6, <4>1, TenthsClimb
      <4>3. Tenths(OnNetwork(b), 9) \in ToWorkload(b)
        BY DEF ToWorkload
      <4>4. Tenths(OnNetwork(b), 9) <= OnWorkload(b) /\ Tenths(OnNetwork(b), 9) \in Share
        BY <4>3, PressuresAre
      <4>5. PICK m, n : m = Tenths(OnNetwork(b), 9) /\ n = OnWorkload(b)
        OBVIOUS
      <4>6. m \in Int /\ n \in Int /\ v <= m /\ m <= n
        BY <4>1, <4>2, <4>4, <4>5, ShareIs
      <4> QED
        BY <3>2, <4>5, <4>6
    <3> QED
      BY <2>3, <3>3, <3>4
  <2>7. CASE v = Tenths(OnStorage(a), 8)
    <3>1. PICK s : s = OnStorage(a)
      OBVIOUS
    <3>2. s \in Share /\ s <= a["operators"] /\ a["operators"] \in Share
      BY <1>2, <1>3, <3>1, PressuresAre, ActivationOf DEF OnStorage
    <3>3. v <= s
      BY <2>7, <3>1, <3>2, TenthsLose
    <3>4. v <= a["operators"]
      <4>1. v \in Int /\ s \in Int /\ a["operators"] \in Int
        BY <2>2, <3>2, ShareIs
      <4> QED
        BY <3>2, <3>3, <4>1
    <3>5. ASSUME NEW b \in Activations, b["operators"] = a["operators"] PROVE v <= OnWorkload(b)
      <4>1. OnStorage(b) = OnStorage(a)
        BY <3>5 DEF OnStorage
      <4>2. Tenths(OnStorage(b), 8) \in ToWorkload(b)
        BY DEF ToWorkload
      <4> QED
        BY <2>7, <4>1, <4>2, PressuresAre
    <3> QED
      BY <2>3, <3>4, <3>5
  <2>8. ToWorkload(a) = {Tenths(a["controlplane"], 10), Tenths(a["network"], 9), Tenths(a["storage"], 8),
                         Tenths(a["admission"], 7), Tenths(a["operators"], 5), Tenths(OnNetwork(a), 9),
                         Tenths(OnStorage(a), 8)}
    BY DEF ToWorkload
  <2> QED
    BY <2>2, <2>5, <2>6, <2>7, <2>8
<1> QED
  BY <1>5, <1>10, <1>11

LEMMA PressuresHaveSources ==
  ASSUME NEW a \in Activations, NEW g \in Groups
  PROVE  PropPressure(a)[g] >= 200 <=> \E src \in DOMAIN BlastRadius(a) : g \in BlastRadius(a)[src]
<1> DEFINE Reached(src) == {x \in Groups \ {src} : PropPressure(Alone(a, src))[x] >= 200}
<1>1. DOMAIN BlastRadius(a) = {x \in Groups : a[x] >= 200}
  BY DEF BlastRadius
<1>2. \A src \in DOMAIN BlastRadius(a) : BlastRadius(a)[src] = Reached(src)
  BY <1>1 DEF BlastRadius
<1> HIDE DEF Reached
<1>3. \A b \in Activations : PropPressure(b)[g] = Heard(b, g)
  BY PropPressureIs
<1>4. \A src \in Groups : g \in Reached(src) <=> (g # src /\ Heard(Alone(a, src), g) >= 200)
  BY <1>3, AloneIs DEF Reached
<1>5. ASSUME NEW b \in Activations PROVE Heard(b, g) \in Share
  <2>1. OnStorage(b) \in Share /\ OnNetwork(b) \in Share /\ OnWorkload(b) \in Share /\ 0 \in Share
    BY PressuresAre, ShareIs
  <2> QED
    BY <2>1 DEF Heard
<1>6. ASSUME Heard(a, g) >= 200
      PROVE  \E src \in Groups : a[src] >= 200 /\ g # src /\ Heard(Alone(a, src), g) >= 200
  <2>1. g \in {"storage", "network", "workload"}
    BY <1>6 DEF Heard
  <2>2. PICK src \in Groups : From(a, g, src)
    BY <2>1, HeardFromOne
  <2>3. g # src /\ Heard(a, g) <= a[src] /\ Heard(a, g) <= Heard(Alone(a, src), g)
    BY <2>2, AloneIs DEF From
  <2>4. PICK h, k : h = Heard(a, g) /\ k = Heard(Alone(a, src), g)
    OBVIOUS
  <2>5. h \in Int /\ k \in Int /\ a[src] \in Int
    BY <1>5, <2>4, AloneIs, ShareIs DEF Activations
  <2>6. k >= 200 /\ a[src] >= 200
    BY <1>6, <2>3, <2>4, <2>5
  <2> QED
    BY <2>3, <2>4, <2>6
<1>7. ASSUME NEW src \in Groups, Heard(Alone(a, src), g) >= 200 PROVE Heard(a, g) >= 200
  <2>1. Heard(Alone(a, src), g) <= Heard(a, g)
    BY AloneIs, HeardKeepsOrder
  <2>2. PICK h, k : h = Heard(a, g) /\ k = Heard(Alone(a, src), g)
    OBVIOUS
  <2>3. h \in Int /\ k \in Int
    BY <1>5, <2>2, AloneIs, ShareIs
  <2> QED
    BY <1>7, <2>1, <2>2, <2>3
<1>8. (\E src \in DOMAIN BlastRadius(a) : g \in BlastRadius(a)[src])
        <=> \E src \in Groups : a[src] >= 200 /\ g # src /\ Heard(Alone(a, src), g) >= 200
  BY <1>1, <1>2, <1>4
<1>9. PropPressure(a)[g] = Heard(a, g)
  BY <1>3
<1> QED
  BY <1>6, <1>7, <1>8, <1>9

(***************************************************************************)
(* What a collector says of an object is between 0 and 1.                  *)
(***************************************************************************)
LEMMA CollectorIs ==
  ASSUME NEW o \in Objects
  PROVE  CollectorOf(o) \in Collectors /\ KindOf[o] \in KindsOf(CollectorOf(o))
<1>1. KindOf[o] \in Kinds
  BY InfraAssumption
<1>2. \E c \in Collectors : KindOf[o] \in KindsOf(c)
  BY <1>1 DEF Kinds
<1> QED
  BY <1>2, Zenon DEF CollectorOf

LEMMA RatiosAre ==
  ASSUME NEW n \in Nat, NEW total \in Nat, total > 0
  PROVE  /\ (1000 * n) \div total \in Int
         /\ n <= total => (1000 * n) \div total \in Share
<1>1. PICK v \in Nat : v = 1000 * n
  OBVIOUS
<1>2. v \div total \in Nat
  <2>1. v >= total * 0
    OBVIOUS
  <2>2. v <= total * v
    <3>1. v * 1 <= v * total
      BY ProductKeepsOrder
    <3> QED
      BY <3>1
  <2> QED
    BY <2>1, <2>2, QuotientBetween
<1>3. n <= total => v \div total \in Share
  <2>1. ASSUME n <= total PROVE v \div total \in 0..1000
    <3>1. v <= total * 1000 /\ total * 0 <= v
      BY <1>1, <2>1
    <3>2. v \div total \in Int /\ 0 <= v \div total /\ v \div total <= 1000
      BY <3>1, QuotientBetween
    <3> QED
      BY <3>2
  <2> QED
    BY <2>1 DEF Share
<1>4. v \div total \in Int
  BY <1>2
<1> QED
  BY <1>1, <1>3, <1>4

LEMMA SharesAre ==
  /\ 0 \in Share /\ 200 \in Share /\ 300 \in Share /\ 400 \in Share /\ 500 \in Share /\ 600 \in Share
  /\ 700 \in Share /\ 800 \in Share /\ 1000 \in Share
  /\ \A v, severity : Sig(v, severity).value = v
  /\ Stable.value = 0
BY DEF Share, Sig, Stable

LEMMA McpIs ==
  ASSUME NEW pool \in [machines : Nat, updated : Nat, unavailable : Nat, degraded : Nat],
         pool.degraded <= pool.machines
  PROVE  McpSignal(pool).value \in Share
<1> DEFINE total == IF pool.machines = 0 THEN 1 ELSE pool.machines
           Ratio(n) == (1000 * n) \div total
<1>1. total \in Nat /\ total > 0 /\ pool.degraded \in Nat /\ pool.unavailable \in Nat
  OBVIOUS
<1>2. pool.degraded > 0 => pool.degraded <= total
  OBVIOUS
<1>3. \A n \in Nat : Ratio(n) \in Int /\ (n <= total => Ratio(n) \in Share)
  <2> HIDE DEF total
  <2> QED
    BY <1>1, RatiosAre
<1>4. PICK d : d = Ratio(pool.degraded)
  OBVIOUS
<1>5. PICK u : u = Ratio(pool.unavailable)
  OBVIOUS
<1>6. McpSignal(pool) =
        IF pool.degraded > 0 THEN Sig(IF d < 400 THEN 400 ELSE d, "critical")
        ELSE IF pool.unavailable > 0 THEN Sig(Within(300, u, 800), "warning")
        ELSE IF pool.updated < pool.machines THEN Sig(300, "elevated")
        ELSE Stable
  BY <1>4, <1>5 DEF McpSignal
<1> HIDE DEF total, Ratio
<1>7. u \in Int /\ (pool.degraded > 0 => d \in Share)
  BY <1>1, <1>2, <1>3, <1>4, <1>5
<1>8. Within(300, u, 800) \in Share
  BY <1>7 DEF Within, Share
<1>9. (IF d < 400 THEN 400 ELSE d) \in {400, d}
  OBVIOUS
<1>10. CASE pool.degraded > 0
  <2>1. McpSignal(pool).value = IF d < 400 THEN 400 ELSE d
    BY <1>6, <1>10, SharesAre
  <2> QED
    BY <1>7, <1>9, <1>10, <2>1, SharesAre
<1>11. CASE ~(pool.degraded > 0)
  <2>1. McpSignal(pool).value \in {Within(300, u, 800), 300, 0}
    BY <1>6, <1>11, SharesAre
  <2> QED
    BY <1>8, <2>1, SharesAre
<1> QED
  BY <1>10, <1>11

LEMMA PolicyReportIs ==
  ASSUME NEW summary \in [pass : Nat, fail : Nat, warn : Nat, error : Nat]
  PROVE  PolicyReportSignal(summary).value \in Share
<1> DEFINE total == summary.pass + summary.fail + summary.warn + summary.error
<1>1. total \in Nat /\ summary.fail \in Nat /\ summary.fail <= total
  OBVIOUS
<1> HIDE DEF total
<1>2. PICK ratio : ratio = (1000 * summary.fail) \div total
  OBVIOUS
<1>3. total # 0 => ratio \in Share
  BY <1>1, <1>2, RatiosAre
<1>4. PolicyReportSignal(summary) =
        IF total = 0 \/ (summary.fail = 0 /\ summary.error = 0) THEN Stable
        ELSE IF summary.fail = 0 THEN Sig(500, "warning")
        ELSE Sig(ratio, IF ratio > 700 THEN "critical" ELSE IF ratio > 300 THEN "warning" ELSE "elevated")
  BY <1>2 DEF PolicyReportSignal, total
<1> QED
  BY <1>3, <1>4, SharesAre

LEMMA SignalsAreShares ==
  ASSUME NEW o \in Objects, NEW status \in Statuses[KindOf[o]]
  PROVE  SignalOf(o, status).value \in Share
<1>1. PICK c \in Collectors : c = CollectorOf(o) /\ KindOf[o] \in KindsOf(c)
  BY CollectorIs
<1>2. status[1] = KindOf[o]
  BY InfraAssumption
<1>3. PICK kind, report : kind = status[1] /\ report = status[2]
  OBVIOUS
<1>4. SignalOf(o, status) =
        CASE c = "node"            -> NodeSignal(report)
          [] c = "clusteroperator" -> CoSignal(report)
          [] c = "mcp"             -> McpSignal(report)
          [] c = "networking"      -> NetSignal(kind, report)
          [] c = "storage"         -> StorageSignal(kind, report)
          [] c = "admission"       -> AdmissionSignal(kind, report)
          [] c = "operator"        -> OperatorSignal(kind, report)
          [] c = "tenancy"         -> TenancySignal(kind, report)
  BY <1>1, <1>3, Zenon DEF SignalOf
<1>5. NodeSignal(report).value \in Share /\ CoSignal(report).value \in Share
  BY SharesAre DEF NodeSignal, CoSignal
<1>6. NetSignal(kind, report).value \in Share
  BY SharesAre DEF NetSignal, EndpointsSignal, RouteSignal, IngressSignal
<1>7. StorageSignal(kind, report).value \in Share
  BY SharesAre DEF StorageSignal, PvcSignal, PvSignal
<1>8. OperatorSignal(kind, report).value \in Share
  BY SharesAre DEF OperatorSignal, SubscriptionSignal, CsvSignal, InstallPlanSignal, CrdSignal
<1>9. TenancySignal(kind, report).value \in Share
  BY SharesAre DEF TenancySignal, ResourceQuotaSignal, NamespaceSignal
<1>10. AdmissionSignal(kind, report).value \in Share
  <2>1. kind = "PolicyReport" => report \in [pass : Nat, fail : Nat, warn : Nat, error : Nat]
    BY <1>2, <1>3, InfraAssumption
  <2> QED
    BY <2>1, PolicyReportIs, SharesAre DEF AdmissionSignal
<1>11. c = "mcp" => McpSignal(report).value \in Share
  <2>1. ASSUME c = "mcp" PROVE McpSignal(report).value \in Share
    <3>1. kind = "MachineConfigPool"
      BY <1>1, <1>2, <1>3, <2>1 DEF KindsOf, ProbedKind
    <3>2. /\ report \in [machines : Nat, updated : Nat, unavailable : Nat, degraded : Nat]
          /\ report.degraded <= report.machines
      BY <1>2, <1>3, <3>1, InfraAssumption
    <3> QED
      BY <3>2, McpIs
  <2> QED
    BY <2>1
<1> QED
  BY <1>4, <1>5, <1>6, <1>7, <1>8, <1>9, <1>10, <1>11 DEF Collectors

(***************************************************************************)
(* The registry.  Whatever a collector is told of an object is something   *)
(* it can report, whatever is signalled lies between 0 and 1, a namespace  *)
(* whose turn has come has the pressure of its snapshots, and no pressure  *)
(* is anything but what the graph makes of some health of the groups.      *)
(***************************************************************************)
Reported(o) == Statuses[KindOf[o]] \cup {Gone}
Items == {it \in [type : {"item", "event"}, ref : Objects, status : UNION {Reported(o) : o \in Objects}] :
            it.status \in Reported(it.ref)}

ReportsInv ==
  /\ DOMAIN objects = Objects /\ \A o \in Objects : objects[o] \in Reported(o)
  /\ DOMAIN queue = Kinds /\ \A k \in Kinds : queue[k] \in Seq(Items)
SignalsInv ==
  DOMAIN signals = Objects /\ \A o \in Objects : signals[o] # Gone => signals[o].value \in Share
SnapshotsInv == \A p \in DOMAIN snapshots : snapshots[p].health \in Share
PressedInv ==
  /\ \A p \in DOMAIN snapshots : p[2] \in propagating \cup {Cluster} \/ p[2] \in DOMAIN pressure
  /\ \A ns \in DOMAIN pressure \ {Cluster} :
       \/ ns \in propagating
       \/ ns \notin {p[2] : p \in DOMAIN snapshots}
       \/ pressure[ns].pressed = PropPressure(Activation(ns))
  /\ \A ns \in DOMAIN pressure : \E a \in Activations :
       pressure[ns].pressed = PropPressure(a) /\ pressure[ns].blast = BlastRadius(a)
PressureInv == ReportsInv /\ SignalsInv /\ SnapshotsInv /\ PressedInv

LEMMA ActivationsAre ==
  ASSUME SnapshotsInv, NEW ns
  PROVE  Activation(ns) \in Activations
<1> DEFINE Stress(g) == {1000 - snapshots[p].health : p \in {p \in DOMAIN snapshots : p[1] = g /\ p[2] \in {Cluster, ns}}}
<1>1. \A x \in Share : 1000 - x \in Share
  BY DEF Share
<1>2. \A g \in Groups : Stress(g) \subseteq Share
  BY <1>1 DEF SnapshotsInv
<1>3. Activation(ns) = [g \in Groups |-> IF Stress(g) = {} THEN 0 ELSE Max(Stress(g))]
  BY DEF Activation
<1> HIDE DEF Stress
<1>4. ASSUME NEW g \in Groups PROVE (IF Stress(g) = {} THEN 0 ELSE Max(Stress(g))) \in Share
  <2>1. CASE Stress(g) = {}
    BY <2>1, ShareIs
  <2>2. CASE Stress(g) # {}
    <3>1. PICK S : S = Stress(g)
      OBVIOUS
    <3>2. S \subseteq Share /\ S # {}
      BY <1>2, <2>2, <3>1
    <3>3. Max(S) \in Share
      BY <3>2, WorstIs
    <3> QED
      BY <2>2, <3>1, <3>3
  <2> QED
    BY <2>1, <2>2
<1> QED
  BY <1>3, <1>4 DEF Activations

LEMMA SnapshotsAre ==
  ASSUME SignalsInv, NEW o \in Reporting
  PROVE  Snapshot(Place(o)).health \in Share
<1> DEFINE members == {x \in Reporting : Place(x) = Place(o)}
           Values == {signals[x].value : x \in members}
<1>1. o \in members
  OBVIOUS
<1>2. Values \subseteq Share /\ Values # {}
  BY <1>1 DEF SignalsInv, Reporting
<1>3. Snapshot(Place(o)).health = 1000 - Max(Values)
  BY DEF Snapshot
<1> HIDE DEF Values
<1>4. PICK m \in Share : m = Max(Values)
  BY <1>2, WorstIs
<1>5. 1000 - m \in Share
  BY <1>4 DEF Share
<1> QED
  BY <1>3, <1>4, <1>5

(* What a step that leaves the registry alone has to keep.                 *)
LEMMA RegistryStays ==
  ASSUME UNCHANGED registryVars
  PROVE  (SnapshotsInv => SnapshotsInv') /\ (PressedInv => PressedInv')
<1>1. snapshots' = snapshots /\ propagating' = propagating /\ pressure' = pressure
  BY DEF registryVars
<1>2. \A ns : Activation(ns)' = Activation(ns)
  BY <1>1 DEF Activation
<1>3. SnapshotsInv => SnapshotsInv'
  BY <1>1 DEF SnapshotsInv
<1>4. PressedInv => PressedInv'
  BY <1>1, <1>2 DEF PressedInv
<1> QED
  BY <1>3, <1>4

LEMMA PressureInitially ==
  ASSUME InfraInit
  PROVE  PressureInv
<1>1. ReportsInv
  <2>1. PICK f \in {f \in [Present -> UNION {Statuses[k] : k \in served} \cup {Gone}] :
                      \A o \in Present : f[o] \in Statuses[KindOf[o]] \cup {Gone}} :
           objects = [o \in Objects |-> IF o \in Present THEN f[o] ELSE Gone]
    BY DEF InfraInit
  <2>2. DOMAIN objects = Objects /\ \A o \in Objects : objects[o] \in Reported(o)
    BY <2>1 DEF Reported
  <2>3. DOMAIN queue = Kinds /\ \A k \in Kinds : queue[k] \in Seq(Items)
    BY DEF InfraInit
  <2> QED
    BY <2>2, <2>3 DEF ReportsInv
<1>2. SignalsInv
  BY DEF InfraInit, SignalsInv
<1>3. DOMAIN snapshots = {} /\ DOMAIN pressure = {}
  BY DEF InfraInit
<1> QED
  BY <1>1, <1>2, <1>3 DEF PressureInv, SnapshotsInv, PressedInv

LEMMA ClusterChangeKeeps ==
  ASSUME PressureInv, NEW o \in Objects, ClusterChange(o)
  PROVE  PressureInv'
<1>1. PICK status \in (Statuses[KindOf[o]] \cup {Gone}) \ {objects[o]} :
         /\ objects' = [objects EXCEPT ![o] = status]
         /\ queue' = [queue EXCEPT ![KindOf[o]] =
                        IF loop[KindOf[o]] = "watch"
                          THEN Append(queue[KindOf[o]], [type |-> "event", ref |-> o, status |-> status])
                          ELSE queue[KindOf[o]]]
  BY DEF ClusterChange
<1>2. UNCHANGED registryVars /\ UNCHANGED signals
  BY DEF ClusterChange, registryVars
<1>3. status \in Reported(o)
  BY DEF Reported
<1>4. [type |-> "event", ref |-> o, status |-> status] \in Items
  BY <1>3 DEF Items
<1>5. ReportsInv'
  <2>1. DOMAIN objects' = Objects /\ \A x \in Objects : objects'[x] \in Reported(x)
    BY <1>1, <1>3 DEF PressureInv, ReportsInv
  <2>2. \A s \in Seq(Items) : Append(s, [type |-> "event", ref |-> o, status |-> status]) \in Seq(Items)
    BY <1>4
  <2>3. DOMAIN queue' = Kinds /\ \A k \in Kinds : queue'[k] \in Seq(Items)
    BY <1>1, <2>2 DEF PressureInv, ReportsInv
  <2> QED
    BY <2>1, <2>3 DEF ReportsInv, Reported, Items
<1>6. SignalsInv'
  BY <1>2 DEF PressureInv, SignalsInv
<1> QED
  BY <1>2, <1>5, <1>6, RegistryStays DEF PressureInv

LEMMA HandleKeeps ==
  ASSUME PressureInv, NEW k \in Kinds, Handle(k)
  PROVE  PressureInv'
<1>1. queue[k] \in Seq(Items) /\ queue[k] # <<>>
  BY DEF PressureInv, ReportsInv, Handle
<1>2. PICK it \in Items : it = Head(queue[k])
  BY <1>1
<1>3. it.ref \in Objects /\ it.status \in Reported(it.ref)
  BY <1>2 DEF Items
<1>4. signals' = [signals EXCEPT ![it.ref] = IF it.status = Gone THEN Gone ELSE SignalOf(it.ref, it.status)]
  BY <1>2 DEF Handle, Upsert
<1>5. it.status # Gone => SignalOf(it.ref, it.status).value \in Share
  BY <1>3, SignalsAreShares DEF Reported
<1>6. SignalsInv'
  BY <1>3, <1>4, <1>5 DEF PressureInv, SignalsInv
<1>7. queue' = [queue EXCEPT ![k] = Tail(queue[k])] /\ UNCHANGED objects /\ UNCHANGED registryVars
  BY DEF Handle, clusterVars
<1>8. Tail(queue[k]) \in Seq(Items)
  BY <1>1
<1>9. ReportsInv'
  <2>1. DOMAIN objects' = Objects /\ \A x \in Objects : objects'[x] \in Reported(x)
    BY <1>7 DEF PressureInv, ReportsInv
  <2>2. DOMAIN queue' = Kinds /\ \A x \in Kinds : queue'[x] \in Seq(Items)
    BY <1>7, <1>8 DEF PressureInv, ReportsInv
  <2> QED
    BY <2>1, <2>2 DEF ReportsInv, Reported, Items
<1> QED
  BY <1>6, <1>7, <1>9, RegistryStays DEF PressureInv

LEMMA ListKeeps ==
  ASSUME PressureInv, NEW k \in Kinds, ListAll(k)
  PROVE  PressureInv'
<1> DEFINE Present1 == {o \in Of(k) : objects[o] # Gone}
<1>1. PICK order \in SetToSeqs(Present1) :
         queue' = [queue EXCEPT ![k] =
                     [i \in DOMAIN order |->
                        [type |-> "item", ref |-> order[i], status |-> objects[order[i]]]]]
  BY DEF ListAll
<1>2. UNCHANGED objects /\ UNCHANGED signals /\ UNCHANGED registryVars
  BY DEF ListAll, clusterVars
<1>3. Present1 \subseteq Objects /\ IsFiniteSet(Present1)
  BY InfraAssumption, FS_Subset DEF Of
<1>4. PICK n \in Nat : n = Cardinality(Present1)
  BY <1>3, FS_CardinalityType
<1>5. order \in [1..n -> Present1]
  BY <1>4 DEF SetToSeqs
<1>6. \A i \in 1..n : [type |-> "item", ref |-> order[i], status |-> objects[order[i]]] \in Items
  BY <1>3, <1>5 DEF PressureInv, ReportsInv, Items
<1>7. [i \in DOMAIN order |-> [type |-> "item", ref |-> order[i], status |-> objects[order[i]]]] \in Seq(Items)
  BY <1>5, <1>6
<1>8. ReportsInv'
  <2>1. DOMAIN objects' = Objects /\ \A x \in Objects : objects'[x] \in Reported(x)
    BY <1>2 DEF PressureInv, ReportsInv
  <2>2. DOMAIN queue' = Kinds /\ \A x \in Kinds : queue'[x] \in Seq(Items)
    BY <1>1, <1>7 DEF PressureInv, ReportsInv
  <2> QED
    BY <2>1, <2>2 DEF ReportsInv, Reported, Items
<1>9. SignalsInv'
  BY <1>2 DEF PressureInv, SignalsInv
<1> QED
  BY <1>2, <1>8, <1>9, RegistryStays DEF PressureInv

LEMMA WatchKeeps ==
  ASSUME PressureInv, NEW k \in Kinds, WatchStream(k)
  PROVE  PressureInv'
<1>1. queue' = [queue EXCEPT ![k] = <<>>] /\ UNCHANGED objects /\ UNCHANGED signals /\ UNCHANGED registryVars
  BY DEF WatchStream, clusterVars
<1>2. ReportsInv'
  <2>1. DOMAIN objects' = Objects /\ \A x \in Objects : objects'[x] \in Reported(x)
    BY <1>1 DEF PressureInv, ReportsInv
  <2>2. DOMAIN queue' = Kinds /\ \A x \in Kinds : queue'[x] \in Seq(Items)
    BY <1>1 DEF PressureInv, ReportsInv
  <2> QED
    BY <2>1, <2>2 DEF ReportsInv, Reported, Items
<1>3. SignalsInv'
  BY <1>1 DEF PressureInv, SignalsInv
<1> QED
  BY <1>1, <1>2, <1>3, RegistryStays DEF PressureInv

LEMMA AggregateKeeps ==
  ASSUME PressureInv, Aggregate
  PROVE  PressureInv'
<1>1. /\ snapshots' = [place \in {Place(o) : o \in Reporting} |-> Snapshot(place)]
      /\ propagating' = {NamespaceOf[o] : o \in Reporting} \ {Cluster}
      /\ UNCHANGED <<objects, queue, signals, pressure>>
  BY DEF Aggregate, clusterVars, watchVars
<1>2. ReportsInv' /\ SignalsInv'
  BY <1>1 DEF PressureInv, ReportsInv, SignalsInv, Reported, Items
<1>3. SnapshotsInv'
  <2>1. \A o \in Reporting : Snapshot(Place(o)).health \in Share
    BY SnapshotsAre DEF PressureInv
  <2> QED
    BY <1>1, <2>1 DEF SnapshotsInv
<1>4. \A p \in DOMAIN snapshots' : p[2] \in propagating' \cup {Cluster}
  <2>1. \A o \in Reporting : Place(o)[2] = NamespaceOf[o]
    BY DEF Place
  <2> QED
    BY <1>1, <2>1
<1>5. PressedInv'
  <2>1. \A ns \in DOMAIN pressure' \ {Cluster} : ns \in propagating' \/ ns \notin {p[2] : p \in DOMAIN snapshots'}
    BY <1>4
  <2>2. \A ns \in DOMAIN pressure' : \E a \in Activations :
           pressure'[ns].pressed = PropPressure(a) /\ pressure'[ns].blast = BlastRadius(a)
    BY <1>1 DEF PressureInv, PressedInv
  <2> QED
    BY <1>4, <2>1, <2>2 DEF PressedInv
<1> QED
  BY <1>2, <1>3, <1>5 DEF PressureInv

LEMMA PropagateKeeps ==
  ASSUME PressureInv, NEW ns, Propagate(ns)
  PROVE  PressureInv'
<1> DEFINE it == [pressed |-> PropPressure(Activation(ns)), blast |-> BlastRadius(Activation(ns))]
<1>1. /\ ns \in propagating /\ propagating' = propagating \ {ns}
      /\ pressure' = [n \in DOMAIN pressure \cup {ns} |-> IF n = ns THEN it ELSE pressure[n]]
      /\ UNCHANGED <<objects, queue, signals, snapshots>>
  BY DEF Propagate, Turned, clusterVars, watchVars
<1>2. ReportsInv' /\ SignalsInv' /\ SnapshotsInv'
  BY <1>1 DEF PressureInv, ReportsInv, SignalsInv, Reported, Items, SnapshotsInv
<1>3. Activation(ns) \in Activations
  BY ActivationsAre DEF PressureInv
<1>4. it.pressed = PropPressure(Activation(ns)) /\ it.blast = BlastRadius(Activation(ns))
  OBVIOUS
<1> HIDE DEF it
<1>5. /\ DOMAIN pressure' = DOMAIN pressure \cup {ns}
      /\ pressure'[ns] = it
      /\ \A x \in DOMAIN pressure \ {ns} : pressure'[x] = pressure[x]
  BY <1>1
<1>6. \A x : Activation(x)' = Activation(x)
  BY <1>1 DEF Activation
<1>7. \A p \in DOMAIN snapshots' : p[2] \in propagating' \cup {Cluster} \/ p[2] \in DOMAIN pressure'
  BY <1>1, <1>5 DEF PressureInv, PressedInv
<1>8. ASSUME NEW x \in DOMAIN pressure' \ {Cluster}, x \notin propagating', x \in {p[2] : p \in DOMAIN snapshots'}
      PROVE  pressure'[x].pressed = PropPressure(Activation(x)')
  <2>1. CASE x = ns
    BY <1>4, <1>5, <1>6, <2>1
  <2>2. CASE x # ns
    <3>1. x \in DOMAIN pressure \ {Cluster} /\ x \notin propagating /\ x \in {p[2] : p \in DOMAIN snapshots}
      BY <1>1, <1>5, <1>8, <2>2
    <3>2. pressure[x].pressed = PropPressure(Activation(x))
      BY <3>1 DEF PressureInv, PressedInv
    <3> QED
      BY <1>5, <1>6, <2>2, <3>1, <3>2
  <2> QED
    BY <2>1, <2>2
<1>9. \A x \in DOMAIN pressure' : \E a \in Activations :
         pressure'[x].pressed = PropPressure(a) /\ pressure'[x].blast = BlastRadius(a)
  BY <1>3, <1>4, <1>5 DEF PressureInv, PressedInv
<1>10. PressedInv'
  BY <1>7, <1>8, <1>9 DEF PressedInv
<1> QED
  BY <1>2, <1>10 DEF PressureInv

LEMMA PressureKept ==
  ASSUME PressureInv, [InfraNext]_infraVars
  PROVE  PressureInv'
<1>1. \A c \in Collectors : KindsOf(c) \subseteq Kinds
  BY DEF Kinds
<1>2. ASSUME NEW c \in Collectors, Watched(c) PROVE PressureInv'
  <2>1. PICK k \in KindsOf(c) : ListAll(k) \/ Handle(k) \/ WatchStream(k)
    BY <1>2 DEF Watched
  <2>2. k \in Kinds
    BY <1>1
  <2> QED
    BY <2>1, <2>2, ListKeeps, HandleKeeps, WatchKeeps
<1>3. ASSUME UNCHANGED <<objects, queue, signals, registryVars>> PROVE PressureInv'
  <2>1. ReportsInv' /\ SignalsInv'
    BY <1>3 DEF PressureInv, ReportsInv, SignalsInv, Reported, Items
  <2> QED
    BY <1>3, <2>1, RegistryStays DEF PressureInv
<1>4. CASE \E o \in Objects : ClusterChange(o)
  BY <1>4, ClusterChangeKeeps
<1>5. CASE Probe
  BY <1>3, <1>5 DEF Probe, clusterVars, watchVars
<1>6. CASE \E c \in Collectors : StartCollector(c)
  BY <1>3, <1>6 DEF StartCollector, clusterVars
<1>7. CASE \/ NodeCollector \/ CoCollector \/ McpCollector \/ NetworkingCollector
           \/ StorageCollector \/ AdmissionCollector \/ OperatorCollector \/ TenancyCollector
  <2>1. \E c \in Collectors : Watched(c)
    BY <1>7 DEF Collectors, NodeCollector, CoCollector, McpCollector, NetworkingCollector, StorageCollector,
                AdmissionCollector, OperatorCollector, TenancyCollector
  <2> QED
    BY <1>2, <2>1
<1>8. CASE Aggregate
  BY <1>8, AggregateKeeps
<1>9. CASE \E ns \in {NamespaceOf[o] : o \in Objects} \ {Cluster} : Propagate(ns)
  BY <1>9, PropagateKeeps
<1>10. CASE UNCHANGED infraVars
  BY <1>3, <1>10 DEF infraVars, clusterVars, watchVars, registryVars
<1> QED
  BY <1>4, <1>5, <1>6, <1>7, <1>8, <1>9, <1>10 DEF InfraNext

LEMMA PressureFollows ==
  ASSUME PressureInv
  PROVE  PressureFollowsTheTrouble
<1>1. PressureIsTheWorstWay
  <2> SUFFICES ASSUME propagating = {}, NEW ns \in {p[2] : p \in DOMAIN snapshots} \ {Cluster}
               PROVE  PropagationShown[ns] = Max({WayPressure(Activation(ns), way) : way \in Ways})
    BY Zenon DEF PressureIsTheWorstWay
  <2>1. PICK a \in Activations : a = Activation(ns)
    BY ActivationsAre DEF PressureInv
  <2>2. ns \in DOMAIN pressure
    BY DEF PressureInv, PressedInv
  <2>3. pressure[ns].pressed = PropPressure(a)
    BY <2>1, <2>2 DEF PressureInv, PressedInv
  <2>4. PropPressure(a)["workload"] = OnWorkload(a)
    BY PropPressureIs DEF Groups, Heard
  <2>5. PropagationShown[ns] = OnWorkload(a)
    BY <2>2, <2>3, <2>4 DEF PropagationShown
  <2>6. Max({WayPressure(a, way) : way \in Ways}) = OnWorkload(a)
    BY WorstWay
  <2> QED
    BY <2>1, <2>5, <2>6, Zenon
<1>2. PressureHasASource
  <2> SUFFICES ASSUME NEW ns \in DOMAIN pressure, NEW g \in Groups
               PROVE  pressure[ns].pressed[g] >= 200
                        <=> \E src \in DOMAIN pressure[ns].blast : g \in pressure[ns].blast[src]
    BY DEF PressureHasASource
  <2>1. PICK a \in Activations : pressure[ns].pressed = PropPressure(a) /\ pressure[ns].blast = BlastRadius(a)
    BY DEF PressureInv, PressedInv
  <2> QED
    BY <2>1, PressuresHaveSources
<1> QED
  BY <1>1, <1>2 DEF PressureFollowsTheTrouble

(* In every reachable state of the registry the pressure shown for a       *)
(* namespace is the greatest along any way of the graph from a group that  *)
(* is unwell to the workloads, and whatever group is under pressure is in  *)
(* the blast radius of one that is unwell (ComputePropPressure,            *)
(* ComputeBlastRadius, Registry.tick).                                     *)
THEOREM PressureStaysTrue == InfraSpec => []PressureFollowsTheTrouble
<1>1. InfraInit => PressureInv
  BY PressureInitially
<1>2. PressureInv /\ [InfraNext]_infraVars => PressureInv'
  BY PressureKept
<1>3. PressureInv => PressureFollowsTheTrouble
  BY PressureFollows
<1> QED
  BY <1>1, <1>2, <1>3, PTL DEF InfraSpec
=============================================================================
