----------------------------- MODULE FoldLemmas -----------------------------
(***************************************************************************)
(* Induction over data for the proofs: what the folds of the community     *)
(* modules compute.  The library states induction with an operator as a    *)
(* parameter; here the property is a set, and the step of a fold a         *)
(* function, which the provers can instantiate.                            *)
(***************************************************************************)
EXTENDS SequencesExt, FiniteSetTheorems, SequenceTheorems, WellFoundedInduction, TLAPS

LEMMA LeastOfNaturals ==
  ASSUME NEW S, S \subseteq Nat, S # {}
  PROVE  \E x \in S : \A y \in S : x <= y
<1> DEFINE R == {ss \in Nat \X Nat : ss[1] < ss[2]}
<1>1. IsWellFoundedOn(R, Nat)
  BY NatLessThanWellFounded DEF OpToRel
<1> HIDE DEF R
<1>2. PICK x \in S : \A y \in S : ~(<<y, x>> \in R)
  BY <1>1, WFMin
<1>3. ASSUME NEW y \in S, ~(x <= y) PROVE FALSE
  <2>1. <<y, x>> \in Nat \X Nat /\ y < x
    BY <1>3
  <2>2. <<y, x>> \in R
    BY <2>1 DEF R
  <2> QED
    BY <1>2, <2>2
<1> QED
  BY <1>3

LEMMA EveryNatural ==
  ASSUME NEW P, 0 \in P, \A n \in Nat : n \in P => n + 1 \in P
  PROVE  \A n \in Nat : n \in P
<1> SUFFICES ASSUME NEW m \in Nat, m \notin P PROVE FALSE
  OBVIOUS
<1> DEFINE S == {n \in Nat : n \notin P}
<1>1. S \subseteq Nat /\ S # {}
  OBVIOUS
<1> HIDE DEF S
<1>2. PICK x \in S : \A y \in S : x <= y
  BY <1>1, LeastOfNaturals
<1>3. x \in Nat /\ x \notin P
  BY DEF S
<1>4. x # 0 /\ x - 1 \in Nat
  BY <1>3
<1>5. x - 1 \notin S
  BY <1>2, <1>3, <1>4
<1>6. x - 1 \in P
  BY <1>4, <1>5 DEF S
<1>7. (x - 1) + 1 \in P
  BY <1>4, <1>6
<1> QED
  BY <1>3, <1>7

(* Every subset of a finite set is reached from the empty one, an element   *)
(* at a time.                                                              *)
LEMMA EverySubset ==
  ASSUME NEW S, IsFiniteSet(S), NEW F, {} \in F,
         \A T \in SUBSET S : \A x \in S \ T : T \in F => T \cup {x} \in F
  PROVE  \A T \in SUBSET S : T \in F
<1> DEFINE P == {n \in Nat : \A T \in SUBSET S : Cardinality(T) = n => T \in F}
<1>0. \A T \in SUBSET S : IsFiniteSet(T) /\ Cardinality(T) \in Nat
  BY FS_Subset, FS_CardinalityType
<1>1. 0 \in P
  BY <1>0, FS_EmptySet
<1>2. ASSUME NEW n \in Nat, n \in P PROVE n + 1 \in P
  <2>0. SUFFICES ASSUME NEW T \in SUBSET S, Cardinality(T) = n + 1 PROVE T \in F
    OBVIOUS
  <2>1. T # {}
    <3>1. Cardinality(T) # 0
      BY <2>0
    <3> QED
      BY <3>1, FS_EmptySet, Zenon
  <2>2. PICK x \in T : TRUE
    BY <2>1
  <2>3. Cardinality(T \ {x}) = n
    <3>1. IsFiniteSet(T)
      BY <1>0
    <3>2. Cardinality(T \ {x}) = Cardinality(T) - 1
      BY <2>2, <3>1, FS_RemoveElement, Zenon
    <3> QED
      BY <2>0, <3>2
  <2>4. T \ {x} \in SUBSET S /\ x \in S \ (T \ {x}) /\ T = (T \ {x}) \cup {x}
    BY <2>2
  <2>5. T \ {x} \in F
    BY <1>2, <2>3, <2>4
  <2> HIDE DEF P
  <2> QED
    BY <2>4, <2>5
<1> HIDE DEF P
<1>3. \A n \in Nat : n \in P
  BY <1>1, <1>2, EveryNatural
<1> QED
  BY <1>0, <1>3 DEF P

(* The recursion of a fold over the subsets of a finite set, which takes    *)
(* the elements in the order of c and adds each with G, has a solution.    *)
Folds(it, D, c, A, base, G) ==
  /\ it \in [SUBSET D -> A]
  /\ \A t \in SUBSET D : it[t] = IF t = {} THEN base ELSE G[<<c[t], it[t \ {c[t]}]>>]

LEMMA FoldIsDefined ==
  ASSUME NEW D, IsFiniteSet(D), NEW c, \A t \in SUBSET D : t # {} => c[t] \in t,
         NEW A, NEW base \in A, NEW G, \A d \in D, a \in A : G[<<d, a>>] \in A
  PROVE  \E it : Folds(it, D, c, A, base, G)
<1> DEFINE Upto(n) == {t \in SUBSET D : Cardinality(t) <= n}
           Solves(it, n) == /\ it \in [Upto(n) -> A]
                            /\ \A t \in Upto(n) : it[t] = IF t = {} THEN base ELSE G[<<c[t], it[t \ {c[t]}]>>]
           P == {n \in Nat : \E it : Solves(it, n)}
<1>0. \A t \in SUBSET D : IsFiniteSet(t) /\ Cardinality(t) \in Nat
  BY FS_Subset, FS_CardinalityType
<1>1. 0 \in P
  <2>1. Upto(0) = {{}}
    BY <1>0, FS_EmptySet
  <2>2. Solves([t \in Upto(0) |-> base], 0)
    BY <2>1
  <2> QED
    BY <2>2
<1>2. ASSUME NEW n \in Nat, n \in P PROVE n + 1 \in P
  <2>1. PICK it : Solves(it, n)
    BY <1>2
  <2> DEFINE more == [t \in Upto(n + 1) |-> IF t = {} THEN base ELSE G[<<c[t], it[t \ {c[t]}]>>]]
  <2>2. ASSUME NEW t \in Upto(n + 1), t # {} PROVE t \ {c[t]} \in Upto(n) /\ c[t] \in D
    <3>1. c[t] \in t /\ t \in SUBSET D /\ Cardinality(t) <= n + 1 /\ Cardinality(t) \in Nat /\ IsFiniteSet(t)
      BY <1>0, <2>2
    <3>2. Cardinality(t \ {c[t]}) = Cardinality(t) - 1
      BY <3>1, FS_RemoveElement, Zenon
    <3>3. t \ {c[t]} \in SUBSET D /\ Cardinality(t \ {c[t]}) <= n
      BY <3>1, <3>2
    <3> QED
      BY <3>1, <3>3
  <2>3. \A t \in Upto(n) : it[t] \in A
    BY <2>1
  <2>4. \A t \in Upto(n) : t \in Upto(n + 1) /\ more[t] = it[t]
    <3>1. \A t \in Upto(n) : t \in Upto(n + 1)
      BY <1>0
    <3>2. \A t \in Upto(n) : it[t] = IF t = {} THEN base ELSE G[<<c[t], it[t \ {c[t]}]>>]
      BY <2>1
    <3> HIDE DEF Upto, Solves
    <3> QED
      BY <3>1, <3>2
  <2> HIDE DEF Upto
  <2>5. more \in [Upto(n + 1) -> A]
    <3>1. \A t \in Upto(n + 1) : t # {} => G[<<c[t], it[t \ {c[t]}]>>] \in A
      BY <2>2, <2>3
    <3> QED
      BY <3>1
  <2>6. \A t \in Upto(n + 1) : more[t] = IF t = {} THEN base ELSE G[<<c[t], more[t \ {c[t]}]>>]
    BY <2>2, <2>4
  <2> HIDE DEF more
  <2>7. Solves(more, n + 1)
    BY <2>5, <2>6
  <2> HIDE DEF Solves
  <2>8. \E x : Solves(x, n + 1)
    BY <2>7
  <2> QED
    BY <2>8
<1> HIDE DEF P
<1>3. Cardinality(D) \in P
  <2>1. \A n \in Nat : n \in P
    BY <1>1, <1>2, EveryNatural
  <2> QED
    BY <2>1, <1>0
<1>4. PICK it : Solves(it, Cardinality(D))
  BY <1>3 DEF P
<1>5. Upto(Cardinality(D)) = SUBSET D
  BY FS_Subset
<1>6. Folds(it, D, c, A, base, G)
  BY <1>4, <1>5 DEF Folds
<1> QED
  BY <1>6

----------------------------------------------------------------------------
(***************************************************************************)
(* Sums over finite sets.                                                  *)
(***************************************************************************)
Picked(t) == CHOOSE x \in t : TRUE
SumsUp(f, it, U) ==
  /\ it \in [SUBSET U -> Int]
  /\ \A t \in SUBSET U : it[t] = IF t = {} THEN 0 ELSE f[Picked(t)] + it[t \ {Picked(t)}]

LEMMA SumIsDefined ==
  ASSUME NEW U, IsFiniteSet(U), NEW f, \A x \in U : f[x] \in Int
  PROVE  \E it : SumsUp(f, it, U) /\ SumFunctionOnSet(f, U) = it[U]
<1> DEFINE Eq(it) == it = [t \in SUBSET U |-> IF t = {} THEN 0 ELSE f[CHOOSE x \in t : TRUE]
                                                                  + it[t \ {CHOOSE x \in t : TRUE}]]
           c == [t \in SUBSET U |-> Picked(t)]
           G == [p \in U \X Int |-> f[p[1]] + p[2]]
<1>1. SumFunctionOnSet(f, U) = (CHOOSE it : Eq(it))[U]
  BY Zenon DEF SumFunctionOnSet, FoldFunctionOnSet, MapThenFoldSet
<1>2. \A t \in SUBSET U : t # {} => Picked(t) \in t
  BY DEF Picked
<1>3. \A t \in SUBSET U : t # {} => c[t] \in t
  BY <1>2
<1>4. \A d \in U, a \in Int : G[<<d, a>>] \in Int /\ G[<<d, a>>] = f[d] + a
  OBVIOUS
<1>5a. PICK it : Folds(it, U, c, Int, 0, G)
  <2>1. 0 \in Int /\ \A d \in U, a \in Int : G[<<d, a>>] \in Int
    BY <1>4
  <2> HIDE DEF c, G
  <2> QED
    BY <1>3, <2>1, FoldIsDefined
<1>5. /\ it \in [SUBSET U -> Int]
      /\ \A t \in SUBSET U : it[t] = IF t = {} THEN 0 ELSE G[<<c[t], it[t \ {c[t]}]>>]
  BY <1>5a DEF Folds
<1>6. \A t \in SUBSET U : it[t] = IF t = {} THEN 0 ELSE f[Picked(t)] + it[t \ {Picked(t)}]
  <2> SUFFICES ASSUME NEW t \in SUBSET U, t # {} PROVE it[t] = f[Picked(t)] + it[t \ {Picked(t)}]
    BY <1>5
  <2>1. c[t] = Picked(t) /\ Picked(t) \in U /\ it[t \ {Picked(t)}] \in Int
    BY <1>2, <1>5
  <2> HIDE DEF G, c
  <2> QED
    BY <1>4, <1>5, <2>1
<1>7. Eq(it)
  BY <1>5, <1>6 DEF Picked
<1>8. Eq(CHOOSE x : Eq(x))
  <2> HIDE DEF Eq
  <2> QED
    BY <1>7
<1> DEFINE jt == CHOOSE x : Eq(x)
<1>9. \A t \in SUBSET U : jt[t] = IF t = {} THEN 0 ELSE f[Picked(t)] + jt[t \ {Picked(t)}]
  BY <1>8 DEF Picked
<1>10. DOMAIN jt = SUBSET U /\ jt = [t \in SUBSET U |-> jt[t]]
  BY <1>8
<1> HIDE DEF jt
<1>11. \A T \in SUBSET U : jt[T] \in Int
  <2> DEFINE P == {n \in Nat : \A t \in SUBSET U : Cardinality(t) = n => jt[t] \in Int}
  <2>0. \A t \in SUBSET U : IsFiniteSet(t) /\ Cardinality(t) \in Nat
    BY FS_Subset, FS_CardinalityType
  <2>1. 0 \in P
    BY <1>9, <2>0, FS_EmptySet
  <2>2. ASSUME NEW n \in Nat, n \in P PROVE n + 1 \in P
    <3>0. SUFFICES ASSUME NEW t \in SUBSET U, Cardinality(t) = n + 1 PROVE jt[t] \in Int
      OBVIOUS
    <3>1. t # {}
      <4>1. Cardinality(t) # 0
        BY <3>0
      <4> QED
        BY <4>1, FS_EmptySet, Zenon
    <3>2. Picked(t) \in t /\ IsFiniteSet(t)
      BY <1>2, <2>0, <3>1
    <3>3. Cardinality(t \ {Picked(t)}) = Cardinality(t) - 1
      BY <3>2, FS_RemoveElement, Zenon
    <3>4. Cardinality(t \ {Picked(t)}) = n
      BY <3>0, <3>3
    <3>5. jt[t \ {Picked(t)}] \in Int
      BY <2>2, <3>4
    <3>6. jt[t] = f[Picked(t)] + jt[t \ {Picked(t)}]
      BY <1>9, <3>1, Zenon
    <3>7. f[Picked(t)] \in Int
      BY <3>2
    <3> QED
      BY <3>5, <3>6, <3>7
  <2> HIDE DEF P
  <2>3. \A n \in Nat : n \in P
    BY <2>1, <2>2, EveryNatural
  <2> QED
    BY <2>0, <2>3 DEF P
<1>12. SumsUp(f, jt, U)
  BY <1>9, <1>10, <1>11 DEF SumsUp
<1> QED
  BY <1>1, <1>12 DEF jt

(* The sums of two sets agree on what is a subset of both. *)
LEMMA SumsAgree ==
  ASSUME NEW U, IsFiniteSet(U), NEW V, IsFiniteSet(V), NEW f,
         NEW i, NEW j, SumsUp(f, i, U), SumsUp(f, j, V)
  PROVE  \A t \in SUBSET (U \cap V) : i[t] = j[t]
<1> DEFINE P == {n \in Nat : \A t \in SUBSET (U \cap V) : Cardinality(t) = n => i[t] = j[t]}
<1>0. \A t \in SUBSET (U \cap V) : IsFiniteSet(t) /\ Cardinality(t) \in Nat
  BY FS_Subset, FS_CardinalityType
<1>1. 0 \in P
  <2> SUFFICES ASSUME NEW t \in SUBSET (U \cap V), Cardinality(t) = 0 PROVE i[t] = j[t]
    OBVIOUS
  <2>1. t = {} /\ t \in SUBSET U /\ t \in SUBSET V
    BY <1>0, FS_EmptySet
  <2> QED
    BY <2>1 DEF SumsUp
<1>2. ASSUME NEW n \in Nat, n \in P PROVE n + 1 \in P
  <2>0. SUFFICES ASSUME NEW t \in SUBSET (U \cap V), Cardinality(t) = n + 1 PROVE i[t] = j[t]
    OBVIOUS
  <2>1. t # {}
    <3>1. Cardinality(t) # 0
      BY <2>0
    <3> QED
      BY <3>1, FS_EmptySet, Zenon
  <2>2. Picked(t) \in t /\ IsFiniteSet(t)
    BY <1>0, <2>1 DEF Picked
  <2>3. Cardinality(t \ {Picked(t)}) = Cardinality(t) - 1
    BY <2>2, FS_RemoveElement, Zenon
  <2>4. Cardinality(t \ {Picked(t)}) = n /\ t \ {Picked(t)} \in SUBSET (U \cap V)
    BY <2>0, <2>3
  <2>5. i[t \ {Picked(t)}] = j[t \ {Picked(t)}]
    BY <1>2, <2>4
  <2>6. t \in SUBSET U /\ t \in SUBSET V
    OBVIOUS
  <2>7. i[t] = f[Picked(t)] + i[t \ {Picked(t)}] /\ j[t] = f[Picked(t)] + j[t \ {Picked(t)}]
    BY <2>1, <2>6 DEF SumsUp
  <2> QED
    BY <2>5, <2>7
<1> HIDE DEF P
<1>3. \A n \in Nat : n \in P
  BY <1>1, <1>2, EveryNatural
<1> QED
  BY <1>0, <1>3 DEF P

LEMMA SumOfNone ==
  ASSUME NEW f
  PROVE  SumFunctionOnSet(f, {}) = 0
<1>1. PICK it : SumsUp(f, it, {}) /\ SumFunctionOnSet(f, {}) = it[{}]
  BY SumIsDefined, FS_EmptySet
<1> QED
  BY <1>1 DEF SumsUp

LEMMA SumOfPicked ==
  ASSUME NEW S, IsFiniteSet(S), NEW f, \A x \in S : f[x] \in Int
  PROVE  /\ SumFunctionOnSet(f, S) \in Int
         /\ S # {} => SumFunctionOnSet(f, S) = f[Picked(S)] + SumFunctionOnSet(f, S \ {Picked(S)})
<1>1. PICK it : SumsUp(f, it, S) /\ SumFunctionOnSet(f, S) = it[S]
  BY SumIsDefined
<1>2. it[S] \in Int
  BY <1>1 DEF SumsUp
<1>3. ASSUME S # {} PROVE SumFunctionOnSet(f, S) = f[Picked(S)] + SumFunctionOnSet(f, S \ {Picked(S)})
  <2> DEFINE T == S \ {Picked(S)}
  <2>1. IsFiniteSet(T) /\ T \subseteq S
    BY FS_Subset
  <2>2. PICK jt : SumsUp(f, jt, T) /\ SumFunctionOnSet(f, T) = jt[T]
    BY <2>1, SumIsDefined
  <2>3. T \in SUBSET (S \cap T)
    OBVIOUS
  <2> HIDE DEF T
  <2>4. it[T] = jt[T]
    BY <1>1, <2>1, <2>2, <2>3, SumsAgree
  <2>5. it[S] = f[Picked(S)] + it[T]
    BY <1>1, <1>3 DEF SumsUp, T
  <2> QED
    BY <1>1, <2>2, <2>4, <2>5 DEF T
<1> QED
  BY <1>1, <1>2, <1>3

(* The order in which a sum takes its elements does not matter. *)
LEMMA SumOfOneMore ==
  ASSUME NEW S, IsFiniteSet(S), NEW f, \A x \in S : f[x] \in Int, NEW x \in S
  PROVE  SumFunctionOnSet(f, S) = f[x] + SumFunctionOnSet(f, S \ {x})
<1> DEFINE Sum(t) == SumFunctionOnSet(f, t)
           P == {n \in Nat : \A t \in SUBSET S : Cardinality(t) = n =>
                               \A y \in t : Sum(t) = f[y] + Sum(t \ {y})}
<1>0. \A t \in SUBSET S : IsFiniteSet(t) /\ Cardinality(t) \in Nat
  BY FS_Subset, FS_CardinalityType
<1>a. \A t \in SUBSET S : Sum(t) \in Int /\ (t # {} => Picked(t) \in t /\ Sum(t) = f[Picked(t)] + Sum(t \ {Picked(t)}))
  <2> SUFFICES ASSUME NEW t \in SUBSET S
               PROVE  Sum(t) \in Int /\ (t # {} => Picked(t) \in t /\ Sum(t) = f[Picked(t)] + Sum(t \ {Picked(t)}))
    OBVIOUS
  <2>1. IsFiniteSet(t) /\ \A y \in t : f[y] \in Int
    BY <1>0
  <2>2. t # {} => Picked(t) \in t
    BY DEF Picked
  <2> QED
    BY <2>1, <2>2, SumOfPicked
<1> HIDE DEF Sum
<1>1. 0 \in P
  BY <1>0, FS_EmptySet
<1>2. ASSUME NEW n \in Nat, n \in P PROVE n + 1 \in P
  <2>0. SUFFICES ASSUME NEW t \in SUBSET S, Cardinality(t) = n + 1, NEW y \in t
                 PROVE  Sum(t) = f[y] + Sum(t \ {y})
    OBVIOUS
  <2> DEFINE c == Picked(t)
  <2>1. c \in t /\ Sum(t) = f[c] + Sum(t \ {c}) /\ IsFiniteSet(t)
    BY <1>0, <1>a, <2>0
  <2> HIDE DEF c
  <2>2. CASE y = c
    BY <2>1, <2>2
  <2>3. CASE y # c
    <3>1. Cardinality(t \ {c}) = Cardinality(t) - 1 /\ Cardinality(t \ {y}) = Cardinality(t) - 1
      BY <2>0, <2>1, FS_RemoveElement, Zenon
    <3>2. /\ t \ {c} \in SUBSET S /\ Cardinality(t \ {c}) = n /\ y \in t \ {c}
          /\ t \ {y} \in SUBSET S /\ Cardinality(t \ {y}) = n /\ c \in t \ {y}
      BY <2>0, <2>1, <2>3, <3>1
    <3>3. Sum(t \ {c}) = f[y] + Sum((t \ {c}) \ {y}) /\ Sum(t \ {y}) = f[c] + Sum((t \ {y}) \ {c})
      BY <1>2, <3>2
    <3>4. (t \ {c}) \ {y} = (t \ {y}) \ {c} /\ (t \ {c}) \ {y} \in SUBSET S
      OBVIOUS
    <3>5. f[c] \in Int /\ f[y] \in Int /\ Sum((t \ {c}) \ {y}) \in Int
      BY <1>a, <2>1, <3>4
    <3> DEFINE rest == Sum((t \ {c}) \ {y})
    <3>6. Sum(t) = f[c] + (f[y] + rest)
      BY <2>1, <3>3
    <3>7. Sum(t \ {y}) = f[c] + rest
      BY <3>3, <3>4
    <3> HIDE DEF rest
    <3>8. f[c] + (f[y] + rest) = f[y] + (f[c] + rest)
      BY <3>5 DEF rest
    <3> QED
      BY <3>6, <3>7, <3>8
  <2> QED
    BY <2>2, <2>3
<1> HIDE DEF P
<1>3. \A n \in Nat : n \in P
  BY <1>1, <1>2, EveryNatural
<1>4. Cardinality(S) \in P
  BY <1>0, <1>3
<1>5. Sum(S) = f[x] + Sum(S \ {x})
  BY <1>4 DEF P
<1> QED
  BY <1>5 DEF Sum

LEMMA SumAdds ==
  ASSUME NEW S, IsFiniteSet(S), NEW x, x \notin S, NEW f, \A y \in S \cup {x} : f[y] \in Int
  PROVE  /\ SumFunctionOnSet(f, S \cup {x}) = f[x] + SumFunctionOnSet(f, S)
         /\ SumFunctionOnSet(f, S) \in Int
<1>1. IsFiniteSet(S \cup {x})
  BY FS_AddElement
<1>2. (S \cup {x}) \ {x} = S
  OBVIOUS
<1>3. SumFunctionOnSet(f, S \cup {x}) = f[x] + SumFunctionOnSet(f, (S \cup {x}) \ {x})
  BY <1>1, SumOfOneMore
<1> QED
  BY <1>2, <1>3, SumOfPicked

LEMMA SumOfSame ==
  ASSUME NEW S, IsFiniteSet(S), NEW f, NEW g, \A x \in S : f[x] \in Int /\ f[x] = g[x]
  PROVE  SumFunctionOnSet(f, S) = SumFunctionOnSet(g, S)
<1> DEFINE F == {T \in SUBSET S : SumFunctionOnSet(f, T) = SumFunctionOnSet(g, T)}
<1>1. {} \in F
  BY SumOfNone
<1>2. ASSUME NEW T \in SUBSET S, NEW x \in S \ T, T \in F PROVE T \cup {x} \in F
  <2>1. IsFiniteSet(T) /\ \A y \in T \cup {x} : f[y] \in Int /\ g[y] \in Int
    BY FS_Subset
  <2>2. SumFunctionOnSet(f, T \cup {x}) = f[x] + SumFunctionOnSet(f, T)
    BY <2>1, SumAdds
  <2>3. SumFunctionOnSet(g, T \cup {x}) = g[x] + SumFunctionOnSet(g, T)
    BY <2>1, SumAdds
  <2> QED
    BY <1>2, <2>2, <2>3
<1> HIDE DEF F
<1>3. S \in F
  BY <1>1, <1>2, EverySubset
<1> QED
  BY <1>3 DEF F

LEMMA GreatestOfNaturals ==
  ASSUME NEW n \in Nat, NEW S, S \subseteq 0..n, S # {}
  PROVE  \E x \in S : \A y \in S : y <= x
<1> DEFINE T == {n - x : x \in S}
<1>1. T \subseteq Nat /\ T # {}
  <2>1. \A x \in S : n - x \in Nat
    OBVIOUS
  <2> QED
    BY <2>1
<1>2. PICK t \in T : \A u \in T : t <= u
  BY <1>1, LeastOfNaturals
<1>3. PICK x \in S : t = n - x
  OBVIOUS
<1>4. ASSUME NEW y \in S PROVE y <= x
  <2>1. t <= n - y
    BY <1>2
  <2> QED
    BY <1>3, <2>1
<1> QED
  BY <1>4

LEMMA GreatestOfFinite ==
  ASSUME NEW S \in SUBSET Nat, IsFiniteSet(S), S # {}
  PROVE  \E m \in S : \A x \in S : x <= m
<1> DEFINE F == {t \in SUBSET S : t # {} => \E m \in t : \A x \in t : x <= m}
<1>1. {} \in F
  OBVIOUS
<1>2. ASSUME NEW t \in SUBSET S, NEW y \in S \ t, t \in F PROVE t \cup {y} \in F
  <2>1. CASE t = {}
    BY <2>1
  <2>2. CASE t # {}
    <3>1. PICK m \in t : \A x \in t : x <= m
      BY <1>2, <2>2
    <3>2. \A x \in t \cup {y} : x <= (IF y <= m THEN m ELSE y)
      BY <3>1
    <3> QED
      BY <3>2
  <2> QED
    BY <2>1, <2>2
<1> HIDE DEF F
<1>3. S \in F
  BY <1>1, <1>2, EverySubset
<1> QED
  BY <1>3 DEF F

(* Sums, and numbers, of a few. *)
LEMMA SumOfOne ==
  ASSUME NEW x, NEW f, f[x] \in Int PROVE SumFunctionOnSet(f, {x}) = f[x]
<1>1. IsFiniteSet({}) /\ {x} = {} \cup {x} /\ x \notin {}
  BY FS_EmptySet
<1>2. SumFunctionOnSet(f, {} \cup {x}) = f[x] + SumFunctionOnSet(f, {})
  BY <1>1, SumAdds
<1> QED
  BY <1>1, <1>2, SumOfNone

LEMMA SumOfTwo ==
  ASSUME NEW x, NEW y, x # y, NEW f, f[x] \in Int, f[y] \in Int
  PROVE  SumFunctionOnSet(f, {x, y}) = f[x] + f[y]
<1>1. IsFiniteSet({y}) /\ {x, y} = {y} \cup {x} /\ x \notin {y}
  BY FS_Singleton
<1>2. SumFunctionOnSet(f, {y} \cup {x}) = f[x] + SumFunctionOnSet(f, {y})
  BY <1>1, SumAdds
<1>3. SumFunctionOnSet(f, {y}) = f[y]
  BY SumOfOne
<1> QED
  BY <1>1, <1>2, <1>3

LEMMA PairsAreFinite == ASSUME NEW x, NEW y PROVE IsFiniteSet({x, y})
<1>1. IsFiniteSet({x}) /\ IsFiniteSet({y}) /\ {x, y} = {x} \cup {y}
  BY FS_Singleton
<1>2. IsFiniteSet({x} \cup {y})
  BY <1>1, FS_Union
<1> QED
  BY <1>1, <1>2

LEMMA PairsCount ==
  ASSUME NEW x, NEW y, x # y
  PROVE  Cardinality({x}) = 1 /\ Cardinality({x, y}) = 2 /\ IsFiniteSet({x, y})
<1>1. IsFiniteSet({y}) /\ Cardinality({y}) = 1 /\ Cardinality({x}) = 1 /\ {x, y} = {y} \cup {x} /\ x \notin {y}
  BY FS_Singleton
<1>2. Cardinality({y} \cup {x}) = Cardinality({y}) + 1 /\ IsFiniteSet({y} \cup {x})
  BY <1>1, FS_AddElement
<1> QED
  BY <1>1, <1>2

(* The sum over a sequence with one element more. *)
LEMMA SumOfAppend ==
  ASSUME NEW n \in Nat, NEW f, DOMAIN f = 1..n, NEW g, DOMAIN g = 1..(n + 1),
         \A i \in 1..(n + 1) : g[i] \in Int, \A i \in 1..n : f[i] = g[i]
  PROVE  SumFunction(f) \in Int /\ SumFunction(g) = SumFunction(f) + g[n + 1]
<1>1. IsFiniteSet(1..n) /\ n + 1 \notin 1..n /\ 1..(n + 1) = (1..n) \cup {n + 1}
  <2>1. IsFiniteSet(1..n)
    BY FS_Interval
  <2> QED
    BY <2>1
<1>2. \A i \in (1..n) \cup {n + 1} : g[i] \in Int
  BY <1>1
<1>3. /\ SumFunctionOnSet(g, (1..n) \cup {n + 1}) = g[n + 1] + SumFunctionOnSet(g, 1..n)
      /\ SumFunctionOnSet(g, 1..n) \in Int
  BY <1>1, <1>2, SumAdds
<1>4. SumFunctionOnSet(f, 1..n) = SumFunctionOnSet(g, 1..n)
  BY <1>1, <1>2, SumOfSame
<1>5. g[n + 1] \in Int
  BY <1>1
<1>6. SumFunction(g) = SumFunctionOnSet(g, 1..(n + 1)) /\ SumFunction(f) = SumFunctionOnSet(f, 1..n)
  BY Zenon DEF SumFunction
<1>7. SumFunction(g) = g[n + 1] + SumFunction(f) /\ SumFunction(f) \in Int
  BY <1>1, <1>3, <1>4, <1>6, Zenon
<1>8. \A a, b \in Int : a + b = b + a
  OBVIOUS
<1> QED
  BY <1>5, <1>7, <1>8, Zenon

----------------------------------------------------------------------------
(***************************************************************************)
(* Folds over a sequence, from left to right.                              *)
(***************************************************************************)
LEMMA MaxOfUpto ==
  ASSUME NEW n \in Nat
  PROVE  /\ \A t \in SUBSET (1..n) : t # {} => Max(t) \in t
         /\ \A k \in 1..n : Max(1..k) = k /\ 1..k # {} /\ (1..k) \ {k} = 1..(k - 1) /\ 1..k \subseteq 1..n
<1>1. ASSUME NEW t \in SUBSET (1..n), t # {} PROVE Max(t) \in t
  <2>0. t \subseteq 0..n
    BY <1>1
  <2>1. \E x \in t : \A y \in t : y <= x
    BY <1>1, <2>0, GreatestOfNaturals, Zenon
  <2>2. \E x \in t : \A y \in t : x >= y
    BY <2>1
  <2> QED
    BY <2>2 DEF Max
<1>2. ASSUME NEW k \in 1..n PROVE Max(1..k) = k
  <2>1. k \in 1..k /\ \A y \in 1..k : k >= y
    OBVIOUS
  <2>2. \A x \in 1..k : (\A y \in 1..k : x >= y) => x = k
    OBVIOUS
  <2> QED
    BY <2>1, <2>2 DEF Max
<1> QED
  BY <1>1, <1>2

(* A recursion along a sequence of n elements, which takes each with G,     *)
(* has a solution.                                                         *)
Runs(it, n, A, base, G) ==
  /\ it \in [SUBSET (1..n) -> A]
  /\ \A t \in SUBSET (1..n) : it[t] = IF t = {} THEN base ELSE G[<<Max(t), it[t \ {Max(t)}]>>]

LEMMA RunIsDefined ==
  ASSUME NEW n \in Nat, NEW A, NEW base \in A, NEW G, \A d \in 1..n, a \in A : G[<<d, a>>] \in A
  PROVE  \E it : Runs(it, n, A, base, G)
<1> DEFINE D == 1..n
           c == [t \in SUBSET D |-> Max(t)]
<1>1. IsFiniteSet(D)
  BY FS_Interval
<1>2. \A t \in SUBSET D : t # {} => c[t] \in t
  BY MaxOfUpto
<1>3. \A t \in SUBSET D : c[t] = Max(t)
  OBVIOUS
<1> HIDE DEF c
<1>4. PICK it : Folds(it, D, c, A, base, G)
  BY <1>1, <1>2, FoldIsDefined
<1> QED
  BY <1>3, <1>4 DEF Folds, Runs

(* The first k of a sequence of sequences, one after the other. *)
Joins(v, n, ss, S) ==
  /\ v \in [0..n -> Seq(S)]
  /\ v[0] = <<>> /\ \A k \in 1..n : v[k] = v[k - 1] \o ss[k]
  /\ FlattenSeq(ss) = v[n]

LEMMA FlattenIsRun ==
  ASSUME NEW S, NEW ss \in Seq(Seq(S))
  PROVE  \E v : Joins(v, Len(ss), ss, S)
<1>1. PICK n \in Nat : n = Len(ss) /\ \A k \in 1..n : ss[k] \in Seq(S)
  OBVIOUS
<1> DEFINE A == Seq(S)
           G == [p \in (1..n) \X A |-> p[2] \o ss[p[1]]]
<1>2. \A d \in 1..n, a \in A : G[<<d, a>>] = a \o ss[d] /\ G[<<d, a>>] \in A
  <2>1. \A d \in 1..n, a \in A : a \o ss[d] \in A
    BY <1>1
  <2> QED
    BY <2>1
<1>3. <<>> \in A
  OBVIOUS
<1> HIDE DEF A, G
<1>4. PICK it : Runs(it, n, A, <<>>, G)
  <2>1. \A d \in 1..n, a \in A : G[<<d, a>>] \in A
    BY <1>2
  <2> QED
    BY <1>3, <2>1, RunIsDefined
<1>10. it \in [SUBSET (1..n) -> A] /\ \A t \in SUBSET (1..n) : it[t] = IF t = {} THEN <<>> ELSE G[<<Max(t), it[t \ {Max(t)}]>>]
  BY <1>4, Zenon DEF Runs
<1> DEFINE v == [k \in 0..n |-> it[1..k]]
<1>5. \A k \in 0..n : v[k] = it[1..k] /\ 1..k \in SUBSET (1..n)
  OBVIOUS
<1>6. v \in [0..n -> A]
  BY <1>10, <1>5
<1>7. v[0] = <<>>
  <2>1. 1..0 = {} /\ 0 \in 0..n
    OBVIOUS
  <2> QED
    BY <1>10, <1>5, <2>1
<1>8. ASSUME NEW k \in 1..n PROVE v[k] = v[k - 1] \o ss[k]
  <2>1. k \in 0..n /\ k - 1 \in 0..n
    OBVIOUS
  <2>2. Max(1..k) = k /\ 1..k # {} /\ (1..k) \ {k} = 1..(k - 1) /\ 1..k \in SUBSET (1..n)
    BY MaxOfUpto
  <2>3. it[1..k] = G[<<k, it[1..(k - 1)]>>]
    BY <1>10, <2>2
  <2>4. it[1..(k - 1)] \in A
    BY <1>10, <1>5, <2>1
  <2> HIDE DEF v
  <2> QED
    BY <1>2, <1>5, <2>1, <2>3, <2>4
<1> HIDE DEF v
<1>9. FlattenSeq(ss) = v[n]
  <2>1. CASE n = 0
    <3>1. Len(ss) = 0
      BY <1>1, <2>1
    <3>2. FlattenSeq(ss) = ss
      BY <3>1, Zenon DEF FlattenSeq
    <3>3. ss = <<>>
      BY <3>1, EmptySeq
    <3> QED
      BY <1>7, <2>1, <3>2, <3>3
  <2>2. CASE n # 0
    <3> DEFINE Eq(f) == f = [i \in 1..n |-> IF i = 1 THEN ss[i] ELSE f[i - 1] \o ss[i]]
               w == [i \in 1..n |-> v[i]]
               f == CHOOSE g : Eq(g)
    <3>1. FlattenSeq(ss) = f[n]
      <4>1. ~(Len(ss) = 0)
        BY <1>1, <2>2
      <4>2. FlattenSeq(ss) = LET flatten[i \in 1..Len(ss)] == IF i = 1 THEN ss[i] ELSE flatten[i - 1] \o ss[i]
                             IN  flatten[Len(ss)]
        BY <4>1, Zenon DEF FlattenSeq
      <4> QED
        BY <1>1, <4>2, Zenon
    <3>2. \A i \in 1..n : v[i] = IF i = 1 THEN ss[i] ELSE v[i - 1] \o ss[i]
      <4>1. ASSUME NEW i \in 1..n, i = 1 PROVE v[i] = ss[i]
        <5>0. i - 1 = 0
          BY <4>1
        <5>1. v[i] = <<>> \o ss[i] /\ ss[i] \in Seq(S)
          BY <1>1, <1>7, <1>8, <5>0
        <5>2. \A q \in Seq(S) : <<>> \o q = q
          OBVIOUS
        <5> QED
          BY <5>1, <5>2
      <4> QED
        BY <1>8, <4>1
    <3>3. Eq(w)
      <4>1. \A i \in 1..n : i # 1 => i - 1 \in 1..n
        OBVIOUS
      <4>2. \A i \in 1..n : w[i] = IF i = 1 THEN ss[i] ELSE w[i - 1] \o ss[i]
        BY <3>2, <4>1
      <4> QED
        BY <4>2
    <3>4. Eq(f)
      <4> HIDE DEF Eq
      <4> QED
        BY <3>3
    <3>5. \A i \in 1..n : f[i] = IF i = 1 THEN ss[i] ELSE f[i - 1] \o ss[i]
      BY <3>4
    <3> HIDE DEF f
    <3> DEFINE P == {k \in Nat : k \in 1..n => f[k] = v[k]}
    <3>6. 0 \in P
      OBVIOUS
    <3>7. ASSUME NEW k \in Nat, k \in P PROVE k + 1 \in P
      <4> SUFFICES ASSUME k + 1 \in 1..n PROVE f[k + 1] = v[k + 1]
        OBVIOUS
      <4>1. CASE k = 0
        BY <3>2, <3>5, <4>1
      <4>2. CASE k # 0
        <5>1. k \in 1..n /\ (k + 1) - 1 = k /\ k + 1 # 1 /\ f[k] = v[k]
          BY <3>7, <4>2
        <5>2. f[k + 1] = f[(k + 1) - 1] \o ss[k + 1] /\ v[k + 1] = v[(k + 1) - 1] \o ss[k + 1]
          BY <3>2, <3>5, <5>1
        <5> QED
          BY <5>1, <5>2
      <4> QED
        BY <4>1, <4>2
    <3> HIDE DEF P
    <3>8. n \in P
      BY <3>6, <3>7, EveryNatural
    <3> QED
      BY <2>2, <3>1, <3>8 DEF P
  <2> QED
    BY <2>1, <2>2
<1> QED
  BY <1>1, <1>6, <1>7, <1>8, <1>9 DEF A, Joins

LEMMA RangeOfConcat ==
  ASSUME NEW S, NEW a \in Seq(S), NEW b \in Seq(S)
  PROVE  Range(a \o b) = Range(a) \cup Range(b)
<1>1. PICK m \in Nat, n \in Nat : m = Len(a) /\ DOMAIN a = 1..m /\ n = Len(b) /\ DOMAIN b = 1..n
  OBVIOUS
<1>2. /\ DOMAIN (a \o b) = 1..(m + n)
      /\ \A i \in 1..m : (a \o b)[i] = a[i]
      /\ \A i \in 1..n : (a \o b)[m + i] = b[i]
  BY <1>1
<1> DEFINE c == a \o b
<1> HIDE DEF c
<1>3. \A i \in 1..m : i \in 1..(m + n)
  OBVIOUS
<1>4. \A i \in 1..n : m + i \in 1..(m + n)
  OBVIOUS
<1>5. \A i \in 1..(m + n) : i \in 1..m \/ \E j \in 1..n : i = m + j
  <2> SUFFICES ASSUME NEW i \in 1..(m + n), i \notin 1..m PROVE i - m \in 1..n /\ i = m + (i - m)
    OBVIOUS
  <2> QED
    OBVIOUS
<1>6. /\ DOMAIN c = 1..(m + n) /\ \A i \in 1..m : c[i] = a[i]
      /\ \A i \in 1..n : c[m + i] = b[i]
  BY <1>2 DEF c
<1>7. Range(c) = Range(a) \cup Range(b)
  <2>1. ASSUME NEW x \in Range(c) PROVE x \in Range(a) \cup Range(b)
    <3>1. PICK i \in 1..(m + n) : x = c[i]
      BY <1>6 DEF Range
    <3>2. CASE i \in 1..m
      BY <1>1, <1>6, <3>1, <3>2 DEF Range
    <3>3. CASE i \notin 1..m
      <4>1. PICK j \in 1..n : i = m + j
        BY <1>5, <3>3
      <4>2. x = b[j] /\ j \in DOMAIN b
        BY <1>1, <1>6, <3>1, <4>1
      <4> QED
        BY <4>2 DEF Range
    <3> QED
      BY <3>2, <3>3
  <2>2. ASSUME NEW x \in Range(a) PROVE x \in Range(c)
    BY <1>1, <1>3, <1>6 DEF Range
  <2>3. ASSUME NEW x \in Range(b) PROVE x \in Range(c)
    BY <1>1, <1>4, <1>6 DEF Range
  <2> QED
    BY <2>1, <2>2, <2>3
<1> QED
  BY <1>7 DEF c

LEMMA RangeOfMore ==
  ASSUME NEW E, NEW s \in Seq(E), NEW x \in E
  PROVE  Append(s, x) \in Seq(E) /\ Range(Append(s, x)) = Range(s) \cup {x}
<1>1. PICK n \in Nat : n = Len(s) /\ DOMAIN s = 1..n
  OBVIOUS
<1>2. /\ Append(s, x) \in Seq(E) /\ DOMAIN Append(s, x) = 1..(n + 1)
      /\ \A i \in 1..n : Append(s, x)[i] = s[i]
      /\ Append(s, x)[n + 1] = x
  BY <1>1
<1>3. 1..(n + 1) = (1..n) \cup {n + 1}
  OBVIOUS
<1> DEFINE a == Append(s, x)
<1> HIDE DEF a
<1>4. Range(a) = {a[i] : i \in (1..n) \cup {n + 1}} /\ Range(s) = {s[i] : i \in 1..n}
  BY <1>1, <1>2, <1>3, Zenon DEF Range, a
<1>5. \A i \in 1..n : a[i] = s[i]
  BY <1>2 DEF a
<1>6. a[n + 1] = x
  BY <1>2 DEF a
<1>7. Range(a) = Range(s) \cup {x}
  BY <1>4, <1>5, <1>6
<1> QED
  BY <1>2, <1>7 DEF a

Keeping(s, X) == FoldLeft(LAMBDA kept, x : IF x \in X THEN Append(kept, x) ELSE kept, <<>>, s)

(* The elements kept of the first k. *)
Keeps(v, n, s, X, E) ==
  /\ v \in [0..n -> Seq(E)]
  /\ v[0] = <<>>
  /\ \A k \in 1..n : v[k] = IF s[k] \in X THEN Append(v[k - 1], s[k]) ELSE v[k - 1]
  /\ Keeping(s, X) = v[n]

LEMMA KeepingIsRun ==
  ASSUME NEW E, NEW s \in Seq(E), NEW X
  PROVE  \E v : Keeps(v, Len(s), s, X, E)
<1>1. PICK n \in Nat : n = Len(s) /\ DOMAIN s = 1..n /\ \A k \in 1..n : s[k] \in E
  OBVIOUS
<1> DEFINE A == Seq(E)
           Eq(it) == it = [t \in SUBSET (1..n) |-> IF t = {} THEN <<>> ELSE
                              IF s[Max(t)] \in X THEN Append(it[t \ {Max(t)}], s[Max(t)]) ELSE it[t \ {Max(t)}]]
           G == [p \in (1..n) \X A |-> IF s[p[1]] \in X THEN Append(p[2], s[p[1]]) ELSE p[2]]
<1>2. Keeping(s, X) = (CHOOSE it : Eq(it))[1..n]
  BY <1>1, Zenon DEF Keeping, FoldLeft, MapThenFoldSet
<1>3. \A d \in 1..n, a \in A : G[<<d, a>>] \in A /\ G[<<d, a>>] = IF s[d] \in X THEN Append(a, s[d]) ELSE a
  <2>1. \A d \in 1..n, a \in A : Append(a, s[d]) \in A
    BY <1>1
  <2> QED
    BY <2>1
<1>4. <<>> \in A
  OBVIOUS
<1> HIDE DEF A, G
<1>5. PICK it : Runs(it, n, A, <<>>, G)
  <2>1. \A d \in 1..n, a \in A : G[<<d, a>>] \in A
    BY <1>3
  <2> QED
    BY <1>4, <2>1, RunIsDefined
<1>6. /\ it \in [SUBSET (1..n) -> A]
      /\ \A t \in SUBSET (1..n) : it[t] = IF t = {} THEN <<>> ELSE G[<<Max(t), it[t \ {Max(t)}]>>]
  BY <1>5, Zenon DEF Runs
<1>7. ASSUME NEW t \in SUBSET (1..n)
      PROVE  it[t] = IF t = {} THEN <<>> ELSE
                        IF s[Max(t)] \in X THEN Append(it[t \ {Max(t)}], s[Max(t)]) ELSE it[t \ {Max(t)}]
  <2>1. CASE t = {}
    BY <1>6, <2>1
  <2>2. CASE t # {}
    <3>1. Max(t) \in 1..n
      BY <2>2, MaxOfUpto
    <3>2. it[t \ {Max(t)}] \in A
      BY <1>6
    <3>3. it[t] = G[<<Max(t), it[t \ {Max(t)}]>>]
      BY <1>6, <2>2
    <3> QED
      BY <1>3, <2>2, <3>1, <3>2, <3>3
  <2> QED
    BY <2>1, <2>2
<1>8. Eq(it)
  BY <1>6, <1>7
<1>9. Eq(CHOOSE f : Eq(f))
  <2> HIDE DEF Eq
  <2> QED
    BY <1>8
<1> DEFINE jt == CHOOSE f : Eq(f)
           v == [k \in 0..n |-> jt[1..k]]
<1>10. \A t \in SUBSET (1..n) : jt[t] = IF t = {} THEN <<>> ELSE
                        IF s[Max(t)] \in X THEN Append(jt[t \ {Max(t)}], s[Max(t)]) ELSE jt[t \ {Max(t)}]
  BY <1>9
<1> HIDE DEF jt
<1>11. v[0] = <<>>
  <2>1. 1..0 = {} /\ 0 \in 0..n
    OBVIOUS
  <2> QED
    BY <1>10, <2>1
<1>12. ASSUME NEW k \in 1..n PROVE v[k] = IF s[k] \in X THEN Append(v[k - 1], s[k]) ELSE v[k - 1]
  <2>1. k \in 0..n /\ k - 1 \in 0..n
    OBVIOUS
  <2>2. Max(1..k) = k /\ 1..k # {} /\ (1..k) \ {k} = 1..(k - 1) /\ 1..k \in SUBSET (1..n)
    BY MaxOfUpto
  <2>3. jt[1..k] = IF s[k] \in X THEN Append(jt[1..(k - 1)], s[k]) ELSE jt[1..(k - 1)]
    BY <1>10, <2>2
  <2>4. v[k] = jt[1..k] /\ v[k - 1] = jt[1..(k - 1)]
    BY <2>1
  <2> QED
    BY <2>3, <2>4
<1>13. v[n] = Keeping(s, X)
  BY <1>2 DEF jt
<1>14. DOMAIN v = 0..n /\ v = [k \in 0..n |-> v[k]]
  OBVIOUS
<1> HIDE DEF v
<1>15. \A k \in 0..n : v[k] \in A
  <2> DEFINE P == {k \in Nat : k \in 0..n => v[k] \in A}
  <2>1. 0 \in P
    BY <1>4, <1>11
  <2>2. ASSUME NEW k \in Nat, k \in P PROVE k + 1 \in P
    <3> SUFFICES ASSUME k + 1 \in 0..n PROVE v[k + 1] \in A
      OBVIOUS
    <3>1. k + 1 \in 1..n /\ (k + 1) - 1 = k /\ k \in 0..n
      OBVIOUS
    <3>2. v[k] \in A
      BY <2>2, <3>1
    <3>3. s[k + 1] \in E
      BY <1>1, <3>1
    <3>4. Append(v[k], s[k + 1]) \in A
      BY <3>2, <3>3 DEF A
    <3> QED
      BY <1>12, <3>1, <3>2, <3>4
  <2> HIDE DEF P
  <2>3. \A k \in Nat : k \in P
    BY <2>1, <2>2, EveryNatural
  <2> QED
    BY <2>3 DEF P
<1>16. v \in [0..n -> A]
  BY <1>14, <1>15
<1> QED
  BY <1>1, <1>11, <1>12, <1>13, <1>16 DEF A, Keeps

(* Keeping the elements of a sequence that are in X, in its order. *)
LEMMA KeepingOf ==
  ASSUME NEW E, NEW s \in Seq(E), NEW X
  PROVE  Keeping(s, X) \in Seq(E) /\ Range(Keeping(s, X)) = Range(s) \cap X
<1>1. PICK n \in Nat : n = Len(s) /\ DOMAIN s = 1..n /\ \A k \in 1..n : s[k] \in E
  OBVIOUS
<1>2. PICK v : Keeps(v, n, s, X, E)
  BY <1>1, KeepingIsRun
<1>8. /\ v \in [0..n -> Seq(E)] /\ v[0] = <<>>
      /\ \A k \in 1..n : v[k] = IF s[k] \in X THEN Append(v[k - 1], s[k]) ELSE v[k - 1]
      /\ Keeping(s, X) = v[n]
  BY <1>2, Zenon DEF Keeps
<1> DEFINE P == {k \in Nat : k \in 0..n => Range(v[k]) = {s[i] : i \in 1..k} \cap X}
<1>3. 0 \in P
  <2>1. Range(v[0]) = {}
    BY <1>8 DEF Range
  <2>2. {s[i] : i \in 1..0} = {}
    OBVIOUS
  <2> QED
    BY <2>1, <2>2
<1>4. ASSUME NEW k \in Nat, k \in P PROVE k + 1 \in P
  <2> SUFFICES ASSUME k + 1 \in 0..n PROVE Range(v[k + 1]) = {s[i] : i \in 1..(k + 1)} \cap X
    OBVIOUS
  <2>1. k + 1 \in 1..n /\ (k + 1) - 1 = k /\ k \in 0..n /\ 1..(k + 1) = (1..k) \cup {k + 1}
    OBVIOUS
  <2>2. Range(v[k]) = {s[i] : i \in 1..k} \cap X /\ v[k] \in Seq(E) /\ s[k + 1] \in E
    BY <1>1, <1>8, <1>4, <2>1
  <2>3. {s[i] : i \in 1..(k + 1)} = {s[i] : i \in 1..k} \cup {s[k + 1]}
    BY <2>1
  <2>4. v[k + 1] = IF s[k + 1] \in X THEN Append(v[k], s[k + 1]) ELSE v[k]
    BY <1>8, <2>1
  <2>5. Range(Append(v[k], s[k + 1])) = Range(v[k]) \cup {s[k + 1]}
    BY <2>2, RangeOfMore
  <2>6. CASE s[k + 1] \in X
    <3>1. v[k + 1] = Append(v[k], s[k + 1])
      BY <2>4, <2>6
    <3> QED
      BY <2>2, <2>3, <2>5, <2>6, <3>1
  <2>7. CASE s[k + 1] \notin X
    <3>1. v[k + 1] = v[k]
      BY <2>4, <2>7
    <3> QED
      BY <2>2, <2>3, <2>7, <3>1
  <2> QED
    BY <2>6, <2>7
<1> HIDE DEF P
<1>5. n \in P
  BY <1>3, <1>4, EveryNatural
<1>6. Range(v[n]) = {s[i] : i \in 1..n} \cap X
  BY <1>5 DEF P
<1>7. Range(s) = {s[i] : i \in 1..n}
  BY <1>1 DEF Range
<1> QED
  BY <1>8, <1>6, <1>7

(* ... each once, if the sequence has each once. *)
LEMMA KeepingIsInjective ==
  ASSUME NEW E, NEW s \in Seq(E), IsInjective(s), NEW X
  PROVE  IsInjective(Keeping(s, X))
<1>1. PICK n \in Nat : n = Len(s) /\ DOMAIN s = 1..n /\ \A k \in 1..n : s[k] \in E
  OBVIOUS
<1>2. PICK v : Keeps(v, n, s, X, E)
  BY <1>1, KeepingIsRun
<1>3. /\ v \in [0..n -> Seq(E)] /\ v[0] = <<>>
      /\ \A k \in 1..n : v[k] = IF s[k] \in X THEN Append(v[k - 1], s[k]) ELSE v[k - 1]
      /\ Keeping(s, X) = v[n]
  BY <1>2, Zenon DEF Keeps
<1>4. \A i, j \in 1..n : s[i] = s[j] => i = j
  BY <1>1 DEF IsInjective
<1> DEFINE Once(q, k) == /\ \A i, j \in DOMAIN q : q[i] = q[j] => i = j
                         /\ \A i \in DOMAIN q : \E j \in 1..k : q[i] = s[j]
           P == {k \in Nat : k \in 0..n => Once(v[k], k)}
<1>5. 0 \in P
  BY <1>3
<1>6. ASSUME NEW k \in Nat, k \in P PROVE k + 1 \in P
  <2> SUFFICES ASSUME k + 1 \in 0..n PROVE Once(v[k + 1], k + 1)
    OBVIOUS
  <2>1. k + 1 \in 1..n /\ (k + 1) - 1 = k /\ k \in 0..n
    OBVIOUS
  <2>2. Once(v[k], k) /\ v[k] \in Seq(E) /\ s[k + 1] \in E
    BY <1>1, <1>3, <1>6, <2>1
  <2>3. v[k + 1] = IF s[k + 1] \in X THEN Append(v[k], s[k + 1]) ELSE v[k]
    BY <1>3, <2>1
  <2>4. \A j \in 1..k : j \in 1..(k + 1) /\ s[j] # s[k + 1]
    BY <1>4, <2>1
  <2>4a. PICK q : q = v[k]
    OBVIOUS
  <2>4b. q \in Seq(E)
    BY <2>2, <2>4a
  <2>5a. PICK m \in Nat : m = Len(q) /\ DOMAIN q = 1..m
    BY <2>4b
  <2>5. q = v[k] /\ q \in Seq(E) /\ m = Len(q) /\ DOMAIN q = 1..m
    BY <2>4a, <2>4b, <2>5a
  <2>6. CASE s[k + 1] \in X
    <3>1. PICK z : z = v[k + 1]
      OBVIOUS
    <3>2. DOMAIN z = 1..(m + 1) /\ (\A i \in 1..m : z[i] = q[i]) /\ z[m + 1] = s[k + 1]
      BY <2>2, <2>3, <2>5, <2>6, <3>1
    <3>3. (\A i, j \in 1..m : q[i] = q[j] => i = j) /\ \A i \in 1..m : \E j \in 1..k : q[i] = s[j]
      BY <2>2, <2>5
    <3>4. \A i \in 1..(m + 1) : i \in 1..m \/ i = m + 1
      OBVIOUS
    <3>5. \A i \in 1..m : q[i] # s[k + 1]
      BY <2>4, <3>3
    <3>6. \A i, j \in 1..(m + 1) : z[i] = z[j] => i = j
      BY <3>2, <3>3, <3>4, <3>5
    <3>7. \A i \in 1..(m + 1) : \E j \in 1..(k + 1) : z[i] = s[j]
      <4>1. k + 1 \in 1..(k + 1)
        OBVIOUS
      <4> QED
        BY <2>4, <3>2, <3>3, <3>4, <4>1
    <3> QED
      BY <3>1, <3>2, <3>6, <3>7
  <2>7. CASE s[k + 1] \notin X
    BY <2>2, <2>3, <2>4, <2>7
  <2> QED
    BY <2>6, <2>7
<1> HIDE DEF P
<1>7. n \in P
  BY <1>5, <1>6, EveryNatural
<1>8. Once(v[n], n)
  BY <1>7 DEF P
<1> QED
  BY <1>3, <1>8 DEF IsInjective

(* A sequence without repetition has as many elements as it is long. *)
LEMMA InjectiveCounts ==
  ASSUME NEW E, NEW s \in Seq(E), IsInjective(s)
  PROVE  IsFiniteSet(Range(s)) /\ Cardinality(Range(s)) = Len(s)
<1>1. PICK n \in Nat : n = Len(s) /\ DOMAIN s = 1..n /\ s \in [1..n -> E]
  OBVIOUS
<1>2. Range(s) = {s[i] : i \in 1..n}
  BY <1>1 DEF Range
<1>3. s \in [1..n -> Range(s)] /\ \A x \in Range(s) : \E i \in 1..n : s[i] = x
  BY <1>1, <1>2
<1>4. s \in Bijection(1..n, Range(s))
  BY <1>3 DEF Bijection, Injection, Surjection
<1>5. ExistsBijection(1..n, Range(s))
  BY <1>4 DEF ExistsBijection
<1>6. IsFiniteSet(1..n) /\ Cardinality(1..n) = n
  BY FS_Interval
<1> QED
  BY <1>1, <1>5, <1>6, FS_Bijection

(* A recursion over the naturals, which goes on with G, has a solution.    *)
Climbs(g, n, A, base, G) ==
  g \in [0..n -> A] /\ g[0] = base /\ \A i \in 1..n : g[i] = G[g[i - 1]]

Recurs(f, A, base, G) ==
  f \in [Nat -> A] /\ f[0] = base /\ \A n \in Nat : f[n + 1] = G[f[n]]

LEMMA RecursionIsDefined ==
  ASSUME NEW A, NEW base \in A, NEW G, \A a \in A : G[a] \in A
  PROVE  \E f : Recurs(f, A, base, G)
<1>1. \A n \in Nat : \E g : Climbs(g, n, A, base, G)
  <2> DEFINE P == {n \in Nat : \E g : Climbs(g, n, A, base, G)}
  <2>1. 0 \in P
    <3> DEFINE g == [i \in 0..0 |-> base]
    <3>1. g \in [0..0 -> A] /\ g[0] = base /\ \A i \in 1..0 : g[i] = G[g[i - 1]]
      OBVIOUS
    <3> HIDE DEF g
    <3> QED
      BY <3>1 DEF Climbs
  <2>2. ASSUME NEW n \in Nat, n \in P PROVE n + 1 \in P
    <3>1. PICK g : Climbs(g, n, A, base, G)
      BY <2>2
    <3>2. g \in [0..n -> A] /\ g[0] = base /\ \A i \in 1..n : g[i] = G[g[i - 1]]
      BY <3>1 DEF Climbs
    <3> DEFINE h == [i \in 0..(n + 1) |-> IF i = n + 1 THEN G[g[n]] ELSE g[i]]
    <3>3. \A i \in 0..(n + 1) : i \in 0..n \/ i = n + 1
      OBVIOUS
    <3>4. n \in 0..n /\ G[g[n]] \in A
      BY <3>2
    <3>5. h \in [0..(n + 1) -> A]
      BY <3>2, <3>3, <3>4
    <3>6. h[0] = base
      BY <3>2
    <3>7. ASSUME NEW i \in 1..(n + 1) PROVE h[i] = G[h[i - 1]]
      <4>1. CASE i = n + 1
        BY <4>1
      <4>2. CASE i # n + 1
        <5>1. i \in 1..n /\ i - 1 \in 0..n /\ i \in 0..(n + 1) /\ i - 1 \in 0..(n + 1) /\ i - 1 # n + 1
          BY <4>2
        <5> QED
          BY <3>2, <4>2, <5>1
      <4> QED
        BY <4>1, <4>2
    <3> HIDE DEF h
    <3>8. Climbs(h, n + 1, A, base, G)
      BY <3>5, <3>6, <3>7 DEF Climbs
    <3> QED
      BY <3>8
  <2> HIDE DEF P
  <2>3. \A n \in Nat : n \in P
    BY <2>1, <2>2, EveryNatural
  <2> QED
    BY <2>3 DEF P
<1>2. ASSUME NEW m \in Nat, NEW g, NEW h, Climbs(g, m, A, base, G), Climbs(h, m + 1, A, base, G)
      PROVE  g[m] = h[m]
  <2> DEFINE P == {i \in Nat : i <= m => g[i] = h[i]}
  <2>1. 0 \in P
    BY <1>2 DEF Climbs
  <2>2. ASSUME NEW i \in Nat, i \in P PROVE i + 1 \in P
    <3> SUFFICES ASSUME i + 1 <= m PROVE g[i + 1] = h[i + 1]
      OBVIOUS
    <3>1. i + 1 \in 1..m /\ i + 1 \in 1..(m + 1) /\ (i + 1) - 1 = i /\ i <= m
      OBVIOUS
    <3>2. g[i + 1] = G[g[i]] /\ h[i + 1] = G[h[i]]
      BY <1>2, <3>1 DEF Climbs
    <3> QED
      BY <2>2, <3>1, <3>2
  <2> HIDE DEF P
  <2>3. m \in P
    BY <2>1, <2>2, EveryNatural
  <2> QED
    BY <2>3 DEF P
<1> DEFINE up(n) == CHOOSE g : Climbs(g, n, A, base, G)
           f == [n \in Nat |-> up(n)[n]]
<1>3. \A n \in Nat : Climbs(up(n), n, A, base, G)
  BY <1>1
<1> HIDE DEF up
<1>4. \A n \in Nat : up(n)[n] \in A /\ up(0)[0] = base
  BY <1>3 DEF Climbs
<1>5. ASSUME NEW n \in Nat PROVE up(n + 1)[n + 1] = G[up(n)[n]]
  <2>1. Climbs(up(n), n, A, base, G) /\ Climbs(up(n + 1), n + 1, A, base, G)
    BY <1>3
  <2>2. up(n)[n] = up(n + 1)[n]
    BY <1>2, <2>1
  <2>3. n + 1 \in 1..(n + 1) /\ (n + 1) - 1 = n
    OBVIOUS
  <2>4. up(n + 1)[n + 1] = G[up(n + 1)[n]]
    BY <2>1, <2>3 DEF Climbs
  <2> QED
    BY <2>2, <2>4
<1>6. f \in [Nat -> A] /\ f[0] = base /\ \A n \in Nat : f[n + 1] = G[f[n]]
  BY <1>4, <1>5
<1> HIDE DEF f
<1>7. Recurs(f, A, base, G)
  BY <1>6 DEF Recurs
<1> QED
  BY <1>7

(* What the sequences of a sequence hold, together. *)
LEMMA FlattenHolds ==
  ASSUME NEW S, NEW ss \in Seq(Seq(S))
  PROVE  FlattenSeq(ss) \in Seq(S) /\ Range(FlattenSeq(ss)) = UNION {Range(ss[i]) : i \in DOMAIN ss}
<1>1. PICK n \in Nat : n = Len(ss) /\ DOMAIN ss = 1..n /\ \A k \in 1..n : ss[k] \in Seq(S)
  OBVIOUS
<1>2. PICK v : Joins(v, n, ss, S)
  BY <1>1, FlattenIsRun
<1>3. /\ v \in [0..n -> Seq(S)]
      /\ v[0] = <<>> /\ \A k \in 1..n : v[k] = v[k - 1] \o ss[k]
      /\ FlattenSeq(ss) = v[n]
  BY <1>2, Zenon DEF Joins
<1> DEFINE P == {k \in Nat : k \in 0..n => Range(v[k]) = UNION {Range(ss[i]) : i \in 1..k}}
<1>4. 0 \in P
  <2>1. Range(v[0]) = {}
    BY <1>3 DEF Range
  <2>2. UNION {Range(ss[i]) : i \in 1..0} = {}
    OBVIOUS
  <2> QED
    BY <2>1, <2>2
<1>5. ASSUME NEW k \in Nat, k \in P PROVE k + 1 \in P
  <2> SUFFICES ASSUME k + 1 \in 0..n PROVE Range(v[k + 1]) = UNION {Range(ss[i]) : i \in 1..(k + 1)}
    OBVIOUS
  <2>1. k + 1 \in 1..n /\ (k + 1) - 1 = k /\ k \in 0..n /\ 1..(k + 1) = (1..k) \cup {k + 1}
    OBVIOUS
  <2>2. v[k + 1] = v[k] \o ss[k + 1] /\ v[k] \in Seq(S) /\ ss[k + 1] \in Seq(S)
    BY <1>1, <1>3, <2>1
  <2>3. Range(v[k + 1]) = Range(v[k]) \cup Range(ss[k + 1])
    BY <2>2, RangeOfConcat
  <2>4. Range(v[k]) = UNION {Range(ss[i]) : i \in 1..k}
    BY <1>5, <2>1
  <2> QED
    BY <2>1, <2>3, <2>4
<1> HIDE DEF P
<1>6. n \in P
  BY <1>4, <1>5, EveryNatural
<1>7. Range(v[n]) = UNION {Range(ss[i]) : i \in 1..n}
  BY <1>6 DEF P
<1> QED
  BY <1>1, <1>3, <1>7

----------------------------------------------------------------------------
(***************************************************************************)
(* A weighted mean lies between the least and the greatest of what weighs. *)
(***************************************************************************)
LEMMA ProductKeepsOrder ==
  ASSUME NEW w \in Nat, NEW a \in Int, NEW b \in Int, a <= b
  PROVE  w * a \in Int /\ w * b \in Int /\ w * a <= w * b
<1>1. PICK d \in Nat : b = a + d
  <2>1. b - a \in Nat /\ b = a + (b - a)
    OBVIOUS
  <2> QED
    BY <2>1
<1>2. w * b = w * a + w * d
  BY <1>1
<1>3. w * d \in Nat /\ w * a \in Int
  OBVIOUS
<1> QED
  BY <1>2, <1>3

Weighing(U, w, f, p, lo, hi) ==
  /\ \A x \in U : w[x] \in Nat /\ p[x] \in Int /\ f[x] = w[x] * p[x]
  /\ \A x \in U : w[x] # 0 => lo <= p[x] /\ p[x] <= hi
WeighsUp(total, sum, U, w, lo, hi) ==
  /\ total \in Nat /\ sum \in Int
  /\ total = 0 <=> \A x \in U : w[x] = 0
  /\ total * lo <= sum /\ sum <= total * hi

LEMMA WeightedSum ==
  ASSUME NEW U, IsFiniteSet(U), NEW w, NEW f, NEW p, NEW lo \in Int, NEW hi \in Int, Weighing(U, w, f, p, lo, hi)
  PROVE  WeighsUp(SumFunctionOnSet(w, U), SumFunctionOnSet(f, U), U, w, lo, hi)
<1>4. /\ \A x \in U : w[x] \in Nat /\ p[x] \in Int /\ f[x] = w[x] * p[x]
      /\ \A x \in U : w[x] # 0 => lo <= p[x] /\ p[x] <= hi
  BY DEF Weighing
<1> DEFINE Total(t) == SumFunctionOnSet(w, t)
           Sum(t) == SumFunctionOnSet(f, t)
           F == {t \in SUBSET U : /\ Total(t) \in Nat /\ Sum(t) \in Int
                                  /\ Total(t) = 0 <=> \A x \in t : w[x] = 0
                                  /\ Total(t) * lo <= Sum(t) /\ Sum(t) <= Total(t) * hi}
<1>0. \A x \in U : f[x] \in Int /\ w[x] \in Int
  BY <1>4, ProductKeepsOrder
<1>1. {} \in F
  <2>1. Total({}) = 0 /\ Sum({}) = 0
    BY SumOfNone
  <2> HIDE DEF Total, Sum
  <2> QED
    BY <2>1
<1>2. ASSUME NEW t \in SUBSET U, NEW x \in U \ t, t \in F PROVE t \cup {x} \in F
  <2>1. IsFiniteSet(t) /\ x \notin t
    BY FS_Subset
  <2>2. Total(t \cup {x}) = w[x] + Total(t)
    BY <1>0, <2>1, SumAdds
  <2>3. Sum(t \cup {x}) = f[x] + Sum(t)
    BY <1>0, <2>1, SumAdds
  <2> HIDE DEF Total, Sum
  <2>4. PICK m \in Nat, s \in Int : m = Total(t) /\ s = Sum(t) /\ (m = 0 <=> \A y \in t : w[y] = 0)
                                    /\ m * lo <= s /\ s <= m * hi
    BY <1>2
  <2>5. PICK v \in Nat, q \in Int : v = w[x] /\ q = p[x] /\ f[x] = v * q /\ (v # 0 => lo <= q /\ q <= hi)
    BY <1>4
  <2>6. v * q \in Int /\ v * lo <= v * q /\ v * q <= v * hi /\ v * lo \in Int /\ v * hi \in Int
    <3>1. CASE v = 0
      BY <3>1
    <3>2. CASE v # 0
      BY <2>5, <3>2, ProductKeepsOrder
    <3> QED
      BY <3>1, <3>2
  <2>7. (v + m) * lo = v * lo + m * lo /\ (v + m) * hi = v * hi + m * hi /\ m * lo \in Int /\ m * hi \in Int
    OBVIOUS
  <2>8. (v + m) * lo <= v * q + s /\ v * q + s <= (v + m) * hi
    <3>4. m * lo <= s /\ s <= m * hi /\ s \in Int
      BY <2>4
    <3>5. PICK a \in Int, b \in Int, c \in Int, d \in Int, e \in Int :
             a = v * lo /\ b = v * q /\ c = m * lo /\ d = v * hi /\ e = m * hi
      BY <2>6, <2>7
    <3>6. (v + m) * lo = a + c /\ (v + m) * hi = d + e /\ a <= b /\ b <= d /\ c <= s /\ s <= e
      BY <2>6, <2>7, <3>4, <3>5, Zenon
    <3>7. a + c <= b + s /\ b + s <= d + e
      BY <3>6
    <3> QED
      BY <3>5, <3>6, <3>7, Zenon
  <2>9. v + m = 0 <=> \A y \in t \cup {x} : w[y] = 0
    <3>1. v + m = 0 <=> v = 0 /\ m = 0
      OBVIOUS
    <3> QED
      BY <2>4, <2>5, <3>1, Zenon
  <2>10. Total(t \cup {x}) = v + m /\ Sum(t \cup {x}) = v * q + s
    BY <2>2, <2>3, <2>4, <2>5
  <2>11. v + m \in Nat /\ v * q + s \in Int
    BY <2>6
  <2> QED
    BY <2>8, <2>9, <2>10, <2>11
<1> HIDE DEF F
<1>3. U \in F
  BY <1>1, <1>2, EverySubset
<1> QED
  BY <1>3 DEF F, WeighsUp

LEMMA QuotientBetween ==
  ASSUME NEW n \in Nat, n > 0, NEW s \in Nat, NEW lo \in Int, NEW hi \in Int, n * lo <= s, s <= n * hi
  PROVE  s \div n \in Int /\ lo <= s \div n /\ s \div n <= hi
<1>1. s \div n \in Nat /\ s % n \in 0..(n - 1)
  OBVIOUS
<1>2. s = n * (s \div n) + (s % n)
  OBVIOUS
<1>3. PICK q \in Nat, r \in 0..(n - 1) : q = s \div n /\ s = n * q + r
  BY <1>1, <1>2
<1>4. ASSUME ~(lo <= q) PROVE FALSE
  <2>1. q + 1 <= lo
    BY <1>4
  <2>2. n * (q + 1) <= n * lo /\ n * (q + 1) \in Int /\ n * lo \in Int
    BY <2>1, ProductKeepsOrder
  <2>3. n * (q + 1) = n * q + n /\ n * q \in Int
    OBVIOUS
  <2> QED
    BY <1>3, <2>2, <2>3
<1>5. ASSUME ~(q <= hi) PROVE FALSE
  <2>1. hi + 1 <= q
    BY <1>5
  <2>2. n * (hi + 1) <= n * q /\ n * (hi + 1) \in Int /\ n * q \in Int
    BY <2>1, ProductKeepsOrder
  <2>3. n * (hi + 1) = n * hi + n /\ n * hi \in Int
    OBVIOUS
  <2> QED
    BY <1>3, <2>2, <2>3
<1> QED
  BY <1>3, <1>4, <1>5
=============================================================================
