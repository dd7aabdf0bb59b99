----------------------------- MODULE FiniteFacts -----------------------------
(***************************************************************************)
(* Facts about finite sets that the proofs about the queries need: sums,   *)
(* induction, and places in an order.  A weight is a function from the     *)
(* elements of a set to Nat, and a sum is the fold of the community        *)
(* modules, MapThenSumSet, which picks one element after the other: that   *)
(* the order does not matter is what has to be proved.  Induction is       *)
(* stated for membership in a set and not for a predicate.                 *)
(***************************************************************************)
EXTENDS FiniteSetsExt, FiniteSetTheorems, NaturalsInduction, TLAPS

SumOver(f, S) == MapThenSumSet(LAMBDA x : f[x], S)

(* The image of a finite set is finite.                                     *)
LEMMA FiniteImage ==
    ASSUME NEW S, IsFiniteSet(S), NEW f
    PROVE  IsFiniteSet({f[x] : x \in S})
<1> DEFINE g == [x \in S |-> f[x]]
           T == {f[x] : x \in S}
<1>1. g \in Surjection(S, T)
      BY DEF Surjection
<1> HIDE DEF g, T
<1>2. IsFiniteSet(T)
      BY <1>1, FS_Surjection
<1> QED
    BY <1>2 DEF T

(* The element that the fold picks next, and its recursion.                 *)
Picked(s) == CHOOSE x \in s : TRUE

IsSum(g, f, S) ==
    g = [s \in SUBSET S |-> IF s = {} THEN 0 ELSE f[Picked(s)] + g[s \ {Picked(s)}]]

(* Induction over the subsets of a finite set: a class of them that has     *)
(* each one whose proper subsets it has, has them all.                      *)
LEMMA SubsetInduction ==
    ASSUME NEW S, IsFiniteSet(S), NEW G,
           \A T \in SUBSET S : (\A U \in SUBSET T : U # T => U \in G) => T \in G
    PROVE  \A T \in SUBSET S : T \in G
<1> DEFINE Bad == {T \in SUBSET S : T \notin G}
<1>1. IsWellFoundedOn(StrictSubsetOrdering(S), SUBSET S)
      BY FS_StrictSubsetOrderingWellFounded, FS_FiniteSubsetsOfFinite
<1>2. CASE Bad # {}
  <2>1. Bad \subseteq SUBSET S
        OBVIOUS
  <2>2. \E T \in Bad : \A U \in Bad : ~(<<U, T>> \in StrictSubsetOrdering(S))
    <3> HIDE DEF Bad
    <3> QED
        BY <1>1, <1>2, <2>1, WFMin
  <2>3. PICK T \in Bad : \A U \in Bad : ~(<<U, T>> \in StrictSubsetOrdering(S))
        BY <2>2
  <2>4. \A U \in SUBSET T : U # T => <<U, T>> \in StrictSubsetOrdering(S)
        BY <2>3 DEF StrictSubsetOrdering
  <2>5. ASSUME NEW U \in SUBSET T, U # T PROVE U \in G
    <3>1. U \notin Bad
          BY <2>3, <2>4, <2>5
    <3>2. U \in SUBSET S
          BY <2>1, <2>3
    <3> QED
        BY <3>1, <3>2
  <2> QED
      BY <2>3, <2>5
<1> QED
    BY <1>2

LEMMA PickedIn == \A s : s # {} => Picked(s) \in s
BY DEF Picked

(* Two solutions of the recursion agree where both are defined.             *)
LEMMA SumUnique ==
    ASSUME NEW f, NEW S, IsFiniteSet(S), NEW T \in SUBSET S,
           NEW g, IsSum(g, f, S), NEW h, IsSum(h, f, T)
    PROVE  g[T] = h[T]
<1> DEFINE Agree == {s \in SUBSET T : g[s] = h[s]}
<1>1. IsFiniteSet(T)
      BY FS_Subset
<1>2. ASSUME NEW s \in SUBSET T, \A u \in SUBSET s : u # s => u \in Agree
      PROVE  s \in Agree
  <2>1. /\ g[s] = IF s = {} THEN 0 ELSE f[Picked(s)] + g[s \ {Picked(s)}]
        /\ h[s] = IF s = {} THEN 0 ELSE f[Picked(s)] + h[s \ {Picked(s)}]
        BY DEF IsSum
  <2>2. s # {} => g[s \ {Picked(s)}] = h[s \ {Picked(s)}]
        BY <1>2, PickedIn
  <2> QED
      BY <2>1, <2>2
<1>3. \A s \in SUBSET T : s \in Agree
  <2> HIDE DEF Agree
  <2> QED
      BY <1>1, <1>2, SubsetInduction
<1> QED
    BY <1>3

(* There is one.                                                            *)
LEMMA SumExists ==
    ASSUME NEW f, NEW S, IsFiniteSet(S)
    PROVE  \E g : IsSum(g, f, S)
<1> DEFINE G == {T \in SUBSET S : \E g : IsSum(g, f, T)}
           Of(T) == CHOOSE g : IsSum(g, f, T)
<1>1. ASSUME NEW T \in SUBSET S, \A U \in SUBSET T : U # T => U \in G
      PROVE  T \in G
  <2> DEFINE At(u) == Of(u)[u]
             h == [s \in SUBSET T |-> IF s = {} THEN 0
                                      ELSE f[Picked(s)] + At(s \ {Picked(s)})]
  <2>1. ASSUME NEW u \in SUBSET T, u # T PROVE IsSum(Of(u), f, u)
        BY <1>1, <2>1
  <2> HIDE DEF Of
  <2>2. ASSUME NEW u \in SUBSET T, u # T PROVE h[u] = At(u)
    <3>1. At(u) = IF u = {} THEN 0 ELSE f[Picked(u)] + Of(u)[u \ {Picked(u)}]
          BY <2>1, <2>2 DEF IsSum
    <3>2. ASSUME u # {} PROVE Of(u)[u \ {Picked(u)}] = At(u \ {Picked(u)})
      <4> DEFINE v == u \ {Picked(u)}
      <4>1. v \in SUBSET u /\ v \in SUBSET T /\ v # T
            BY <2>2, <3>2, PickedIn
      <4>2. IsFiniteSet(u)
            BY FS_Subset
      <4>3. IsSum(Of(u), f, u) /\ IsSum(Of(v), f, v)
            BY <2>1, <2>2, <4>1
      <4> HIDE DEF v
      <4>4. Of(u)[v] = Of(v)[v]
            BY <4>1, <4>2, <4>3, SumUnique
      <4> QED
          BY <4>4 DEF v
    <3> QED
        BY <3>1, <3>2
  <2>3. ASSUME NEW s \in SUBSET T, s # {} PROVE At(s \ {Picked(s)}) = h[s \ {Picked(s)}]
        BY <2>2, <2>3, PickedIn
  <2>4. h = [s \in SUBSET T |-> IF s = {} THEN 0
                                ELSE f[Picked(s)] + h[s \ {Picked(s)}]]
    <3> HIDE DEF At
    <3> QED
        BY <2>3
  <2>5. IsSum(h, f, T)
    <3> HIDE DEF h
    <3> QED
        BY <2>4 DEF IsSum
  <2> QED
      BY <2>5
<1>2. \A T \in SUBSET S : T \in G
  <2> HIDE DEF G
  <2> QED
      BY <1>1, SubsetInduction
<1> QED
    BY <1>2

(* So the fold satisfies its recursion.                                     *)
LEMMA SumEquation ==
    ASSUME NEW f, NEW S, IsFiniteSet(S)
    PROVE  /\ SumOver(f, {}) = 0
           /\ S # {} => SumOver(f, S) = f[Picked(S)] + SumOver(f, S \ {Picked(S)})
<1>1. ASSUME NEW T \in SUBSET S
      PROVE  \E g : IsSum(g, f, T) /\ SumOver(f, T) = g[T]
  <2>1. IsFiniteSet(T)
        BY FS_Subset
  <2>2. SumOver(f, T) = (CHOOSE g : IsSum(g, f, T))[T]
        BY DEF SumOver, MapThenSumSet, MapThenFoldSet, IsSum, Picked
  <2> QED
      BY <2>1, <2>2, SumExists
<1>2. SumOver(f, {}) = 0
      BY <1>1 DEF IsSum
<1>3. ASSUME S # {} PROVE SumOver(f, S) = f[Picked(S)] + SumOver(f, S \ {Picked(S)})
  <2> DEFINE T == S \ {Picked(S)}
  <2>1. PICK g : IsSum(g, f, S) /\ SumOver(f, S) = g[S]
        BY <1>1
  <2>2. PICK h : IsSum(h, f, T) /\ SumOver(f, T) = h[T]
        BY <1>1
  <2>3. g[T] = h[T]
        BY <2>1, <2>2, SumUnique
  <2>4. g[S] = f[Picked(S)] + g[T]
        BY <1>3, <2>1 DEF IsSum
  <2> QED
      BY <2>1, <2>2, <2>3, <2>4
<1> QED
    BY <1>2, <1>3

-----------------------------------------------------------------------------
(* A sum of natural numbers is one.                                         *)
LEMMA SumNat ==
    ASSUME NEW f, NEW S, IsFiniteSet(S), \A x \in S : f[x] \in Nat
    PROVE  SumOver(f, S) \in Nat
<1> DEFINE G == {T \in SUBSET S : SumOver(f, T) \in Nat}
<1>1. ASSUME NEW T \in SUBSET S, \A U \in SUBSET T : U # T => U \in G
      PROVE  T \in G
  <2>1. IsFiniteSet(T)
        BY FS_Subset
  <2>2. CASE T = {}
    <3>1. SumOver(f, T) = 0
          BY <2>1, <2>2, SumEquation
    <3> QED
        BY <3>1
  <2>3. CASE T # {}
    <3>1. Picked(T) \in T /\ T \ {Picked(T)} \in SUBSET T /\ T \ {Picked(T)} # T
          BY <2>3, PickedIn
    <3>2. SumOver(f, T) = f[Picked(T)] + SumOver(f, T \ {Picked(T)})
          BY <2>1, <2>3, SumEquation
    <3>3. f[Picked(T)] \in Nat /\ SumOver(f, T \ {Picked(T)}) \in Nat
          BY <1>1, <3>1
    <3>4. SumOver(f, T) \in Nat
          BY <3>2, <3>3
    <3> QED
        BY <3>4
  <2> QED
      BY <2>2, <2>3
<1>2. \A T \in SUBSET S : T \in G
  <2> HIDE DEF G
  <2> QED
      BY <1>1, SubsetInduction
<1> QED
    BY <1>2

(* Any element can be taken out first.                                      *)
LEMMA SumRemove ==
    ASSUME NEW f, NEW S, IsFiniteSet(S), \A x \in S : f[x] \in Nat, NEW a \in S
    PROVE  SumOver(f, S) = f[a] + SumOver(f, S \ {a})
<1> DEFINE G == {T \in SUBSET S : \A x \in T : SumOver(f, T) = f[x] + SumOver(f, T \ {x})}
<1>0. ASSUME NEW T \in SUBSET S PROVE IsFiniteSet(T) /\ SumOver(f, T) \in Nat
      BY FS_Subset, SumNat
<1>1. ASSUME NEW T \in SUBSET S, \A U \in SUBSET T : U # T => U \in G
      PROVE  T \in G
  <2> SUFFICES ASSUME NEW x \in T PROVE SumOver(f, T) = f[x] + SumOver(f, T \ {x})
      OBVIOUS
  <2> DEFINE y == Picked(T)
  <2>1. y \in T /\ SumOver(f, T) = f[y] + SumOver(f, T \ {y})
        BY <1>0, PickedIn, SumEquation
  <2> HIDE DEF y
  <2>2. CASE x # y
    <3>1. T \ {y} \in G /\ T \ {x} \in G
          BY <1>1, <2>1
    <3>2. SumOver(f, T \ {y}) = f[x] + SumOver(f, (T \ {y}) \ {x})
          BY <2>2, <3>1
    <3>3. SumOver(f, T \ {x}) = f[y] + SumOver(f, (T \ {x}) \ {y})
          BY <2>1, <2>2, <3>1
    <3>4. (T \ {x}) \ {y} = (T \ {y}) \ {x}
          OBVIOUS
    <3>5. SumOver(f, (T \ {y}) \ {x}) \in Nat /\ f[x] \in Nat /\ f[y] \in Nat
          BY <1>0, <2>1
    <3> HIDE DEF G
    <3> QED
        BY <2>1, <3>2, <3>3, <3>4, <3>5
  <2> QED
      BY <2>1, <2>2
<1>2. \A T \in SUBSET S : T \in G
  <2> HIDE DEF G
  <2> QED
      BY <1>1, SubsetInduction
<1> QED
    BY <1>2

(* The sum over two disjoint sets.                                          *)
LEMMA SumUnion ==
    ASSUME NEW f, NEW S, IsFiniteSet(S), NEW T, IsFiniteSet(T), S \cap T = {},
           \A x \in S \cup T : f[x] \in Nat
    PROVE  SumOver(f, S \cup T) = SumOver(f, S) + SumOver(f, T)
<1> DEFINE G == {U \in SUBSET S : SumOver(f, U \cup T) = SumOver(f, U) + SumOver(f, T)}
<1>0. ASSUME NEW U \in SUBSET S
      PROVE  /\ IsFiniteSet(U) /\ IsFiniteSet(U \cup T)
             /\ SumOver(f, U) \in Nat /\ SumOver(f, U \cup T) \in Nat /\ SumOver(f, T) \in Nat
  <2>1. IsFiniteSet(U) /\ IsFiniteSet(U \cup T)
        BY FS_Subset, FS_Union
  <2> QED
      BY <2>1, SumNat
<1>1. ASSUME NEW U \in SUBSET S, \A V \in SUBSET U : V # U => V \in G
      PROVE  U \in G
  <2>1. CASE U = {}
    <3>1. U \cup T = T /\ SumOver(f, U) = 0
          BY <1>0, <2>1, SumEquation
    <3> QED
        BY <1>0, <2>1, <3>1
  <2>2. CASE U # {}
    <3>1. PICK x \in U : TRUE
          BY <2>2
    <3> DEFINE V == U \ {x}
    <3>2. V \in G
          BY <1>1, <3>1
    <3>3. SumOver(f, U) = f[x] + SumOver(f, V)
          BY <1>0, <3>1, SumRemove
    <3>4. (U \cup T) \ {x} = V \cup T
          BY <3>1
    <3>5. SumOver(f, U \cup T) = f[x] + SumOver(f, V \cup T)
      <4>1. x \in U \cup T /\ \A z \in U \cup T : f[z] \in Nat
            BY <3>1
      <4> QED
          BY <1>0, <3>4, <4>1, SumRemove
    <3>6. SumOver(f, V \cup T) = SumOver(f, V) + SumOver(f, T)
          BY <3>2
    <3>7. f[x] \in Nat /\ SumOver(f, V) \in Nat /\ SumOver(f, T) \in Nat
          BY <1>0, <3>1
    <3> HIDE DEF V
    <3> QED
        BY <3>3, <3>5, <3>6, <3>7
  <2> QED
      BY <2>1, <2>2
<1>2. \A U \in SUBSET S : U \in G
  <2> HIDE DEF G
  <2> QED
      BY <1>1, SubsetInduction
<1> QED
    BY <1>2

(* The sum over a part is at most the sum over the whole.                   *)
LEMMA SumMonotone ==
    ASSUME NEW f, NEW S, IsFiniteSet(S), NEW T \in SUBSET S, \A x \in S : f[x] \in Nat
    PROVE  SumOver(f, T) <= SumOver(f, S)
<1>1. IsFiniteSet(T) /\ IsFiniteSet(S \ T) /\ T \cap (S \ T) = {} /\ S = T \cup (S \ T)
      BY FS_Subset
<1>2. SumOver(f, S) = SumOver(f, T) + SumOver(f, S \ T)
      BY <1>1, SumUnion
<1>3. SumOver(f, T) \in Nat /\ SumOver(f, S \ T) \in Nat
      BY <1>1, SumNat
<1> QED
    BY <1>2, <1>3

(* The sum over the image of a set under a function that is one-to-one on   *)
(* it; and, for the identity, the sum for another weight with the same      *)
(* values.                                                                  *)
LEMMA SumImage ==
    ASSUME NEW f, NEW g, NEW S, IsFiniteSet(S), NEW h,
           \A x \in S : f[x] \in Nat /\ g[h[x]] = f[x],
           \A x, y \in S : h[x] = h[y] => x = y
    PROVE  SumOver(g, {h[x] : x \in S}) = SumOver(f, S)
<1> DEFINE Im(U) == {h[x] : x \in U}
           G == {U \in SUBSET S : IsFiniteSet(Im(U)) /\ SumOver(g, Im(U)) = SumOver(f, U)}
<1>1. ASSUME NEW U \in SUBSET S, \A V \in SUBSET U : V # U => V \in G
      PROVE  U \in G
  <2>0. IsFiniteSet(U)
        BY FS_Subset
  <2>1. CASE U = {}
    <3>1. Im(U) = {}
          BY <2>1
    <3> QED
        BY <2>0, <2>1, <3>1, SumEquation, FS_EmptySet
  <2>2. CASE U # {}
    <3>1. PICK x \in U : TRUE
          BY <2>2
    <3> DEFINE V == U \ {x}
    <3>2. IsFiniteSet(Im(V)) /\ SumOver(g, Im(V)) = SumOver(f, V)
          BY <1>1, <3>1
    <3>3. Im(U) = Im(V) \cup {h[x]}
          BY <3>1
    <3>4. h[x] \in Im(U) /\ Im(U) \ {h[x]} = Im(V)
          BY <3>1
    <3>5. IsFiniteSet(Im(U))
      <4>1. IsFiniteSet({h[x]})
            BY FS_Singleton
      <4>2. ASSUME NEW A, IsFiniteSet(A) PROVE IsFiniteSet(A \cup {h[x]})
            BY <4>1, <4>2, FS_Union
      <4>3. IsFiniteSet(Im(V) \cup {h[x]})
            BY <3>2, <4>2
      <4> QED
          BY <3>3, <4>3
    <3>6. \A y \in Im(U) : g[y] \in Nat
          OBVIOUS
    <3>7. SumOver(f, U) = f[x] + SumOver(f, V)
          BY <2>0, <3>1, SumRemove
    <3>8. SumOver(g, Im(U)) = g[h[x]] + SumOver(g, Im(V))
      <4> HIDE DEF Im
      <4> QED
          BY <3>4, <3>5, <3>6, SumRemove
    <3>9. g[h[x]] = f[x]
          BY <3>1
    <3> QED
        BY <3>2, <3>5, <3>7, <3>8, <3>9
  <2> QED
      BY <2>1, <2>2
<1>2. \A U \in SUBSET S : U \in G
  <2> HIDE DEF G
  <2> QED
      BY <1>1, SubsetInduction
<1> QED
    BY <1>2

-----------------------------------------------------------------------------
(* Induction over the natural numbers, with a set in place of a predicate.  *)
LEMMA NatSet ==
    ASSUME NEW G, 0 \in G, \A i \in Nat : i \in G => i + 1 \in G
    PROVE  \A i \in Nat : i \in G
<1> DEFINE Bad == Nat \ G
<1>1. CASE Bad # {}
  <2>1. \E i \in Bad : \A j \in Bad : ~(<<j, i>> \in OpToRel(<, Nat))
    <3>1. Bad \subseteq Nat
          OBVIOUS
    <3> HIDE DEF Bad
    <3> QED
        BY <1>1, <3>1, NatLessThanWellFounded, WFMin
  <2>2. PICK i \in Bad : \A j \in Bad : ~(<<j, i>> \in OpToRel(<, Nat))
        BY <2>1
  <2>3. i \in Nat /\ i \notin G /\ i # 0
        OBVIOUS
  <2>4. i - 1 \in Nat /\ i - 1 < i /\ (i - 1) + 1 = i
        BY <2>3
  <2>5. i - 1 \in Bad
        BY <2>3, <2>4
  <2>6. <<i - 1, i>> \in OpToRel(<, Nat)
        BY <2>3, <2>4 DEF OpToRel
  <2> QED
      BY <2>2, <2>5, <2>6
<1> QED
    BY <1>1

-----------------------------------------------------------------------------
(* Finite sets in a strict total order *)

(* The order is a set of pairs.                                             *)
StrictOrder(R, S) ==
    /\ \A s \in S : <<s, s>> \notin R
    /\ \A s, t \in S : s # t => <<s, t>> \in R \/ <<t, s>> \in R
    /\ \A r, s, t \in S : <<r, s>> \in R /\ <<s, t>> \in R => <<r, t>> \in R

Below(R, S, t) == {s \in S : <<s, t>> \in R}
Rank(R, S, t) == Cardinality(Below(R, S, t))

(* Ranks grow along the order.                                              *)
LEMMA RankGrows ==
    ASSUME NEW R, NEW S, IsFiniteSet(S), StrictOrder(R, S)
    PROVE  /\ \A t \in S : Rank(R, S, t) \in 0..(Cardinality(S) - 1)
           /\ \A s, t \in S : <<s, t>> \in R => Rank(R, S, s) < Rank(R, S, t)
<1>0. \A t \in S : IsFiniteSet(Below(R, S, t)) /\ Rank(R, S, t) \in Nat
  <2>1. \A t \in S : Below(R, S, t) \in SUBSET S
        BY DEF Below
  <2> QED
      BY <2>1, FS_Subset, FS_CardinalityType DEF Rank
<1>1. ASSUME NEW A, IsFiniteSet(A), NEW B \in SUBSET A, NEW x \in A, x \notin B
      PROVE  Cardinality(B) < Cardinality(A)
  <2>1. IsFiniteSet(B) /\ Cardinality(B) <= Cardinality(A) /\ Cardinality(B) # Cardinality(A)
        BY <1>1, FS_Subset
  <2> QED
      BY <1>1, <2>1, FS_CardinalityType
<1>2. ASSUME NEW t \in S PROVE Rank(R, S, t) \in 0..(Cardinality(S) - 1)
  <2>1. Below(R, S, t) \in SUBSET S /\ t \notin Below(R, S, t)
        BY DEF Below, StrictOrder
  <2>2. Cardinality(Below(R, S, t)) < Cardinality(S)
        BY <1>1, <2>1
  <2> QED
      BY <1>0, <2>2, FS_CardinalityType DEF Rank
<1>3. ASSUME NEW s \in S, NEW t \in S, <<s, t>> \in R
      PROVE  Rank(R, S, s) < Rank(R, S, t)
  <2>1. /\ Below(R, S, s) \in SUBSET Below(R, S, t)
        /\ s \in Below(R, S, t) /\ s \notin Below(R, S, s)
        BY <1>3 DEF Below, StrictOrder
  <2> QED
      BY <1>0, <1>1, <2>1 DEF Rank
<1> QED
    BY <1>2, <1>3

(* Each position is the rank of exactly one element.                        *)
LEMMA RankOnto ==
    ASSUME NEW R, NEW S, IsFiniteSet(S), StrictOrder(R, S)
    PROVE  /\ \A s, t \in S : Rank(R, S, s) = Rank(R, S, t) => s = t
           /\ \A i \in 0..(Cardinality(S) - 1) : \E t \in S : Rank(R, S, t) = i
<1> DEFINE n == Cardinality(S)
           rank == [t \in S |-> Rank(R, S, t)]
<1>0. n \in Nat
      BY FS_CardinalityType
<1>1. ASSUME NEW s \in S, NEW t \in S, Rank(R, S, s) = Rank(R, S, t) PROVE s = t
  <2>1. s # t => <<s, t>> \in R \/ <<t, s>> \in R
        BY DEF StrictOrder
  <2>2. Rank(R, S, s) \in Int
        BY <1>0, RankGrows
  <2> QED
      BY <1>1, <2>1, <2>2, RankGrows
<1>2. rank \in Injection(S, 0..(n - 1))
  <2>1. rank \in [S -> 0..(n - 1)]
        BY RankGrows
  <2>2. \A s, t \in S : rank[s] = rank[t] => s = t
        BY <1>1
  <2> HIDE DEF rank
  <2> QED
      BY <2>1, <2>2 DEF Injection, IsInjective
<1>3. IsFiniteSet(0..(n - 1)) /\ Cardinality(0..(n - 1)) = n
      BY <1>0, FS_Interval
<1>4. rank \in Surjection(S, 0..(n - 1))
  <2> HIDE DEF rank
  <2>1. Cardinality(S) = Cardinality(0..(n - 1))
        BY <1>3
  <2> HIDE DEF n
  <2> QED
      BY <1>2, <1>3, <2>1, FS_Injection
<1>5. \A i \in 0..(n - 1) : \E t \in S : rank[t] = i
  <2> HIDE DEF rank
  <2> QED
      BY <1>4 DEF Surjection
<1> QED
    BY <1>1, <1>5
=============================================================================
