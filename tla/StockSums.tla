----------------------------- MODULE StockSums -----------------------------
(***************************************************************************)
(* Lemmas about SumFunctionOnSet, the sum of a function over a finite set, *)
(* which the community modules define by a fold: it may be taken apart at  *)
(* any element.  Induction over the naturals is a set that holds 0 and is  *)
(* closed under successor, from the well-foundedness of < on Nat.          *)
(***************************************************************************)
EXTENDS Integers, FiniteSets, Functions, WellFoundedInduction, FiniteSetTheorems, TLAPS

(* A set of naturals that is not empty has a least element. *)
LEMMA LeastNat ==
    ASSUME NEW S \in SUBSET Nat, S # {}
    PROVE  \E n \in S : \A m \in S : n <= m
<1> DEFINE R == {ss \in Nat \X Nat : ss[1] < ss[2]}
<1>1. IsWellFoundedOn(R, Nat)
  BY NatLessThanWellFounded DEF OpToRel
<1>2. \A m, n \in Nat : ~ (<<m, n>> \in R) => n <= m
  OBVIOUS
<1> HIDE DEF R
<1>3. \E n \in S : \A m \in S : ~ (<<m, n>> \in R)
  BY <1>1, WFMin
<1> QED
  BY <1>2, <1>3

(* What holds of 0 and of n + 1 whenever it holds of n, holds of all. *)
LEMMA Induction ==
    ASSUME NEW S, 0 \in S, \A n \in Nat : n \in S => n + 1 \in S
    PROVE  \A n \in Nat : n \in S
<1> SUFFICES ASSUME Nat \ S # {} PROVE FALSE
  OBVIOUS
<1>1. PICK n \in Nat \ S : \A m \in Nat \ S : n <= m
  BY LeastNat
<1>2. n # 0 /\ n - 1 \in Nat /\ n - 1 \notin Nat \ S
  BY <1>1
<1> QED
  BY <1>1, <1>2

-----------------------------------------------------------------------------
(* The fold behind SumFunctionOnSet takes out one chosen element at a time: *)
(* IsSum is the equation that its recursive function solves on D.           *)
Chosen(s) == CHOOSE x \in s : TRUE

Rest(s) == s \ {Chosen(s)}

IsSum(g, f, D) == g = [s \in D |-> IF s = {} THEN 0 ELSE f[Chosen(s)] + g[Rest(s)]]

(* The definitions of the community modules, put together. *)
LEMMA SumIsChosen ==
    ASSUME NEW f, NEW S
    PROVE  SumFunctionOnSet(f, S) = (CHOOSE g : IsSum(g, f, SUBSET S))[S]
BY DEF SumFunctionOnSet, FoldFunctionOnSet, MapThenFoldSet, IsSum, Chosen, Rest

Small(S, n) == {s \in SUBSET S : Cardinality(s) <= n}

(* One element fewer. *)
LEMMA RestIsSmaller ==
    ASSUME NEW s, IsFiniteSet(s), s # {}
    PROVE  /\ Chosen(s) \in s
           /\ IsFiniteSet(Rest(s))
           /\ Rest(s) \subseteq s
           /\ Cardinality(Rest(s)) \in Nat
           /\ Cardinality(s) = Cardinality(Rest(s)) + 1
<1>1. Chosen(s) \in s
  BY DEF Chosen
<1> HIDE DEF Chosen
<1> QED
  BY <1>1, FS_RemoveElement, FS_CardinalityType DEF Rest

(* The equation has a solution on the subsets of a finite set: one for the *)
(* subsets of n elements gives one for those of n + 1.                      *)
LEMMA SumExists ==
    ASSUME NEW f, NEW S, IsFiniteSet(S)
    PROVE  \E g : IsSum(g, f, SUBSET S)
<1> DEFINE Good == {n \in Nat : \E g : IsSum(g, f, Small(S, n))}
<1>0. \A s \in SUBSET S : IsFiniteSet(s) /\ Cardinality(s) \in Nat
  BY FS_Subset, FS_CardinalityType
<1>1. 0 \in Good
  <2>1. Small(S, 0) = {{}}
    BY <1>0, FS_EmptySet DEF Small
  <2>2. IsSum([s \in {{}} |-> 0], f, {{}})
    BY DEF IsSum
  <2> QED
    BY <2>1, <2>2
<1>2. ASSUME NEW n \in Nat, n \in Good PROVE n + 1 \in Good
  <2>1. PICK g : IsSum(g, f, Small(S, n))
    BY <1>2
  <2> DEFINE h == [s \in Small(S, n + 1) |->
                      IF s = {} THEN 0 ELSE f[Chosen(s)] + g[Rest(s)]]
  <2>2. Small(S, n) \subseteq Small(S, n + 1)
    BY <1>0 DEF Small
  <2>3. ASSUME NEW s \in Small(S, n + 1), s # {} PROVE Rest(s) \in Small(S, n)
    BY <1>0, <2>3, RestIsSmaller DEF Small
  <2>4. \A s \in Small(S, n) : h[s] = g[s]
    BY <2>1, <2>2 DEF IsSum
  <2>5. IsSum(h, f, Small(S, n + 1))
    BY <2>3, <2>4 DEF IsSum
  <2> HIDE DEF h
  <2> QED
    BY <2>5
<1> HIDE DEF Good
<1>3. Cardinality(S) \in Good
  BY <1>0, <1>1, <1>2, Induction
<1>4. Small(S, Cardinality(S)) = SUBSET S
  BY FS_Subset DEF Small
<1> QED
  BY <1>3, <1>4 DEF Good

(* Two sums of one function agree on what they both sum. *)
LEMMA SumUnique ==
    ASSUME NEW f, NEW S, IsFiniteSet(S), NEW T \in SUBSET S, NEW g, NEW h,
           IsSum(g, f, SUBSET S), IsSum(h, f, SUBSET T)
    PROVE  \A s \in SUBSET T : g[s] = h[s]
<1> DEFINE Good == {n \in Nat : \A s \in SUBSET T : Cardinality(s) = n => g[s] = h[s]}
<1>0. \A s \in SUBSET T : IsFiniteSet(s) /\ Cardinality(s) \in Nat /\ s \in SUBSET S
  BY FS_Subset, FS_CardinalityType
<1>1. 0 \in Good
  BY <1>0, FS_EmptySet DEF IsSum
<1>2. ASSUME NEW n \in Nat, n \in Good PROVE n + 1 \in Good
  <2> SUFFICES ASSUME NEW s \in SUBSET T, Cardinality(s) = n + 1 PROVE g[s] = h[s]
    OBVIOUS
  <2>1. s # {}
    BY <1>0, FS_EmptySet
  <2>2. Rest(s) \in SUBSET T /\ Cardinality(Rest(s)) = n
    BY <1>0, <2>1, RestIsSmaller
  <2>3. g[Rest(s)] = h[Rest(s)]
    BY <1>2, <2>2
  <2> QED
    BY <1>0, <2>1, <2>3 DEF IsSum
<1> HIDE DEF Good
<1>3. \A n \in Nat : n \in Good
  BY <1>1, <1>2, Induction
<1> QED
  BY <1>0, <1>3 DEF Good

(* So the sum unfolds by its chosen element. *)
LEMMA SumStep ==
    ASSUME NEW f, NEW S, IsFiniteSet(S)
    PROVE  /\ SumFunctionOnSet(f, {}) = 0
           /\ S # {} => SumFunctionOnSet(f, S)
                          = f[Chosen(S)] + SumFunctionOnSet(f, Rest(S))
<1> DEFINE G(T) == CHOOSE g : IsSum(g, f, SUBSET T)
<1>1. ASSUME NEW T, IsFiniteSet(T) PROVE IsSum(G(T), f, SUBSET T)
  BY <1>1, SumExists
<1>2. \A T : SumFunctionOnSet(f, T) = G(T)[T]
  BY SumIsChosen
<1> HIDE DEF G
<1>3. SumFunctionOnSet(f, {}) = 0
  BY <1>1, <1>2, FS_EmptySet DEF IsSum
<1>4. ASSUME S # {}
      PROVE  SumFunctionOnSet(f, S) = f[Chosen(S)] + SumFunctionOnSet(f, Rest(S))
  <2>1. IsFiniteSet(Rest(S)) /\ Rest(S) \in SUBSET S
    BY <1>4, RestIsSmaller
  <2>2. G(S)[Rest(S)] = G(Rest(S))[Rest(S)]
    <3> DEFINE T == Rest(S)
    <3> DEFINE g == G(S)
    <3> DEFINE h == G(T)
    <3>1. T \in SUBSET S /\ T \in SUBSET T
      BY <2>1
    <3>2. IsSum(g, f, SUBSET S) /\ IsSum(h, f, SUBSET T)
      BY <1>1, <2>1
    <3> HIDE DEF T, g, h
    <3>3. \A s \in SUBSET T : g[s] = h[s]
      BY <3>1, <3>2, SumUnique
    <3>4. g[T] = h[T]
      BY <3>1, <3>3
    <3> QED
      BY <3>4 DEF T, g, h
  <2>3. G(S)[S] = f[Chosen(S)] + G(S)[Rest(S)]
    BY <1>1, <1>4 DEF IsSum
  <2> QED
    BY <1>2, <2>2, <2>3
<1> QED
  BY <1>3, <1>4

(* A sum of integers is an integer. *)
LEMMA SumType ==
    ASSUME NEW S, IsFiniteSet(S), NEW f, \A x \in S : f[x] \in Int
    PROVE  SumFunctionOnSet(f, S) \in Int
<1> DEFINE Good == {n \in Nat : \A T \in SUBSET S :
                        Cardinality(T) = n => SumFunctionOnSet(f, T) \in Int}
<1>0. \A T \in SUBSET S : IsFiniteSet(T) /\ Cardinality(T) \in Nat
  BY FS_Subset, FS_CardinalityType
<1>1. 0 \in Good
  BY <1>0, FS_EmptySet, SumStep
<1>2. ASSUME NEW n \in Nat, n \in Good PROVE n + 1 \in Good
  <2> SUFFICES ASSUME NEW T \in SUBSET S, Cardinality(T) = n + 1
               PROVE  SumFunctionOnSet(f, T) \in Int
    OBVIOUS
  <2>1. T # {} /\ IsFiniteSet(T)
    BY <1>0, FS_EmptySet
  <2>2. Rest(T) \in SUBSET S /\ Cardinality(Rest(T)) = n /\ Chosen(T) \in S
    BY <1>0, <2>1, RestIsSmaller
  <2>3. SumFunctionOnSet(f, Rest(T)) \in Int /\ f[Chosen(T)] \in Int
    BY <1>2, <2>2
  <2> QED
    BY <2>1, <2>3, SumStep
<1> HIDE DEF Good
<1>3. Cardinality(S) \in Good
  BY <1>0, <1>1, <1>2, Induction
<1> QED
  BY <1>3 DEF Good

(* The order of summation does not matter. *)
LEMMA SumRemove ==
    ASSUME NEW S, IsFiniteSet(S), NEW f, \A x \in S : f[x] \in Int, NEW x \in S
    PROVE  SumFunctionOnSet(f, S) = f[x] + SumFunctionOnSet(f, S \ {x})
<1> DEFINE Sum(T) == SumFunctionOnSet(f, T)
<1> DEFINE Good == {n \in Nat : \A T \in SUBSET S : Cardinality(T) = n =>
                        \A y \in T : Sum(T) = f[y] + Sum(T \ {y})}
<1>0. \A T \in SUBSET S : IsFiniteSet(T) /\ Cardinality(T) \in Nat /\ Sum(T) \in Int
  BY FS_Subset, FS_CardinalityType, SumType
<1>s. \A T \in SUBSET S : T # {} => Sum(T) = f[Chosen(T)] + Sum(Rest(T))
  BY <1>0, SumStep
<1> HIDE DEF Sum
<1>1. 0 \in Good
  BY <1>0, FS_EmptySet
<1>2. ASSUME NEW n \in Nat, n \in Good PROVE n + 1 \in Good
  <2> SUFFICES ASSUME NEW T \in SUBSET S, Cardinality(T) = n + 1, NEW y \in T
               PROVE  Sum(T) = f[y] + Sum(T \ {y})
    OBVIOUS
  <2>1. /\ Chosen(T) \in T /\ Rest(T) \in SUBSET S
        /\ Cardinality(Rest(T)) = n
    BY <1>0, RestIsSmaller
  <2>2. CASE y = Chosen(T)
    BY <1>s, <2>2 DEF Rest
  <2>3. CASE y # Chosen(T)
    <3> DEFINE U == Rest(T) \ {y}
    <3>1. y \in Rest(T)
      BY <2>3 DEF Rest
    <3>2. Sum(Rest(T)) = f[y] + Sum(U)
      BY <1>2, <2>1, <3>1
    <3>3. Cardinality(T \ {y}) = n /\ T \ {y} \in SUBSET S
      BY <1>0, FS_RemoveElement
    <3>4. Chosen(T) \in T \ {y} /\ (T \ {y}) \ {Chosen(T)} = U
      BY <2>1, <2>3 DEF Rest
    <3>5. Sum(T \ {y}) = f[Chosen(T)] + Sum(U)
      BY <1>2, <3>3, <3>4
    <3>6. Sum(T) = f[Chosen(T)] + Sum(Rest(T))
      BY <1>s
    <3>7. f[y] \in Int /\ f[Chosen(T)] \in Int /\ Sum(U) \in Int
      BY <1>0, <2>1
    <3> QED
      BY <3>2, <3>5, <3>6, <3>7
  <2> QED
    BY <2>2, <2>3
<1> HIDE DEF Good
<1>3. Cardinality(S) \in Good
  BY <1>0, <1>1, <1>2, Induction
<1> QED
  BY <1>3 DEF Good, Sum

(* Sums are pointwise. *)
LEMMA SumSame ==
    ASSUME NEW S, IsFiniteSet(S), NEW f, NEW g, \A x \in S : f[x] = g[x]
    PROVE  SumFunctionOnSet(f, S) = SumFunctionOnSet(g, S)
<1> DEFINE Good == {n \in Nat : \A T \in SUBSET S : Cardinality(T) = n =>
                        SumFunctionOnSet(f, T) = SumFunctionOnSet(g, T)}
<1>0. \A T \in SUBSET S : IsFiniteSet(T) /\ Cardinality(T) \in Nat
  BY FS_Subset, FS_CardinalityType
<1>1. 0 \in Good
  BY <1>0, FS_EmptySet, SumStep
<1>2. ASSUME NEW n \in Nat, n \in Good PROVE n + 1 \in Good
  <2> SUFFICES ASSUME NEW T \in SUBSET S, Cardinality(T) = n + 1
               PROVE  SumFunctionOnSet(f, T) = SumFunctionOnSet(g, T)
    OBVIOUS
  <2>1. T # {} /\ IsFiniteSet(T)
    BY <1>0, FS_EmptySet
  <2>2. Rest(T) \in SUBSET S /\ Cardinality(Rest(T)) = n /\ Chosen(T) \in S
    BY <1>0, <2>1, RestIsSmaller
  <2>3. /\ SumFunctionOnSet(f, Rest(T)) = SumFunctionOnSet(g, Rest(T))
        /\ f[Chosen(T)] = g[Chosen(T)]
    BY <1>2, <2>2
  <2> QED
    BY <2>1, <2>3, SumStep
<1> HIDE DEF Good
<1>3. Cardinality(S) \in Good
  BY <1>0, <1>1, <1>2, Induction
<1> QED
  BY <1>3 DEF Good
=============================================================================
