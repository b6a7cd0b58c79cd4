------------------------------ MODULE FiniteSums ------------------------------
(***************************************************************************)
(* Lemmas about sums over finite sets, for proofs about operators that are *)
(* written with MapThenSumSet. That one is a recursive function over the   *)
(* subsets of the set; Sums(S, f, g) is its equation, and Total(S, f) what *)
(* it computes. There is such a function, there is only one, and what the  *)
(* sums of integers obey follows by a smallest counterexample.             *)
(***************************************************************************)
EXTENDS Integers, FiniteSets, FiniteSetTheorems, WellFoundedInduction, TLAPS

-----------------------------------------------------------------------------
(* The sum and its equation.                                               *)

\* A set of numbers that is not empty has a least one.
LEMMA LeastNumber ==
  ASSUME NEW A, A \subseteq Nat, A # {} PROVE \E m \in A : \A k \in A : m <= k
<1> DEFINE R == OpToRel(<, Nat)
<1>1. IsWellFoundedOn(R, Nat)
  BY NatLessThanWellFounded
<1>2. \A x, y \in Nat : x < y => <<x, y>> \in R
  BY DEF OpToRel
<1> HIDE DEF R
<1>3. PICK m \in A : \A k \in A : ~(<<k, m>> \in R)
  BY <1>1, WFMin
<1>4. ASSUME NEW k \in A PROVE m <= k
  <2>1. m \in Nat /\ k \in Nat
    OBVIOUS
  <2>2. ~(k < m)
    BY <1>2, <1>3, <2>1
  <2> QED
    BY <2>1, <2>2
<1> QED
  BY <1>4

\* What MapThenSumSet computes, as an equation: g[s] is the sum of f over s.
One(s) == CHOOSE x \in s : TRUE
Sums(S, f, g) ==
  g = [s \in SUBSET S |-> IF s = {} THEN 0 ELSE f[One(s)] + g[s \ {One(s)}]]

\* Taking one element leaves a smaller set.
LEMMA OneOf ==
  ASSUME NEW S, IsFiniteSet(S), NEW s \in SUBSET S, s # {}
  PROVE  /\ One(s) \in s /\ One(s) \in S /\ s \ {One(s)} \in SUBSET S
         /\ Cardinality(s) \in Nat
         /\ Cardinality(s \ {One(s)}) = Cardinality(s) - 1
<1>1. One(s) \in s
  BY DEF One
<1>2. IsFiniteSet(s) /\ Cardinality(s) \in Nat
  BY FS_Subset, FS_CardinalityType
<1>3. Cardinality(s \ {One(s)}) = Cardinality(s) - 1
  BY <1>1, <1>2, FS_RemoveElement
<1> QED
  BY <1>1, <1>2, <1>3

\* The sums of integers are integers, for any function that sums.
LEMMA SumsAreIntegers ==
  ASSUME NEW S, IsFiniteSet(S), NEW f, \A x \in S : f[x] \in Int, NEW g, Sums(S, f, g)
  PROVE  \A s \in SUBSET S : g[s] \in Int
<1> DEFINE A == {Cardinality(s) : s \in {t \in SUBSET S : g[t] \notin Int}}
<1>1. SUFFICES ASSUME A # {} PROVE FALSE
  OBVIOUS
<1>2. \A s \in SUBSET S : Cardinality(s) \in Nat
  BY FS_Subset, FS_CardinalityType
<1>3. PICK m \in A : \A k \in A : m <= k
  <2>1. A \subseteq Nat
    BY <1>2
  <2> HIDE DEF A
  <2> QED
    BY <1>1, <2>1, LeastNumber
<1>4. PICK s \in SUBSET S : g[s] \notin Int /\ m = Cardinality(s)
  BY <1>3
<1>5. g[s] = IF s = {} THEN 0 ELSE f[One(s)] + g[s \ {One(s)}]
  BY DEF Sums
<1>6. s # {}
  BY <1>4, <1>5
<1>7. /\ One(s) \in S /\ s \ {One(s)} \in SUBSET S
      /\ m \in Nat /\ Cardinality(s \ {One(s)}) = m - 1
  BY <1>4, <1>6, OneOf
<1>8. g[s \ {One(s)}] \in Int
  <2>1. ~(m <= m - 1)
    BY <1>7
  <2> QED
    BY <1>3, <1>7, <2>1
<1> QED
  BY <1>4, <1>5, <1>6, <1>7, <1>8

\* There is such a function, by the least size up to which there would be none.
LEMMA SumsExist ==
  ASSUME NEW S, IsFiniteSet(S), NEW f
  PROVE  \E g : Sums(S, f, g)
<1> DEFINE Small(n) == {s \in SUBSET S : Cardinality(s) <= n}
           Fits(g, n) == \A s \in Small(n) :
                           g[s] = IF s = {} THEN 0 ELSE f[One(s)] + g[s \ {One(s)}]
           A == {n \in Nat : ~\E g : Fits(g, n)}
<1>1. \A s \in SUBSET S : Cardinality(s) \in Nat /\ (Cardinality(s) = 0 <=> s = {})
  BY FS_Subset, FS_CardinalityType, FS_EmptySet
<1>2. ASSUME A # {} PROVE FALSE
  <2>1. PICK m \in A : \A k \in A : m <= k
    <3>1. A \subseteq Nat
      OBVIOUS
    <3> HIDE DEF A
    <3> QED
      BY <1>2, <3>1, LeastNumber
  <2>2. m \in Nat /\ ~\E g : Fits(g, m)
    BY <2>1
  <2>3. m # 0
    <3>1. SUFFICES ASSUME m = 0 PROVE FALSE
      OBVIOUS
    <3> DEFINE h == [s \in SUBSET S |-> 0]
    <3>2. \A s \in Small(0) : s = {}
      BY <1>1
    <3>3. Fits(h, 0)
      BY <3>2
    <3> QED
      BY <2>2, <3>1, <3>3
  <2>4. PICK g : Fits(g, m - 1)
    <3>1. m - 1 \in Nat /\ ~(m <= m - 1)
      BY <2>2, <2>3
    <3>2. m - 1 \notin A
      BY <2>1, <3>1
    <3> HIDE DEF Fits
    <3> QED
      BY <3>1, <3>2
  <2> DEFINE h == [s \in SUBSET S |-> IF Cardinality(s) < m THEN g[s]
                                      ELSE f[One(s)] + g[s \ {One(s)}]]
  <2>5. ASSUME NEW s \in Small(m)
        PROVE  h[s] = IF s = {} THEN 0 ELSE f[One(s)] + h[s \ {One(s)}]
    <3>1. s \in SUBSET S /\ Cardinality(s) \in Nat /\ Cardinality(s) <= m
      BY <1>1
    <3>2. CASE s = {}
      <4>1. Cardinality(s) < m /\ s \in Small(m - 1)
        BY <1>1, <2>2, <2>3, <3>1, <3>2
      <4>2. h[s] = g[s]
        BY <3>1, <4>1
      <4> HIDE DEF h, Small
      <4> QED
        BY <2>4, <3>2, <4>1, <4>2
    <3>3. CASE s # {}
      <4> DEFINE r == s \ {One(s)}
      <4>1. r \in SUBSET S /\ Cardinality(r) = Cardinality(s) - 1
        BY <3>1, <3>3, OneOf
      <4>2. Cardinality(r) < m
        BY <2>2, <3>1, <4>1
      <4> HIDE DEF r
      <4>3. h[r] = g[r]
        BY <4>1, <4>2
      <4>4. h[s] = f[One(s)] + g[r]
        <5>1. CASE Cardinality(s) < m
          <6>1. s \in Small(m - 1)
            BY <2>2, <3>1, <5>1
          <6>2. g[s] = f[One(s)] + g[r]
            BY <2>4, <3>3, <6>1 DEF r
          <6> QED
            BY <3>1, <5>1, <6>2
        <5>2. CASE ~(Cardinality(s) < m)
          BY <3>1, <5>2 DEF r
        <5> QED
          BY <5>1, <5>2
      <4> HIDE DEF h
      <4> QED
        BY <3>3, <4>3, <4>4 DEF r
    <3> QED
      BY <3>2, <3>3
  <2>6. Fits(h, m)
    <3> HIDE DEF h, Small
    <3> QED
      BY <2>5
  <2> HIDE DEF h, Fits
  <2> QED
    BY <2>2, <2>6
<1>3. Cardinality(S) \in Nat
  BY FS_CardinalityType
<1>4. PICK g : Fits(g, Cardinality(S))
  <2> HIDE DEF Fits
  <2> QED
    BY <1>2, <1>3
<1>5. \A s \in SUBSET S : s \in Small(Cardinality(S))
  BY FS_Subset
<1> DEFINE h == [s \in SUBSET S |-> g[s]]
<1>6. ASSUME NEW s \in SUBSET S
      PROVE  h[s] = IF s = {} THEN 0 ELSE f[One(s)] + h[s \ {One(s)}]
  <2> HIDE DEF Small
  <2>1. g[s] = IF s = {} THEN 0 ELSE f[One(s)] + g[s \ {One(s)}]
    BY <1>4, <1>5
  <2>2. h[s] = g[s] /\ h[s \ {One(s)}] = g[s \ {One(s)}]
    OBVIOUS
  <2> HIDE DEF h
  <2> QED
    BY <2>1, <2>2
<1>7. h = [s \in SUBSET S |-> h[s]]
  OBVIOUS
<1>8. Sums(S, f, h)
  <2> HIDE DEF h
  <2> QED
    BY <1>6, <1>7 DEF Sums
<1> QED
  BY <1>8

\* Two functions that sum agree.
LEMMA SumsUnique ==
  ASSUME NEW S, IsFiniteSet(S), NEW f, NEW g, NEW h, Sums(S, f, g), Sums(S, f, h)
  PROVE  \A s \in SUBSET S : g[s] = h[s]
<1> DEFINE A == {Cardinality(s) : s \in {t \in SUBSET S : g[t] # h[t]}}
<1>1. SUFFICES ASSUME A # {} PROVE FALSE
  OBVIOUS
<1>2. \A s \in SUBSET S : Cardinality(s) \in Nat
  BY FS_Subset, FS_CardinalityType
<1>3. PICK m \in A : \A k \in A : m <= k
  <2>1. A \subseteq Nat
    BY <1>2
  <2> HIDE DEF A
  <2> QED
    BY <1>1, <2>1, LeastNumber
<1>4. PICK s \in SUBSET S : g[s] # h[s] /\ m = Cardinality(s)
  BY <1>3
<1>5. /\ g[s] = IF s = {} THEN 0 ELSE f[One(s)] + g[s \ {One(s)}]
      /\ h[s] = IF s = {} THEN 0 ELSE f[One(s)] + h[s \ {One(s)}]
  BY DEF Sums
<1>6. s # {}
  BY <1>4, <1>5
<1>7. s \ {One(s)} \in SUBSET S /\ m \in Nat /\ Cardinality(s \ {One(s)}) = m - 1
  BY <1>4, <1>6, OneOf
<1>8. g[s \ {One(s)}] = h[s \ {One(s)}]
  <2>1. ~(m <= m - 1)
    BY <1>7
  <2> QED
    BY <1>3, <1>7, <2>1
<1> QED
  BY <1>4, <1>5, <1>6, <1>8

\* The sum of f over S.
Total(S, f) == (CHOOSE g : Sums(S, f, g))[S]

\* Total is what any function that sums gives.
LEMMA TotalIs ==
  ASSUME NEW S, IsFiniteSet(S), NEW f, NEW g, Sums(S, f, g)
  PROVE  Total(S, f) = g[S]
<1>1. Sums(S, f, CHOOSE h : Sums(S, f, h))
  OBVIOUS
<1> QED
  BY <1>1, SumsUnique DEF Total

\* A total of integers is an integer, and 0 over nothing.
LEMMA TotalType ==
  ASSUME NEW S, IsFiniteSet(S), NEW f, \A x \in S : f[x] \in Int
  PROVE  Total(S, f) \in Int
<1>1. PICK g : Sums(S, f, g)
  BY SumsExist
<1> QED
  BY <1>1, SumsAreIntegers, TotalIs

LEMMA TotalOfNone ==
  ASSUME NEW f PROVE Total({}, f) = 0
<1>1. IsFiniteSet({})
  BY FS_EmptySet
<1>2. PICK g : Sums({}, f, g)
  BY <1>1, SumsExist
<1>3. g[{}] = 0
  BY <1>2 DEF Sums
<1> QED
  BY <1>1, <1>2, <1>3, TotalIs

-----------------------------------------------------------------------------
(* Sums, element by element.                                               *)

\* Induction over the subsets of a finite set, for a set of subsets.
LEMMA BySubsets ==
  ASSUME NEW S, IsFiniteSet(S), NEW A \in SUBSET SUBSET S, {} \in A,
         \A s \in A, x \in S : x \notin s => s \cup {x} \in A
  PROVE  \A s \in SUBSET S : s \in A
<1> DEFINE B == {Cardinality(s) : s \in {t \in SUBSET S : t \notin A}}
<1>1. SUFFICES ASSUME B # {} PROVE FALSE
  OBVIOUS
<1>2. \A s \in SUBSET S : Cardinality(s) \in Nat
  BY FS_Subset, FS_CardinalityType
<1>3. PICK m \in B : \A k \in B : m <= k
  <2>1. B \subseteq Nat
    BY <1>2
  <2> HIDE DEF B
  <2> QED
    BY <1>1, <2>1, LeastNumber
<1>4. PICK s \in SUBSET S : s \notin A /\ m = Cardinality(s)
  BY <1>3
<1>5. s # {}
  BY <1>4
<1>6. /\ One(s) \in s /\ One(s) \in S /\ s \ {One(s)} \in SUBSET S
      /\ m \in Nat /\ Cardinality(s \ {One(s)}) = m - 1
  BY <1>4, <1>5, OneOf
<1>7. s \ {One(s)} \in A
  <2>1. ~(m <= m - 1)
    BY <1>6
  <2> QED
    BY <1>3, <1>6, <2>1
<1>8. (s \ {One(s)}) \cup {One(s)} = s
  BY <1>6
<1> QED
  BY <1>4, <1>6, <1>7, <1>8

\* The element that is taken first does not matter.
LEMMA AnyFirst ==
  ASSUME NEW S, IsFiniteSet(S), NEW f, \A x \in S : f[x] \in Int, NEW g, Sums(S, f, g)
  PROVE  \A s \in SUBSET S : \A x \in s : g[s] = f[x] + g[s \ {x}]
<1> DEFINE B == {Cardinality(s) : s \in {t \in SUBSET S : ~\A x \in t : g[t] = f[x] + g[t \ {x}]}}
<1>1. SUFFICES ASSUME B # {} PROVE FALSE
  OBVIOUS
<1>2. \A s \in SUBSET S : Cardinality(s) \in Nat
  BY FS_Subset, FS_CardinalityType
<1>3. PICK m \in B : \A k \in B : m <= k
  <2>1. B \subseteq Nat
    BY <1>2
  <2> HIDE DEF B
  <2> QED
    BY <1>1, <2>1, LeastNumber
<1>4. PICK s \in SUBSET S : ~(\A x \in s : g[s] = f[x] + g[s \ {x}]) /\ m = Cardinality(s)
  BY <1>3
<1>5. PICK x \in s : g[s] # f[x] + g[s \ {x}]
  BY <1>4
<1> DEFINE e == One(s)
<1>6. /\ e \in s /\ e \in S /\ s \ {e} \in SUBSET S
      /\ m \in Nat /\ Cardinality(s \ {e}) = m - 1
  BY <1>4, <1>5, OneOf
<1> HIDE DEF B
<1>7. g[s] = f[e] + g[s \ {e}]
  BY <1>5 DEF Sums
<1> HIDE DEF e
<1>8. e # x
  BY <1>5, <1>7
<1>9. ASSUME NEW t \in SUBSET S, Cardinality(t) = m - 1, NEW y \in t
      PROVE  g[t] = f[y] + g[t \ {y}]
  <2>1. ~(m <= Cardinality(t))
    BY <1>6, <1>9
  <2>2. Cardinality(t) \notin B
    BY <1>3, <2>1
  <2> QED
    BY <2>2 DEF B
<1>10. g[s \ {e}] = f[x] + g[(s \ {e}) \ {x}]
  <2>1. x \in s \ {e}
    BY <1>8
  <2> QED
    BY <1>6, <1>9, <2>1
<1>11. g[s \ {x}] = f[e] + g[(s \ {x}) \ {e}]
  <2>1. IsFiniteSet(s)
    BY FS_Subset
  <2>2. Cardinality(s \ {x}) = m - 1
    BY <1>4, <1>5, <2>1, FS_RemoveElement
  <2>3. e \in s \ {x} /\ s \ {x} \in SUBSET S
    BY <1>6, <1>8
  <2> QED
    BY <1>9, <2>2, <2>3
<1>12. (s \ {e}) \ {x} = (s \ {x}) \ {e} /\ (s \ {e}) \ {x} \in SUBSET S
  OBVIOUS
<1>13. g[(s \ {e}) \ {x}] \in Int
  BY <1>12, SumsAreIntegers
<1>14. f[x] \in Int /\ f[e] \in Int
  BY <1>5, <1>6
<1>15. g[s] = f[e] + (f[x] + g[(s \ {e}) \ {x}])
  BY <1>7, <1>10
<1>16. f[x] + g[s \ {x}] = f[x] + (f[e] + g[(s \ {e}) \ {x}])
  BY <1>11, <1>12
<1>17. \A a, b, c \in Int : a + (b + c) = b + (a + c)
  OBVIOUS
<1>18. f[e] + (f[x] + g[(s \ {e}) \ {x}]) = f[x] + (f[e] + g[(s \ {e}) \ {x}])
  BY <1>13, <1>14, <1>17
<1> QED
  BY <1>5, <1>15, <1>16, <1>18

\* The sum over a part is what the whole sum has for it.
LEMMA TotalOfPart ==
  ASSUME NEW S, IsFiniteSet(S), NEW f, NEW g, Sums(S, f, g), NEW s \in SUBSET S
  PROVE  Total(s, f) = g[s]
<1> DEFINE h == [t \in SUBSET s |-> g[t]]
<1>1. IsFiniteSet(s)
  BY FS_Subset
<1>2. ASSUME NEW t \in SUBSET s
      PROVE  h[t] = IF t = {} THEN 0 ELSE f[One(t)] + h[t \ {One(t)}]
  <2>1. t \in SUBSET S /\ t \ {One(t)} \in SUBSET s
    OBVIOUS
  <2>2. g[t] = IF t = {} THEN 0 ELSE f[One(t)] + g[t \ {One(t)}]
    BY <2>1 DEF Sums
  <2> QED
    BY <2>1, <2>2
<1>3. h = [t \in SUBSET s |-> h[t]]
  OBVIOUS
<1>4. Sums(s, f, h)
  <2> HIDE DEF h
  <2> QED
    BY <1>2, <1>3 DEF Sums
<1>5. h[s] = g[s]
  OBVIOUS
<1> HIDE DEF h
<1> QED
  BY <1>1, <1>4, <1>5, TotalIs

\* One element more.
LEMMA TotalAdds ==
  ASSUME NEW S, IsFiniteSet(S), NEW x, x \notin S, NEW f, \A y \in S \cup {x} : f[y] \in Int
  PROVE  Total(S \cup {x}, f) = Total(S, f) + f[x]
<1> DEFINE W == S \cup {x}
<1>1. IsFiniteSet(W) /\ S \in SUBSET W /\ W \in SUBSET W /\ x \in W /\ W \ {x} = S
  BY FS_AddElement
<1>2. \A y \in W : f[y] \in Int
  OBVIOUS
<1> HIDE DEF W
<1>3. PICK g : Sums(W, f, g)
  BY <1>1, SumsExist
<1>4. g[W] = f[x] + g[S]
  BY <1>1, <1>2, <1>3, AnyFirst
<1>5. Total(W, f) = g[W] /\ Total(S, f) = g[S]
  BY <1>1, <1>3, TotalOfPart
<1>6. g[S] \in Int /\ f[x] \in Int
  BY <1>1, <1>2, <1>3, SumsAreIntegers
<1> QED
  BY <1>4, <1>5, <1>6 DEF W

\* Where the function is a f + c on S, so is the sum.
LEMMA TotalIsLinear ==
  ASSUME NEW S, IsFiniteSet(S), NEW f, NEW h, NEW a \in Int, NEW c \in Int,
         \A x \in S : f[x] \in Int /\ h[x] = a * f[x] + c
  PROVE  Total(S, h) = a * Total(S, f) + c * Cardinality(S)
<1> DEFINE A == {s \in SUBSET S : Total(s, h) = a * Total(s, f) + c * Cardinality(s)}
<1>1. \A s \in SUBSET S : IsFiniteSet(s) /\ Cardinality(s) \in Nat /\ Total(s, f) \in Int
  BY FS_Subset, FS_CardinalityType, TotalType
<1>2. {} \in A
  <2>1. Total({}, h) = 0 /\ Total({}, f) = 0 /\ Cardinality({}) = 0
    BY TotalOfNone, FS_EmptySet
  <2>2. a * 0 + c * 0 = 0
    OBVIOUS
  <2> QED
    BY <2>1, <2>2
<1>3. ASSUME NEW s \in A, NEW x \in S, x \notin s PROVE s \cup {x} \in A
  <2>1. s \in SUBSET S /\ Total(s, h) = a * Total(s, f) + c * Cardinality(s)
    OBVIOUS
  <2>2. \A y \in S : h[y] \in Int /\ f[y] \in Int
    OBVIOUS
  <2>3. Total(s \cup {x}, h) = Total(s, h) + h[x]
    BY <1>1, <1>3, <2>1, <2>2, TotalAdds
  <2>4. Total(s \cup {x}, f) = Total(s, f) + f[x]
    BY <1>1, <1>3, <2>1, <2>2, TotalAdds
  <2>5. Cardinality(s \cup {x}) = Cardinality(s) + 1
    BY <1>1, <1>3, <2>1, FS_AddElement
  <2>6. Total(s, f) \in Int /\ Cardinality(s) \in Int /\ f[x] \in Int /\ h[x] = a * f[x] + c
    BY <1>1, <2>1
  <2> HIDE DEF A
  <2>7. Total(s \cup {x}, h) = a * Total(s \cup {x}, f) + c * Cardinality(s \cup {x})
    BY <2>1, <2>3, <2>4, <2>5, <2>6
  <2> QED
    BY <2>1, <2>7 DEF A
<1>4. A \in SUBSET SUBSET S
  OBVIOUS
<1> HIDE DEF A
<1>5. S \in A
  BY <1>2, <1>3, <1>4, BySubsets
<1> QED
  BY <1>5 DEF A

\* Equal terms have equal sums.
LEMMA TotalOfEqual ==
  ASSUME NEW S, IsFiniteSet(S), NEW f, NEW h, \A x \in S : f[x] \in Int /\ h[x] = f[x]
  PROVE  Total(S, h) = Total(S, f)
<1>1. \A x \in S : f[x] \in Int /\ h[x] = 1 * f[x] + 0
  OBVIOUS
<1>2. Total(S, h) = 1 * Total(S, f) + 0 * Cardinality(S)
  BY <1>1, TotalIsLinear
<1>3. Total(S, f) \in Int /\ Cardinality(S) \in Int
  BY TotalType, FS_CardinalityType
<1> QED
  BY <1>2, <1>3

\* A total of greater summands is not less.
LEMMA TotalMonotone ==
  ASSUME NEW S, IsFiniteSet(S), NEW f, NEW h,
         \A x \in S : f[x] \in Int /\ h[x] \in Int /\ f[x] <= h[x]
  PROVE  Total(S, f) <= Total(S, h)
<1> DEFINE A == {s \in SUBSET S : Total(s, f) <= Total(s, h)}
<1>1. \A s \in SUBSET S : IsFiniteSet(s) /\ Total(s, f) \in Int /\ Total(s, h) \in Int
  BY FS_Subset, TotalType
<1>2. {} \in A
  BY TotalOfNone
<1>3. ASSUME NEW s \in A, NEW x \in S, x \notin s PROVE s \cup {x} \in A
  <2>1. s \in SUBSET S /\ s \cup {x} \in SUBSET S /\ Total(s, f) <= Total(s, h)
    OBVIOUS
  <2>2. \A y \in s \cup {x} : f[y] \in Int /\ h[y] \in Int
    BY <2>1
  <2>3. Total(s \cup {x}, f) = Total(s, f) + f[x]
    BY <1>1, <1>3, <2>1, <2>2, TotalAdds
  <2>4. Total(s \cup {x}, h) = Total(s, h) + h[x]
    BY <1>1, <1>3, <2>1, <2>2, TotalAdds
  <2>5. Total(s \cup {x}, f) <= Total(s \cup {x}, h)
    BY <1>1, <2>1, <2>3, <2>4
  <2> QED
    BY <2>1, <2>5
<1>4. A \in SUBSET SUBSET S
  OBVIOUS
<1> HIDE DEF A
<1>5. S \in A
  BY <1>2, <1>3, <1>4, BySubsets
<1> QED
  BY <1>5 DEF A

\* Another value at one place.
LEMMA TotalChanges ==
  ASSUME NEW S, IsFiniteSet(S), NEW f, NEW h, NEW x \in S,
         \A y \in S : f[y] \in Int /\ h[y] \in Int,
         \A y \in S \ {x} : h[y] = f[y]
  PROVE  Total(S, h) = Total(S, f) + h[x] - f[x]
<1> DEFINE s == S \ {x}
<1>1. IsFiniteSet(s) /\ x \notin s /\ s \cup {x} = S /\ \A y \in s : f[y] \in Int /\ h[y] = f[y]
  BY FS_RemoveElement
<1>2. \A y \in s \cup {x} : f[y] \in Int /\ h[y] \in Int
  OBVIOUS
<1> HIDE DEF s
<1>3. Total(s \cup {x}, f) = Total(s, f) + f[x]
  BY <1>1, <1>2, TotalAdds
<1>4. Total(s \cup {x}, h) = Total(s, h) + h[x]
  BY <1>1, <1>2, TotalAdds
<1>5. Total(s, h) = Total(s, f) /\ Total(s, f) \in Int
  BY <1>1, TotalOfEqual, TotalType
<1>6. f[x] \in Int /\ h[x] \in Int
  OBVIOUS
<1>7. \A a, b, c \in Int : a + c = (a + b) + c - b
  OBVIOUS
<1>8. Total(S, f) = Total(s, f) + f[x] /\ Total(S, h) = Total(s, f) + h[x]
  BY <1>1, <1>3, <1>4, <1>5
<1> QED
  BY <1>5, <1>6, <1>7, <1>8

\* A sum with one term.
LEMMA TotalOfOne ==
  ASSUME NEW S, IsFiniteSet(S), NEW f, NEW x \in S, \A y \in S : f[y] \in Int,
         \A y \in S \ {x} : f[y] = 0
  PROVE  Total(S, f) = f[x]
<1> DEFINE z == [y \in S |-> 0]
<1>1. \A y \in S : z[y] \in Int /\ z[y] = 0 * z[y] + 0 /\ z[y] = 0
  OBVIOUS
<1> HIDE DEF z
<1>2. Total(S, z) = 0
  <2>1. Total(S, z) \in Int /\ Cardinality(S) \in Nat
    BY <1>1, TotalType, FS_CardinalityType
  <2>2. 0 \in Int /\ Total(S, z) = 0 * Total(S, z) + 0 * Cardinality(S)
    BY <1>1, TotalIsLinear
  <2> QED
    BY <2>1, <2>2
<1>3. \A y \in S : z[y] \in Int /\ f[y] \in Int
  BY <1>1
<1>4. \A y \in S \ {x} : f[y] = z[y]
  BY <1>1
<1>5. Total(S, f) = Total(S, z) + f[x] - z[x]
  BY <1>3, <1>4, TotalChanges
<1>6. Total(S, z) = 0 /\ z[x] = 0 /\ f[x] \in Int
  BY <1>1, <1>2
<1> QED
  BY <1>5, <1>6

\* The sum of naturals is one.
LEMMA TotalIsNatural ==
  ASSUME NEW S, IsFiniteSet(S), NEW f, \A x \in S : f[x] \in Nat
  PROVE  Total(S, f) \in Nat
<1> DEFINE z == [x \in S |-> 0]
<1>1. \A x \in S : z[x] \in Int /\ f[x] \in Int /\ z[x] = 0 * f[x] + 0 /\ z[x] <= f[x]
  OBVIOUS
<1> HIDE DEF z
<1>2. Total(S, z) = 0 * Total(S, f) + 0 * Cardinality(S)
  <2>1. \A x \in S : f[x] \in Int /\ z[x] = 0 * f[x] + 0
    BY <1>1
  <2> QED
    BY <2>1, TotalIsLinear
<1>3. Total(S, z) <= Total(S, f)
  BY <1>1, TotalMonotone
<1>4. Total(S, f) \in Int /\ Cardinality(S) \in Nat
  BY <1>1, TotalType, FS_CardinalityType
<1> QED
  BY <1>2, <1>3, <1>4

\* Two functions that differ in two places.
LEMMA TotalChangesTwice ==
  ASSUME NEW S, IsFiniteSet(S), NEW f, NEW h, NEW x \in S, NEW y \in S, x # y,
         \A z \in S : f[z] \in Int /\ h[z] \in Int,
         \A z \in S \ {x, y} : h[z] = f[z]
  PROVE  Total(S, h) = Total(S, f) + (h[x] - f[x]) + (h[y] - f[y])
<1> DEFINE mid == [z \in S |-> IF z = y THEN h[y] ELSE f[z]]
<1>1. /\ \A z \in S : f[z] \in Int /\ mid[z] \in Int /\ h[z] \in Int
      /\ \A z \in S \ {y} : mid[z] = f[z]
      /\ \A z \in S \ {x} : h[z] = mid[z]
      /\ mid[y] = h[y] /\ mid[x] = f[x]
  OBVIOUS
<1> HIDE DEF mid
<1>2. Total(S, mid) = Total(S, f) + mid[y] - f[y]
  <2>1. /\ \A z \in S : f[z] \in Int /\ mid[z] \in Int
        /\ \A z \in S \ {y} : mid[z] = f[z]
    BY <1>1
  <2> QED
    BY <2>1, TotalChanges
<1>3. Total(S, h) = Total(S, mid) + h[x] - mid[x]
  <2>1. /\ \A z \in S : mid[z] \in Int /\ h[z] \in Int
        /\ \A z \in S \ {x} : h[z] = mid[z]
    BY <1>1
  <2> QED
    BY <2>1, TotalChanges
<1>4. Total(S, f) \in Int /\ Total(S, mid) \in Int
  BY <1>1, TotalType
<1> QED
  BY <1>1, <1>2, <1>3, <1>4

\* A quadratic form over one element more.
LEMMA QuadraticAdds ==
  ASSUME NEW S, IsFiniteSet(S), NEW x, x \notin S, NEW F,
         \A p \in (S \cup {x}) \X (S \cup {x}) : F[p] \in Int
  PROVE  LET W == S \cup {x}
         IN  Total(W \X W, F) = Total(S \X S, F) + F[<<x, x>>]
                                + Total(S, [i \in S |-> F[<<x, i>>] + F[<<i, x>>]])
<1> DEFINE W == S \cup {x}
           f == [i \in S |-> F[<<x, i>>] + F[<<i, x>>]]
           Shape(T) == ((S \X S) \cup {<<x, x>>}) \cup (({x} \X T) \cup (T \X {x}))
           A == {T \in SUBSET S : Total(Shape(T), F) = Total(S \X S, F) + F[<<x, x>>] + Total(T, f)}
<1>1. IsFiniteSet(W \X W) /\ \A T \in SUBSET S : IsFiniteSet(T)
  BY FS_AddElement, FS_Product, FS_Subset
<1>2. \A T \in SUBSET S : Shape(T) \in SUBSET (W \X W) /\ IsFiniteSet(Shape(T))
  <2>1. \A T \in SUBSET S : Shape(T) \in SUBSET (W \X W)
    OBVIOUS
  <2> HIDE DEF Shape
  <2> QED
    BY <1>1, <2>1, FS_Subset
<1>3. \A i \in S : f[i] \in Int /\ F[<<x, i>>] \in Int /\ F[<<i, x>>] \in Int
  OBVIOUS
<1>4. Total(S \X S, F) \in Int /\ F[<<x, x>>] \in Int /\ \A T \in SUBSET S : Total(T, f) \in Int
  <2>1. S \X S \in SUBSET (W \X W)
    OBVIOUS
  <2>2. IsFiniteSet(S \X S) /\ \A p \in S \X S : F[p] \in Int
    BY <1>1, <2>1, FS_Subset
  <2>3. ASSUME NEW T \in SUBSET S PROVE Total(T, f) \in Int
    <3>1. IsFiniteSet(T) /\ \A i \in T : f[i] \in Int
      BY <1>1, <1>3
    <3> HIDE DEF f
    <3> QED
      BY <3>1, TotalType
  <2> QED
    BY <2>2, <2>3, TotalType
<1>5. {} \in A
  <2>1. Shape({}) = (S \X S) \cup {<<x, x>>} /\ <<x, x>> \notin S \X S
    OBVIOUS
  <2>2. IsFiniteSet(S \X S) /\ \A p \in (S \X S) \cup {<<x, x>>} : F[p] \in Int
    BY FS_Product
  <2>3. Total((S \X S) \cup {<<x, x>>}, F) = Total(S \X S, F) + F[<<x, x>>]
    BY <2>1, <2>2, TotalAdds
  <2>4. Total({}, f) = 0
    BY TotalOfNone
  <2>5. \A a, b \in Int : a + b = a + b + 0
    OBVIOUS
  <2> HIDE DEF f, Shape
  <2>6. Total(Shape({}), F) = Total(S \X S, F) + F[<<x, x>>] + Total({}, f)
    BY <1>4, <2>1, <2>3, <2>4, <2>5
  <2> QED
    BY <2>6
<1>6. ASSUME NEW T \in A, NEW i \in S, i \notin T PROVE T \cup {i} \in A
  <2> DEFINE V == Shape(T) \cup {<<x, i>>}
  <2>1. T \in SUBSET S /\ T \cup {i} \in SUBSET S
        /\ Total(Shape(T), F) = Total(S \X S, F) + F[<<x, x>>] + Total(T, f)
    OBVIOUS
  <2>2. /\ Shape(T \cup {i}) = V \cup {<<i, x>>}
        /\ <<x, i>> \notin Shape(T) /\ <<i, x>> \notin V
    BY <1>6
  <2>3. V \cup {<<i, x>>} \in SUBSET (W \X W) /\ Shape(T) \in SUBSET (W \X W)
    BY <1>2, <2>1
  <2>4. \A p \in V \cup {<<i, x>>} : F[p] \in Int
    BY <2>3
  <2>5. Total(T \cup {i}, f) = Total(T, f) + f[i]
    <3>1. IsFiniteSet(T) /\ \A j \in T \cup {i} : f[j] \in Int
      BY <1>1, <1>3, <2>1
    <3> HIDE DEF f, A
    <3> QED
      BY <1>6, <3>1, TotalAdds
  <2>6. f[i] = F[<<x, i>>] + F[<<i, x>>]
    OBVIOUS
  <2> HIDE DEF A, f, Shape
  <2>7. Total(V, F) = Total(Shape(T), F) + F[<<x, i>>]
    BY <1>2, <2>1, <2>2, <2>4, TotalAdds
  <2>8. Total(V \cup {<<i, x>>}, F) = Total(V, F) + F[<<i, x>>]
    <3>1. IsFiniteSet(V)
      BY <1>2, <2>1, FS_AddElement
    <3> HIDE DEF V
    <3> QED
      BY <2>2, <2>4, <3>1, TotalAdds
  <2>9. Total(Shape(T \cup {i}), F) = Total(S \X S, F) + F[<<x, x>>] + Total(T \cup {i}, f)
    <3>1. \A a, b, c, d, e \in Int : (a + b + c) + d + e = a + b + (c + (d + e))
      OBVIOUS
    <3>2. Total(T, f) \in Int /\ F[<<x, i>>] \in Int /\ F[<<i, x>>] \in Int
      BY <1>3, <1>4, <2>1
    <3>3. Total(Shape(T \cup {i}), F)
            = (Total(S \X S, F) + F[<<x, x>>] + Total(T, f)) + F[<<x, i>>] + F[<<i, x>>]
      BY <2>1, <2>2, <2>7, <2>8
    <3>4. Total(T \cup {i}, f) = Total(T, f) + (F[<<x, i>>] + F[<<i, x>>])
      BY <2>5, <2>6
    <3> HIDE DEF V
    <3> QED
      BY <1>4, <3>1, <3>2, <3>3, <3>4
  <2> QED
    BY <2>1, <2>9 DEF A
<1>7. A \in SUBSET SUBSET S
  OBVIOUS
<1>8. Shape(S) = W \X W
  OBVIOUS
<1> HIDE DEF A
<1>9. S \in A
  BY <1>5, <1>6, <1>7, BySubsets
<1> QED
  BY <1>8, <1>9 DEF A

-----------------------------------------------------------------------------
(* Quadratic forms, row by row.                                            *)

\* A sum of sums, term by term.
LEMMA TotalOfSum ==
  ASSUME NEW S, IsFiniteSet(S), NEW f, NEW g, NEW h,
         \A x \in S : f[x] \in Int /\ g[x] \in Int /\ h[x] = f[x] + g[x]
  PROVE  Total(S, h) = Total(S, f) + Total(S, g)
<1> DEFINE A == {s \in SUBSET S : Total(s, h) = Total(s, f) + Total(s, g)}
<1>1. \A s \in SUBSET S : IsFiniteSet(s) /\ Total(s, f) \in Int /\ Total(s, g) \in Int
  BY FS_Subset, TotalType
<1>2. {} \in A
  BY TotalOfNone
<1>3. ASSUME NEW s \in A, NEW x \in S, x \notin s PROVE s \cup {x} \in A
  <2>1. s \in SUBSET S /\ s \cup {x} \in SUBSET S /\ Total(s, h) = Total(s, f) + Total(s, g)
    OBVIOUS
  <2>2. \A y \in s \cup {x} : f[y] \in Int /\ g[y] \in Int /\ h[y] \in Int
    BY <2>1
  <2> HIDE DEF A
  <2>3. /\ Total(s \cup {x}, h) = Total(s, h) + h[x]
        /\ Total(s \cup {x}, f) = Total(s, f) + f[x]
        /\ Total(s \cup {x}, g) = Total(s, g) + g[x]
    BY <1>1, <1>3, <2>1, <2>2, TotalAdds
  <2>4. /\ Total(s, f) \in Int /\ Total(s, g) \in Int /\ f[x] \in Int /\ g[x] \in Int
        /\ h[x] = f[x] + g[x]
    BY <1>1, <2>1
  <2>5. Total(s \cup {x}, h) = Total(s \cup {x}, f) + Total(s \cup {x}, g)
    BY <2>1, <2>3, <2>4
  <2> QED
    BY <2>1, <2>5 DEF A
<1>4. A \in SUBSET SUBSET S
  OBVIOUS
<1> HIDE DEF A
<1>5. S \in A
  BY <1>2, <1>3, <1>4, BySubsets
<1> QED
  BY <1>5 DEF A

\* A bound on every term bounds the sum.
LEMMA TotalIsBounded ==
  ASSUME NEW S, IsFiniteSet(S), NEW f, NEW b \in Int, \A x \in S : f[x] \in Int /\ f[x] <= b
  PROVE  Total(S, f) <= b * Cardinality(S)
<1> DEFINE h == [x \in S |-> b]
<1>1. \A x \in S : f[x] \in Int /\ h[x] \in Int /\ f[x] <= h[x] /\ h[x] = 0 * f[x] + b
  OBVIOUS
<1>2. \A x \in S : f[x] \in Int /\ h[x] = 0 * f[x] + b
  BY <1>1
<1> HIDE DEF h
<1>3. Total(S, f) <= Total(S, h)
  BY <1>1, TotalMonotone
<1>4. Total(S, h) = 0 * Total(S, f) + b * Cardinality(S)
  BY <1>2, TotalIsLinear
<1>5. Total(S, f) \in Int /\ Cardinality(S) \in Int
  BY TotalType, FS_CardinalityType
<1> QED
  BY <1>3, <1>4, <1>5

\* A quadratic form, row by row.
Cross(S, F, x) == Total(S, [j \in S |-> F[<<x, j>>] + F[<<j, x>>]])

LEMMA TotalByRows ==
  ASSUME NEW S, IsFiniteSet(S), NEW F, \A p \in S \X S : F[p] \in Int
  PROVE  Total(S, [x \in S |-> Cross(S, F, x)]) = 2 * Total(S \X S, F)
<1> DEFINE Rows(s) == Total(s, [x \in s |-> Cross(s, F, x)])
           A == {s \in SUBSET S : Rows(s) = 2 * Total(s \X s, F)}
<1>1. \A s \in SUBSET S : IsFiniteSet(s) /\ IsFiniteSet(s \X s) /\ Total(s \X s, F) \in Int
  <2> TAKE s \in SUBSET S
  <2>1. IsFiniteSet(s)
    BY FS_Subset
  <2>2. IsFiniteSet(s \X s) /\ \A p \in s \X s : F[p] \in Int
    BY <2>1, FS_Product
  <2> QED
    BY <2>1, <2>2, TotalType
<1>2. ASSUME NEW s \in SUBSET S, NEW x \in S
      PROVE  /\ \A j \in s : F[<<x, j>>] \in Int /\ F[<<j, x>>] \in Int
             /\ Cross(s, F, x) \in Int
  <2> DEFINE f == [j \in s |-> F[<<x, j>>] + F[<<j, x>>]]
  <2>1. \A j \in s : F[<<x, j>>] \in Int /\ F[<<j, x>>] \in Int /\ f[j] \in Int
    OBVIOUS
  <2> HIDE DEF f
  <2>2. Total(s, f) \in Int
    BY <1>1, <2>1, TotalType
  <2> QED
    BY <2>1, <2>2 DEF f, Cross
<1>3. {} \in A
  <2>1. Rows({}) = 0 /\ Total({}, F) = 0 /\ {} \X {} = {}
    BY TotalOfNone
  <2> HIDE DEF Rows
  <2> QED
    BY <2>1
<1>4. ASSUME NEW s \in A, NEW x \in S, x \notin s PROVE s \cup {x} \in A
  <2> DEFINE w == s \cup {x}
             c == [j \in s |-> F[<<x, j>>] + F[<<j, x>>]]
             f == [i \in s |-> Cross(s, F, i)]
             h == [i \in w |-> Cross(w, F, i)]
             a == F[<<x, x>>]
  <2>1. s \in SUBSET S /\ w \in SUBSET S /\ x \in w /\ x \notin s /\ IsFiniteSet(s)
    BY <1>1, <1>4
  <2>2. Rows(s) = 2 * Total(s \X s, F)
    OBVIOUS
  <2>3. \A i \in w, j \in w : F[<<i, j>>] \in Int
    BY <2>1
  <2>4. \A i \in s : c[i] \in Int /\ c[i] = F[<<x, i>>] + F[<<i, x>>]
    BY <2>3
  <2>5. ASSUME NEW i \in w PROVE Cross(w, F, i) = Cross(s, F, i) + (F[<<i, x>>] + F[<<x, i>>])
    <3> DEFINE g == [j \in w |-> F[<<i, j>>] + F[<<j, i>>]]
               e == [j \in s |-> F[<<i, j>>] + F[<<j, i>>]]
    <3>1. /\ \A j \in s \cup {x} : g[j] \in Int
          /\ \A j \in s : e[j] \in Int /\ g[j] = e[j]
          /\ g[x] = F[<<i, x>>] + F[<<x, i>>]
      BY <2>3
    <3>2. Cross(w, F, i) = Total(s \cup {x}, g) /\ Cross(s, F, i) = Total(s, e)
      BY DEF Cross
    <3> HIDE DEF g, e, w, A
    <3>3. Total(s \cup {x}, g) = Total(s, g) + g[x]
      BY <2>1, <3>1, TotalAdds
    <3>4. Total(s, g) = Total(s, e)
      BY <2>1, <3>1, TotalOfEqual
    <3> QED
      BY <3>1, <3>2, <3>3, <3>4
  <2>6. /\ \A i \in s : f[i] \in Int /\ c[i] \in Int /\ h[i] = f[i] + c[i]
        /\ h[x] = Cross(s, F, x) + 2 * a /\ a \in Int /\ Cross(s, F, x) \in Int
    <3>1. \A i \in s : Cross(s, F, i) \in Int /\ h[i] = Cross(w, F, i) /\ f[i] = Cross(s, F, i)
      BY <1>2, <2>1
    <3>2. \A i \in s : Cross(w, F, i) = Cross(s, F, i) + (F[<<i, x>>] + F[<<x, i>>])
      BY <2>1, <2>5
    <3>3. \A i \in s : F[<<i, x>>] \in Int /\ F[<<x, i>>] \in Int
      BY <2>3
    <3>4. h[x] = Cross(w, F, x) /\ Cross(w, F, x) = Cross(s, F, x) + (a + a) /\ a \in Int
          /\ Cross(s, F, x) \in Int
      BY <1>2, <2>1, <2>3, <2>5
    <3> HIDE DEF h, f, c, a, w
    <3>5. ASSUME NEW i \in s PROVE f[i] \in Int /\ c[i] \in Int /\ h[i] = f[i] + c[i]
      <4>1. i \in w
        BY <2>1 DEF w
      <4>2. h[i] = Cross(s, F, i) + (F[<<i, x>>] + F[<<x, i>>]) /\ f[i] = Cross(s, F, i)
        BY <3>1, <3>2
      <4>3. c[i] = F[<<x, i>>] + F[<<i, x>>] /\ c[i] \in Int
        BY <2>4
      <4>4. Cross(s, F, i) \in Int /\ F[<<i, x>>] \in Int /\ F[<<x, i>>] \in Int
        BY <3>1, <3>3
      <4> QED
        BY <4>2, <4>3, <4>4
    <3>6. h[x] = Cross(s, F, x) + 2 * a
      BY <3>4
    <3> QED
      BY <3>4, <3>5, <3>6
  <2>7. Rows(s) = Total(s, f) /\ Rows(w) = Total(s \cup {x}, h) /\ Cross(s, F, x) = Total(s, c)
    BY DEF Cross
  <2>8. Total(w \X w, F) = Total(s \X s, F) + a + Total(s, c)
    <3>1. /\ IsFiniteSet(s) /\ x \notin s
          /\ \A p \in (s \cup {x}) \X (s \cup {x}) : F[p] \in Int
      BY <2>1
    <3> HIDE DEF A, Rows, f, h, a, c
    <3>2. Total(w \X w, F) = Total(s \X s, F) + F[<<x, x>>]
                              + Total(s, [i \in s |-> F[<<x, i>>] + F[<<i, x>>]])
      BY <3>1, QuadraticAdds
    <3> QED
      BY <3>2 DEF a, c
  <2> HIDE DEF A, Rows, w, c, f, h, a
  <2>9. Total(s \cup {x}, h) = Total(s, h) + h[x]
    <3>1. \A j \in s \cup {x} : h[j] \in Int
      BY <2>6
    <3> QED
      BY <2>1, <3>1, TotalAdds
  <2>10. Total(s, h) = Total(s, f) + Total(s, c)
    BY <2>1, <2>6, TotalOfSum
  <2>11. Total(s, f) \in Int /\ Total(s, c) \in Int /\ Total(s \X s, F) \in Int
    BY <1>1, <2>1, <2>6, TotalType
  <2>12. Rows(w) = 2 * Total(w \X w, F)
    BY <2>2, <2>6, <2>7, <2>8, <2>9, <2>10, <2>11
  <2> QED
    BY <2>1, <2>12 DEF A, w
<1>5. A \in SUBSET SUBSET S
  OBVIOUS
<1> HIDE DEF A
<1>6. S \in A
  BY <1>3, <1>4, <1>5, BySubsets
<1> QED
  BY <1>6 DEF A

\* What one element adds to a quadratic form is its row, less its own square once.
LEMMA RowIsAdded ==
  ASSUME NEW S, IsFiniteSet(S), NEW F, \A p \in S \X S : F[p] \in Int, NEW x \in S
  PROVE  LET s == S \ {x}
         IN  /\ Total(S \X S, F) = Total(s \X s, F) + (Cross(S, F, x) - F[<<x, x>>])
             /\ Total(s \X s, F) \in Int /\ Total(S \X S, F) \in Int
             /\ Cross(S, F, x) \in Int /\ F[<<x, x>>] \in Int
<1> DEFINE s == S \ {x}
           f == [j \in S |-> F[<<x, j>>] + F[<<j, x>>]]
           c == [i \in s |-> F[<<x, i>>] + F[<<i, x>>]]
           a == F[<<x, x>>]
<1>1. /\ IsFiniteSet(s) /\ x \notin s /\ s \cup {x} = S
      /\ \A p \in (s \cup {x}) \X (s \cup {x}) : F[p] \in Int
  BY FS_RemoveElement
<1>2. /\ \A j \in s \cup {x} : f[j] \in Int
      /\ \A j \in s : f[j] \in Int /\ c[j] = f[j] /\ c[j] \in Int
      /\ f[x] = a + a /\ a \in Int
  OBVIOUS
<1>3. Cross(S, F, x) = Total(S, f)
  BY DEF Cross
<1>4. Total(S \X S, F) = Total(s \X s, F) + a + Total(s, c)
  <2> HIDE DEF s, f, a, c
  <2>0. /\ IsFiniteSet(s) /\ x \notin s
        /\ \A p \in (s \cup {x}) \X (s \cup {x}) : F[p] \in Int
    BY <1>1
  <2>1. Total((s \cup {x}) \X (s \cup {x}), F)
          = Total(s \X s, F) + F[<<x, x>>] + Total(s, [i \in s |-> F[<<x, i>>] + F[<<i, x>>]])
    BY <2>0, QuadraticAdds
  <2> QED
    BY <1>1, <2>1 DEF a, c
<1>5. /\ IsFiniteSet(s \X s) /\ IsFiniteSet(S \X S)
      /\ \A p \in s \X s : F[p] \in Int
  BY <1>1, FS_Product
<1> HIDE DEF s, f, a, c
<1>6. Total(S, f) = Total(s, f) + f[x] /\ Total(s, c) = Total(s, f)
  BY <1>1, <1>2, TotalAdds, TotalOfEqual
<1>7. Total(s, f) \in Int /\ Total(s \X s, F) \in Int /\ Total(S \X S, F) \in Int
  BY <1>1, <1>2, <1>5, TotalType
<1>8. /\ Total(S \X S, F) = Total(s \X s, F) + (Cross(S, F, x) - a)
      /\ Cross(S, F, x) \in Int
  BY <1>2, <1>3, <1>4, <1>6, <1>7
<1> QED
  BY <1>2, <1>7, <1>8 DEF s, a

\* A quadratic form that is not negative has an element that can be taken out for
\* at most its greatest square: the rows add up to twice the form.
LEMMA QuadraticLoses ==
  ASSUME NEW S, IsFiniteSet(S), S # {}, NEW F, \A p \in S \X S : F[p] \in Int,
         NEW b \in Int, \A x \in S : F[<<x, x>>] <= b, Total(S \X S, F) >= 0
  PROVE  \E x \in S : Total((S \ {x}) \X (S \ {x}), F) <= Total(S \X S, F) + b
<1> DEFINE t == Total(S \X S, F)
           rows == [x \in S |-> Cross(S, F, x)]
<1> SUFFICES ASSUME \A x \in S : ~(Total((S \ {x}) \X (S \ {x}), F) <= t + b) PROVE FALSE
  OBVIOUS
<1>1. t \in Int /\ t >= 0
  <2>1. PICK x \in S : TRUE
    OBVIOUS
  <2> QED
    BY <2>1, RowIsAdded
<1>2. ASSUME NEW x \in S PROVE rows[x] \in Int /\ rows[x] <= -1
  <2> DEFINE o == Total((S \ {x}) \X (S \ {x}), F)
             a == F[<<x, x>>]
             q == Cross(S, F, x)
  <2>1. t = o + (q - a) /\ o \in Int /\ t \in Int /\ q \in Int /\ a \in Int
    BY RowIsAdded
  <2>2. ~(o <= t + b) /\ a <= b /\ rows[x] = q
    OBVIOUS
  <2> HIDE DEF o, a, q, t, rows
  <2> QED
    BY <2>1, <2>2
<1> HIDE DEF t, rows
<1>3. Total(S, rows) <= (-1) * Cardinality(S)
  <2>1. -1 \in Int /\ \A x \in S : rows[x] \in Int /\ rows[x] <= -1
    BY <1>2
  <2> QED
    BY <2>1, TotalIsBounded
<1>4. Total(S, rows) = 2 * t
  BY TotalByRows DEF rows, t
<1>5. Cardinality(S) \in Nat /\ Cardinality(S) # 0
  BY FS_CardinalityType, FS_EmptySet
<1> QED
  BY <1>1, <1>3, <1>4, <1>5

\* One element more adds at most its square and what its pairs are bounded by, when
\* there are at most n of them.
LEMMA QuadraticGains ==
  ASSUME NEW S, IsFiniteSet(S), NEW x, x \notin S, NEW F,
         \A p \in (S \cup {x}) \X (S \cup {x}) : F[p] \in Int,
         NEW n \in Nat, Cardinality(S) <= n, NEW d \in Nat,
         \A i \in S : n * (F[<<x, i>>] + F[<<i, x>>]) <= d
  PROVE  Total((S \cup {x}) \X (S \cup {x}), F) <= Total(S \X S, F) + F[<<x, x>>] + d
<1> DEFINE W == S \cup {x}
           f == [i \in S |-> F[<<x, i>>] + F[<<i, x>>]]
           h == [i \in S |-> n * (F[<<x, i>>] + F[<<i, x>>])]
           a == F[<<x, x>>]
<1>1. Total(W \X W, F) = Total(S \X S, F) + a + Total(S, f)
  <2> HIDE DEF h, a
  <2> QED
    BY QuadraticAdds DEF a
<1>2. \A i \in S : f[i] \in Int /\ h[i] = n * f[i] + 0 /\ h[i] \in Int /\ h[i] <= d
  <2> TAKE i \in S
  <2>1. F[<<x, i>>] \in Int /\ F[<<i, x>>] \in Int
    OBVIOUS
  <2>2. f[i] = F[<<x, i>>] + F[<<i, x>>] /\ h[i] = n * (F[<<x, i>>] + F[<<i, x>>]) /\ h[i] <= d
    OBVIOUS
  <2>3. f[i] \in Int
    BY <2>1, <2>2
  <2>4. h[i] = n * f[i] + 0 /\ h[i] \in Int
    <3>1. \A g \in Int : n * g = n * g + 0 /\ n * g \in Int
      OBVIOUS
    <3>2. h[i] = n * f[i]
      BY <2>2
    <3> HIDE DEF h, f
    <3> QED
      BY <2>3, <3>1, <3>2
  <2> QED
    BY <2>2, <2>3, <2>4
<1>3. a \in Int /\ Total(S \X S, F) \in Int
  <2>1. IsFiniteSet(S \X S) /\ \A p \in S \X S : F[p] \in Int
    BY FS_Product
  <2> QED
    BY <2>1, TotalType
<1> HIDE DEF f, h, a
<1>4. Total(S, f) \in Int /\ Cardinality(S) \in Nat
  BY <1>2, TotalType, FS_CardinalityType
<1>5. Total(S, h) = n * Total(S, f) + 0 * Cardinality(S)
  <2>1. n \in Int /\ 0 \in Int /\ \A i \in S : f[i] \in Int /\ h[i] = n * f[i] + 0
    BY <1>2
  <2> QED
    BY <2>1, TotalIsLinear
<1>6. Total(S, h) <= d * Cardinality(S)
  <2>1. d \in Int /\ \A i \in S : h[i] \in Int /\ h[i] <= d
    BY <1>2
  <2> QED
    BY <2>1, TotalIsBounded
<1>7. Total(S, f) <= d
  <2> DEFINE t == Total(S, f)
             c == Cardinality(S)
  <2>1. CASE n = 0
    <3>1. S = {}
      BY <1>4, <2>1, FS_EmptySet
    <3> QED
      BY <3>1, TotalOfNone
  <2>2. CASE n # 0
    <3>1. n * t <= d * c
      BY <1>4, <1>5, <1>6
    <3> HIDE DEF t, c
    <3>2. t \in Int /\ c \in Nat /\ c <= n
      BY <1>4 DEF t, c
    <3>3. d * c <= d * n
      BY <3>2
    <3>4. n * t <= n * d
      BY <3>1, <3>2, <3>3
    <3>5. ASSUME t >= d + 1 PROVE FALSE
      <4>1. n * t >= n * (d + 1) /\ n * (d + 1) = n * d + n
        BY <3>2, <3>5
      <4> QED
        BY <2>2, <3>2, <3>4, <4>1
    <3>6. t <= d
      BY <3>2, <3>5
    <3> QED
      BY <3>6 DEF t
  <2> QED
    BY <2>1, <2>2
<1> HIDE DEF W
<1>8. Total(W \X W, F) <= Total(S \X S, F) + a + d
  BY <1>1, <1>3, <1>4, <1>7
<1> QED
  BY <1>8 DEF W, a

-----------------------------------------------------------------------------
(* Quadratic forms, at a difference.                                      *)

\* A sum over pairs is the sum of its rows.
RowTotals(S, F) == [i \in S |-> Total(S, [j \in S |-> F[<<i, j>>]])]

LEMMA TotalOfRows ==
  ASSUME NEW S, IsFiniteSet(S), NEW F, \A p \in S \X S : F[p] \in Int
  PROVE  /\ Total(S \X S, F) = Total(S, RowTotals(S, F))
         /\ \A i \in S : RowTotals(S, F)[i] \in Int
<1> DEFINE R == RowTotals(S, F)
           A == {s \in SUBSET S : Total(s \X S, F) = Total(s, R)}
<1>1. \A s, t \in SUBSET S :
         IsFiniteSet(s) /\ IsFiniteSet(t) /\ IsFiniteSet(s \X t) /\ s \X t \in SUBSET (S \X S)
  BY FS_Subset, FS_Product
<1>2. ASSUME NEW x \in S
      PROVE  R[x] \in Int
  <2> DEFINE f == [j \in S |-> F[<<x, j>>]]
  <2>1. \A j \in S : f[j] \in Int
    OBVIOUS
  <2> HIDE DEF f
  <2>2. Total(S, f) \in Int
    BY <2>1, TotalType
  <2> QED
    BY <2>2 DEF f, RowTotals
<1> HIDE DEF R
<1>3. {} \in A
  <2>1. {} \X S = {} /\ Total({}, F) = 0 /\ Total({}, R) = 0
    BY TotalOfNone
  <2> QED
    BY <2>1
<1>4. ASSUME NEW s \in A, NEW x \in S, x \notin s PROVE s \cup {x} \in A
  <2> DEFINE f == [j \in S |-> F[<<x, j>>]]
             Shape(t) == (s \X S) \cup ({x} \X t)
             B == {t \in SUBSET S : Total(Shape(t), F) = Total(s \X S, F) + Total(t, f)}
  <2>1. /\ s \in SUBSET S /\ s \cup {x} \in SUBSET S /\ IsFiniteSet(s)
        /\ Total(s \X S, F) = Total(s, R)
    BY <1>1
  <2>2. \A j \in S : f[j] \in Int /\ f[j] = F[<<x, j>>]
    OBVIOUS
  <2>3. Total(s \X S, F) \in Int
    <3>1. IsFiniteSet(s \X S) /\ \A p \in s \X S : F[p] \in Int
      BY <1>1, <2>1
    <3> QED
      BY <3>1, TotalType
  <2>4. {} \in B
    <3>1. Shape({}) = s \X S
      OBVIOUS
    <3>2. Total({}, f) = 0
      BY TotalOfNone
    <3> HIDE DEF Shape, f
    <3>3. Total(Shape({}), F) = Total(s \X S, F) + Total({}, f)
      <4>1. \A a, b, c : a \in Int /\ b = a /\ c = 0 => b = a + c
        OBVIOUS
      <4>2. Total(Shape({}), F) = Total(s \X S, F)
        BY ONLY <3>1
      <4> QED
        BY ONLY <2>3, <3>2, <4>1, <4>2
    <3> QED
      BY <3>3 DEF B
  <2>5. ASSUME NEW t \in B, NEW j \in S, j \notin t PROVE t \cup {j} \in B
    <3>1. t \in SUBSET S /\ t \cup {j} \in SUBSET S
          /\ Total(Shape(t), F) = Total(s \X S, F) + Total(t, f)
      OBVIOUS
    <3>2. Shape(t \cup {j}) = Shape(t) \cup {<<x, j>>} /\ <<x, j>> \notin Shape(t)
      BY <1>4, <2>5
    <3>3. /\ IsFiniteSet(Shape(t))
          /\ \A p \in Shape(t) \cup {<<x, j>>} : F[p] \in Int
      <4>1. Shape(t) \cup {<<x, j>>} \in SUBSET (S \X S)
        BY <2>1, <3>1
      <4>2. IsFiniteSet(S \X S)
        BY <1>1
      <4> HIDE DEF Shape
      <4> QED
        BY <4>1, <4>2, FS_Subset
    <3> HIDE DEF Shape, f, B, A
    <3>4. Total(Shape(t) \cup {<<x, j>>}, F) = Total(Shape(t), F) + F[<<x, j>>]
      BY <3>2, <3>3, TotalAdds
    <3>5. IsFiniteSet(t) /\ \A k \in t \cup {j} : f[k] \in Int
      BY <1>1, <2>2, <3>1
    <3>6. Total(t \cup {j}, f) = Total(t, f) + f[j] /\ Total(t, f) \in Int /\ f[j] \in Int
      BY <2>5, <3>5, TotalAdds, TotalType
    <3>7. Total(Shape(t \cup {j}), F) = Total(s \X S, F) + Total(t \cup {j}, f)
      <4>1. F[<<x, j>>] = f[j]
        BY <2>2, <2>5
      <4>2. \A a, b, c \in Int : (a + b) + c = a + (b + c)
        OBVIOUS
      <4>3. PICK a \in Int, b \in Int, c \in Int :
               a = Total(s \X S, F) /\ b = Total(t, f) /\ c = f[j]
        BY <2>3, <3>6
      <4>4. Total(t \cup {j}, f) = b + c
        BY ONLY <3>6, <4>3
      <4>5. Total(Shape(t), F) = a + b
        BY ONLY <3>1, <4>3
      <4>6. Total(Shape(t \cup {j}), F) = (a + b) + c
        BY ONLY <3>2, <3>4, <4>1, <4>3, <4>5
      <4> QED
        BY ONLY <4>2, <4>3, <4>4, <4>6
    <3> QED
      BY <3>1, <3>7 DEF B
  <2>6. B \in SUBSET SUBSET S
    OBVIOUS
  <2>7. Shape(S) = (s \cup {x}) \X S
    OBVIOUS
  <2> HIDE DEF B, Shape, A
  <2>8. S \in B
    BY <2>4, <2>5, <2>6, BySubsets
  <2>9. Total((s \cup {x}) \X S, F) = Total(s \X S, F) + Total(S, f)
    BY <2>7, <2>8 DEF B
  <2>10. R[x] = Total(S, f)
    BY DEF f, R, RowTotals
  <2> HIDE DEF f
  <2>11. Total(s \cup {x}, R) = Total(s, R) + R[x]
    <3>1. \A y \in s \cup {x} : R[y] \in Int
      BY <1>2, <2>1
    <3> QED
      BY <1>4, <2>1, <3>1, TotalAdds
  <2> QED
    BY <2>1, <2>9, <2>10, <2>11 DEF A
<1>5. A \in SUBSET SUBSET S
  OBVIOUS
<1> HIDE DEF A
<1>6. S \in A
  BY <1>3, <1>4, <1>5, BySubsets
<1> QED
  BY <1>2, <1>6 DEF A, R

\* The form of a matrix at y, and a row of the matrix at x.
Form(S, A, y) == Total(S \X S, [p \in S \X S |-> A[p] * y[p[1]] * y[p[2]]])
RowAt(S, A, x, i) == Total(S, [j \in S |-> A[<<i, j>>] * x[j]])

\* A symmetric matrix whose rows are all n at x.
Level(S, A, x, n) ==
  /\ \A i, j \in S : A[<<i, j>>] \in Int /\ A[<<i, j>>] = A[<<j, i>>]
  /\ x \in [S -> Int] /\ n \in Int /\ \A i \in S : RowAt(S, A, x, i) = n

Apart(S, d, w, g, x) == [i \in S |-> d * w[i] - g * x[i]]

\* Its form at the difference between d times w and g times x, where d adds up the
\* parts of x and g those of w.
LEMMA FormAtDifference ==
  ASSUME NEW S, IsFiniteSet(S), NEW A, NEW x, NEW n, Level(S, A, x, n), NEW w \in [S -> Int],
         NEW d \in Int, d = Total(S, x), NEW g \in Int, g = Total(S, w)
  PROVE  /\ Form(S, A, w) \in Int
         /\ Form(S, A, Apart(S, d, w, g, x)) = d * d * Form(S, A, w) - d * g * g * n
<1> DEFINE y == Apart(S, d, w, g, x)
<1>0. /\ x \in [S -> Int] /\ n \in Int /\ \A i \in S : RowAt(S, A, x, i) = n
      /\ \A p \in S \X S : A[p] \in Int
      /\ \A i, j \in S : A[<<i, j>>] = A[<<j, i>>]
      /\ y \in [S -> Int] /\ \A i \in S : y[i] = d * w[i] - g * x[i]
  <2>1. /\ x \in [S -> Int] /\ n \in Int /\ \A i \in S : RowAt(S, A, x, i) = n
        /\ \A p \in S \X S : A[p] \in Int
        /\ \A i, j \in S : A[<<i, j>>] = A[<<j, i>>]
    <3>1. /\ x \in [S -> Int] /\ n \in Int /\ \A i \in S : RowAt(S, A, x, i) = n
          /\ \A i, j \in S : A[<<i, j>>] \in Int /\ A[<<i, j>>] = A[<<j, i>>]
      BY Zenon DEF Level
    <3>2. ASSUME NEW p \in S \X S PROVE A[p] \in Int
      <4>1. p = <<p[1], p[2]>> /\ p[1] \in S /\ p[2] \in S
        OBVIOUS
      <4> QED
        BY ONLY <3>1, <4>1
    <3> QED
      BY <3>1, <3>2
  <2>2. \A i \in S : w[i] \in Int /\ x[i] \in Int
    BY <2>1
  <2>3. \A a, b, c, e \in Int : a * b - c * e \in Int
    OBVIOUS
  <2>4. y \in [S -> Int] /\ \A i \in S : y[i] = d * w[i] - g * x[i]
    BY <2>2, <2>3 DEF Apart
  <2> QED
    BY <2>1, <2>4
<1> USE <1>0
<1> HIDE DEF y
<1> DEFINE P == S \X S
           W == [p \in P |-> A[p] * w[p[1]] * w[p[2]]]
           X == [p \in P |-> A[p] * x[p[1]] * x[p[2]]]
           M == [p \in P |-> A[p] * w[p[1]] * x[p[2]]]
           G == [p \in P |-> A[p] * w[p[1]] * x[p[2]] + A[p] * x[p[1]] * w[p[2]]]
           Y == [p \in P |-> A[p] * y[p[1]] * y[p[2]]]
           B == [p \in P |-> (d * d) * W[p] + 0]
           C == [p \in P |-> (-(d * g)) * G[p] + 0]
           D == [p \in P |-> (g * g) * X[p] + 0]
           E == [p \in P |-> B[p] + C[p]]
           Q == Form(S, A, w)
<1>1. IsFiniteSet(P) /\ IsFiniteSet(S)
  BY FS_Product
<1>2. ASSUME NEW p \in P
      PROVE  /\ A[p] \in Int /\ w[p[1]] \in Int /\ w[p[2]] \in Int
             /\ x[p[1]] \in Int /\ x[p[2]] \in Int /\ y[p[1]] \in Int /\ y[p[2]] \in Int
             /\ y[p[1]] = d * w[p[1]] - g * x[p[1]] /\ y[p[2]] = d * w[p[2]] - g * x[p[2]]
  BY <1>2
<1>3. \A a, b, c \in Int : a * b * c \in Int
  OBVIOUS
<1>4. ASSUME NEW p \in P PROVE W[p] \in Int /\ X[p] \in Int /\ M[p] \in Int /\ G[p] \in Int
  <2>1. /\ W[p] = A[p] * w[p[1]] * w[p[2]] /\ X[p] = A[p] * x[p[1]] * x[p[2]]
        /\ M[p] = A[p] * w[p[1]] * x[p[2]]
        /\ G[p] = A[p] * w[p[1]] * x[p[2]] + A[p] * x[p[1]] * w[p[2]]
    BY <1>4
  <2> HIDE DEF W, X, M, G
  <2>2. \A a, b, c, e, k \in Int : a * b * c + a * e * k \in Int
    OBVIOUS
  <2> QED
    BY <1>2, <1>3, <2>1, <2>2
<1>5. ASSUME NEW p \in P
      PROVE  /\ B[p] \in Int /\ B[p] = (d * d) * W[p] + 0
             /\ C[p] \in Int /\ C[p] = (-(d * g)) * G[p] + 0
             /\ D[p] \in Int /\ D[p] = (g * g) * X[p] + 0
             /\ E[p] \in Int /\ E[p] = B[p] + C[p]
             /\ Y[p] = E[p] + D[p]
  <2>1. /\ W[p] = A[p] * w[p[1]] * w[p[2]] /\ X[p] = A[p] * x[p[1]] * x[p[2]]
        /\ G[p] = A[p] * w[p[1]] * x[p[2]] + A[p] * x[p[1]] * w[p[2]]
        /\ Y[p] = A[p] * y[p[1]] * y[p[2]]
    BY <1>5
  <2> HIDE DEF W, X, G, Y
  <2>2. /\ B[p] = (d * d) * W[p] + 0 /\ C[p] = (-(d * g)) * G[p] + 0
        /\ D[p] = (g * g) * X[p] + 0 /\ E[p] = B[p] + C[p]
    BY <1>5
  <2> HIDE DEF B, C, D, E
  <2>3. \A a, b \in Int : a * b + 0 \in Int /\ a + b \in Int /\ -(a * b) \in Int /\ a * b \in Int
    OBVIOUS
  <2>4. B[p] \in Int /\ C[p] \in Int /\ D[p] \in Int /\ E[p] \in Int
    BY <1>4, <2>2, <2>3
  <2>5. \A a, b, c, h, k \in Int :
           a * (d * b - g * h) * (d * c - g * k)
             = ((d * d) * (a * b * c) + 0) + ((-(d * g)) * (a * b * k + a * h * c) + 0)
               + ((g * g) * (a * h * k) + 0)
    OBVIOUS
  <2>6. Y[p] = E[p] + D[p]
    <3>1. PICK a \in Int, b \in Int, c \in Int, h \in Int, k \in Int :
             /\ a = A[p] /\ b = w[p[1]] /\ c = w[p[2]] /\ h = x[p[1]] /\ k = x[p[2]]
      BY <1>2
    <3>2. Y[p] = a * (d * b - g * h) * (d * c - g * k)
      BY <1>2, <2>1, <3>1
    <3>3. W[p] = a * b * c /\ G[p] = a * b * k + a * h * c /\ X[p] = a * h * k
      BY <2>1, <3>1
    <3>4. E[p] + D[p] = ((d * d) * (a * b * c) + 0) + ((-(d * g)) * (a * b * k + a * h * c) + 0)
                        + ((g * g) * (a * h * k) + 0)
      BY <2>2, <3>3
    <3>5. a * (d * b - g * h) * (d * c - g * k)
            = ((d * d) * (a * b * c) + 0) + ((-(d * g)) * (a * b * k + a * h * c) + 0)
              + ((g * g) * (a * h * k) + 0)
      BY ONLY <2>5, a \in Int, b \in Int, c \in Int, h \in Int, k \in Int
    <3> QED
      BY ONLY <3>2, <3>4, <3>5
  <2> QED
    BY <2>2, <2>4, <2>6
<1> HIDE DEF B, C, D, E, Y
<1>6. /\ Total(P, W) \in Int /\ Total(P, X) \in Int /\ Total(P, G) \in Int /\ Total(P, M) \in Int
  <2> HIDE DEF W, X, G, M, P
  <2> QED
    BY <1>1, <1>4, TotalType
<1>7. Total(P, Y) = (d * d) * Total(P, W) + (-(d * g)) * Total(P, G) + (g * g) * Total(P, X)
  <2> HIDE DEF W, X, G, P
  <2>1. Total(P, Y) = Total(P, E) + Total(P, D)
    BY ONLY <1>1, <1>5, TotalOfSum
  <2>2. Total(P, E) = Total(P, B) + Total(P, C)
    BY ONLY <1>1, <1>5, TotalOfSum
  <2>3. d * d \in Int /\ -(d * g) \in Int /\ g * g \in Int /\ 0 \in Int /\ Cardinality(P) \in Int
    BY <1>1, FS_CardinalityType
  <2>4. /\ Total(P, B) = (d * d) * Total(P, W) + 0 * Cardinality(P)
        /\ Total(P, C) = (-(d * g)) * Total(P, G) + 0 * Cardinality(P)
        /\ Total(P, D) = (g * g) * Total(P, X) + 0 * Cardinality(P)
    <3>1. \A p \in P : W[p] \in Int /\ B[p] = (d * d) * W[p] + 0
      BY <1>4, <1>5
    <3>2. \A p \in P : G[p] \in Int /\ C[p] = (-(d * g)) * G[p] + 0
      BY <1>4, <1>5
    <3>3. \A p \in P : X[p] \in Int /\ D[p] = (g * g) * X[p] + 0
      BY <1>4, <1>5
    <3>4. PICK k \in Int, l \in Int, m \in Int : k = d * d /\ l = -(d * g) /\ m = g * g
      BY <2>3
    <3>5. /\ \A p \in P : W[p] \in Int /\ B[p] = k * W[p] + 0
          /\ \A p \in P : G[p] \in Int /\ C[p] = l * G[p] + 0
          /\ \A p \in P : X[p] \in Int /\ D[p] = m * X[p] + 0
      BY <3>1, <3>2, <3>3, <3>4
    <3>6. Total(P, B) = k * Total(P, W) + 0 * Cardinality(P)
      BY ONLY <1>1, <2>3, <3>4, <3>5, TotalIsLinear
    <3>7. Total(P, C) = l * Total(P, G) + 0 * Cardinality(P)
      BY ONLY <1>1, <2>3, <3>4, <3>5, TotalIsLinear
    <3>8. Total(P, D) = m * Total(P, X) + 0 * Cardinality(P)
      BY ONLY <1>1, <2>3, <3>4, <3>5, TotalIsLinear
    <3> QED
      BY <3>4, <3>6, <3>7, <3>8
  <2>5. \A a, b, c, e \in Int : (a * b + 0 * c) \in Int /\ a * b + 0 * c = a * b
    OBVIOUS
  <2> QED
    BY <1>6, <2>1, <2>2, <2>3, <2>4, <2>5
\* The rows of the mixed form, at x and at w.
<1>8. ASSUME NEW z \in [S -> Int], NEW F, \A p \in P : F[p] = A[p] * z[p[1]] * x[p[2]]
      PROVE  Total(P, F) = n * Total(S, z)
  <2> DEFINE R == RowTotals(S, F)
  <2>1. \A p \in P : F[p] \in Int
    BY <1>2, <1>3, <1>8
  <2>2. ASSUME NEW i \in S PROVE R[i] = n * z[i] + 0
    <3> DEFINE a == [j \in S |-> A[<<i, j>>] * x[j]]
               b == [j \in S |-> F[<<i, j>>]]
    <3>1. PICK k \in Int : k = z[i]
      BY <1>8
    <3>2. ASSUME NEW j \in S PROVE a[j] \in Int /\ b[j] = k * a[j] + 0
      <4>1. <<i, j>> \in P /\ <<i, j>>[1] = i /\ <<i, j>>[2] = j
        BY <3>2
      <4>2. b[j] = A[<<i, j>>] * k * x[j]
        BY <1>8, <3>1, <4>1
      <4>3. a[j] = A[<<i, j>>] * x[j] /\ A[<<i, j>>] \in Int /\ x[j] \in Int
        BY <4>1
      <4>4. \A l, m \in Int : l * k * m = k * (l * m) + 0 /\ l * m \in Int
        OBVIOUS
      <4> HIDE DEF a, b
      <4> QED
        BY <4>2, <4>3, <4>4
    <3>3. Total(S, a) = n /\ Cardinality(S) \in Int
      BY FS_CardinalityType DEF RowAt
    <3>4. R[i] = Total(S, b)
      BY DEF RowTotals
    <3> HIDE DEF a, b, R
    <3>5. Total(S, b) = k * Total(S, a) + 0 * Cardinality(S)
      <4>1. \A j \in S : a[j] \in Int /\ b[j] = k * a[j] + 0
        BY <3>2
      <4> QED
        BY <4>1, TotalIsLinear
    <3>6. \A m \in Int : k * n + 0 * m = n * k + 0
      OBVIOUS
    <3> QED
      BY <3>1, <3>3, <3>4, <3>5, <3>6
  <2> HIDE DEF R
  <2>4. Total(P, F) = Total(S, R)
    <3>1. \A p \in S \X S : F[p] \in Int
      BY <2>1
    <3> HIDE DEF P
    <3>2. Total(S \X S, F) = Total(S, RowTotals(S, F))
      BY <1>1, <3>1, TotalOfRows
    <3> QED
      BY <3>2 DEF P, R
  <2>5. \A i \in S : z[i] \in Int /\ R[i] = n * z[i] + 0
    BY <2>2
  <2>6. Total(S, R) = n * Total(S, z) + 0 * Cardinality(S)
    BY <2>5, TotalIsLinear
  <2>7. Total(S, z) \in Int /\ Cardinality(S) \in Int
    BY FS_CardinalityType, TotalType
  <2> QED
    BY <2>4, <2>6, <2>7
<1>9. Total(P, X) = n * d /\ Total(P, M) = n * g
  <2>1. \A p \in P : X[p] = A[p] * x[p[1]] * x[p[2]] /\ M[p] = A[p] * w[p[1]] * x[p[2]]
    OBVIOUS
  <2> HIDE DEF X, M, P
  <2> QED
    BY <1>8, <2>1
<1>10. Total(P, G) = 2 * (n * g)
  <2> DEFINE R == RowTotals(S, G)
             H == [i \in S |-> Cross(S, M, i)]
  <2>1. ASSUME NEW i \in S PROVE H[i] = R[i]
    <3> DEFINE a == [j \in S |-> M[<<i, j>>] + M[<<j, i>>]]
               b == [j \in S |-> G[<<i, j>>]]
    <3>1. ASSUME NEW j \in S PROVE b[j] = a[j]
      <4>1. <<i, j>> \in P /\ <<j, i>> \in P /\ A[<<i, j>>] = A[<<j, i>>]
        BY <3>1
      <4>2. /\ M[<<i, j>>] = A[<<i, j>>] * w[i] * x[j] /\ M[<<j, i>>] = A[<<i, j>>] * w[j] * x[i]
            /\ G[<<i, j>>] = A[<<i, j>>] * w[i] * x[j] + A[<<i, j>>] * x[i] * w[j]
        BY <4>1
      <4>3. A[<<i, j>>] \in Int /\ w[j] \in Int /\ x[i] \in Int /\ w[i] \in Int /\ x[j] \in Int
        BY <4>1
      <4>4. \A k, l, m \in Int : k * l * m = k * m * l
        OBVIOUS
      <4> HIDE DEF M, G
      <4> QED
        BY <4>2, <4>3, <4>4
    <3>2. a = b
      BY <3>1
    <3> QED
      BY <3>2 DEF Cross, RowTotals
  <2>2. H = R
    BY <2>1 DEF RowTotals
  <2>3. \A p \in S \X S : M[p] \in Int /\ G[p] \in Int
    BY <1>4
  <2>5. H = [i \in S |-> Cross(S, M, i)]
    OBVIOUS
  <2> HIDE DEF M, G, R, H
  <2>6. Total(S, H) = 2 * Total(S \X S, M)
    BY <2>3, <2>5, TotalByRows
  <2>7. Total(S \X S, G) = Total(S, R)
    <3>1. \A p \in S \X S : G[p] \in Int
      BY <2>3
    <3>2. Total(S \X S, G) = Total(S, RowTotals(S, G))
      BY <1>1, <3>1, TotalOfRows
    <3> QED
      BY <3>2 DEF R
  <2> QED
    BY <1>9, <2>2, <2>6, <2>7
<1>11. Total(P, W) = Q
  BY DEF Form
<1> HIDE DEF W, X, M, G, P, Q
<1>12. \A q, k \in Int :
         (d * d) * q + (-(d * g)) * (2 * (k * g)) + (g * g) * (k * d) = d * d * q - d * g * g * k
  OBVIOUS
<1>13. Q \in Int /\ Total(P, Y) = d * d * Q - d * g * g * n
  BY <1>6, <1>7, <1>9, <1>10, <1>11, <1>12
<1> QED
  BY <1>13 DEF Y, P, Q, Form, y
=============================================================================
