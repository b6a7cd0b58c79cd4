----------------------------- MODULE SolversProofs -----------------------------
(***************************************************************************)
(* Theorems about the solvers, for every universe and request: the size of *)
(* the quantum solvers' selections, the matrix they work on, the frontier  *)
(* and the limits the answer meets.                                        *)
(***************************************************************************)
EXTENDS Solvers, FiniteSums

-----------------------------------------------------------------------------
(* The size that is asked for, and the repair.                             *)

\* The greater and the less of two.
LEMMA MaxOfTwo ==
  ASSUME NEW a \in Int, NEW b \in Int PROVE Max({a, b}) = IF a >= b THEN a ELSE b
BY DEF Max

LEMMA MinOfTwo ==
  ASSUME NEW a \in Int, NEW b \in Int PROVE Min({a, b}) = IF a <= b THEN a ELSE b
BY DEF Min

\* The dispatcher never asks for more assets than there are.
LEMMA SizeInRange ==
  ASSUME NEW v, N(v) \in Nat \ {0}
  PROVE  TargetSize(v) \in 1..N(v)
<1>1. N(v) \div 2 \in Int  OBVIOUS
<1>2. Max({2, N(v) \div 2}) \in Int /\ Max({2, N(v) \div 2}) >= 2  BY <1>1, MaxOfTwo
<1>3. Min({Max({2, N(v) \div 2}), N(v)}) \in 1..N(v)  BY <1>2, MinOfTwo
<1>4. QED  BY <1>3, MaxOfTwo DEF TargetSize

\* Sets of assets are finite, and there are N of them in all.
LEMMA AssetsFinite ==
  ASSUME NEW v, N(v) \in Nat \ {0}, NEW S \in SUBSET Assets(v)
  PROVE  IsFiniteSet(S) /\ Cardinality(S) \in Nat /\ Cardinality(Assets(v)) = N(v)
<1>1. IsFiniteSet(Assets(v)) /\ Cardinality(Assets(v)) = N(v)
  BY FS_Interval DEF Assets, N
<1>2. QED  BY <1>1, FS_Subset, FS_CardinalityType

\* _enforce_cardinality returns a selection of exactly the size asked for.
THEOREM RepairGivesSize ==
  ASSUME NEW v, N(v) \in Nat \ {0}, NEW k \in 1..N(v), NEW S \in SUBSET Assets(v),
         NEW T \in EnforceCardinality(v, S, k)
  PROVE  T \in SUBSET Assets(v) /\ Cardinality(T) = k
<1>1. IsFiniteSet(S) /\ Cardinality(S) \in Nat  BY AssetsFinite
<1>2. CASE Cardinality(S) = k
  <2>1. EnforceCardinality(v, S, k) = {S}  BY <1>2 DEF EnforceCardinality
  <2>2. QED  BY <1>2, <2>1
<1>3. CASE Cardinality(S) > k
  <2>1. PICK R \in LowestReturns(v, S, Cardinality(S) - k) : T = S \ R
    BY <1>1, <1>3 DEF EnforceCardinality
  <2>2. R \in SUBSET S /\ Cardinality(R) = Cardinality(S) - k  BY <2>1 DEF LowestReturns
  <2>3. S \cap R = R  BY <2>2
  <2>4. Cardinality(T) = Cardinality(S) - Cardinality(R)  BY <1>1, <2>1, <2>3, FS_Difference
  <2>5. QED  BY <1>1, <2>1, <2>2, <2>4
<1>4. CASE Cardinality(S) < k
  <2>0. ~(Cardinality(S) = k) /\ ~(Cardinality(S) > k)  BY <1>1, <1>4
  <2>1. PICK R \in HighestReturns(v, Assets(v) \ S, k - Cardinality(S)) : T = S \cup R
    BY <1>4, <2>0 DEF EnforceCardinality
  <2>2. R \in SUBSET (Assets(v) \ S) /\ Cardinality(R) = k - Cardinality(S)
    BY <2>1 DEF HighestReturns
  <2>3. IsFiniteSet(R)  BY <2>2, AssetsFinite
  <2>4. S \cap R = {} /\ T \in SUBSET Assets(v)  BY <2>1, <2>2
  <2>5. Cardinality(T) = Cardinality(S) + Cardinality(R)
    <3>1. Cardinality(S \cap R) = 0  BY <2>4, FS_EmptySet
    <3>2. Cardinality(T) = Cardinality(S) + Cardinality(R) - Cardinality(S \cap R)
      BY <1>1, <2>1, <2>3, FS_Union
    <3>3. QED  BY <1>1, <2>2, <3>1, <3>2
  <2>6. QED  BY <1>1, <2>2, <2>4, <2>5
<1>5. QED  BY <1>1, <1>2, <1>3, <1>4

-----------------------------------------------------------------------------
(* The two threads.                                                        *)

SelectionInv == /\ problem \in Problems
                /\ DOMAIN threads = Algorithms /\ DOMAIN selection = Algorithms
                /\ RightSize

\* A solver that returns a repaired selection keeps the sizes right.
LEMMA SelectedKeeps ==
  ASSUME SelectionInv, NEW a \in Algorithms, NEW S \in SUBSET Assets(u),
         NEW T \in EnforceCardinality(u, S, TargetSize(u)), Selected(a, T), UNCHANGED problem
  PROVE  SelectionInv'
<1>1. N(u) \in Nat \ {0} /\ u' = u  BY UniverseAssumption DEF SelectionInv, u
<1>2. Cardinality(T) = TargetSize(u)  BY <1>1, SizeInRange, RepairGivesSize
<1>3. TargetSize(u)' = TargetSize(u)  BY <1>1
<1>4. QED  BY <1>2, <1>3 DEF SelectionInv, Selected, RightSize

\* Whatever the circuits return and however often a solver falls back or times
\* out, a selection has the size the dispatcher asked for.
THEOREM SelectionsHaveTheSize == Spec => []RightSize
<1>1. Init => SelectionInv
  BY DEF Init, SelectionInv, RightSize
<1>2. SelectionInv /\ [Next]_vars => SelectionInv'
  <2>1. SUFFICES ASSUME SelectionInv, [Next]_vars PROVE SelectionInv'  OBVIOUS
  <2>2. CASE UNCHANGED <<problem, threads, selection>>
    BY <2>1, <2>2 DEF SelectionInv, RightSize, u
  <2>3. CASE Validate \/ SolveClassical \/ Collect \/ Anchors \/ SweepLevel \/ Report
    BY <2>2, <2>3 DEF Validate, SolveClassical, Collect, Anchors, SweepLevel, Report
  <2>4. CASE Dispatch
    BY <2>1, <2>4 DEF Dispatch, SelectionInv, RightSize
  <2>5. CASE QaoaReturns
    BY <2>1, <2>5, SelectedKeeps DEF QaoaReturns, Algorithms
  <2>6. CASE VqeReturns
    BY <2>1, <2>6, SelectedKeeps DEF VqeReturns, Algorithms
  <2>7. ASSUME NEW a \in Algorithms, FallsBack(a) PROVE SelectionInv'
    <3>1. PICK S \in GreedySelection(u, TargetSize(u)) :
            \E T \in EnforceCardinality(u, S, TargetSize(u)) : Selected(a, T)
      BY <2>7 DEF FallsBack
    <3>2. S \in SUBSET Assets(u)  BY <3>1 DEF GreedySelection, HighestReturns
    <3>3. QED  BY <2>1, <2>7, <3>1, <3>2, SelectedKeeps DEF FallsBack
  <2>8. ASSUME NEW a \in Algorithms, TimesOut(a) PROVE SelectionInv'
    BY <2>1, <2>8 DEF TimesOut, SelectionInv, RightSize, u
  <2>9. CASE UNCHANGED vars  BY <2>2, <2>9 DEF vars
  <2>10. QED  BY <2>1, <2>3, <2>4, <2>5, <2>6, <2>7, <2>8, <2>9 DEF Next
<1>3. SelectionInv => RightSize  BY DEF SelectionInv
<1>4. QED  BY <1>1, <1>2, <1>3, PTL DEF Spec

-----------------------------------------------------------------------------
(* The measures are sums.                                                  *)

\* So are the sets the measures sum over.
LEMMA AssetsAreFinite ==
  ASSUME NEW v, N(v) \in Nat
  PROVE  /\ IsFiniteSet(Assets(v)) /\ IsFiniteSet(Assets(v) \X Assets(v))
         /\ \A s : IsFiniteSet(Members(v, s)) /\ Members(v, s) \in SUBSET Assets(v)
         /\ IsFiniteSet(SectorsOf(v))
<1>1. IsFiniteSet(Assets(v))
  BY FS_Interval DEF Assets, N
<1>2. IsFiniteSet(Assets(v) \X Assets(v))
  BY <1>1, FS_Product
<1>3. ASSUME NEW s PROVE IsFiniteSet(Members(v, s)) /\ Members(v, s) \in SUBSET Assets(v)
  <2>1. Members(v, s) \in SUBSET Assets(v)
    BY DEF Members
  <2> QED
    BY <1>1, <2>1, FS_Subset
<1>4. IsFiniteSet(SectorsOf(v))
  <2> DEFINE T == {v.sector[i] : i \in Assets(v)}
             h == [i \in Assets(v) |-> v.sector[i]]
  <2>1. h \in Surjection(Assets(v), T)
    BY DEF Surjection
  <2>2. IsFiniteSet(T)
    BY <1>1, <2>1, FS_Surjection
  <2>3. SectorsOf(v) \in SUBSET T
    BY DEF SectorsOf
  <2> QED
    BY <2>2, <2>3, FS_Subset
<1> QED
  BY <1>1, <1>2, <1>3, <1>4

\* Each measure as a Total.
LEMMA ReturnIs ==
  ASSUME NEW v, N(v) \in Nat, NEW w
  PROVE  Return(v, w) = Total(Assets(v), [i \in Assets(v) |-> v.mu[i] * w[i]])
<1> DEFINE S == Assets(v)
           f == [i \in S |-> v.mu[i] * w[i]]
           Is(g) == g = [s \in SUBSET S |-> IF s = {} THEN 0
                                            ELSE v.mu[One(s)] * w[One(s)] + g[s \ {One(s)}]]
           g == CHOOSE h : Is(h)
<1>1. Return(v, w) = g[S]
  BY DEF Return, MapThenSumSet, MapThenFoldSet, One
<1>2. IsFiniteSet(S)
  BY AssetsAreFinite
<1>3. ASSUME NEW h PROVE Is(h) <=> Sums(S, f, h)
  <2>1. \A s \in SUBSET S : s # {} => f[One(s)] = v.mu[One(s)] * w[One(s)]
    BY <1>2, OneOf
  <2> HIDE DEF f
  <2> QED
    BY <2>1 DEF Sums
<1>4. Is(g)
  BY <1>2, <1>3, SumsExist
<1> QED
  BY <1>1, <1>2, <1>3, <1>4, TotalIs

LEMMA VarianceIs ==
  ASSUME NEW v, N(v) \in Nat, NEW w
  PROVE  LET S == Assets(v) \X Assets(v)
         IN  Variance(v, w) = Total(S, [p \in S |-> v.sigma[p[1]][p[2]] * w[p[1]] * w[p[2]]])
<1> DEFINE S == Assets(v) \X Assets(v)
           f == [p \in S |-> v.sigma[p[1]][p[2]] * w[p[1]] * w[p[2]]]
           Is(g) == g = [s \in SUBSET S |->
                           IF s = {} THEN 0
                           ELSE v.sigma[One(s)[1]][One(s)[2]] * w[One(s)[1]] * w[One(s)[2]]
                                + g[s \ {One(s)}]]
           g == CHOOSE h : Is(h)
<1>1. Variance(v, w) = g[S]
  BY DEF Variance, MapThenSumSet, MapThenFoldSet, One
<1>2. IsFiniteSet(S)
  BY AssetsAreFinite
<1>3. ASSUME NEW h PROVE Is(h) <=> Sums(S, f, h)
  <2>1. \A s \in SUBSET S : s # {} =>
          f[One(s)] = v.sigma[One(s)[1]][One(s)[2]] * w[One(s)[1]] * w[One(s)[2]]
    BY <1>2, OneOf
  <2> HIDE DEF f, S
  <2> QED
    BY <2>1 DEF Sums
<1>4. Is(g)
  BY <1>2, <1>3, SumsExist
<1> QED
  BY <1>1, <1>2, <1>3, <1>4, TotalIs

LEMMA LoadIs ==
  ASSUME NEW v, N(v) \in Nat, NEW w, NEW k
  PROVE  Load(v, w, k) = Total(Assets(v), [i \in Assets(v) |-> v.root[k][i] * w[i]])
<1> DEFINE S == Assets(v)
           f == [i \in S |-> v.root[k][i] * w[i]]
           Is(g) == g = [s \in SUBSET S |-> IF s = {} THEN 0
                                            ELSE v.root[k][One(s)] * w[One(s)] + g[s \ {One(s)}]]
           g == CHOOSE h : Is(h)
<1>1. Load(v, w, k) = g[S]
  BY DEF Load, MapThenSumSet, MapThenFoldSet, One
<1>2. IsFiniteSet(S)
  BY AssetsAreFinite
<1>3. ASSUME NEW h PROVE Is(h) <=> Sums(S, f, h)
  <2>1. \A s \in SUBSET S : s # {} => f[One(s)] = v.root[k][One(s)] * w[One(s)]
    BY <1>2, OneOf
  <2> HIDE DEF f, S
  <2> QED
    BY <2>1 DEF Sums
<1>4. Is(g)
  BY <1>2, <1>3, SumsExist
<1> QED
  BY <1>1, <1>2, <1>3, <1>4, TotalIs

LEMMA SolverVarianceIs ==
  ASSUME NEW v, N(v) \in Nat, NEW w
  PROVE  SolverVariance(v, w)
           = Total(Assets(v), [i \in Assets(v) |-> Load(v, w, i) * Load(v, w, i)])
<1> DEFINE S == Assets(v)
           f == [i \in S |-> Load(v, w, i) * Load(v, w, i)]
           Is(g) == g = [s \in SUBSET S |-> IF s = {} THEN 0
                                            ELSE Load(v, w, One(s)) * Load(v, w, One(s)) + g[s \ {One(s)}]]
           g == CHOOSE h : Is(h)
<1>1. SolverVariance(v, w) = g[S]
  BY DEF SolverVariance, MapThenSumSet, MapThenFoldSet, One
<1>2. IsFiniteSet(S)
  BY AssetsAreFinite
<1>3. ASSUME NEW h PROVE Is(h) <=> Sums(S, f, h)
  <2>1. \A s \in SUBSET S : s # {} => f[One(s)] = Load(v, w, One(s)) * Load(v, w, One(s))
    BY <1>2, OneOf
  <2> HIDE DEF f, S
  <2> QED
    BY <2>1 DEF Sums
<1>4. Is(g)
  BY <1>2, <1>3, SumsExist
<1> QED
  BY <1>1, <1>2, <1>3, <1>4, TotalIs

LEMMA RootProductIs ==
  ASSUME NEW v, N(v) \in Nat, NEW a, NEW b
  PROVE  MapThenSumSet(LAMBDA k : v.root[a][k] * v.root[b][k], Assets(v))
           = Total(Assets(v), [i \in Assets(v) |-> v.root[a][i] * v.root[b][i]])
<1> DEFINE S == Assets(v)
           f == [i \in S |-> v.root[a][i] * v.root[b][i]]
           Is(g) == g = [s \in SUBSET S |-> IF s = {} THEN 0
                                            ELSE v.root[a][One(s)] * v.root[b][One(s)] + g[s \ {One(s)}]]
           g == CHOOSE h : Is(h)
<1>1. MapThenSumSet(LAMBDA k : v.root[a][k] * v.root[b][k], S) = g[S]
  BY DEF MapThenSumSet, MapThenFoldSet, One
<1>2. IsFiniteSet(S)
  BY AssetsAreFinite
<1>3. ASSUME NEW h PROVE Is(h) <=> Sums(S, f, h)
  <2>1. \A s \in SUBSET S : s # {} => f[One(s)] = v.root[a][One(s)] * v.root[b][One(s)]
    BY <1>2, OneOf
  <2> HIDE DEF f, S
  <2> QED
    BY <2>1 DEF Sums
<1>4. Is(g)
  BY <1>2, <1>3, SumsExist
<1> QED
  BY <1>1, <1>2, <1>3, <1>4, TotalIs

LEMMA HhiIs ==
  ASSUME NEW v, N(v) \in Nat, NEW w
  PROVE  Hhi(v, w) = Total(Assets(v), [i \in Assets(v) |-> w[i] * w[i]])
<1> DEFINE S == Assets(v)
           f == [i \in S |-> w[i] * w[i]]
           Is(g) == g = [s \in SUBSET S |-> IF s = {} THEN 0
                                            ELSE w[One(s)] * w[One(s)] + g[s \ {One(s)}]]
           g == CHOOSE h : Is(h)
<1>1. Hhi(v, w) = g[S]
  BY DEF Hhi, MapThenSumSet, MapThenFoldSet, One
<1>2. IsFiniteSet(S)
  BY AssetsAreFinite
<1>3. ASSUME NEW h PROVE Is(h) <=> Sums(S, f, h)
  <2>1. \A s \in SUBSET S : s # {} => f[One(s)] = w[One(s)] * w[One(s)]
    BY <1>2, OneOf
  <2> HIDE DEF f, S
  <2> QED
    BY <2>1 DEF Sums
<1>4. Is(g)
  BY <1>2, <1>3, SumsExist
<1> QED
  BY <1>1, <1>2, <1>3, <1>4, TotalIs

LEMMA SectorWeightIs ==
  ASSUME NEW v, N(v) \in Nat, NEW w, NEW x
  PROVE  SectorWeight(v, w, x) = Total(Members(v, x), [i \in Members(v, x) |-> w[i]])
<1> DEFINE S == Members(v, x)
           f == [i \in S |-> w[i]]
           Is(g) == g = [s \in SUBSET S |-> IF s = {} THEN 0
                                            ELSE w[One(s)] + g[s \ {One(s)}]]
           g == CHOOSE h : Is(h)
<1>1. SectorWeight(v, w, x) = g[S]
  BY DEF SectorWeight, MapThenSumSet, MapThenFoldSet, One
<1>2. IsFiniteSet(S)
  BY AssetsAreFinite
<1>3. ASSUME NEW h PROVE Is(h) <=> Sums(S, f, h)
  <2>1. \A s \in SUBSET S : s # {} => f[One(s)] = w[One(s)]
    BY <1>2, OneOf
  <2> HIDE DEF f, S
  <2> QED
    BY <2>1 DEF Sums
<1>4. Is(g)
  BY <1>2, <1>3, SumsExist
<1> QED
  BY <1>1, <1>2, <1>3, <1>4, TotalIs

LEMMA SectorsAre ==
  ASSUME NEW v, N(v) \in Nat, NEW w
  PROVE  LET S == SectorsOf(v)
         IN  MapThenSumSet(LAMBDA s : SectorWeight(v, w, s) * SectorWeight(v, w, s), S)
               = Total(S, [x \in S |-> SectorWeight(v, w, x) * SectorWeight(v, w, x)])
<1> DEFINE S == SectorsOf(v)
           f == [x \in S |-> SectorWeight(v, w, x) * SectorWeight(v, w, x)]
           Is(g) == g = [s \in SUBSET S |->
                           IF s = {} THEN 0
                           ELSE SectorWeight(v, w, One(s)) * SectorWeight(v, w, One(s))
                                + g[s \ {One(s)}]]
           g == CHOOSE h : Is(h)
<1>1. MapThenSumSet(LAMBDA s : SectorWeight(v, w, s) * SectorWeight(v, w, s), S) = g[S]
  BY DEF MapThenSumSet, MapThenFoldSet, One
<1>2. IsFiniteSet(S)
  BY AssetsAreFinite
<1>3. ASSUME NEW h PROVE Is(h) <=> Sums(S, f, h)
  <2>1. \A s \in SUBSET S : s # {} =>
          f[One(s)] = SectorWeight(v, w, One(s)) * SectorWeight(v, w, One(s))
    BY <1>2, OneOf
  <2> HIDE DEF f, S
  <2> QED
    BY <2>1 DEF Sums
<1>4. Is(g)
  BY <1>2, <1>3, SumsExist
<1> QED
  BY <1>1, <1>2, <1>3, <1>4, TotalIs

\* The measures an axis may have are integers.
LEMMA MeasuresAreIntegers ==
  ASSUME NEW v, N(v) \in Nat, IsUniverse(v), NEW w \in [Assets(v) -> 0..Grid]
  PROVE  /\ \A name \in Axes : Measure(name, v, w) \in Int /\ Raw(name, v, w) \in Int
         /\ Return(v, w) \in Int /\ Variance(v, w) \in Int
<1>1. /\ IsFiniteSet(Assets(v)) /\ IsFiniteSet(Assets(v) \X Assets(v))
      /\ \A s : IsFiniteSet(Members(v, s)) /\ Members(v, s) \in SUBSET Assets(v)
      /\ IsFiniteSet(SectorsOf(v))
  BY AssetsAreFinite
<1>2. \A i \in Assets(v) : w[i] \in Int /\ v.mu[i] \in Int /\ \A j \in Assets(v) : v.sigma[i][j] \in Int
  <2>1. \A i \in Assets(v) : w[i] \in Int
    BY GridAssumption
  <2>2. \A i \in Assets(v) : v.mu[i] \in Int
    BY DEF Assets, N, IsUniverse
  <2>3. \A i, j \in Assets(v) : v.sigma[i][j] \in Int
    BY DEF IsUniverse
  <2> QED
    BY <2>1, <2>2, <2>3
<1>3. Return(v, w) \in Int
  <2> DEFINE f == [i \in Assets(v) |-> v.mu[i] * w[i]]
  <2>1. \A i \in Assets(v) : f[i] \in Int
    BY <1>2
  <2>2. Return(v, w) = Total(Assets(v), f)
    BY ReturnIs
  <2> HIDE DEF f
  <2> QED
    BY <1>1, <2>1, <2>2, TotalType
<1>4. Variance(v, w) \in Int
  <2> DEFINE f == [p \in Assets(v) \X Assets(v) |-> v.sigma[p[1]][p[2]] * w[p[1]] * w[p[2]]]
  <2>1. ASSUME NEW p \in Assets(v) \X Assets(v) PROVE f[p] \in Int
    <3>1. p[1] \in Assets(v) /\ p[2] \in Assets(v)
      OBVIOUS
    <3>2. v.sigma[p[1]][p[2]] \in Int /\ w[p[1]] \in Int /\ w[p[2]] \in Int
      BY <1>2, <3>1
    <3> QED
      BY <3>2
  <2>2. Variance(v, w) = Total(Assets(v) \X Assets(v), f)
    BY VarianceIs
  <2> HIDE DEF f
  <2> QED
    BY <1>1, <2>1, <2>2, TotalType
<1>5. Hhi(v, w) \in Int
  <2> DEFINE f == [i \in Assets(v) |-> w[i] * w[i]]
  <2>1. \A i \in Assets(v) : f[i] \in Int
    BY <1>2
  <2>2. Hhi(v, w) = Total(Assets(v), f)
    BY HhiIs
  <2> HIDE DEF f
  <2> QED
    BY <1>1, <2>1, <2>2, TotalType
<1>6. ASSUME NEW x PROVE SectorWeight(v, w, x) \in Int
  <2> DEFINE f == [i \in Members(v, x) |-> w[i]]
  <2>1. \A i \in Members(v, x) : f[i] \in Int
    BY <1>1, <1>2
  <2>2. SectorWeight(v, w, x) = Total(Members(v, x), f)
    BY SectorWeightIs
  <2> HIDE DEF f
  <2> QED
    BY <1>1, <2>1, <2>2, TotalType
<1>7. SectorConcentration(v, w) \in Int
  <2> DEFINE f == [x \in SectorsOf(v) |-> SectorWeight(v, w, x) * SectorWeight(v, w, x)]
             sum == MapThenSumSet(LAMBDA s : SectorWeight(v, w, s) * SectorWeight(v, w, s), SectorsOf(v))
  <2>1. \A x \in SectorsOf(v) : f[x] \in Int
    BY <1>6
  <2>2. sum = Total(SectorsOf(v), f)
    BY SectorsAre
  <2>3. SectorConcentration(v, w) = IF SectorsOf(v) = {} THEN Hhi(v, w) ELSE sum
    BY DEF SectorConcentration
  <2> HIDE DEF f, sum
  <2> QED
    BY <1>1, <1>5, <2>1, <2>2, <2>3, TotalType
<1>8. SolverVariance(v, w) \in Int
  <2>1. ASSUME NEW k \in Assets(v) PROVE Load(v, w, k) \in Int
    <3> DEFINE f == [i \in Assets(v) |-> v.root[k][i] * w[i]]
    <3>1. \A i \in Assets(v) : v.root[k][i] \in Int
      BY DEF IsUniverse
    <3>2. \A i \in Assets(v) : f[i] \in Int
      BY <1>2, <3>1
    <3>3. Load(v, w, k) = Total(Assets(v), f)
      BY LoadIs
    <3> HIDE DEF f
    <3> QED
      BY <1>1, <3>2, <3>3, TotalType
  <2> DEFINE f == [i \in Assets(v) |-> Load(v, w, i) * Load(v, w, i)]
  <2>2. \A i \in Assets(v) : f[i] \in Int
    BY <2>1
  <2>3. SolverVariance(v, w) = Total(Assets(v), f)
    BY SolverVarianceIs
  <2> HIDE DEF f
  <2> QED
    BY <1>1, <2>2, <2>3, TotalType
<1> QED
  BY <1>3, <1>4, <1>5, <1>7, <1>8 DEF Axes, Measure, Raw

\* The factor of a diagonal matrix is diagonal: the first column with something
\* below the diagonal would be a column of the covariance.
LEMMA RootIsDiagonal ==
  ASSUME NEW v, N(v) \in Nat, IsUniverse(v), Uncorrelated(v)
  PROVE  \A i, j \in Assets(v) : i # j => v.root[i][j] = 0
<1> DEFINE S == Assets(v)
           A == {k \in S : \E i \in S : i # k /\ v.root[i][k] # 0}
<1>1. SUFFICES ASSUME A # {} PROVE FALSE
  OBVIOUS
<1>2. S \in SUBSET Nat /\ IsFiniteSet(S) /\ A \in SUBSET Nat
  <2>1. \A k \in S : k \in Nat
    BY DEF Assets, N
  <2> QED
    BY <2>1, AssetsAreFinite
<1>3. PICK k \in A : \A l \in A : k <= l
  <2> HIDE DEF A
  <2> QED
    BY <1>1, <1>2, LeastNumber
<1>4. PICK i \in S : i # k /\ v.root[i][k] # 0
  BY <1>3
<1>5. k \in S /\ \A a, b \in S : v.root[a][b] \in Int /\ (a < b => v.root[a][b] = 0)
  BY <1>3 DEF IsUniverse, IsRoot
<1> DEFINE f == [l \in S |-> v.root[i][l] * v.root[k][l]]
<1>6. Total(S, f) = 0
  <2>1. v.sigma[i][k] = MapThenSumSet(LAMBDA l : v.root[i][l] * v.root[k][l], Assets(v))
    BY <1>4, <1>5 DEF IsUniverse, IsRoot
  <2>2. v.sigma[i][k] = 0
    BY <1>4, <1>5 DEF Uncorrelated
  <2> QED
    BY <2>1, <2>2, RootProductIs
<1>7. ASSUME NEW l \in S \ {k} PROVE v.root[k][l] = 0
  <2>1. k \in Nat /\ l \in Nat
    BY <1>2, <1>5
  <2>2. CASE l < k
    <3>1. l \notin A
      <4> HIDE DEF A
      <4> QED
        BY <1>3, <2>1, <2>2
    <3> QED
      BY <1>5, <1>7, <3>1
  <2>3. CASE k < l
    BY <1>5, <2>3
  <2> QED
    BY <1>7, <2>1, <2>2, <2>3
<1>8. \A l \in S : f[l] \in Int /\ (l # k => f[l] = 0)
  BY <1>4, <1>5, <1>7
<1>9. Total(S, f) = f[k] /\ f[k] = v.root[i][k] * v.root[k][k]
  <2>1. f[k] = v.root[i][k] * v.root[k][k]
    BY <1>5
  <2> HIDE DEF f
  <2> QED
    BY <1>2, <1>5, <1>8, <2>1, TotalOfOne
<1>10. v.root[k][k] = 0
  <2>1. \A a, b \in Int : a * b = 0 => a = 0 \/ b = 0
    OBVIOUS
  <2> HIDE DEF f
  <2> QED
    BY <1>4, <1>5, <1>6, <1>9, <2>1
<1> QED
  BY <1>4, <1>5, <1>10 DEF IsUniverse, IsRoot

\* Of uncorrelated assets the solver's expression is the variance.
LEMMA ExpressionIsTrue ==
  ASSUME NEW v, N(v) \in Nat, IsUniverse(v), Uncorrelated(v), NEW w \in [Assets(v) -> 0..Grid]
  PROVE  /\ SolverVariance(v, w) = Variance(v, w)
         /\ \A name : Raw(name, v, w) = Measure(name, v, w)
<1> DEFINE S == Assets(v)
           F == [p \in S \X S |-> v.sigma[p[1]][p[2]] * w[p[1]] * w[p[2]]]
           h == [i \in S |-> Load(v, w, i) * Load(v, w, i)]
<1>1. /\ IsFiniteSet(S)
      /\ \A i, j \in S : /\ v.root[i][j] \in Int /\ v.sigma[i][j] \in Int
                         /\ i # j => v.root[i][j] = 0 /\ v.sigma[i][j] = 0
  <2>1. IsFiniteSet(S)
    BY AssetsAreFinite
  <2>2. \A i, j \in S : i # j => v.root[i][j] = 0
    BY RootIsDiagonal
  <2>3. \A i, j \in S : v.root[i][j] \in Int /\ v.sigma[i][j] \in Int
    BY DEF IsUniverse
  <2>4. \A i, j \in S : i # j => v.sigma[i][j] = 0
    BY DEF Uncorrelated
  <2> HIDE DEF S
  <2> QED
    BY <2>1, <2>2, <2>3, <2>4
<1>2. \A i \in S : w[i] \in Int
  BY GridAssumption
<1>3. ASSUME NEW i \in S PROVE v.sigma[i][i] = v.root[i][i] * v.root[i][i]
  <2> DEFINE f == [l \in S |-> v.root[i][l] * v.root[i][l]]
  <2>1. v.sigma[i][i] = Total(S, f)
    <3>1. v.sigma[i][i] = MapThenSumSet(LAMBDA l : v.root[i][l] * v.root[i][l], Assets(v))
      BY DEF IsUniverse, IsRoot
    <3> QED
      BY <3>1, RootProductIs
  <2>2. \A l \in S : f[l] \in Int /\ (l # i => f[l] = 0)
    BY <1>1
  <2>3. f[i] = v.root[i][i] * v.root[i][i]
    OBVIOUS
  <2> HIDE DEF f
  <2> QED
    BY <1>1, <2>1, <2>2, <2>3, TotalOfOne
<1>4. ASSUME NEW i \in S PROVE Load(v, w, i) = v.root[i][i] * w[i]
  <2> DEFINE f == [l \in S |-> v.root[i][l] * w[l]]
  <2>1. Load(v, w, i) = Total(S, f)
    BY LoadIs
  <2>2. \A l \in S : f[l] \in Int /\ (l # i => f[l] = 0)
    BY <1>1, <1>2
  <2>3. f[i] = v.root[i][i] * w[i]
    OBVIOUS
  <2> HIDE DEF f
  <2> QED
    BY <1>1, <2>1, <2>2, <2>3, TotalOfOne
<1>5. \A p \in S \X S : F[p] \in Int
  <2> SUFFICES ASSUME NEW i \in S, NEW j \in S PROVE F[<<i, j>>] \in Int
    OBVIOUS
  <2> QED
    BY <1>1, <1>2
<1>6. ASSUME NEW i \in S PROVE RowTotals(S, F)[i] = v.sigma[i][i] * w[i] * w[i]
  <2> DEFINE f == [j \in S |-> F[<<i, j>>]]
  <2>1. RowTotals(S, F)[i] = Total(S, f)
    BY DEF RowTotals
  <2>2. \A j \in S : f[j] \in Int /\ (j # i => f[j] = 0)
    BY <1>1, <1>2
  <2>3. f[i] = v.sigma[i][i] * w[i] * w[i]
    OBVIOUS
  <2> HIDE DEF f, F
  <2> QED
    BY <1>1, <2>1, <2>2, <2>3, TotalOfOne
<1>7. Variance(v, w) = Total(S, RowTotals(S, F)) /\ \A i \in S : RowTotals(S, F)[i] \in Int
  <2>1. Variance(v, w) = Total(S \X S, F)
    BY VarianceIs
  <2> HIDE DEF F, S
  <2> QED
    BY <1>1, <1>5, <2>1, TotalOfRows
<1>8. SolverVariance(v, w) = Total(S, h)
  BY SolverVarianceIs
<1>9. \A i \in S : h[i] = RowTotals(S, F)[i]
  <2>1. \A a, b \in Int : (a * b) * (a * b) = (a * a) * b * b
    OBVIOUS
  <2> SUFFICES ASSUME NEW i \in S PROVE h[i] = RowTotals(S, F)[i]
    OBVIOUS
  <2>2. h[i] = (v.root[i][i] * w[i]) * (v.root[i][i] * w[i])
    BY <1>4
  <2>3. RowTotals(S, F)[i] = (v.root[i][i] * v.root[i][i]) * w[i] * w[i]
    BY <1>3, <1>6
  <2> HIDE DEF h, F
  <2> QED
    BY <1>1, <1>2, <2>1, <2>2, <2>3
<1>10. SolverVariance(v, w) = Variance(v, w)
  <2> HIDE DEF h, F, S
  <2> QED
    BY <1>1, <1>7, <1>8, <1>9, TotalOfEqual
<1> QED
  BY <1>10 DEF Raw, Measure

\* A sector without assets has no weight.
LEMMA EmptySector ==
  ASSUME NEW v, N(v) \in Nat, NEW w, NEW x, Members(v, x) = {}
  PROVE  SectorWeight(v, w, x) = 0
<1>1. SectorWeight(v, w, x) = Total({}, [i \in {} |-> w[i]])
  BY SectorWeightIs
<1> QED
  BY <1>1, TotalOfNone

-----------------------------------------------------------------------------
(* The matrix and what it stands for.                                      *)

Sigma(v) == [p \in Assets(v) \X Assets(v) |-> v.sigma[p[1]][p[2]]]

\* x @ Q @ x, the risk and the return of a selection as Totals.
LEMMA EnergyIs ==
  ASSUME NEW Q, NEW S, IsFiniteSet(S)
  PROVE  Energy(Q, S) = Total(S \X S, Q)
<1> DEFINE W == S \X S
           Is(g) == g = [s \in SUBSET W |-> IF s = {} THEN 0 ELSE Q[One(s)] + g[s \ {One(s)}]]
           g == CHOOSE h : Is(h)
<1>1. Energy(Q, S) = g[W]
  BY DEF Energy, MapThenSumSet, MapThenFoldSet, One
<1>2. IsFiniteSet(W)
  BY FS_Product
<1>3. ASSUME NEW h PROVE Is(h) <=> Sums(W, Q, h)
  BY DEF Sums
<1>4. Is(g)
  BY <1>2, <1>3, SumsExist
<1> HIDE DEF g, W, Is
<1>5. Total(W, Q) = g[W]
  BY <1>2, <1>3, <1>4, TotalIs
<1> QED
  BY <1>1, <1>5 DEF W

LEMMA RiskIs ==
  ASSUME NEW v, NEW S \in SUBSET Assets(v), IsFiniteSet(S)
  PROVE  Risk(v, S) = Total(S \X S, Sigma(v))
<1> DEFINE W == S \X S
           Is(g) == g = [s \in SUBSET W |-> IF s = {} THEN 0
                                            ELSE v.sigma[One(s)[1]][One(s)[2]] + g[s \ {One(s)}]]
           g == CHOOSE h : Is(h)
<1>1. Risk(v, S) = g[W]
  BY DEF Risk, MapThenSumSet, MapThenFoldSet, One
<1>2. IsFiniteSet(W)
  BY FS_Product
<1>3. ASSUME NEW h PROVE Is(h) <=> Sums(W, Sigma(v), h)
  <2>0. W \in SUBSET (Assets(v) \X Assets(v))
    OBVIOUS
  <2>1. ASSUME NEW s \in SUBSET W, s # {} PROVE One(s) \in Assets(v) \X Assets(v)
    <3> HIDE DEF W
    <3>1. One(s) \in W
      BY <1>2, <2>1, OneOf
    <3> QED
      BY <2>0, <3>1
  <2>2. \A s \in SUBSET W : s # {} => Sigma(v)[One(s)] = v.sigma[One(s)[1]][One(s)[2]]
    BY <2>1 DEF Sigma
  <2> HIDE DEF W
  <2> QED
    BY <2>2 DEF Sums
<1>4. Is(g)
  BY <1>2, <1>3, SumsExist
<1> HIDE DEF g, W, Is
<1>5. Total(W, Sigma(v)) = g[W]
  BY <1>2, <1>3, <1>4, TotalIs
<1> QED
  BY <1>1, <1>5 DEF W

LEMMA ReturnsAre ==
  ASSUME NEW v, NEW S, IsFiniteSet(S)
  PROVE  MapThenSumSet(LAMBDA i : v.mu[i], S) = Total(S, v.mu)
<1> DEFINE Is(g) == g = [s \in SUBSET S |-> IF s = {} THEN 0 ELSE v.mu[One(s)] + g[s \ {One(s)}]]
           g == CHOOSE h : Is(h)
<1>1. MapThenSumSet(LAMBDA i : v.mu[i], S) = g[S]
  BY DEF MapThenSumSet, MapThenFoldSet, One
<1>2. ASSUME NEW h PROVE Is(h) <=> Sums(S, v.mu, h)
  BY DEF Sums
<1>3. Is(g)
  BY <1>2, SumsExist
<1> HIDE DEF g, Is
<1>4. Total(S, v.mu) = g[S]
  BY <1>2, <1>3, TotalIs
<1> QED
  BY <1>1, <1>4

\* A finite set of integers has a greatest element.
LEMMA GreatestOf ==
  ASSUME NEW S \in SUBSET Int, IsFiniteSet(S), S # {}
  PROVE  Max(S) \in S /\ Max(S) \in Int /\ \A y \in S : Max(S) >= y
<1> DEFINE A == {s \in SUBSET S : s = {} \/ \E x \in s : \A y \in s : x >= y}
<1>1. A \in SUBSET SUBSET S /\ {} \in A
  OBVIOUS
<1>2. ASSUME NEW s \in A, NEW e \in S, e \notin s PROVE s \cup {e} \in A
  <2>1. s \in SUBSET S /\ \A y \in s \cup {e} : y \in Int
    OBVIOUS
  <2>2. CASE s = {}
    <3>1. \A y \in s \cup {e} : e >= y
      BY <2>1, <2>2
    <3> QED
      BY <2>1, <3>1
  <2>3. CASE s # {}
    <3>1. PICK x \in s : \A y \in s : x >= y
      BY <2>3
    <3>2. CASE x >= e
      <4>1. \A y \in s \cup {e} : x >= y
        BY <3>1, <3>2
      <4> QED
        BY <2>1, <4>1
    <3>3. CASE ~(x >= e)
      <4>1. \A y \in s \cup {e} : e >= y
        BY <2>1, <3>1, <3>3
      <4> QED
        BY <2>1, <4>1
    <3> QED
      BY <3>2, <3>3
  <2> QED
    BY <2>2, <2>3
<1> HIDE DEF A
<1>3. S \in A
  BY <1>1, <1>2, BySubsets
<1>4. \E x \in S : \A y \in S : x >= y
  BY <1>3 DEF A
<1> QED
  BY <1>4 DEF Max

\* The scales bound what they scale, and are positive.
LEMMA ScalesBound ==
  ASSUME NEW v, N(v) \in Nat, IsUniverse(v)
  PROVE  /\ ReturnScale(v) \in Nat \ {0} /\ CovScale(v) \in Nat \ {0}
         /\ \A i \in Assets(v) : v.mu[i] \in Int /\ v.mu[i] <= ReturnScale(v) /\ -v.mu[i] <= ReturnScale(v)
         /\ \A p \in Assets(v) \X Assets(v) : Sigma(v)[p] \in Int /\ Sigma(v)[p] <= CovScale(v)
<1>1. IsFiniteSet(Assets(v)) /\ IsFiniteSet(Assets(v) \X Assets(v))
  BY AssetsAreFinite
<1>2. \A i \in Assets(v) : v.mu[i] \in Int
  BY DEF Assets, N, IsUniverse
<1>3. \A p \in Assets(v) \X Assets(v) : v.sigma[p[1]][p[2]] \in Int
  BY DEF IsUniverse
<1>4. \A a \in Int : Abs(a) \in Int /\ a <= Abs(a) /\ -a <= Abs(a)
  BY DEF Abs
<1>5. ASSUME NEW T \in SUBSET Int, IsFiniteSet(T)
      PROVE  /\ Max(T \cup {1}) \in Nat \ {0}
             /\ \A t \in T : Max(T \cup {1}) >= t
  <2> DEFINE X == T \cup {1}
  <2>1. IsFiniteSet(X) /\ X \in SUBSET Int /\ X # {} /\ 1 \in X /\ T \in SUBSET X
    BY <1>5, FS_AddElement
  <2> HIDE DEF X
  <2>2. Max(X) \in Int /\ \A y \in X : Max(X) >= y
    BY <2>1, GreatestOf
  <2>3. Max(X) >= 1
    BY <2>1, <2>2
  <2> QED
    BY <2>1, <2>2, <2>3 DEF X
<1>6. /\ ReturnScale(v) \in Nat \ {0}
      /\ \A i \in Assets(v) : Abs(v.mu[i]) <= ReturnScale(v)
  <2> DEFINE T == {Abs(v.mu[i]) : i \in Assets(v)}
             h == [i \in Assets(v) |-> Abs(v.mu[i])]
  <2>1. h \in Surjection(Assets(v), T)
    BY DEF Surjection
  <2>2. IsFiniteSet(T)
    BY <1>1, <2>1, FS_Surjection
  <2>3. T \in SUBSET Int
    BY <1>2, <1>4
  <2>4. Max(T \cup {1}) \in Nat \ {0} /\ \A t \in T : Max(T \cup {1}) >= t
    <3> HIDE DEF T, h
    <3> QED
      BY <1>5, <2>2, <2>3
  <2>5. ReturnScale(v) = Max(T \cup {1})
    BY DEF ReturnScale
  <2> DEFINE m == Max(T \cup {1})
  <2>6. \A i \in Assets(v) : Abs(v.mu[i]) \in T /\ Abs(v.mu[i]) \in Int
    BY <1>2, <1>4
  <2>7. m \in Int /\ \A t \in T : m >= t
    BY <2>4
  <2> HIDE DEF T, h, m
  <2>8. \A i \in Assets(v) : Abs(v.mu[i]) <= m
    BY <2>6, <2>7
  <2> QED
    BY <2>4, <2>5, <2>8 DEF m
<1>7. /\ CovScale(v) \in Nat \ {0}
      /\ \A p \in Assets(v) \X Assets(v) : Abs(v.sigma[p[1]][p[2]]) <= CovScale(v)
  <2> DEFINE P == Assets(v) \X Assets(v)
             T == {Abs(v.sigma[i][j]) : i, j \in Assets(v)}
             h == [p \in P |-> Abs(v.sigma[p[1]][p[2]])]
  <2>1. h \in Surjection(P, T)
    <3>1. \A p \in P : h[p] \in T
      OBVIOUS
    <3>2. ASSUME NEW t \in T PROVE \E p \in P : h[p] = t
      <4>1. PICK i \in Assets(v), j \in Assets(v) : t = Abs(v.sigma[i][j])
        OBVIOUS
      <4>2. h[<<i, j>>] = t
        BY <4>1
      <4> QED
        BY <4>2
    <3>3. h = [p \in P |-> h[p]]
      OBVIOUS
    <3> HIDE DEF h, T
    <3> QED
      BY <3>1, <3>2, <3>3 DEF Surjection
  <2>2. IsFiniteSet(T)
    BY <1>1, <2>1, FS_Surjection
  <2>3. T \in SUBSET Int
    <3>1. \A i, j \in Assets(v) : v.sigma[i][j] \in Int
      BY DEF IsUniverse
    <3> QED
      BY <1>4, <3>1
  <2>4. Max(T \cup {1}) \in Nat \ {0} /\ \A t \in T : Max(T \cup {1}) >= t
    <3> HIDE DEF T, h
    <3> QED
      BY <1>5, <2>2, <2>3
  <2>5. CovScale(v) = Max(T \cup {1})
    BY DEF CovScale
  <2> DEFINE m == Max(T \cup {1})
  <2>6. \A p \in P : Abs(v.sigma[p[1]][p[2]]) \in T /\ Abs(v.sigma[p[1]][p[2]]) \in Int
    BY <1>3, <1>4
  <2>7. m \in Int /\ \A t \in T : m >= t
    BY <2>4
  <2> HIDE DEF T, h, m
  <2>8. \A p \in P : Abs(v.sigma[p[1]][p[2]]) <= m
    BY <2>6, <2>7
  <2> QED
    BY <2>4, <2>5, <2>8 DEF m
<1>8. \A i \in Assets(v) : v.mu[i] <= ReturnScale(v) /\ -v.mu[i] <= ReturnScale(v)
  <2> TAKE i \in Assets(v)
  <2>1. ReturnScale(v) \in Int /\ v.mu[i] \in Int /\ Abs(v.mu[i]) <= ReturnScale(v)
    BY <1>2, <1>6
  <2>2. Abs(v.mu[i]) \in Int /\ v.mu[i] <= Abs(v.mu[i]) /\ -v.mu[i] <= Abs(v.mu[i])
    BY <1>4, <2>1
  <2> QED
    BY <2>1, <2>2
<1>9. \A p \in Assets(v) \X Assets(v) : Sigma(v)[p] \in Int /\ Sigma(v)[p] <= CovScale(v)
  <2> TAKE p \in Assets(v) \X Assets(v)
  <2> DEFINE a == v.sigma[p[1]][p[2]]
  <2>1. CovScale(v) \in Int /\ a \in Int /\ Abs(a) <= CovScale(v) /\ Sigma(v)[p] = a
    BY <1>3, <1>7 DEF Sigma
  <2>2. Abs(a) \in Int /\ a <= Abs(a)
    BY <1>4, <2>1
  <2> HIDE DEF a
  <2> QED
    BY <2>1, <2>2
<1> QED
  BY <1>2, <1>6, <1>7, <1>8, <1>9

LEMMA ScalesAreIntegers ==
  ASSUME NEW v, N(v) \in Nat, IsUniverse(v)
  PROVE  ReturnScale(v) \in Int /\ CovScale(v) \in Int
BY ScalesBound

\* The steps of the sums below, as identities of integers.
LEMMA PenaltyGrows ==
  ASSUME NEW l \in Int, NEW k \in Int, NEW c \in Int
  PROVE  l * ((c + 1) * (c + 1)) - 2 * (l * k) * (c + 1)
           = (l * (c * c) - 2 * (l * k) * c) + l * (1 - 2 * k) + 2 * l * c
OBVIOUS

\* What the matrix gives a selection: its risk, its return and a penalty that is
\* the square's but for a constant.
Promised(v, k, S) ==
  LET m == ReturnScale(v)
      s == CovScale(v)
      l == LambdaCardinality * m * s
      c == Cardinality(S)
  IN  m * Total(S \X S, Sigma(v)) - s * Total(S, v.mu) + (l * (c * c) - 2 * (l * k) * c)

\* The entries of the matrix: one for an asset, one for each pair.
LEMMA QuboTypes ==
  ASSUME NEW v, N(v) \in Nat, IsUniverse(v), NEW k \in Int
  PROVE  /\ \A p \in Assets(v) \X Assets(v) : Qubo(v, k)[p] \in Int /\ Sigma(v)[p] \in Int
         /\ \A i \in Assets(v) :
              Qubo(v, k)[<<i, i>>] = ReturnScale(v) * Sigma(v)[<<i, i>>] - CovScale(v) * v.mu[i]
                                     + LambdaCardinality * ReturnScale(v) * CovScale(v) * (1 - 2 * k)
         /\ \A i, j \in Assets(v) : i < j =>
              /\ Qubo(v, k)[<<j, i>>] = 0
              /\ Qubo(v, k)[<<i, j>>] + Qubo(v, k)[<<j, i>>]
                   = ReturnScale(v) * (Sigma(v)[<<i, j>>] + Sigma(v)[<<j, i>>])
                     + 2 * (LambdaCardinality * ReturnScale(v) * CovScale(v))
<1> DEFINE m == ReturnScale(v)
           s == CovScale(v)
<1>1. m \in Int /\ s \in Int
  BY ScalesAreIntegers
<1>2. \A i \in Assets(v) : v.mu[i] \in Int /\ i \in Int
  BY DEF Assets, N, IsUniverse
<1>3. \A i, j \in Assets(v) : v.sigma[i][j] \in Int /\ v.sigma[i][j] = v.sigma[j][i]
  BY DEF IsUniverse
<1>4. \A i, j \in Assets(v) : Sigma(v)[<<i, j>>] = v.sigma[i][j]
  BY DEF Sigma
<1>5. ASSUME NEW i \in Assets(v)
      PROVE  Qubo(v, k)[<<i, i>>] = m * v.sigma[i][i] - s * v.mu[i] + LambdaCardinality * m * s * (1 - 2 * k)
  <2>1. Qubo(v, k)[<<i, i>>] = LambdaRisk * m * v.sigma[i][i] - LambdaReturn * s * v.mu[i]
                              + LambdaCardinality * m * s * (1 - 2 * k)
    BY <1>2 DEF Qubo
  <2> HIDE DEF m, s
  <2> QED
    BY <1>1, <1>2, <1>3, <2>1 DEF LambdaRisk, LambdaReturn
<1>6. ASSUME NEW i \in Assets(v), NEW j \in Assets(v), i < j
      PROVE  /\ Qubo(v, k)[<<i, j>>] = 2 * (LambdaRisk * m * v.sigma[i][j] + LambdaCardinality * m * s)
             /\ Qubo(v, k)[<<j, i>>] = 0
  <2>1. i # j /\ j > i /\ ~(j < i) /\ ~(i > j)
    BY <1>2, <1>6
  <2> QED
    BY <1>2, <1>6, <2>1 DEF Qubo
<1> HIDE DEF m, s
<1>7. ASSUME NEW i \in Assets(v), NEW j \in Assets(v), i < j
      PROVE  Qubo(v, k)[<<i, j>>] + Qubo(v, k)[<<j, i>>]
               = m * (v.sigma[i][j] + v.sigma[j][i]) + 2 * (LambdaCardinality * m * s)
  BY <1>1, <1>3, <1>6, <1>7 DEF LambdaRisk, LambdaCardinality
<1>8. \A i, j \in Assets(v) : Qubo(v, k)[<<i, j>>] \in Int
  <2> TAKE i, j \in Assets(v)
  <2>1. CASE i = j
    <3>1. m * v.sigma[i][i] - s * v.mu[i] + LambdaCardinality * m * s * (1 - 2 * k) \in Int
      BY <1>1, <1>2, <1>3 DEF LambdaCardinality
    <3> DEFINE e == m * v.sigma[i][i] - s * v.mu[i] + LambdaCardinality * m * s * (1 - 2 * k)
    <3>2. Qubo(v, k)[<<i, i>>] = e /\ e \in Int
      BY <1>5, <3>1
    <3> HIDE DEF e
    <3> QED
      BY <2>1, <3>2
  <2>2. CASE i < j
    <3>1. 2 * (LambdaRisk * m * v.sigma[i][j] + LambdaCardinality * m * s) \in Int
      BY <1>1, <1>3 DEF LambdaRisk, LambdaCardinality
    <3> QED
      BY <1>6, <2>2, <3>1
  <2>3. CASE j < i
    <3>1. Qubo(v, k)[<<i, j>>] = 0
      BY <1>6, <2>3
    <3> QED
      BY <3>1
  <2> QED
    BY <1>2, <2>1, <2>2, <2>3
<1>9. \A p \in Assets(v) \X Assets(v) : Qubo(v, k)[p] \in Int /\ Sigma(v)[p] \in Int
  <2> TAKE p \in Assets(v) \X Assets(v)
  <2>1. PICK i \in Assets(v), j \in Assets(v) : p = <<i, j>>
    OBVIOUS
  <2> QED
    BY <1>3, <1>4, <1>8, <2>1
<1> QED
  BY <1>4, <1>5, <1>6, <1>7, <1>9 DEF m, s

\* Asset by asset, the matrix adds what the objective adds.
LEMMA EnergyIsPromised ==
  ASSUME NEW v, N(v) \in Nat, IsUniverse(v), NEW k \in Int
  PROVE  \A S \in SUBSET Assets(v) : Total(S \X S, Qubo(v, k)) = Promised(v, k, S)
<1> DEFINE Q == Qubo(v, k)
           R == Sigma(v)
           m == ReturnScale(v)
           s == CovScale(v)
           l == LambdaCardinality * m * s
           W == Assets(v)
           A == {S \in SUBSET W : Total(S \X S, Q) = Promised(v, k, S)}
<1>1. IsFiniteSet(W) /\ \A S \in SUBSET W : IsFiniteSet(S) /\ Cardinality(S) \in Nat
  BY AssetsAreFinite, FS_Subset, FS_CardinalityType
<1>2. m \in Int /\ s \in Int
  BY ScalesAreIntegers
<1>3. \A i \in W : v.mu[i] \in Int /\ i \in Int
  BY DEF Assets, N, IsUniverse
<1>4. /\ \A p \in W \X W : Q[p] \in Int /\ R[p] \in Int
      /\ \A i \in W : Q[<<i, i>>] = m * R[<<i, i>>] - s * v.mu[i] + l * (1 - 2 * k)
      /\ \A i, j \in W : i < j => Q[<<i, j>>] + Q[<<j, i>>] = m * (R[<<i, j>>] + R[<<j, i>>]) + 2 * l
  BY QuboTypes
<1> HIDE DEF Q, R
<1>5. \A S \in SUBSET W :
        Promised(v, k, S) = m * Total(S \X S, R) - s * Total(S, v.mu)
                            + (l * (Cardinality(S) * Cardinality(S)) - 2 * (l * k) * Cardinality(S))
  BY DEF Promised, R
<1>6. l \in Int
  <2> HIDE DEF m, s
  <2> QED
    BY <1>2 DEF LambdaCardinality
<1> HIDE DEF m, s, l
<1>7. \A i, j \in W : i # j => Q[<<i, j>>] + Q[<<j, i>>] = m * (R[<<i, j>>] + R[<<j, i>>]) + 2 * l
  <2> SUFFICES ASSUME NEW i \in W, NEW j \in W, i # j
               PROVE  Q[<<i, j>>] + Q[<<j, i>>] = m * (R[<<i, j>>] + R[<<j, i>>]) + 2 * l
    OBVIOUS
  <2>1. Q[<<i, j>>] \in Int /\ Q[<<j, i>>] \in Int /\ R[<<i, j>>] \in Int /\ R[<<j, i>>] \in Int
    BY <1>4
  <2>2. Q[<<i, j>>] + Q[<<j, i>>] = Q[<<j, i>>] + Q[<<i, j>>]
        /\ R[<<i, j>>] + R[<<j, i>>] = R[<<j, i>>] + R[<<i, j>>]
    BY <2>1
  <2>3. i < j \/ j < i
    BY <1>3
  <2> QED
    BY <1>4, <2>2, <2>3
<1>8. \A S \in SUBSET W : Total(S \X S, R) \in Int /\ Total(S \X S, Q) \in Int /\ Total(S, v.mu) \in Int
  <2> SUFFICES ASSUME NEW S \in SUBSET W
               PROVE  Total(S \X S, R) \in Int /\ Total(S \X S, Q) \in Int /\ Total(S, v.mu) \in Int
    OBVIOUS
  <2>1. IsFiniteSet(S) /\ IsFiniteSet(S \X S)
    BY <1>1, FS_Product
  <2>2. \A p \in S \X S : Q[p] \in Int /\ R[p] \in Int
    BY <1>4
  <2> QED
    BY <1>3, <2>1, <2>2, TotalType
<1>9. {} \in A
  <2>1. Total({} \X {}, Q) = 0 /\ Total({} \X {}, R) = 0 /\ Total({}, v.mu) = 0 /\ Cardinality({}) = 0
    <3>1. {} \X {} = {}
      OBVIOUS
    <3> QED
      BY <3>1, TotalOfNone, FS_EmptySet
  <2>2. m * 0 - s * 0 + (l * (0 * 0) - 2 * (l * k) * 0) = 0
    BY <1>2, <1>6
  <2>3. Promised(v, k, {}) = 0
    BY <1>5, <2>1, <2>2
  <2> QED
    BY <2>1, <2>3
<1>10. ASSUME NEW S \in A, NEW x \in W, x \notin S PROVE S \cup {x} \in A
  <2> DEFINE V == S \cup {x}
             fq == [i \in S |-> Q[<<x, i>>] + Q[<<i, x>>]]
             fr == [i \in S |-> R[<<x, i>>] + R[<<i, x>>]]
             c == Cardinality(S)
  <2>1. S \in SUBSET W /\ V \in SUBSET W /\ Total(S \X S, Q) = Promised(v, k, S)
    OBVIOUS
  <2>2. IsFiniteSet(S) /\ c \in Nat /\ \A p \in V \X V : Q[p] \in Int /\ R[p] \in Int
    BY <1>1, <1>4, <2>1
  <2> HIDE DEF A
  <2>3. Total(V \X V, Q) = Total(S \X S, Q) + Q[<<x, x>>] + Total(S, fq)
    BY <1>10, <2>2, QuadraticAdds
  <2>4. Total(V \X V, R) = Total(S \X S, R) + R[<<x, x>>] + Total(S, fr)
    BY <1>10, <2>2, QuadraticAdds
  <2>5. \A i \in S : fr[i] \in Int /\ fq[i] = m * fr[i] + 2 * l
    <3> TAKE i \in S
    <3>1. i \in W /\ i # x
      BY <1>10, <2>1
    <3>2. fr[i] = R[<<x, i>>] + R[<<i, x>>] /\ fq[i] = Q[<<x, i>>] + Q[<<i, x>>]
      OBVIOUS
    <3> QED
      BY <1>4, <1>7, <3>1, <3>2
  <2>6. Total(S, fq) = m * Total(S, fr) + (2 * l) * c
    <3> DEFINE d == 2 * l
    <3>1. d \in Int /\ \A i \in S : fr[i] \in Int /\ fq[i] = m * fr[i] + d
      BY <1>6, <2>5
    <3> HIDE DEF d, fq, fr, c
    <3>2. Total(S, fq) = m * Total(S, fr) + d * Cardinality(S)
      BY <1>2, <2>2, <3>1, TotalIsLinear
    <3> QED
      BY <3>2 DEF d, c
  <2>7. Total(V, v.mu) = Total(S, v.mu) + v.mu[x]
    BY <1>3, <1>10, <2>1, <2>2, TotalAdds
  <2>8. Cardinality(V) = c + 1
    BY <1>10, <2>2, FS_AddElement
  <2>9. Total(S, fr) \in Int
    <3> HIDE DEF fr
    <3> QED
      BY <2>2, <2>5, TotalType
  <2>10. R[<<x, x>>] \in Int /\ v.mu[x] \in Int
         /\ Q[<<x, x>>] = m * R[<<x, x>>] - s * v.mu[x] + l * (1 - 2 * k)
    BY <1>3, <1>4
  <2>11. Promised(v, k, V) = m * Total(V \X V, R) - s * Total(V, v.mu)
                             + (l * ((c + 1) * (c + 1)) - 2 * (l * k) * (c + 1))
    BY <1>5, <2>1, <2>8
  <2>12. Total(S \X S, Q) = m * Total(S \X S, R) - s * Total(S, v.mu) + (l * (c * c) - 2 * (l * k) * c)
    BY <1>5, <2>1
  <2>13. l * ((c + 1) * (c + 1)) - 2 * (l * k) * (c + 1)
           = (l * (c * c) - 2 * (l * k) * c) + l * (1 - 2 * k) + 2 * l * c
    BY <1>6, <2>2, PenaltyGrows
  <2>14. Total(V \X V, Q) = Promised(v, k, V)
    <3> HIDE DEF V, c, fr, fq
    <3>1. Total(S \X S, R) \in Int /\ Total(S, v.mu) \in Int
      BY <1>8, <2>1
    <3> DEFINE r0 == Total(S \X S, R)
               rx == R[<<x, x>>]
               rs == Total(S, fr)
               m0 == Total(S, v.mu)
               mx == v.mu[x]
    <3>3. l * (c * c) - 2 * (l * k) * c \in Int /\ l * (1 - 2 * k) \in Int /\ 2 * l * c \in Int
      BY <1>6, <2>2
    <3> DEFINE p0 == l * (c * c) - 2 * (l * k) * c
               p1 == l * (1 - 2 * k)
               p2 == 2 * l * c
    <3>4. Total(V \X V, Q) = (m * r0 - s * m0 + p0) + (m * rx - s * mx + p1) + (m * rs + p2)
      BY <2>3, <2>6, <2>10, <2>12
    <3>5. Promised(v, k, V) = m * (r0 + rx + rs) - s * (m0 + mx) + (p0 + p1 + p2)
      <4>1. Total(V \X V, R) = r0 + rx + rs /\ Total(V, v.mu) = m0 + mx
        BY <2>4, <2>7
      <4> QED
        BY <2>11, <2>13, <4>1
    <3>6. p0 \in Int /\ p1 \in Int /\ p2 \in Int
      BY <3>3
    <3>7. r0 \in Int /\ rx \in Int /\ rs \in Int /\ m0 \in Int /\ mx \in Int
      BY <2>9, <2>10, <3>1
    <3> HIDE DEF p0, p1, p2, r0, rx, rs, m0, mx
    <3>8. (m * r0 - s * m0 + p0) + (m * rx - s * mx + p1) + (m * rs + p2)
            = m * (r0 + rx + rs) - s * (m0 + mx) + (p0 + p1 + p2)
      BY <1>2, <3>6, <3>7
    <3> QED
      BY <3>4, <3>5, <3>8
  <2> QED
    BY <2>1, <2>14 DEF A
<1>11. A \in SUBSET SUBSET W
  OBVIOUS
<1> HIDE DEF A
<1>12. \A S \in SUBSET W : S \in A
  BY <1>1, <1>9, <1>10, <1>11, BySubsets
<1> QED
  BY <1>12 DEF A, Q

-----------------------------------------------------------------------------
(* The Hamiltonian.                                                        *)

Couples(n) == {q \in (1..n) \X (1..n) : q[1] < q[2]}
Both(Q, i, j) == Q[<<i, j>>] + Q[<<j, i>>]

\* An upper triangular matrix of integers.
Triangular(Q, n) == /\ \A p \in (1..n) \X (1..n) : Q[p] \in Int
                    /\ \A i, j \in 1..n : i < j => Q[<<j, i>>] = 0

Fields(Q, n, S) == [i \in 1..n |-> Ising(Q, n).field[i] * Spin(S, i)]
Bonds(Q, n, S) == [p \in Couples(n) |-> Q[p] * Spin(S, p[1]) * Spin(S, p[2])]

\* The field of one spin, and the Hamiltonian, as Totals.
LEMMA FieldIs ==
  ASSUME NEW Q, NEW n \in Nat, NEW x \in 1..n
  PROVE  LET T == (1..n) \ {x}
         IN  Ising(Q, n).field[x] = -2 * Q[<<x, x>>] - Total(T, [j \in T |-> Both(Q, x, j)])
<1> DEFINE T == (1..n) \ {x}
           f == [j \in T |-> Both(Q, x, j)]
           Is(g) == g = [s \in SUBSET T |-> IF s = {} THEN 0
                           ELSE Q[<<x, One(s)>>] + Q[<<One(s), x>>] + g[s \ {One(s)}]]
           g == CHOOSE h : Is(h)
<1>1. MapThenSumSet(LAMBDA j : Q[<<x, j>>] + Q[<<j, x>>], T) = g[T]
  BY DEF MapThenSumSet, MapThenFoldSet, One
<1>2. IsFiniteSet(T)
  <2>1. IsFiniteSet(1..n)
    BY FS_Interval
  <2> QED
    BY <2>1, FS_Subset
<1>3. ASSUME NEW h PROVE Is(h) <=> Sums(T, f, h)
  <2>1. ASSUME NEW s \in SUBSET T, s # {} PROVE f[One(s)] = Q[<<x, One(s)>>] + Q[<<One(s), x>>]
    <3>1. One(s) \in T
      BY <1>2, <2>1, OneOf
    <3> QED
      BY <3>1 DEF Both
  <2> HIDE DEF f, T
  <2> QED
    BY <2>1 DEF Sums
<1>4. Is(g)
  BY <1>2, <1>3, SumsExist
<1>5. Total(T, f) = g[T]
  <2> HIDE DEF g, T, Is, f
  <2> QED
    BY <1>2, <1>3, <1>4, TotalIs
<1>6. Ising(Q, n).field[x] = -2 * Q[<<x, x>>] - MapThenSumSet(LAMBDA j : Q[<<x, j>>] + Q[<<j, x>>], T)
  BY DEF Ising
<1> HIDE DEF g, f
<1> QED
  BY <1>1, <1>5, <1>6 DEF f

LEMMA IsingEnergyIs ==
  ASSUME NEW Q, NEW n \in Nat, NEW S
  PROVE  IsingEnergy(Ising(Q, n), n, S) = Total(1..n, Fields(Q, n, S)) + Total(Couples(n), Bonds(Q, n, S))
<1> DEFINE I == Ising(Q, n)
<1>1. IsFiniteSet(1..n) /\ IsFiniteSet(Couples(n))
  <2>1. IsFiniteSet(1..n)
    BY FS_Interval
  <2>2. IsFiniteSet((1..n) \X (1..n)) /\ Couples(n) \in SUBSET ((1..n) \X (1..n))
    BY <2>1, FS_Product DEF Couples
  <2> QED
    BY <2>1, <2>2, FS_Subset
<1>2. DOMAIN I.coupling = Couples(n) /\ \A p \in Couples(n) : I.coupling[p] = Q[p]
  BY DEF Ising, Couples
<1> HIDE DEF I
<1>3. MapThenSumSet(LAMBDA i : I.field[i] * Spin(S, i), 1..n) = Total(1..n, Fields(Q, n, S))
  <2> DEFINE T == 1..n
             f == Fields(Q, n, S)
             Is(g) == g = [s \in SUBSET T |-> IF s = {} THEN 0
                             ELSE I.field[One(s)] * Spin(S, One(s)) + g[s \ {One(s)}]]
             g == CHOOSE h : Is(h)
  <2>1. MapThenSumSet(LAMBDA i : I.field[i] * Spin(S, i), T) = g[T]
    BY DEF MapThenSumSet, MapThenFoldSet, One
  <2>2. ASSUME NEW h PROVE Is(h) <=> Sums(T, f, h)
    <3>1. ASSUME NEW s \in SUBSET T, s # {} PROVE f[One(s)] = I.field[One(s)] * Spin(S, One(s))
      <4>1. One(s) \in T
        BY <1>1, <3>1, OneOf
      <4> QED
        BY <4>1 DEF Fields, I
    <3> HIDE DEF f, T
    <3> QED
      BY <3>1 DEF Sums
  <2>3. Is(g)
    BY <1>1, <2>2, SumsExist
  <2>4. Total(T, f) = g[T]
    <3> HIDE DEF g, T, Is, f
    <3> QED
      BY <1>1, <2>2, <2>3, TotalIs DEF T
  <2> HIDE DEF g
  <2> QED
    BY <2>1, <2>4
<1>4. MapThenSumSet(LAMBDA p : I.coupling[p] * Spin(S, p[1]) * Spin(S, p[2]), Couples(n))
        = Total(Couples(n), Bonds(Q, n, S))
  <2> DEFINE T == Couples(n)
             f == Bonds(Q, n, S)
             Is(g) == g = [s \in SUBSET T |-> IF s = {} THEN 0
                             ELSE I.coupling[One(s)] * Spin(S, One(s)[1]) * Spin(S, One(s)[2])
                                  + g[s \ {One(s)}]]
             g == CHOOSE h : Is(h)
  <2>1. MapThenSumSet(LAMBDA p : I.coupling[p] * Spin(S, p[1]) * Spin(S, p[2]), T) = g[T]
    BY DEF MapThenSumSet, MapThenFoldSet, One
  <2>2. ASSUME NEW h PROVE Is(h) <=> Sums(T, f, h)
    <3>1. ASSUME NEW s \in SUBSET T, s # {}
          PROVE  f[One(s)] = I.coupling[One(s)] * Spin(S, One(s)[1]) * Spin(S, One(s)[2])
      <4>1. One(s) \in T
        BY <1>1, <3>1, OneOf
      <4> QED
        BY <1>2, <4>1 DEF Bonds
    <3> HIDE DEF f, T
    <3> QED
      BY <3>1 DEF Sums
  <2>3. Is(g)
    BY <1>1, <2>2, SumsExist
  <2>4. Total(T, f) = g[T]
    <3> HIDE DEF g, T, Is, f
    <3> QED
      BY <1>1, <2>2, <2>3, TotalIs DEF T
  <2> HIDE DEF g
  <2> QED
    BY <2>1, <2>4
<1>5. IsingEnergy(I, n, S)
        = MapThenSumSet(LAMBDA i : I.field[i] * Spin(S, i), 1..n)
          + MapThenSumSet(LAMBDA p : I.coupling[p] * Spin(S, p[1]) * Spin(S, p[2]), DOMAIN I.coupling)
  BY DEF IsingEnergy
<1> QED
  BY <1>2, <1>3, <1>4, <1>5 DEF I

\* A spin is 1 or -1.
LEMMA SpinType ==
  ASSUME NEW S, NEW i
  PROVE  Spin(S, i) \in Int /\ (Spin(S, i) = 1 \/ Spin(S, i) = -1)
BY DEF Spin

\* The terms of the Hamiltonian that x is in change their sign with x.
LEMMA BondsFlip ==
  ASSUME NEW n \in Nat, NEW Q, Triangular(Q, n), NEW S \in SUBSET (1..n), NEW x \in 1..n, x \notin S
  PROVE  LET T == (1..n) \ {x}
         IN  Total(Couples(n), Bonds(Q, n, S \cup {x}))
               = Total(Couples(n), Bonds(Q, n, S)) - 2 * Total(T, [j \in T |-> Both(Q, x, j) * Spin(S, j)])
<1> DEFINE T == (1..n) \ {x}
           C == Couples(n)
           h == Bonds(Q, n, S)
           g == Bonds(Q, n, S \cup {x})
           f == [j \in T |-> Both(Q, x, j) * Spin(S, j)]
           Pair(j) == IF j < x THEN <<j, x>> ELSE <<x, j>>
           Shape(V) == {p \in C : \A j \in T \ V : p # Pair(j)}
           A == {V \in SUBSET T : Total(Shape(V), g) = Total(Shape(V), h) - 2 * Total(V, f)}
<1>1. IsFiniteSet(1..n) /\ IsFiniteSet(T) /\ IsFiniteSet(C)
  <2>1. IsFiniteSet(1..n)
    BY FS_Interval
  <2>2. IsFiniteSet((1..n) \X (1..n)) /\ Couples(n) \in SUBSET ((1..n) \X (1..n))
    BY <2>1, FS_Product DEF Couples
  <2> QED
    BY <2>1, <2>2, FS_Subset
<1>2. \A i, j \in 1..n : Q[<<i, j>>] \in Int /\ (i < j => Q[<<j, i>>] = 0)
  BY DEF Triangular
<1>3. \A V \in SUBSET T : IsFiniteSet(V) /\ IsFiniteSet(Shape(V)) /\ Shape(V) \in SUBSET C
  <2> TAKE V \in SUBSET T
  <2>1. Shape(V) \in SUBSET C
    OBVIOUS
  <2> QED
    BY <1>1, <2>1, FS_Subset
<1>4. ASSUME NEW p \in C
      PROVE  /\ p = <<p[1], p[2]>> /\ p[1] \in 1..n /\ p[2] \in 1..n /\ p[1] < p[2]
             /\ h[p] = Q[p] * Spin(S, p[1]) * Spin(S, p[2])
             /\ g[p] = Q[p] * Spin(S \cup {x}, p[1]) * Spin(S \cup {x}, p[2])
  BY DEF Couples, Bonds
<1>5. \A p \in C : h[p] \in Int /\ g[p] \in Int
  <2> TAKE p \in C
  <2>1. Q[p] \in Int
    BY <1>2, <1>4
  <2>2. \A a, b, c \in Int : a * b * c \in Int
    OBVIOUS
  <2> HIDE DEF h, g
  <2> QED
    BY <1>4, <2>1, <2>2, SpinType
<1>6. Spin(S, x) = 1 /\ Spin(S \cup {x}, x) = -1 /\ \A j \in T : Spin(S \cup {x}, j) = Spin(S, j)
  BY DEF Spin
<1>7. ASSUME NEW j \in T
      PROVE  /\ Pair(j) \in C /\ f[j] \in Int
             /\ h[Pair(j)] = f[j] /\ g[Pair(j)] = 0 - f[j]
  <2> DEFINE z == Spin(S, j)
  <2>1. j \in 1..n /\ x \in Int /\ j \in Int /\ j # x /\ z \in Int
    BY SpinType
  <2>2. f[j] = Both(Q, x, j) * z
    OBVIOUS
  <2>3. CASE j < x
    <3>1. Pair(j) = <<j, x>> /\ <<j, x>> \in C
      BY <2>1, <2>3 DEF Couples
    <3>2. Q[<<j, x>>] \in Int /\ Both(Q, x, j) = Q[<<j, x>>]
      BY <1>2, <2>1, <2>3 DEF Both
    <3>3. h[<<j, x>>] = Q[<<j, x>>] * z * 1 /\ g[<<j, x>>] = Q[<<j, x>>] * z * (-1)
      BY <1>6, <3>1 DEF Bonds
    <3> HIDE DEF z, h, g, f
    <3>4. \A a \in Int : a * z * 1 = a * z /\ a * z * (-1) = 0 - a * z /\ a * z \in Int
      BY <2>1
    <3>5. f[j] = Q[<<j, x>>] * z
      BY <2>2, <3>2
    <3> QED
      BY <3>1, <3>2, <3>3, <3>4, <3>5
  <2>4. CASE x < j
    <3>1. Pair(j) = <<x, j>> /\ <<x, j>> \in C
      BY <2>1, <2>4 DEF Couples
    <3>2. Q[<<x, j>>] \in Int /\ Both(Q, x, j) = Q[<<x, j>>]
      BY <1>2, <2>1, <2>4 DEF Both
    <3>3. h[<<x, j>>] = Q[<<x, j>>] * 1 * z /\ g[<<x, j>>] = Q[<<x, j>>] * (-1) * z
      BY <1>6, <3>1 DEF Bonds
    <3> HIDE DEF z, h, g, f
    <3>4. \A a \in Int : a * 1 * z = a * z /\ a * (-1) * z = 0 - a * z /\ a * z \in Int
      BY <2>1
    <3>5. f[j] = Q[<<x, j>>] * z
      BY <2>2, <3>2
    <3> QED
      BY <3>1, <3>2, <3>3, <3>4, <3>5
  <2> HIDE DEF h, g, f, C, Pair
  <2> QED
    BY <2>1, <2>3, <2>4
<1> HIDE DEF h, g, f
<1>8. \A V \in SUBSET T : Total(V, f) \in Int /\ Total(Shape(V), h) \in Int
  <2> SUFFICES ASSUME NEW V \in SUBSET T PROVE Total(V, f) \in Int /\ Total(Shape(V), h) \in Int
    OBVIOUS
  <2>1. (\A j \in V : f[j] \in Int) /\ \A p \in Shape(V) : h[p] \in Int
    BY <1>3, <1>5, <1>7
  <2> HIDE DEF Shape
  <2> QED
    BY <1>3, <2>1, TotalType
<1>9. {} \in A
  <2>1. \A p \in Shape({}) : h[p] \in Int /\ g[p] = h[p]
    <3> TAKE p \in Shape({})
    <3>1. p \in C /\ \A j \in T : p # Pair(j)
      OBVIOUS
    <3>2. p[1] \in T /\ p[2] \in T
      <4>1. p[1] \in Int /\ p[2] \in Int /\ x \in Int
        BY <1>4, <3>1
      <4>2. ASSUME p[1] = x PROVE FALSE
        <5>1. p[2] \in T /\ ~(p[2] < x)
          BY <1>4, <3>1, <4>1, <4>2
        <5>2. Pair(p[2]) = <<x, p[2]>>
          BY <5>1
        <5> QED
          BY <1>4, <3>1, <4>2, <5>1, <5>2
      <4>3. ASSUME p[2] = x PROVE FALSE
        <5>1. p[1] \in T /\ p[1] < x
          BY <1>4, <3>1, <4>1, <4>3
        <5>2. Pair(p[1]) = <<p[1], x>>
          BY <5>1
        <5> QED
          BY <1>4, <3>1, <4>3, <5>1, <5>2
      <4> QED
        BY <1>4, <3>1, <4>2, <4>3
    <3> QED
      BY <1>4, <1>5, <1>6, <3>1, <3>2
  <2>2. IsFiniteSet(Shape({}))
    BY <1>3
  <2> DEFINE E == Shape({})
  <2>3. Total(E, g) = Total(E, h)
    <3> HIDE DEF E
    <3>1. IsFiniteSet(E) /\ \A p \in E : h[p] \in Int /\ g[p] = h[p]
      BY <2>1, <2>2 DEF E
    <3> QED
      BY <3>1, TotalOfEqual
  <2>4. Total({}, f) = 0 /\ Total(E, h) \in Int
    BY <1>8, TotalOfNone
  <2> HIDE DEF E
  <2>5. Total(E, g) = Total(E, h) - 2 * Total({}, f)
    BY <2>3, <2>4
  <2> QED
    BY <2>5 DEF E
<1>10. ASSUME NEW V \in A, NEW e \in T, e \notin V PROVE V \cup {e} \in A
  <2>1. V \in SUBSET T /\ V \cup {e} \in SUBSET T
        /\ Total(Shape(V), g) = Total(Shape(V), h) - 2 * Total(V, f)
    OBVIOUS
  <2> HIDE DEF A
  <2>2. \A j \in T : Pair(j) = Pair(e) => j = e
    BY <1>10
  <2>3. Shape(V \cup {e}) = Shape(V) \cup {Pair(e)} /\ Pair(e) \notin Shape(V)
    <3> HIDE DEF Pair, C
    <3> QED
      BY <1>7, <1>10, <2>1, <2>2
  <2>4. \A p \in Shape(V) \cup {Pair(e)} : h[p] \in Int /\ g[p] \in Int
    BY <1>3, <1>5, <1>7, <2>1
  <2> DEFINE E == Shape(V)
             q == Pair(e)
  <2>5. IsFiniteSet(E)
    BY <1>3, <2>1
  <2>6. Total(E \cup {q}, h) = Total(E, h) + h[q] /\ Total(E \cup {q}, g) = Total(E, g) + g[q]
    <3> HIDE DEF E, q
    <3>1. q \notin E /\ \A p \in E \cup {q} : h[p] \in Int /\ g[p] \in Int
      BY <2>3, <2>4 DEF E, q
    <3> QED
      BY <2>5, <3>1, TotalAdds
  <2>7. Total(V \cup {e}, f) = Total(V, f) + f[e]
    <3>1. IsFiniteSet(V) /\ \A j \in V \cup {e} : f[j] \in Int
      BY <1>3, <1>7, <2>1
    <3> QED
      BY <1>10, <3>1, TotalAdds
  <2>8. Total(V, f) \in Int /\ Total(E, h) \in Int /\ f[e] \in Int /\ h[q] = f[e] /\ g[q] = 0 - f[e]
    BY <1>7, <1>8, <2>1
  <2>9. Total(E, g) = Total(E, h) - 2 * Total(V, f)
    BY <2>1
  <2> HIDE DEF E, q
  <2>10. Total(E \cup {q}, g) = Total(E \cup {q}, h) - 2 * Total(V \cup {e}, f)
    BY <2>6, <2>7, <2>8, <2>9
  <2>11. Shape(V \cup {e}) = E \cup {q}
    BY <2>3 DEF E, q
  <2> HIDE DEF Shape
  <2>12. Total(Shape(V \cup {e}), g) = Total(Shape(V \cup {e}), h) - 2 * Total(V \cup {e}, f)
    BY <2>10, <2>11
  <2> QED
    BY <2>1, <2>12 DEF A
<1>11. A \in SUBSET SUBSET T
  OBVIOUS
<1>12. Shape(T) = C
  OBVIOUS
<1> HIDE DEF A
<1>13. T \in A
  <2> HIDE DEF T
  <2>1. \A s \in SUBSET T : s \in A
    BY <1>1, <1>9, <1>10, <1>11, BySubsets
  <2> QED
    BY <2>1
<1>14. Total(C, g) = Total(C, h) - 2 * Total(T, f)
  <2> HIDE DEF C, Shape
  <2> QED
    BY <1>12, <1>13 DEF A
<1> QED
  BY <1>14 DEF g, h, f

\* What a sum loses when the terms of S change their sign.
LEMMA SpinsTurn ==
  ASSUME NEW n \in Nat, NEW Q, Triangular(Q, n), NEW x \in 1..n, NEW S \in SUBSET ((1..n) \ {x})
  PROVE  LET T == (1..n) \ {x}
             b == [j \in T |-> Both(Q, x, j)]
             f == [j \in T |-> Both(Q, x, j) * Spin(S, j)]
         IN  Total(T, b) = Total(T, f) + 2 * Total(S, b)
<1> DEFINE T == (1..n) \ {x}
           b == [j \in T |-> Both(Q, x, j)]
           f == [j \in T |-> Both(Q, x, j) * Spin(S, j)]
           A == {V \in SUBSET T : Total(V, b) = Total(V, f) + 2 * Total(V \cap S, b)}
<1>1. IsFiniteSet(T) /\ \A V \in SUBSET T : IsFiniteSet(V)
  <2>1. IsFiniteSet(1..n)
    BY FS_Interval
  <2> QED
    BY <2>1, FS_Subset
<1>2. ASSUME NEW j \in T
      PROVE  b[j] \in Int /\ f[j] \in Int /\ b[j] = IF j \in S THEN f[j] + 2 * b[j] ELSE f[j]
  <2>1. Both(Q, x, j) \in Int
    BY DEF Both, Triangular
  <2>2. b[j] = Both(Q, x, j) /\ f[j] = Both(Q, x, j) * Spin(S, j)
    OBVIOUS
  <2>3. \A a \in Int : a * 1 = a /\ a * (-1) = 0 - a
    OBVIOUS
  <2> HIDE DEF b, f
  <2>4. CASE j \in S
    <3>1. f[j] = 0 - b[j]
      BY <2>1, <2>2, <2>3, <2>4 DEF Spin
    <3> QED
      BY <2>1, <2>2, <2>4, <3>1
  <2>5. CASE j \notin S
    <3>1. f[j] = b[j]
      BY <2>1, <2>2, <2>3, <2>5 DEF Spin
    <3> QED
      BY <2>1, <2>2, <2>5, <3>1
  <2> QED
    BY <2>4, <2>5
<1> HIDE DEF b, f
<1>3. \A V \in SUBSET T : Total(V, b) \in Int /\ Total(V, f) \in Int /\ Total(V \cap S, b) \in Int
  <2> SUFFICES ASSUME NEW V \in SUBSET T
               PROVE  Total(V, b) \in Int /\ Total(V, f) \in Int /\ Total(V \cap S, b) \in Int
    OBVIOUS
  <2>1. IsFiniteSet(V) /\ IsFiniteSet(V \cap S) /\ \A j \in V : b[j] \in Int /\ f[j] \in Int
    BY <1>1, <1>2
  <2> QED
    BY <2>1, TotalType
<1>4. {} \in A
  <2>1. {} \cap S = {} /\ Total({}, b) = 0 /\ Total({}, f) = 0
    BY TotalOfNone
  <2>2. Total({}, b) = Total({}, f) + 2 * Total({} \cap S, b)
    BY <2>1
  <2> QED
    BY <2>2
<1>5. ASSUME NEW V \in A, NEW e \in T, e \notin V PROVE V \cup {e} \in A
  <2>1. V \in SUBSET T /\ V \cup {e} \in SUBSET T /\ Total(V, b) = Total(V, f) + 2 * Total(V \cap S, b)
    OBVIOUS
  <2> HIDE DEF A, T
  <2>2. IsFiniteSet(V) /\ IsFiniteSet(V \cap S) /\ \A j \in V \cup {e} : b[j] \in Int /\ f[j] \in Int
    BY <1>1, <1>2, <2>1
  <2>3. Total(V \cup {e}, b) = Total(V, b) + b[e] /\ Total(V \cup {e}, f) = Total(V, f) + f[e]
    BY <1>5, <2>2, TotalAdds
  <2>4. Total(V, f) \in Int /\ Total(V \cap S, b) \in Int /\ b[e] \in Int /\ f[e] \in Int
    BY <1>3, <2>1, <2>2
  <2>5. CASE e \in S
    <3>1. (V \cup {e}) \cap S = (V \cap S) \cup {e} /\ e \notin V \cap S
      BY <1>5, <2>5
    <3>2. Total((V \cap S) \cup {e}, b) = Total(V \cap S, b) + b[e]
      <4>1. \A j \in (V \cap S) \cup {e} : b[j] \in Int
        BY <2>2
      <4> QED
        BY <2>2, <3>1, <4>1, TotalAdds
    <3>3. b[e] = f[e] + 2 * b[e]
      BY <1>2, <2>5
    <3>4. Total((V \cup {e}) \cap S, b) = Total(V \cap S, b) + b[e]
      BY <3>1, <3>2
    <3>5. Total(V \cup {e}, b) = Total(V \cup {e}, f) + 2 * Total((V \cup {e}) \cap S, b)
      BY <2>1, <2>3, <2>4, <3>3, <3>4
    <3> QED
      BY <2>1, <3>5 DEF A
  <2>6. CASE e \notin S
    <3>1. (V \cup {e}) \cap S = V \cap S
      BY <2>6
    <3>2. b[e] = f[e]
      BY <1>2, <2>6
    <3>3. Total((V \cup {e}) \cap S, b) = Total(V \cap S, b)
      BY <3>1
    <3>4. Total(V \cup {e}, b) = Total(V \cup {e}, f) + 2 * Total((V \cup {e}) \cap S, b)
      BY <2>1, <2>3, <2>4, <3>2, <3>3
    <3> QED
      BY <2>1, <3>4 DEF A
  <2> QED
    BY <2>5, <2>6
<1>6. A \in SUBSET SUBSET T
  OBVIOUS
<1>7. T \cap S = S
  OBVIOUS
<1> HIDE DEF A
<1>8. T \in A
  <2> HIDE DEF T
  <2>1. \A s \in SUBSET T : s \in A
    BY <1>1, <1>4, <1>5, <1>6, BySubsets
  <2> QED
    BY <2>1
<1>9. Total(T, b) = Total(T, f) + 2 * Total(S, b)
  <2> HIDE DEF T
  <2> QED
    BY <1>7, <1>8 DEF A
<1> QED
  BY <1>9 DEF b, f

Outside(n, x, S) == x \in 1..n /\ S \in SUBSET ((1..n) \ {x})

\* Taking one asset more costs the Hamiltonian four times what it costs the matrix.
LEMMA IsingFollows ==
  ASSUME NEW n \in Nat, NEW Q, Triangular(Q, n), NEW x, NEW S, Outside(n, x, S)
  PROVE  IsingEnergy(Ising(Q, n), n, S \cup {x}) - 4 * Total((S \cup {x}) \X (S \cup {x}), Q)
           = IsingEnergy(Ising(Q, n), n, S) - 4 * Total(S \X S, Q)
<1> DEFINE W == 1..n
           T == W \ {x}
           V == S \cup {x}
           b == [j \in T |-> Both(Q, x, j)]
           f == [j \in T |-> Both(Q, x, j) * Spin(S, j)]
           phi == Ising(Q, n).field
           F == Fields(Q, n, S)
           G == Fields(Q, n, V)
           C == Couples(n)
           H == Bonds(Q, n, S)
           K == Bonds(Q, n, V)
<1>1. IsFiniteSet(W) /\ IsFiniteSet(T) /\ IsFiniteSet(S) /\ IsFiniteSet(C)
  <2>1. IsFiniteSet(1..n)
    BY FS_Interval
  <2>2. IsFiniteSet((1..n) \X (1..n)) /\ Couples(n) \in SUBSET ((1..n) \X (1..n))
    BY <2>1, FS_Product DEF Couples
  <2>3. IsFiniteSet(W)
    BY <2>1 DEF Outside
  <2>4. S \in SUBSET W
    BY DEF Outside
  <2> QED
    BY <2>2, <2>3, <2>4, FS_Subset
<1>0. x \in W /\ S \in SUBSET T /\ x \notin S
  BY DEF Outside
<1>2. \A i, j \in W : Both(Q, i, j) \in Int
  <2> TAKE i, j \in W
  <2>1. Q[<<i, j>>] \in Int /\ Q[<<j, i>>] \in Int
    BY DEF Triangular, Outside
  <2> QED
    BY <2>1 DEF Both
<1>3. \A i \in W : phi[i] \in Int
  <2> SUFFICES ASSUME NEW i \in W PROVE phi[i] \in Int
    OBVIOUS
  <2> DEFINE U == W \ {i}
             g == [j \in U |-> Both(Q, i, j)]
  <2>1. phi[i] = -2 * Q[<<i, i>>] - Total(U, g)
    BY FieldIs DEF Outside
  <2>2. IsFiniteSet(U) /\ \A j \in U : g[j] \in Int
    BY <1>1, <1>2, FS_Subset
  <2>3. Q[<<i, i>>] \in Int
    BY DEF Triangular, Outside
  <2> HIDE DEF U, g, phi
  <2>4. Total(U, g) \in Int
    BY <2>2, TotalType
  <2> QED
    BY <2>1, <2>3, <2>4
<1>4. phi[x] = -2 * Q[<<x, x>>] - Total(T, b)
  BY FieldIs DEF Outside
<1>5. Total(C, K) = Total(C, H) - 2 * Total(T, f)
  BY BondsFlip DEF Outside
<1>6. Total(T, b) = Total(T, f) + 2 * Total(S, b)
  BY SpinsTurn DEF Outside
<1>7. /\ \A i \in W : F[i] = phi[i] * Spin(S, i) /\ G[i] = phi[i] * Spin(V, i)
      /\ Spin(S, x) = 1 /\ Spin(V, x) = -1 /\ \A i \in W \ {x} : Spin(V, i) = Spin(S, i)
  BY DEF Fields, Spin, Outside
<1>8. Total(V \X V, Q) = Total(S \X S, Q) + Q[<<x, x>>] + Total(S, b)
  <2> DEFINE g == [i \in S |-> Q[<<x, i>>] + Q[<<i, x>>]]
  <2>1. x \notin S /\ \A p \in V \X V : Q[p] \in Int
    BY DEF Triangular, Outside
  <2>2. Total(V \X V, Q) = Total(S \X S, Q) + Q[<<x, x>>] + Total(S, g)
    <3>1. IsFiniteSet(S) /\ x \notin S /\ \A p \in (S \cup {x}) \X (S \cup {x}) : Q[p] \in Int
      BY <1>1, <2>1
    <3> HIDE DEF b, f, phi, F, G, C, H, K, T, W
    <3> QED
      BY <3>1, QuadraticAdds
  <2>3. \A i \in S : b[i] \in Int /\ g[i] = b[i]
    BY <1>0, <1>2 DEF Both
  <2> HIDE DEF g, b
  <2>4. Total(S, g) = Total(S, b)
    BY <1>1, <2>3, TotalOfEqual
  <2> QED
    BY <2>2, <2>4
<1>9. Total(S, b) \in Int /\ Total(T, b) \in Int /\ Total(T, f) \in Int
  <2>1. \A j \in T : b[j] \in Int /\ f[j] \in Int
    <3> TAKE j \in T
    <3>1. Both(Q, x, j) \in Int /\ Spin(S, j) \in Int
      BY <1>0, <1>2, SpinType
    <3>2. \A a, c \in Int : a * c \in Int
      OBVIOUS
    <3> QED
      BY <3>1, <3>2
  <2>2. \A j \in S : b[j] \in Int
    BY <1>0, <2>1
  <2> HIDE DEF b, f
  <2> QED
    BY <1>1, <2>1, <2>2, TotalType
<1>10. Total(S \X S, Q) \in Int /\ Q[<<x, x>>] \in Int
  <2>1. IsFiniteSet(S \X S) /\ \A p \in S \X S : Q[p] \in Int
    BY <1>1, FS_Product DEF Triangular, Outside
  <2> QED
    BY <2>1, TotalType DEF Triangular, Outside
<1>11. Total(C, H) \in Int
  <2>1. \A p \in C : H[p] \in Int
    <3> TAKE p \in C
    <3>1. Q[p] \in Int /\ H[p] = Q[p] * Spin(S, p[1]) * Spin(S, p[2])
      BY DEF Couples, Triangular, Bonds, Outside
    <3>2. \A a, c, d \in Int : a * c * d \in Int
      OBVIOUS
    <3> HIDE DEF H
    <3> QED
      BY <3>1, <3>2, SpinType
  <2> HIDE DEF C, H
  <2> QED
    BY <1>1, <2>1, TotalType
<1>12. IsingEnergy(Ising(Q, n), n, S) = Total(W, F) + Total(C, H)
       /\ IsingEnergy(Ising(Q, n), n, V) = Total(W, G) + Total(C, K)
  BY IsingEnergyIs DEF Outside
<1> HIDE DEF b, f, phi, F, G, C, H, K
<1>13. \A a, c \in Int : a * c \in Int
  OBVIOUS
<1>14. \A i \in W : F[i] \in Int /\ G[i] \in Int
  BY <1>3, <1>7, <1>13, SpinType
<1>15. Total(W, G) = Total(W, F) + G[x] - F[x]
  <2>1. \A i \in W \ {x} : G[i] = F[i]
    BY <1>7
  <2>2. x \in W
    BY DEF W, Outside
  <2> HIDE DEF W
  <2> QED
    <3>1. IsFiniteSet(W) /\ \A i \in W : F[i] \in Int /\ G[i] \in Int
      BY <1>1, <1>14
    <3> QED
      BY <2>1, <2>2, <3>1, TotalChanges
<1>16. F[x] = phi[x] /\ G[x] = 0 - phi[x] /\ phi[x] \in Int /\ Total(W, F) \in Int
  <2>1. phi[x] \in Int /\ F[x] = phi[x] * 1 /\ G[x] = phi[x] * (-1)
    BY <1>0, <1>3, <1>7
  <2>2. Total(W, F) \in Int
    <3> HIDE DEF W
    <3> QED
      BY <1>1, <1>14, TotalType
  <2> QED
    BY <2>1, <2>2
<1>17. (Total(W, G) + Total(C, K)) - 4 * Total(V \X V, Q)
         = (Total(W, F) + Total(C, H)) - 4 * Total(S \X S, Q)
  <2> HIDE DEF W, T, V
  <2> DEFINE e == Q[<<x, x>>]
             tb == Total(T, b)
             sb == Total(S, b)
             tf == Total(T, f)
             ss == Total(S \X S, Q)
             vv == Total(V \X V, Q)
             wf == Total(W, F)
             wg == Total(W, G)
             ch == Total(C, H)
             ck == Total(C, K)
             y == phi[x]
  <2>1. e \in Int /\ tb \in Int /\ sb \in Int /\ tf \in Int /\ ss \in Int /\ wf \in Int
        /\ ch \in Int /\ y \in Int
    BY <1>9, <1>10, <1>11, <1>16
  <2>2. y = -2 * e - tb /\ ck = ch - 2 * tf /\ tb = tf + 2 * sb /\ vv = ss + e + sb
        /\ wg = wf + (0 - y) - y
    BY <1>4, <1>5, <1>6, <1>8, <1>15, <1>16
  <2>3. (wg + ck) - 4 * vv = (wf + ch) - 4 * ss
    <3> HIDE DEF e, tb, sb, tf, ss, vv, wf, wg, ch, ck, y
    <3> QED
      BY <2>1, <2>2
  <2> QED
    BY <2>3
<1> DEFINE d == IsingEnergy(Ising(Q, n), n, S)
           e == IsingEnergy(Ising(Q, n), n, V)
<1>18. d = Total(W, F) + Total(C, H) /\ e = Total(W, G) + Total(C, K)
  BY <1>12
<1>19. e - 4 * Total(V \X V, Q) = d - 4 * Total(S \X S, Q)
  <2> HIDE DEF d, e, V, W
  <2> QED
    BY <1>17, <1>18
<1> QED
  BY <1>19

\* Four times the matrix, but for what the empty selection has.
LEMMA IsingIsTheMatrix ==
  ASSUME NEW n \in Nat, NEW Q, Triangular(Q, n), NEW S \in SUBSET (1..n)
  PROVE  IsingEnergy(Ising(Q, n), n, S) - 4 * Total(S \X S, Q)
           = IsingEnergy(Ising(Q, n), n, {}) - 4 * Total({} \X {}, Q)
<1> DEFINE W == 1..n
           J(s) == IsingEnergy(Ising(Q, n), n, s) - 4 * Total(s \X s, Q)
           A == {s \in SUBSET W : J(s) = J({})}
<1>1. IsFiniteSet(W)
  BY FS_Interval
<1>2. {} \in A /\ A \in SUBSET SUBSET W
  OBVIOUS
<1>3. ASSUME NEW s \in A, NEW x \in W, x \notin s PROVE s \cup {x} \in A
  <2>1. s \in SUBSET (W \ {x}) /\ s \cup {x} \in SUBSET W /\ J(s) = J({})
    BY <1>3
  <2>2. J(s \cup {x}) = J(s)
    <3>1. Outside(n, x, s)
      BY <2>1 DEF Outside
    <3> QED
      BY <3>1, IsingFollows
  <2> HIDE DEF J
  <2> QED
    BY <2>1, <2>2
<1> HIDE DEF A
<1>4. S \in A
  <2> HIDE DEF W
  <2>1. \A s \in SUBSET W : s \in A
    BY <1>1, <1>2, <1>3, BySubsets
  <2> QED
    BY <2>1 DEF W
<1> QED
  BY <1>4 DEF A

\* The documented objective of a selection.
Cost(v, S) ==
  ReturnScale(v) * Risk(v, S) - CovScale(v) * MapThenSumSet(LAMBDA i : v.mu[i], S)
  + LambdaCardinality * ReturnScale(v) * CovScale(v)
    * (Cardinality(S) - TargetSize(v)) * (Cardinality(S) - TargetSize(v))

\* The square the documentation promises and the penalty the matrix holds differ by
\* what does not depend on the selection.
LEMMA CostIsPromised ==
  ASSUME NEW v, N(v) \in Nat \ {0}, IsUniverse(v), NEW S \in SUBSET Assets(v)
  PROVE  LET k == TargetSize(v)
             l == LambdaCardinality * ReturnScale(v) * CovScale(v)
         IN  /\ Energy(Qubo(v, k), S) = Cost(v, S) - l * (k * k)
             /\ Energy(Qubo(v, k), S) = Total(S \X S, Qubo(v, k))
             /\ Cost(v, S) \in Int /\ l * (k * k) \in Int /\ Energy(Qubo(v, k), S) \in Int
<1> DEFINE k == TargetSize(v)
           m == ReturnScale(v)
           s == CovScale(v)
           l == LambdaCardinality * m * s
           c == Cardinality(S)
           R == Total(S \X S, Sigma(v))
           M == Total(S, v.mu)
<1>1. IsFiniteSet(S) /\ c \in Nat
  BY AssetsFinite
<1>2. k \in Int
  BY SizeInRange
<1>3. m \in Int /\ s \in Int
  BY ScalesAreIntegers
<1>4. l \in Int
  <2> HIDE DEF m, s
  <2> QED
    BY <1>3 DEF LambdaCardinality
<1>5. Energy(Qubo(v, k), S) = Total(S \X S, Qubo(v, k))
  BY <1>1, EnergyIs
<1>6. Total(S \X S, Qubo(v, k)) = m * R - s * M + (l * (c * c) - 2 * (l * k) * c)
  <2>1. Total(S \X S, Qubo(v, k)) = Promised(v, k, S)
    <3> HIDE DEF k
    <3> QED
      BY <1>2, EnergyIsPromised
  <2> QED
    BY <2>1 DEF Promised
<1>7. Cost(v, S) = m * R - s * M + l * (c - k) * (c - k)
  <2>1. Risk(v, S) = R /\ MapThenSumSet(LAMBDA i : v.mu[i], S) = M
    BY <1>1, RiskIs, ReturnsAre
  <2> QED
    BY <2>1 DEF Cost
<1>8. R \in Int /\ M \in Int
  <2>1. IsFiniteSet(S \X S)
    BY <1>1, FS_Product
  <2>2. \A p \in S \X S : Sigma(v)[p] \in Int
    <3>1. \A p \in S \X S : p \in Assets(v) \X Assets(v)
      OBVIOUS
    <3> QED
      BY <1>2, <3>1, QuboTypes
  <2>3. \A i \in S : v.mu[i] \in Int
    BY DEF Assets, N, IsUniverse
  <2> QED
    BY <1>1, <2>1, <2>2, <2>3, TotalType
<1> HIDE DEF m, s, l, c, k, R, M
<1>9. l * (c - k) * (c - k) = (l * (c * c) - 2 * (l * k) * c) + l * (k * k)
  BY <1>1, <1>2, <1>4
<1> DEFINE a == m * R - s * M
           p == l * (c * c) - 2 * (l * k) * c
           q == l * (k * k)
<1>10. a \in Int /\ p \in Int /\ q \in Int
  BY <1>1, <1>2, <1>3, <1>4, <1>8
<1>11. Energy(Qubo(v, k), S) = a + p /\ Cost(v, S) = a + (p + q)
  BY <1>5, <1>6, <1>7, <1>9
<1>12. /\ Energy(Qubo(v, k), S) = Cost(v, S) - q
       /\ Cost(v, S) \in Int /\ Energy(Qubo(v, k), S) \in Int
  <2> HIDE DEF a, p, q
  <2> QED
    BY <1>10, <1>11
<1>13. q = l * (k * k)
  OBVIOUS
<1> HIDE DEF a, p, q
<1> QED
  BY <1>5, <1>10, <1>12, <1>13 DEF k, l, m, s

LEMMA IsingEnergyType ==
  ASSUME NEW n \in Nat, NEW Q, Triangular(Q, n), NEW S
  PROVE  IsingEnergy(Ising(Q, n), n, S) \in Int
<1>1. IsFiniteSet(1..n) /\ IsFiniteSet(Couples(n))
  <2>1. IsFiniteSet(1..n)
    BY FS_Interval
  <2>2. IsFiniteSet((1..n) \X (1..n)) /\ Couples(n) \in SUBSET ((1..n) \X (1..n))
    BY <2>1, FS_Product DEF Couples
  <2> QED
    BY <2>1, <2>2, FS_Subset
<1>2. \A a, b, c \in Int : a * b \in Int /\ a * b * c \in Int
  OBVIOUS
<1>3. \A p \in Couples(n) : Bonds(Q, n, S)[p] \in Int
  <2> TAKE p \in Couples(n)
  <2>1. Q[p] \in Int /\ Bonds(Q, n, S)[p] = Q[p] * Spin(S, p[1]) * Spin(S, p[2])
    BY DEF Couples, Triangular, Bonds
  <2> QED
    BY <1>2, <2>1, SpinType
<1>4. \A i \in 1..n : Fields(Q, n, S)[i] \in Int
  <2> SUFFICES ASSUME NEW i \in 1..n PROVE Fields(Q, n, S)[i] \in Int
    OBVIOUS
  <2> DEFINE U == (1..n) \ {i}
             g == [j \in U |-> Both(Q, i, j)]
             phi == Ising(Q, n).field[i]
  <2>1. phi = -2 * Q[<<i, i>>] - Total(U, g)
    BY FieldIs
  <2>2. IsFiniteSet(U) /\ \A j \in U : g[j] \in Int
    BY <1>1, FS_Subset DEF Both, Triangular
  <2>3. Q[<<i, i>>] \in Int
    BY DEF Triangular
  <2>4. Fields(Q, n, S)[i] = phi * Spin(S, i)
    BY DEF Fields
  <2> HIDE DEF U, g, phi
  <2>5. Total(U, g) \in Int
    BY <2>2, TotalType
  <2>6. phi \in Int
    BY <2>1, <2>3, <2>5
  <2> QED
    BY <1>2, <2>4, <2>6, SpinType
<1>5. Total(1..n, Fields(Q, n, S)) \in Int /\ Total(Couples(n), Bonds(Q, n, S)) \in Int
  BY <1>1, <1>3, <1>4, TotalType
<1>6. IsingEnergy(Ising(Q, n), n, S) = Total(1..n, Fields(Q, n, S)) + Total(Couples(n), Bonds(Q, n, S))
  BY IsingEnergyIs
<1> QED
  BY <1>5, <1>6

\* The matrix ranks the selections as the documented objective does, and the
\* Hamiltonian as the matrix.
LEMMA RanksAgree ==
  ASSUME NEW v, N(v) \in Nat \ {0}, IsUniverse(v)
  PROVE  LET Q == Qubo(v, TargetSize(v))
             I == Ising(Q, N(v))
         IN  \A S, T \in SUBSET Assets(v) :
               /\ Energy(Q, S) - Energy(Q, T) = Cost(v, S) - Cost(v, T)
               /\ IsingEnergy(I, N(v), S) - IsingEnergy(I, N(v), T) = 4 * (Energy(Q, S) - Energy(Q, T))
<1> DEFINE Q == Qubo(v, TargetSize(v))
           n == N(v)
           J(S) == IsingEnergy(Ising(Q, n), n, S)
           z == J({}) - 4 * Total({} \X {}, Q)
<1>1. Assets(v) = 1..n
  BY DEF Assets, N
<1>2. Triangular(Q, n)
  <2>1. TargetSize(v) \in Int
    BY SizeInRange
  <2>2. /\ \A p \in Assets(v) \X Assets(v) : Q[p] \in Int
        /\ \A i, j \in Assets(v) : i < j => Q[<<j, i>>] = 0
    <3> HIDE DEF Q
    <3> QED
      BY <2>1, QuboTypes DEF Q
  <2> HIDE DEF Q
  <2> QED
    BY <1>1, <2>2 DEF Triangular
<1> SUFFICES ASSUME NEW S \in SUBSET Assets(v), NEW T \in SUBSET Assets(v)
             PROVE  /\ Energy(Q, S) - Energy(Q, T) = Cost(v, S) - Cost(v, T)
                    /\ J(S) - J(T) = 4 * (Energy(Q, S) - Energy(Q, T))
  OBVIOUS
<1> DEFINE q == LambdaCardinality * ReturnScale(v) * CovScale(v) * (TargetSize(v) * TargetSize(v))
<1>3. \A X \in SUBSET Assets(v) :
        /\ Energy(Q, X) = Cost(v, X) - q /\ Energy(Q, X) = Total(X \X X, Q)
        /\ Cost(v, X) \in Int /\ q \in Int /\ Energy(Q, X) \in Int
  BY CostIsPromised
<1>4. \A X \in SUBSET Assets(v) : J(X) - 4 * Total(X \X X, Q) = z /\ J(X) \in Int
  <2> HIDE DEF Q
  <2> QED
    BY <1>1, <1>2, IsingIsTheMatrix, IsingEnergyType
<1>5. J(S) - 4 * Energy(Q, S) = J(T) - 4 * Energy(Q, T) /\ J(S) \in Int /\ J(T) \in Int
  BY <1>3, <1>4
<1> HIDE DEF Q, J, q, z
<1>6. /\ Energy(Q, S) = Cost(v, S) - q /\ Energy(Q, T) = Cost(v, T) - q
      /\ Cost(v, S) \in Int /\ Cost(v, T) \in Int /\ q \in Int
      /\ Energy(Q, S) \in Int /\ Energy(Q, T) \in Int
  BY <1>3
<1>7. Energy(Q, S) - Energy(Q, T) = Cost(v, S) - Cost(v, T)
  BY <1>6
<1>8. J(S) - J(T) = 4 * (Energy(Q, S) - Energy(Q, T))
  BY <1>5, <1>6
<1> QED
  BY <1>7, <1>8

\* The matrix in use is the one the dispatcher built for this universe.
QuboInv == problem \in Problems /\ (stage = "quantum" => qubo = Qubo(u, TargetSize(u)))

\* Whatever the universe -- negative returns, assets without risk, any scale of
\* either -- the matrix both solvers are given ranks all selections as the
\* objective its documentation states, and the Hamiltonian VQE descends ranks them
\* as the matrix.
THEOREM MatrixIsTheObjective == Spec => []QuboIsTheObjective
<1>1. Init => QuboInv
  BY DEF Init, QuboInv
<1>2. QuboInv /\ [Next]_vars => QuboInv'
  <2> SUFFICES ASSUME QuboInv, [Next]_vars PROVE QuboInv'
    OBVIOUS
  <2>1. ASSUME UNCHANGED <<problem, qubo>>, stage' = "quantum" => stage = "quantum" PROVE QuboInv'
    BY <2>1 DEF QuboInv, u
  <2>2. CASE Dispatch
    BY <2>2 DEF Dispatch, QuboInv, u
  <2>3. CASE Validate \/ SolveClassical \/ QaoaReturns \/ VqeReturns \/ Collect
             \/ Anchors \/ SweepLevel \/ Report
    <3>1. UNCHANGED <<problem, qubo>> /\ (stage' = "quantum" => stage = "quantum")
      BY <2>3 DEF Validate, SolveClassical, QaoaReturns, VqeReturns, Collect, Anchors, SweepLevel,
                  Report, AfterQuantum, Finish
    <3> QED
      BY <2>1, <3>1
  <2>4. ASSUME NEW a \in Algorithms, FallsBack(a) \/ TimesOut(a) PROVE QuboInv'
    BY <2>1, <2>4 DEF FallsBack, TimesOut
  <2>5. CASE UNCHANGED vars
    BY <2>1, <2>5 DEF vars
  <2> QED
    BY <2>2, <2>3, <2>4, <2>5 DEF Next
<1>3. QuboInv => QuboIsTheObjective
  <2> SUFFICES ASSUME QuboInv, stage = "quantum" PROVE QuboIsTheObjective
    BY DEF QuboIsTheObjective
  <2>1. qubo = Qubo(u, TargetSize(u)) /\ N(u) \in Nat \ {0} /\ IsUniverse(u)
    BY UniverseAssumption, ProblemAssumption DEF QuboInv, u
  <2> QED
    BY <2>1, RanksAgree DEF QuboIsTheObjective, Cost
<1> QED
  BY <1>1, <1>2, <1>3, PTL DEF Spec

-----------------------------------------------------------------------------
(* VQE on all bit strings: the best selection of the target size.          *)

\* How the penalty of a size moves with the size.
LEMMA PenaltyMoves ==
  ASSUME NEW l \in Nat, NEW k \in Int, NEW c \in Int
  PROVE  LET P(x) == l * (x * x) - 2 * (l * k) * x
         IN  /\ c > k => P(c - 1) <= P(c) - l
             /\ c < k => P(c + 1) <= P(c) - l
<1> DEFINE P(x) == l * (x * x) - 2 * (l * k) * x
<1>1. /\ P(c - 1) = P(c) - l * (2 * (c - k) - 1)
      /\ P(c + 1) = P(c) - l * (2 * (k - c) - 1)
  OBVIOUS
<1>2. \A n \in Nat \ {0} : l * n >= l
  OBVIOUS
<1>3. P(c) \in Int /\ \A n \in Int : l * n \in Int
  OBVIOUS
<1> HIDE DEF P
<1>4. c > k => P(c - 1) <= P(c) - l
  <2> SUFFICES ASSUME c > k PROVE P(c - 1) <= P(c) - l
    OBVIOUS
  <2>1. 2 * (c - k) - 1 \in Nat \ {0}
    OBVIOUS
  <2>2. l * (2 * (c - k) - 1) >= l /\ l * (2 * (c - k) - 1) \in Int
    BY <1>2, <1>3, <2>1
  <2> DEFINE q == l * (2 * (c - k) - 1)
  <2> HIDE DEF q
  <2>3. P(c - 1) = P(c) - q /\ q >= l /\ q \in Int
    BY <1>1, <2>2 DEF q
  <2> QED
    BY <1>3, <2>3
<1>5. c < k => P(c + 1) <= P(c) - l
  <2> SUFFICES ASSUME c < k PROVE P(c + 1) <= P(c) - l
    OBVIOUS
  <2>1. 2 * (k - c) - 1 \in Nat \ {0}
    OBVIOUS
  <2>2. l * (2 * (k - c) - 1) >= l /\ l * (2 * (k - c) - 1) \in Int
    BY <1>2, <1>3, <2>1
  <2> DEFINE q == l * (2 * (k - c) - 1)
  <2> HIDE DEF q
  <2>3. P(c + 1) = P(c) - q /\ q >= l /\ q \in Int
    BY <1>1, <2>2 DEF q
  <2> QED
    BY <1>3, <2>3
<1> QED
  BY <1>4, <1>5 DEF P

\* The penalty against a change of the risk by at most four scales, less one, and
\* of the return by at most one.
LEMMA PenaltyOutweighs ==
  ASSUME NEW m \in Nat \ {0}, NEW s \in Nat \ {0},
         NEW R \in Int, NEW R2 \in Int, R2 <= R + (4 * s - 1),
         NEW M \in Int, NEW M2 \in Int, M <= M2 + m,
         NEW p \in Int, NEW p2 \in Int, p2 <= p - LambdaCardinality * m * s
  PROVE  (m * R2 - s * M2) + p2 < (m * R - s * M) + p
<1>1. m * R2 <= m * (R + (4 * s - 1))
  OBVIOUS
<1>2. m * (R + (4 * s - 1)) = m * R + 4 * (m * s) - m
  OBVIOUS
<1>3. s * M <= s * (M2 + m)
  OBVIOUS
<1>4. s * (M2 + m) = s * M2 + m * s
  OBVIOUS
<1>5. p2 <= p - 5 * (m * s)
  BY DEF LambdaCardinality
<1> DEFINE a == m * R
           b == m * R2
           d == s * M
           e == s * M2
           f == m * s
<1>6. a \in Int /\ b \in Int /\ d \in Int /\ e \in Int /\ f \in Int
  OBVIOUS
<1>7. b <= a + 4 * f - m /\ d <= e + f /\ p2 <= p - 5 * f
  BY <1>1, <1>2, <1>3, <1>4, <1>5
<1> HIDE DEF a, b, d, e, f
<1>8. (b - e) + p2 < (a - d) + p
  BY <1>6, <1>7
<1> QED
  BY <1>8 DEF a, b, d, e

\* The energy of a selection by its parts.
LEMMA EnergyParts ==
  ASSUME NEW v, N(v) \in Nat \ {0}, IsUniverse(v), NEW S \in SUBSET Assets(v)
  PROVE  LET k == TargetSize(v)
             l == LambdaCardinality * ReturnScale(v) * CovScale(v)
             c == Cardinality(S)
             R == Total(S \X S, Sigma(v))
             M == Total(S, v.mu)
         IN  /\ Energy(Qubo(v, k), S)
                  = (ReturnScale(v) * R - CovScale(v) * M) + (l * (c * c) - 2 * (l * k) * c)
             /\ R \in Int /\ M \in Int /\ l \in Nat /\ k \in Nat /\ c \in Nat
             /\ l * (c * c) - 2 * (l * k) * c \in Int
<1> DEFINE k == TargetSize(v)
           m == ReturnScale(v)
           s == CovScale(v)
           l == LambdaCardinality * m * s
           c == Cardinality(S)
           R == Total(S \X S, Sigma(v))
           M == Total(S, v.mu)
<1>1. IsFiniteSet(S) /\ c \in Nat /\ k \in Nat
  BY AssetsFinite, SizeInRange
<1>2. m \in Nat /\ s \in Nat
  BY ScalesBound
<1>3. l \in Nat
  <2>1. \A a, b \in Nat : 5 * a * b \in Nat
    OBVIOUS
  <2> HIDE DEF m, s
  <2> QED
    BY <1>2, <2>1 DEF LambdaCardinality
<1>4. R \in Int /\ M \in Int
  <2>1. IsFiniteSet(S \X S)
    BY <1>1, FS_Product
  <2>2. /\ \A p \in Assets(v) \X Assets(v) : Sigma(v)[p] \in Int
        /\ \A i \in Assets(v) : v.mu[i] \in Int
    BY ScalesBound
  <2>3. /\ \A p \in S \X S : Sigma(v)[p] \in Int
        /\ \A i \in S : v.mu[i] \in Int
    BY <2>2
  <2> QED
    BY <1>1, <2>1, <2>3, TotalType
<1>5. Energy(Qubo(v, k), S) = Total(S \X S, Qubo(v, k))
  BY <1>1, EnergyIs
<1>6. Total(S \X S, Qubo(v, k)) = Promised(v, k, S)
  <2> HIDE DEF k
  <2> QED
    BY <1>1, EnergyIsPromised
<1>7. Promised(v, k, S) = m * R - s * M + (l * (c * c) - 2 * (l * k) * c)
  BY DEF Promised
<1>8. l * (c * c) - 2 * (l * k) * c \in Int
  <2> HIDE DEF l, c, k
  <2> QED
    BY <1>1, <1>3
<1> QED
  BY <1>1, <1>3, <1>4, <1>5, <1>6, <1>7, <1>8

\* What makes the penalty outweigh risk and return: no selection has a negative risk
\* (the covariance matrix is repaired until it is positive semi-definite), and from
\* six assets on, where three and more are selected, no two of them vary together
\* too much: less than three quarters of the scale for three, half of it for four.
Tame(v) ==
  /\ \A S \in SUBSET Assets(v) : Risk(v, S) >= 0
  /\ N(v) >= 6 => \A i, j \in Assets(v) :
                    i # j => 2 * (TargetSize(v) - 1) * v.sigma[i][j] < 3 * CovScale(v)

\* Up to five assets one or two are selected, and the second condition says nothing.
LEMMA PairsAreTame ==
  ASSUME NEW v, N(v) \in Nat \ {0}, IsUniverse(v), Tame(v),
         NEW i \in Assets(v), NEW j \in Assets(v), i # j
  PROVE  2 * (TargetSize(v) - 1) * v.sigma[i][j] < 3 * CovScale(v)
<1>1. CASE N(v) >= 6
  BY <1>1 DEF Tame
<1>2. CASE N(v) <= 5
  <2> DEFINE k == TargetSize(v)
             a == v.sigma[i][j]
             s == CovScale(v)
             h == Max({2, N(v) \div 2})
  <2>1. N(v) \div 2 \in Int /\ N(v) \div 2 <= 2
    BY <1>2
  <2>2. h = 2
    BY <2>1, MaxOfTwo
  <2>3. k \in 1..2
    <3>1. Min({2, N(v)}) \in 1..2
      BY MinOfTwo
    <3>2. Max({1, Min({2, N(v)})}) \in 1..2
      BY <3>1, MaxOfTwo
    <3> QED
      BY <2>2, <3>2 DEF TargetSize
  <2>4. a \in Int /\ a <= s /\ s \in Nat \ {0}
    <3>1. <<i, j>> \in Assets(v) \X Assets(v) /\ Sigma(v)[<<i, j>>] = a
      BY DEF Sigma
    <3> QED
      BY <3>1, ScalesBound
  <2> HIDE DEF k, a, s
  <2>5. 2 * (k - 1) * a < 3 * s
    <3>1. CASE k = 1
      BY <2>4, <3>1
    <3>2. CASE k = 2
      BY <2>4, <3>2
    <3> QED
      BY <2>3, <3>1, <3>2
  <2> QED
    BY <2>5 DEF k, a, s
<1> QED
  BY <1>1, <1>2

\* From a selection that is too large an asset can be taken that makes it cheaper.
LEMMA SmallerIsCheaper ==
  ASSUME NEW v, N(v) \in Nat \ {0}, IsUniverse(v), Tame(v), NEW S \in SUBSET Assets(v),
         Cardinality(S) > TargetSize(v)
  PROVE  \E T \in SUBSET Assets(v) : Energy(Qubo(v, TargetSize(v)), T) < Energy(Qubo(v, TargetSize(v)), S)
<1> DEFINE k == TargetSize(v)
           m == ReturnScale(v)
           s == CovScale(v)
           l == LambdaCardinality * m * s
           F == Sigma(v)
           E(X) == Energy(Qubo(v, k), X)
           R(X) == Total(X \X X, F)
           M(X) == Total(X, v.mu)
           P(c) == l * (c * c) - 2 * (l * k) * c
           c == Cardinality(S)
<1>1. IsFiniteSet(S) /\ c \in Nat /\ k \in Nat /\ c > k
  BY AssetsFinite, SizeInRange
<1>2. /\ m \in Nat \ {0} /\ s \in Nat \ {0}
      /\ \A i \in Assets(v) : v.mu[i] \in Int /\ v.mu[i] <= m
      /\ \A p \in Assets(v) \X Assets(v) : F[p] \in Int /\ F[p] <= s
  BY ScalesBound
<1>3. S # {}
  BY <1>1, FS_EmptySet
<1>4. R(S) >= 0
  BY <1>1, RiskIs DEF Tame
<1>5. PICK x \in S : R(S \ {x}) <= R(S) + s
  <2>1. /\ \A p \in S \X S : F[p] \in Int
        /\ \A i \in S : F[<<i, i>>] <= s
        /\ s \in Int
    BY <1>2
  <2> HIDE DEF s, F
  <2> QED
    BY <1>1, <1>3, <1>4, <2>1, QuadraticLoses
<1> DEFINE T == S \ {x}
<1>6. /\ T \in SUBSET Assets(v) /\ IsFiniteSet(T) /\ Cardinality(T) = c - 1
      /\ x \notin T /\ T \cup {x} = S
  BY <1>1, FS_RemoveElement
<1>7. M(S) = M(T) + v.mu[x] /\ v.mu[x] \in Int /\ v.mu[x] <= m
  <2>1. \A i \in T \cup {x} : v.mu[i] \in Int
    BY <1>2
  <2> HIDE DEF T, m
  <2>2. Total(T \cup {x}, v.mu) = Total(T, v.mu) + v.mu[x]
    BY <1>6, <2>1, TotalAdds
  <2>3. x \in Assets(v)
    OBVIOUS
  <2> QED
    BY <1>2, <1>6, <2>2, <2>3
<1>8. /\ E(S) = (m * R(S) - s * M(S)) + P(c) /\ R(S) \in Int /\ M(S) \in Int
      /\ P(c) \in Int /\ l \in Nat
  BY EnergyParts
<1>9. /\ E(T) = (m * R(T) - s * M(T)) + P(c - 1) /\ R(T) \in Int /\ M(T) \in Int
      /\ P(c - 1) \in Int
  <2>1. /\ E(T) = (m * R(T) - s * M(T)) + P(Cardinality(T)) /\ R(T) \in Int /\ M(T) \in Int
        /\ P(Cardinality(T)) \in Int
    <3> HIDE DEF T
    <3> QED
      BY <1>6, EnergyParts
  <2> HIDE DEF E, R, M, P
  <2> QED
    BY <1>6, <2>1
<1>10. P(c - 1) <= P(c) - l
  <2> HIDE DEF l, k, c
  <2> QED
    BY <1>1, <1>8, PenaltyMoves
<1>11. E(T) < E(S)
  <2>1. l = LambdaCardinality * m * s
    OBVIOUS
  <2> HIDE DEF E, R, M, P, l, k, c, T, m, s
  <2> DEFINE r1 == R(S)
             r2 == R(T)
             m1 == M(S)
             m2 == M(T)
             p1 == P(c)
             p2 == P(c - 1)
  <2>2. r1 \in Int /\ r2 \in Int /\ m1 \in Int /\ m2 \in Int /\ p1 \in Int /\ p2 \in Int
    BY <1>8, <1>9
  <2>3. r2 <= r1 + (4 * s - 1)
    <3>1. r2 <= r1 + s
      BY <1>5 DEF T
    <3> HIDE DEF r1, r2
    <3> QED
      BY <1>2, <2>2, <3>1
  <2>4. m1 <= m2 + m
    <3>1. m1 = m2 + v.mu[x] /\ v.mu[x] \in Int /\ v.mu[x] <= m /\ m \in Int
      BY <1>2, <1>7
    <3> HIDE DEF m1, m2
    <3> QED
      BY <2>2, <3>1
  <2>5. p2 <= p1 - LambdaCardinality * m * s
    BY <1>10, <2>1
  <2>6. E(S) = (m * r1 - s * m1) + p1 /\ E(T) = (m * r2 - s * m2) + p2
    BY <1>8, <1>9
  <2>7. m \in Nat \ {0} /\ s \in Nat \ {0}
    BY <1>2
  <2> HIDE DEF r1, r2, m1, m2, p1, p2
  <2>8. (m * r2 - s * m2) + p2 < (m * r1 - s * m1) + p1
    BY <2>2, <2>3, <2>4, <2>5, <2>7, PenaltyOutweighs
  <2> QED
    BY <2>6, <2>8
<1> QED
  BY <1>6, <1>11

\* A selection that is too small gets cheaper with any asset it has not.
LEMMA LargerIsCheaper ==
  ASSUME NEW v, N(v) \in Nat \ {0}, IsUniverse(v), Tame(v), NEW S \in SUBSET Assets(v),
         Cardinality(S) < TargetSize(v)
  PROVE  \E T \in SUBSET Assets(v) : Energy(Qubo(v, TargetSize(v)), T) < Energy(Qubo(v, TargetSize(v)), S)
<1> DEFINE k == TargetSize(v)
           m == ReturnScale(v)
           s == CovScale(v)
           l == LambdaCardinality * m * s
           F == Sigma(v)
           E(X) == Energy(Qubo(v, k), X)
           R(X) == Total(X \X X, F)
           M(X) == Total(X, v.mu)
           P(c) == l * (c * c) - 2 * (l * k) * c
           c == Cardinality(S)
<1>1. IsFiniteSet(S) /\ c \in Nat /\ k \in Nat \ {0} /\ c < k /\ k <= N(v) /\ Cardinality(Assets(v)) = N(v)
  BY AssetsFinite, SizeInRange
<1>2. /\ m \in Nat \ {0} /\ s \in Nat \ {0}
      /\ \A i \in Assets(v) : v.mu[i] \in Int /\ -v.mu[i] <= m
      /\ \A p \in Assets(v) \X Assets(v) : F[p] \in Int /\ F[p] <= s
  BY ScalesBound
<1>3. PICK x \in Assets(v) : x \notin S
  <2>1. S # Assets(v)
    BY <1>1
  <2> QED
    BY <2>1
<1> DEFINE T == S \cup {x}
<1>4. T \in SUBSET Assets(v) /\ IsFiniteSet(T) /\ Cardinality(T) = c + 1
  BY <1>1, <1>3, FS_AddElement
<1>5. R(T) <= R(S) + F[<<x, x>>] + (3 * s - 1)
  <2> DEFINE n == k - 1
             d == 3 * s - 1
  <2>1. n \in Nat /\ d \in Nat /\ Cardinality(S) <= n
    <3> HIDE DEF k, s
    <3> QED
      BY <1>1, <1>2
  <2>2. \A p \in (S \cup {x}) \X (S \cup {x}) : F[p] \in Int
    BY <1>2
  <2>3. ASSUME NEW i \in S PROVE n * (F[<<x, i>>] + F[<<i, x>>]) <= d
    <3> DEFINE a == v.sigma[x][i]
    <3>1. i \in Assets(v) /\ x # i
      BY <1>3
    <3>2. F[<<x, i>>] = a /\ F[<<i, x>>] = a /\ a \in Int
      BY <3>1 DEF Sigma, IsUniverse
    <3>3. 2 * (k - 1) * a < 3 * s
      BY <1>3, <3>1, PairsAreTame
    <3> HIDE DEF a, k, s
    <3>4. 2 * (k - 1) * a = n * (a + a) /\ n * (a + a) \in Int
      BY <1>1, <3>2
    <3>5. n * (a + a) < 3 * s
      BY <3>3, <3>4
    <3>6. n * (a + a) <= d
      <4> DEFINE q == n * (a + a)
      <4>1. q \in Int /\ q < 3 * s
        BY <3>4, <3>5
      <4> HIDE DEF q
      <4>2. q <= d
        BY <1>2, <4>1
      <4> QED
        BY <4>2 DEF q
    <3> QED
      BY <3>2, <3>6
  <2> HIDE DEF F, n, d
  <2>4. Total((S \cup {x}) \X (S \cup {x}), F) <= Total(S \X S, F) + F[<<x, x>>] + d
    BY <1>1, <1>3, <2>1, <2>2, <2>3, QuadraticGains
  <2> QED
    BY <2>4 DEF d
<1>6. F[<<x, x>>] \in Int /\ F[<<x, x>>] <= s
  BY <1>2
<1>7. M(T) = M(S) + v.mu[x] /\ v.mu[x] \in Int /\ -v.mu[x] <= m
  <2>1. \A i \in S \cup {x} : v.mu[i] \in Int
    BY <1>2
  <2>2. Total(S \cup {x}, v.mu) = Total(S, v.mu) + v.mu[x]
    BY <1>1, <1>3, <2>1, TotalAdds
  <2> QED
    BY <1>2, <2>2
<1>8. /\ E(S) = (m * R(S) - s * M(S)) + P(c) /\ R(S) \in Int /\ M(S) \in Int
      /\ P(c) \in Int /\ l \in Nat
  BY EnergyParts
<1>9. /\ E(T) = (m * R(T) - s * M(T)) + P(c + 1) /\ R(T) \in Int /\ M(T) \in Int
      /\ P(c + 1) \in Int
  <2>1. /\ E(T) = (m * R(T) - s * M(T)) + P(Cardinality(T)) /\ R(T) \in Int /\ M(T) \in Int
        /\ P(Cardinality(T)) \in Int
    <3> HIDE DEF T
    <3> QED
      BY <1>4, EnergyParts
  <2> HIDE DEF E, R, M, P
  <2> QED
    BY <1>4, <2>1
<1>10. P(c + 1) <= P(c) - l
  <2> HIDE DEF l, k, c
  <2> QED
    BY <1>1, <1>8, PenaltyMoves
<1>11. E(T) < E(S)
  <2>1. l = LambdaCardinality * m * s
    OBVIOUS
  <2> HIDE DEF E, R, M, P, l, k, c, T, m, s, F
  <2> DEFINE r1 == R(S)
             r2 == R(T)
             m1 == M(S)
             m2 == M(T)
             p1 == P(c)
             p2 == P(c + 1)
             e == F[<<x, x>>]
  <2>2. r1 \in Int /\ r2 \in Int /\ m1 \in Int /\ m2 \in Int /\ p1 \in Int /\ p2 \in Int
    BY <1>8, <1>9
  <2>3. r2 <= r1 + (4 * s - 1)
    <3>1. r2 <= r1 + e + (3 * s - 1) /\ e \in Int /\ e <= s
      BY <1>5, <1>6
    <3> HIDE DEF r1, r2, e
    <3> QED
      BY <1>2, <2>2, <3>1
  <2>4. m1 <= m2 + m
    <3>1. m2 = m1 + v.mu[x] /\ v.mu[x] \in Int /\ -v.mu[x] <= m /\ m \in Int
      BY <1>2, <1>7
    <3> HIDE DEF m1, m2
    <3> QED
      BY <2>2, <3>1
  <2>5. p2 <= p1 - LambdaCardinality * m * s
    BY <1>10, <2>1
  <2>6. E(S) = (m * r1 - s * m1) + p1 /\ E(T) = (m * r2 - s * m2) + p2
    BY <1>8, <1>9
  <2>7. m \in Nat \ {0} /\ s \in Nat \ {0}
    BY <1>2
  <2> HIDE DEF r1, r2, m1, m2, p1, p2
  <2>8. (m * r2 - s * m2) + p2 < (m * r1 - s * m1) + p1
    BY <2>2, <2>3, <2>4, <2>5, <2>7, PenaltyOutweighs
  <2> QED
    BY <2>6, <2>8
<1> QED
  BY <1>4, <1>11
\* A bit string of least energy has the target size, so the repair leaves it alone.
LEMMA LeastEnergyIsRight ==
  ASSUME NEW v, N(v) \in Nat \ {0}, IsUniverse(v), Tame(v),
         NEW S \in OfLeastEnergy(Qubo(v, TargetSize(v)), SUBSET Assets(v)),
         NEW T \in EnforceCardinality(v, S, TargetSize(v))
  PROVE  \A X \in SUBSET Assets(v) : Energy(Qubo(v, TargetSize(v)), T) <= Energy(Qubo(v, TargetSize(v)), X)
<1> DEFINE E(X) == Energy(Qubo(v, TargetSize(v)), X)
           k == TargetSize(v)
           c == Cardinality(S)
<1>1. S \in SUBSET Assets(v) /\ \A X \in SUBSET Assets(v) : E(S) <= E(X)
  BY DEF OfLeastEnergy
<1>2. \A X \in SUBSET Assets(v) : E(X) \in Int
  BY CostIsPromised
<1>3. c \in Nat /\ k \in Nat
  BY <1>1, AssetsFinite, SizeInRange
<1>4. ~\E X \in SUBSET Assets(v) : E(X) < E(S)
  <2> HIDE DEF E
  <2> QED
    BY <1>1, <1>2
<1>5. ~(c > k)
  BY <1>1, <1>4, SmallerIsCheaper
<1>6. ~(c < k)
  BY <1>1, <1>4, LargerIsCheaper
<1>7. c = k
  <2> HIDE DEF c, k
  <2> QED
    BY <1>3, <1>5, <1>6
<1>8. T = S
  BY <1>3, <1>5, <1>6, <1>7 DEF EnforceCardinality
<1> QED
  BY <1>1, <1>8

\* The threads work on the matrix of this universe, and what VQE selected after it
\* had seen everything has the least energy.
Cheapest(Q, S) == \A X \in SUBSET Assets(u) : Energy(Q, S) <= Energy(Q, X)
BestInv ==
  /\ problem \in Problems
  /\ DOMAIN threads = Algorithms /\ DOMAIN selection = Algorithms
  /\ \/ \A a \in Algorithms : threads[a] = "none"
     \/ stage \notin {"validate", "classical", "dispatch"} /\ qubo = Qubo(u, TargetSize(u))
  /\ sampledAll => threads["vqe"] = "done" /\ (Tame(u) => Cheapest(qubo, selection["vqe"]))

LEMMA BestStep == BestInv /\ [Next]_vars => BestInv'
<1> SUFFICES ASSUME BestInv, [Next]_vars PROVE BestInv'
  OBVIOUS
<1> USE DEF Algorithms
<1>1. CASE UNCHANGED <<problem, threads, selection, sampledAll, qubo>>
           /\ (stage' \in {"validate", "classical", "dispatch"} =>
                 stage \in {"validate", "classical", "dispatch"})
  BY <1>1 DEF BestInv, u, Cheapest
<1>2. CASE Validate \/ SolveClassical \/ Collect \/ Anchors \/ SweepLevel \/ Report
  BY <1>1, <1>2 DEF Validate, SolveClassical, Collect, Anchors, SweepLevel, Report, AfterQuantum, Finish
<1>3. CASE Dispatch
  BY <1>3 DEF Dispatch, BestInv, u
<1>4. CASE QaoaReturns
  <2>1. UNCHANGED <<problem, stage, qubo, sampledAll>> /\ threads["qaoa"] = "running"
    BY <1>4 DEF QaoaReturns
  <2>2. PICK T : Selected("qaoa", T)
    BY <1>4 DEF QaoaReturns
  <2> QED
    BY <2>1, <2>2 DEF Selected, BestInv, u, Cheapest
<1>5. CASE VqeReturns
  <2>1. UNCHANGED <<problem, stage, qubo>> /\ threads["vqe"] = "running"
    BY <1>5 DEF VqeReturns
  <2>2. PICK samples \in Samples, S \in SUBSET Assets(u) :
          /\ S \in OfLeastEnergy(qubo, samples)
          /\ sampledAll' = (samples = SUBSET Assets(u))
          /\ \E T \in EnforceCardinality(u, S, TargetSize(u)) : Selected("vqe", T)
    BY <1>5 DEF VqeReturns
  <2>3. PICK T \in EnforceCardinality(u, S, TargetSize(u)) : Selected("vqe", T)
    BY <2>2
  <2>4. /\ qubo = Qubo(u, TargetSize(u))
        /\ stage \notin {"validate", "classical", "dispatch"}
        /\ N(u) \in Nat \ {0} /\ IsUniverse(u)
    BY <2>1, UniverseAssumption, ProblemAssumption DEF BestInv, u
  <2>5. ASSUME sampledAll', Tame(u) PROVE Cheapest(qubo, T)
    <3>1. S \in OfLeastEnergy(Qubo(u, TargetSize(u)), SUBSET Assets(u))
      BY <2>2, <2>4, <2>5
    <3> QED
      BY <2>3, <2>4, <2>5, <3>1, LeastEnergyIsRight DEF Cheapest
  <2>6. selection'["vqe"] = T /\ threads'["vqe"] = "done"
        /\ DOMAIN threads' = DOMAIN threads /\ DOMAIN selection' = DOMAIN selection
    BY <2>3 DEF Selected, BestInv
  <2>7. u' = u /\ qubo' = qubo /\ stage' = stage /\ problem' = problem
    BY <2>1 DEF u
  <2>8. (Tame(u) => Cheapest(qubo, T)) \/ ~sampledAll'
    BY <2>5
  <2>9. sampledAll' => (Tame(u) => Cheapest(qubo, selection["vqe"]))'
    BY <2>6, <2>7, <2>8 DEF Cheapest
  <2> QED
    BY <2>4, <2>6, <2>7, <2>9 DEF BestInv
<1>6. ASSUME NEW a \in Algorithms, FallsBack(a) PROVE BestInv'
  <2>1. UNCHANGED <<problem, stage, qubo, sampledAll>> /\ threads[a] = "running"
    BY <1>6 DEF FallsBack
  <2>2. PICK T : Selected(a, T)
    BY <1>6 DEF FallsBack
  <2> QED
    BY <2>1, <2>2 DEF Selected, BestInv, u, Cheapest
<1>7. ASSUME NEW a \in Algorithms, TimesOut(a) PROVE BestInv'
  BY <1>7 DEF TimesOut, BestInv, u, Cheapest
<1>8. CASE UNCHANGED vars
  BY <1>1, <1>8 DEF vars
<1> QED
  BY <1>2, <1>3, <1>4, <1>5, <1>6, <1>7, <1>8 DEF Next

\* When VQE has seen every bit string, no selection of the target size has a lower
\* energy than its own: of a universe of any size, as long as it is Tame.
THEOREM SelectionsAreRight == Spec => [](Tame(u) => SelectionIsRight)
<1>1. Init => BestInv
  BY DEF Init, BestInv, Algorithms
<1>2. BestInv /\ RightSize => (Tame(u) => SelectionIsRight)
  <2> SUFFICES ASSUME BestInv, RightSize, Tame(u), sampledAll,
                      NEW T \in kSubset(TargetSize(u), Assets(u))
               PROVE  Energy(qubo, selection["vqe"]) <= Energy(qubo, T)
    BY DEF SelectionIsRight
  <2>1. T \in SUBSET Assets(u)
    BY DEF kSubset
  <2> QED
    BY <2>1 DEF BestInv, Cheapest
<1> QED
  BY <1>1, <1>2, BestStep, SelectionsHaveTheSize, PTL DEF Spec

-----------------------------------------------------------------------------
(* Best portfolios and sorted points.                                      *)

\* There are finitely many portfolios: a function is told by its pairs.
LEMMA PortfoliosAreFinite ==
  ASSUME NEW v, N(v) \in Nat PROVE IsFiniteSet(Portfolios(v))
<1> DEFINE A == Assets(v)
           V == 0..Grid
           pairs == [w \in [A -> V] |-> {<<i, w[i]>> : i \in A}]
<1>1. IsFiniteSet(A) /\ IsFiniteSet(V)
  <2>1. IsFiniteSet(0..Grid)
    BY FS_Interval, GridAssumption
  <2> QED
    BY <2>1, AssetsAreFinite
<1>2. IsFiniteSet(SUBSET (A \X V))
  BY <1>1, FS_Product, FS_SUBSET
<1>3. pairs \in Injection([A -> V], SUBSET (A \X V))
  <2> HIDE DEF A, V
  <2>1. \A w \in [A -> V] : pairs[w] \in SUBSET (A \X V)
    OBVIOUS
  <2>2. ASSUME NEW w \in [A -> V], NEW z \in [A -> V], pairs[w] = pairs[z] PROVE w = z
    <3>1. ASSUME NEW i \in A PROVE w[i] = z[i]
      <4>1. <<i, w[i]>> \in pairs[z]
        BY <2>2
      <4> QED
        BY <4>1
    <3> QED
      BY <3>1
  <2> QED
    BY <2>1, <2>2 DEF Injection, IsInjective
<1>4. IsFiniteSet([A -> V])
  BY <1>2, <1>3, FS_Injection
<1>5. Portfolios(v) \in SUBSET [A -> V]
  BY DEF Portfolios
<1> QED
  BY <1>4, <1>5, FS_Subset

\* In a finite set nothing is ahead of some member, if to be ahead is transitive.
LEMMA FirstExists ==
  ASSUME NEW T, IsFiniteSet(T), T # {}, NEW R,
         \A w \in T : <<w, w>> \notin R,
         \A x, y, z \in T : <<x, y>> \in R /\ <<y, z>> \in R => <<x, z>> \in R
  PROVE  \E w \in T : \A z \in T : <<z, w>> \notin R
<1> DEFINE Ahead(w) == {z \in T : <<z, w>> \in R}
           A == {Cardinality(Ahead(w)) : w \in T}
<1>1. \A w \in T : IsFiniteSet(Ahead(w)) /\ Cardinality(Ahead(w)) \in Nat
  BY FS_Subset, FS_CardinalityType
<1>2. PICK m \in A : \A k \in A : m <= k
  <2>1. A \subseteq Nat /\ A # {}
    <3> HIDE DEF Ahead
    <3> QED
      BY <1>1
  <2> HIDE DEF A
  <2> QED
    BY <2>1, LeastNumber
<1>3. PICK w \in T : m = Cardinality(Ahead(w))
  BY <1>2
<1>4. ASSUME NEW z \in Ahead(w) PROVE FALSE
  <2>1. z \in T /\ <<z, w>> \in R
    OBVIOUS
  <2>2. Ahead(z) \in SUBSET (Ahead(w) \ {z})
    BY <2>1
  <2>3. /\ IsFiniteSet(Ahead(w) \ {z})
        /\ Cardinality(Ahead(w) \ {z}) = Cardinality(Ahead(w)) - 1
    <3> HIDE DEF Ahead
    <3> QED
      BY <1>1, <1>4, FS_RemoveElement
  <2>4. Cardinality(Ahead(z)) <= m - 1
    <3> HIDE DEF Ahead
    <3> QED
      BY <1>3, <2>2, <2>3, FS_Subset
  <2>5. Cardinality(Ahead(z)) \in A /\ Cardinality(Ahead(z)) \in Nat /\ m \in Nat
    <3> HIDE DEF Ahead
    <3> QED
      BY <1>1, <1>3, <2>1
  <2> HIDE DEF A, Ahead
  <2>6. m <= Cardinality(Ahead(z))
    BY <1>2, <2>5
  <2> QED
    BY <2>4, <2>5, <2>6
<1> QED
  BY <1>4

\* A finite set has a best member.
LEMMA BestExists ==
  ASSUME NEW v, NEW name, NEW T, IsFiniteSet(T), T # {}, \A w \in T : Measure(name, v, w) \in Int
  PROVE  Best(name, v, T) # {}
<1> DEFINE M(w) == Measure(name, v, w)
           R == {p \in T \X T : Better(name, M(p[1]), M(p[2]))}
<1> HIDE DEF M
<1>1. \A w \in T : M(w) \in Int
  BY DEF M
<1>2. \A w \in T : <<w, w>> \notin R
  BY <1>1 DEF Better
<1>3. \A x, y, z \in T : <<x, y>> \in R /\ <<y, z>> \in R => <<x, z>> \in R
  BY <1>1 DEF Better
<1>4. \A w, z \in T : <<z, w>> \notin R => ~Better(name, M(z), M(w))
  OBVIOUS
<1> HIDE DEF R
<1>5. PICK w \in T : \A z \in T : <<z, w>> \notin R
  BY <1>2, <1>3, FirstExists
<1>6. w \in Best(name, v, T)
  BY <1>4, <1>5 DEF Best, M
<1> QED
  BY <1>6

-----------------------------------------------------------------------------
(* The points in order.                                                    *)

\* Sorting keeps the points and puts them in the order of x.
LEMMA SortedByXIs ==
  ASSUME NEW L \in Nat, NEW P, DOMAIN P = 1..L, \A i \in 1..L : P[i].x \in Int
  PROVE  LET Q == SortedByX(P)
         IN  /\ DOMAIN Q = 1..L
             /\ \A i \in 1..L : \E j \in 1..L : Q[i] = P[j]
             /\ \A j \in 1..L : \E i \in 1..L : Q[i] = P[j]
             /\ \A i, j \in 1..L : i < j => Q[i].x <= Q[j].x
<1> DEFINE B(j) == {i \in 1..L : Before(P, i, j)}
           pos == [j \in 1..L |-> 1 + Cardinality(B(j))]
<1>1. IsFiniteSet(1..L) /\ Cardinality(1..L) = L
  <2>1. IsFiniteSet(1..L) /\ Cardinality(1..L) = IF 1 > L THEN 0 ELSE L - 1 + 1
    BY FS_Interval
  <2> QED
    BY <2>1
<1>2. \A j \in 1..L : IsFiniteSet(B(j)) /\ Cardinality(B(j)) \in Nat
  BY <1>1, FS_Subset, FS_CardinalityType
<1>3. \A i, j, k \in 1..L : /\ ~Before(P, j, j)
                            /\ Before(P, i, j) /\ Before(P, j, k) => Before(P, i, k)
                            /\ i # j => Before(P, i, j) \/ Before(P, j, i)
  BY DEF Before
<1>4. ASSUME NEW j \in 1..L PROVE pos[j] \in 1..L
  <2>1. B(j) \in SUBSET ((1..L) \ {j})
    BY <1>3
  <2>2. IsFiniteSet((1..L) \ {j}) /\ Cardinality((1..L) \ {j}) = L - 1
    BY <1>1, FS_RemoveElement
  <2>3. Cardinality(B(j)) <= L - 1 /\ Cardinality(B(j)) \in Nat
    <3> HIDE DEF B
    <3> QED
      BY <1>2, <2>1, <2>2, FS_Subset
  <2>4. pos[j] = 1 + Cardinality(B(j))
    OBVIOUS
  <2> HIDE DEF pos, B
  <2> QED
    BY <2>3, <2>4
<1>5. ASSUME NEW i \in 1..L, NEW j \in 1..L, Before(P, i, j) PROVE pos[i] < pos[j]
  <2>1. i \in B(j) /\ i \notin B(i) /\ B(i) \in SUBSET (B(j) \ {i})
    BY <1>3, <1>5
  <2>2. IsFiniteSet(B(j) \ {i}) /\ Cardinality(B(j) \ {i}) = Cardinality(B(j)) - 1
    <3> HIDE DEF B
    <3> QED
      BY <1>2, <2>1, FS_RemoveElement
  <2>3. Cardinality(B(i)) <= Cardinality(B(j)) - 1
    <3> HIDE DEF B
    <3> QED
      BY <2>1, <2>2, FS_Subset
  <2>4. pos[i] = 1 + Cardinality(B(i)) /\ pos[j] = 1 + Cardinality(B(j))
    OBVIOUS
  <2> HIDE DEF pos, B
  <2> QED
    BY <1>2, <2>3, <2>4
<1>6. \A j \in 1..L : Position(P, j) = pos[j]
  BY DEF Position
<1> HIDE DEF B
<1>7. pos \in [1..L -> 1..L]
  BY <1>4
<1> HIDE DEF pos
<1>8. pos \in Injection(1..L, 1..L)
  <2>1. ASSUME NEW i \in 1..L, NEW j \in 1..L, pos[i] = pos[j] PROVE i = j
    <3>1. pos[i] \in Int /\ ~(pos[i] < pos[j]) /\ ~(pos[j] < pos[i])
      BY <1>7, <2>1
    <3> QED
      BY <1>3, <1>5, <3>1
  <2> QED
    BY <1>7, <2>1 DEF Injection, IsInjective
<1>9. \A i \in 1..L : \E j \in 1..L : pos[j] = i
  <2>1. pos \in Surjection(1..L, 1..L)
    BY <1>1, <1>8, FS_Injection
  <2> QED
    BY <2>1 DEF Surjection
<1> DEFINE at(i) == CHOOSE j \in 1..L : Position(P, j) = i
<1>10. \A i \in 1..L : at(i) \in 1..L /\ pos[at(i)] = i
  BY <1>6, <1>9
<1>11. \A j \in 1..L : pos[j] \in 1..L /\ at(pos[j]) = j
  <2>1. \A i, j \in 1..L : pos[i] = pos[j] => i = j
    BY <1>8 DEF Injection, IsInjective
  <2> HIDE DEF at
  <2> QED
    BY <1>7, <1>10, <2>1
<1> DEFINE Q == SortedByX(P)
<1>12. DOMAIN Q = 1..L /\ \A i \in 1..L : Q[i] = P[at(i)]
  BY DEF SortedByX
<1> HIDE DEF at, Q
<1>13. \A j \in 1..L : \E i \in 1..L : Q[i] = P[j]
  BY <1>11, <1>12
<1>14. ASSUME NEW i \in 1..L, NEW j \in 1..L, i < j PROVE Q[i].x <= Q[j].x
  <2>1. ~Before(P, at(j), at(i))
    <3>1. at(i) \in 1..L /\ at(j) \in 1..L /\ pos[at(i)] = i /\ pos[at(j)] = j
      BY <1>10
    <3>2. ~(pos[at(j)] < pos[at(i)])
      BY <1>14, <3>1
    <3> QED
      BY <1>5, <3>1, <3>2
  <2>2. /\ Q[i] = P[at(i)] /\ Q[j] = P[at(j)]
        /\ P[at(i)].x \in Int /\ P[at(j)].x \in Int
    BY <1>10, <1>12
  <2> QED
    BY <2>1, <2>2 DEF Before
<1> QED
  BY <1>10, <1>12, <1>13, <1>14 DEF Q

\* Products and squares of numbers that are not negative.
LEMMA ProductMonotone ==
  ASSUME NEW x \in Int, NEW y \in Int, NEW s \in Nat, x <= y PROVE x * s <= y * s
<1>1. (y - x) * s >= 0
  <2>1. y - x \in Nat
    OBVIOUS
  <2>2. \A d \in Nat : d * s >= 0
    OBVIOUS
  <2> QED
    BY <2>1, <2>2
<1>2. (y - x) * s = y * s - x * s
  OBVIOUS
<1> QED
  BY <1>1, <1>2

LEMMA ProductCancels ==
  ASSUME NEW x \in Int, NEW y \in Int, NEW s \in Nat \ {0}, x * s <= y * s PROVE x <= y
<1>1. SUFFICES ASSUME y < x PROVE FALSE
  OBVIOUS
<1>2. y + 1 <= x /\ y + 1 \in Int
  BY <1>1
<1>3. (y + 1) * s <= x * s
  BY <1>2, ProductMonotone
<1>4. (y + 1) * s = y * s + s
  OBVIOUS
<1> QED
  BY <1>3, <1>4

LEMMA SquareMonotone ==
  ASSUME NEW d \in Nat, NEW e \in Int, d <= e PROVE d * d <= e * e
<1>1. d * d <= e * d
  BY ProductMonotone
<1>2. d * e <= e * e
  BY ProductMonotone
<1>3. e * d = d * e
  OBVIOUS
<1> QED
  BY <1>1, <1>2, <1>3

LEMMA SquareIsNotNegative ==
  ASSUME NEW a \in Int PROVE a * a >= 0
<1>1. CASE a >= 0
  BY <1>1
<1>2. CASE a <= 0
  <2>1. -a \in Nat
    BY <1>2
  <2>2. (-a) * (-a) >= 0
    BY <2>1
  <2>3. (-a) * (-a) = a * a
    OBVIOUS
  <2> QED
    BY <2>2, <2>3
<1> QED
  BY <1>1, <1>2

LEMMA NoSquareBelow ==
  ASSUME NEW d \in Int, d * d <= 0 PROVE d = 0
<1>1. CASE d >= 1
  <2>1. 1 * 1 <= d * d
    BY <1>1, SquareMonotone
  <2> QED
    BY <2>1
<1>2. CASE d <= -1
  <2>1. 1 * 1 <= (-d) * (-d)
    BY <1>2, SquareMonotone
  <2>2. (-d) * (-d) = d * d
    OBVIOUS
  <2> QED
    BY <2>1, <2>2
<1> QED
  BY <1>1, <1>2

-----------------------------------------------------------------------------
(* One level.                                                              *)

\* The portfolios within the limits are finitely many and have integers as measures.
LEMMA BaseFacts ==
  ASSUME NEW p \in Problems
  PROVE  /\ IsFiniteSet(Base(p.u, p.r))
         /\ \A w \in Base(p.u, p.r), name \in Axes :
              Measure(name, p.u, w) \in Int /\ Raw(name, p.u, w) \in Int
<1>1. N(p.u) \in Nat /\ IsUniverse(p.u)
  BY UniverseAssumption, ProblemAssumption
<1>2. Base(p.u, p.r) \in SUBSET Portfolios(p.u)
  BY DEF Base
<1>3. \A w \in Portfolios(p.u) : w \in [Assets(p.u) -> 0..Grid]
  BY DEF Portfolios
<1>4. IsFiniteSet(Portfolios(p.u))
  BY <1>1, PortfoliosAreFinite
<1>5. IsFiniteSet(Base(p.u, p.r))
  BY <1>2, <1>4, FS_Subset
<1>6. \A w \in Base(p.u, p.r), name \in Axes :
        Measure(name, p.u, w) \in Int /\ Raw(name, p.u, w) \in Int
  BY <1>1, <1>2, <1>3, MeasuresAreIntegers
<1> QED
  BY <1>5, <1>6

\* What a point of an exact sweep reports is what the solver worked on.
LEMMA ExactIsRaw ==
  ASSUME NEW p \in Problems, NEW cfg, Exact(cfg, p.u), NEW w \in Base(p.u, p.r)
  PROVE  /\ Raw(cfg.x, p.u, w) = Measure(cfg.x, p.u, w)
         /\ Raw(cfg.y, p.u, w) = Measure(cfg.y, p.u, w)
<1>1. N(p.u) \in Nat /\ IsUniverse(p.u)
  BY UniverseAssumption, ProblemAssumption
<1>2. w \in [Assets(p.u) -> 0..Grid]
  BY DEF Base, Portfolios
<1>3. CASE "volatility" \in {cfg.x, cfg.y}
  BY <1>1, <1>2, <1>3, ExpressionIsTrue DEF Exact
<1>4. CASE "volatility" \notin {cfg.x, cfg.y}
  BY <1>4 DEF Raw
<1> QED
  BY <1>3, <1>4

\* A level that admits a portfolio admits all that are as good on the axis of x.
LEMMA WithinIsMonotone ==
  ASSUME NEW cfg, cfg.x \in Axes, cfg.points \in Nat \ {0, 1}, NEW k \in 0..(cfg.points - 1),
         NEW v, NEW lo \in Int, NEW hi \in Int, NEW w, NEW z,
         Measure(cfg.x, v, w) \in Int, Measure(cfg.x, v, z) \in Int,
         ~Better(cfg.x, Measure(cfg.x, v, w), Measure(cfg.x, v, z)),
         Within(cfg, v, w, lo, hi, k)
  PROVE  Within(cfg, v, z, lo, hi, k)
<1> DEFINE a == cfg.points - 1 - k
           b == k
           x == Measure(cfg.x, v, w)
           y == Measure(cfg.x, v, z)
           d == x * (a + b) * (a + b) - a * a * lo - b * b * hi
           e == y * (a + b) * (a + b) - a * a * lo - b * b * hi
           m == 4 * a * a * b * b * lo * hi
<1>1. a \in Nat /\ b \in Nat /\ a + b \in Nat /\ x \in Int /\ y \in Int
  OBVIOUS
<1>2. Within(cfg, v, w, lo, hi, k) <=>
        \/ cfg.x = "volatility" /\ (d <= 0 \/ d * d <= m)
        \/ cfg.x # "volatility" /\ Natural(cfg.x) = "maximize" /\ x * (a + b) >= a * lo + b * hi
        \/ cfg.x # "volatility" /\ Natural(cfg.x) # "maximize" /\ x * (a + b) <= a * lo + b * hi
  BY DEF Within, Natural
<1>3. Within(cfg, v, z, lo, hi, k) <=>
        \/ cfg.x = "volatility" /\ (e <= 0 \/ e * e <= m)
        \/ cfg.x # "volatility" /\ Natural(cfg.x) = "maximize" /\ y * (a + b) >= a * lo + b * hi
        \/ cfg.x # "volatility" /\ Natural(cfg.x) # "maximize" /\ y * (a + b) <= a * lo + b * hi
  BY DEF Within, Natural
<1> HIDE DEF a, b, x, y
<1>4. IF Natural(cfg.x) = "maximize" THEN y >= x ELSE y <= x
  BY <1>1 DEF Better, x, y
<1>5. CASE cfg.x = "volatility"
  <2>1. y <= x
    BY <1>4, <1>5 DEF Natural
  <2>2. y * (a + b) <= x * (a + b)
    BY <1>1, <2>1, ProductMonotone
  <2>3. y * (a + b) * (a + b) <= x * (a + b) * (a + b)
    <3>1. y * (a + b) \in Int /\ x * (a + b) \in Int
      BY <1>1
    <3> QED
      BY <1>1, <2>2, <3>1, ProductMonotone
  <2>4. /\ y * (a + b) * (a + b) \in Int /\ x * (a + b) * (a + b) \in Int
        /\ a * a * lo \in Int /\ b * b * hi \in Int /\ m \in Int
    BY <1>1
  <2>5. e <= d /\ e \in Int /\ d \in Int
    BY <2>3, <2>4
  <2> HIDE DEF d, e, m
  <2>6. d <= 0 \/ d * d <= m
    BY <1>2, <1>5
  <2>7. e <= 0 \/ e * e <= m
    <3>1. CASE e <= 0
      BY <3>1
    <3>2. CASE e > 0
      <4>1. e * e <= d * d
        BY <2>5, <3>2, SquareMonotone
      <4>2. d * d <= m
        BY <2>5, <2>6, <3>2
      <4>3. e * e \in Int /\ d * d \in Int
        BY <2>5
      <4> QED
        BY <2>4, <4>1, <4>2, <4>3
    <3> QED
      BY <2>5, <3>1, <3>2
  <2> QED
    BY <1>3, <1>5, <2>7
<1>6. CASE cfg.x # "volatility" /\ Natural(cfg.x) = "maximize"
  <2>1. x * (a + b) >= a * lo + b * hi
    BY <1>2, <1>6
  <2>2. x * (a + b) <= y * (a + b)
    BY <1>1, <1>4, <1>6, ProductMonotone
  <2>3. x * (a + b) \in Int /\ y * (a + b) \in Int /\ a * lo + b * hi \in Int
    BY <1>1
  <2>4. y * (a + b) >= a * lo + b * hi
    BY <2>1, <2>2, <2>3
  <2> QED
    BY <1>3, <1>6, <2>4
<1>7. CASE cfg.x # "volatility" /\ Natural(cfg.x) # "maximize"
  <2>1. x * (a + b) <= a * lo + b * hi
    BY <1>2, <1>7
  <2>2. y * (a + b) <= x * (a + b)
    BY <1>1, <1>4, <1>7, ProductMonotone
  <2>3. x * (a + b) \in Int /\ y * (a + b) \in Int /\ a * lo + b * hi \in Int
    BY <1>1
  <2>4. y * (a + b) <= a * lo + b * hi
    BY <2>1, <2>2, <2>3
  <2> QED
    BY <1>3, <1>7, <2>4
<1> QED
  BY <1>5, <1>6, <1>7

\* The first level admits x = lo and, where x is minimised, nothing worse; the
\* last does the same with hi.
LEMMA EndLevels ==
  ASSUME NEW cfg, cfg.x \in Axes, cfg.points \in Nat \ {0, 1}, NEW v, NEW w,
         NEW lo \in Int, NEW hi \in Int, Measure(cfg.x, v, w) \in Int
  PROVE  LET x == Measure(cfg.x, v, w)
         IN  IF Natural(cfg.x) = "maximize"
             THEN /\ Within(cfg, v, w, lo, hi, 0) <=> x >= lo
                  /\ Within(cfg, v, w, lo, hi, cfg.points - 1) <=> x >= hi
             ELSE /\ Within(cfg, v, w, lo, hi, 0) <=> x <= lo
                  /\ Within(cfg, v, w, lo, hi, cfg.points - 1) <=> x <= hi
<1> DEFINE n == cfg.points - 1
           x == Measure(cfg.x, v, w)
           F(a, b) == x * (a + b) * (a + b) - a * a * lo - b * b * hi
           M(a, b) == 4 * a * a * b * b * lo * hi
           In(a, b) == IF cfg.x = "volatility" THEN F(a, b) <= 0 \/ F(a, b) * F(a, b) <= M(a, b)
                       ELSE IF Natural(cfg.x) = "maximize" THEN x * (a + b) >= a * lo + b * hi
                       ELSE x * (a + b) <= a * lo + b * hi
<1>1. n \in Nat \ {0} /\ x \in Int
  OBVIOUS
<1>2. Within(cfg, v, w, lo, hi, 0) <=> In(n, 0)
  <2>1. Within(cfg, v, w, lo, hi, 0) <=> In(cfg.points - 1 - 0, 0)
    BY DEF Within, Natural
  <2>2. cfg.points - 1 - 0 = n
    OBVIOUS
  <2> HIDE DEF In, n
  <2> QED
    BY <2>1, <2>2
<1>3. Within(cfg, v, w, lo, hi, n) <=> In(0, n)
  <2>1. Within(cfg, v, w, lo, hi, n) <=> In(cfg.points - 1 - n, n)
    BY DEF Within, Natural
  <2>2. cfg.points - 1 - n = 0
    OBVIOUS
  <2> HIDE DEF In, n
  <2> QED
    BY <2>1, <2>2
<1>4. n * n \in Nat \ {0}
  <2>1. 1 * 1 <= n * n
    BY <1>1, SquareMonotone
  <2> QED
    BY <1>1, <2>1
<1> HIDE DEF n, x
<1>5. /\ F(n, 0) = x * (n * n) - lo * (n * n) /\ M(n, 0) = 0
      /\ F(0, n) = x * (n * n) - hi * (n * n) /\ M(0, n) = 0
  BY <1>1
<1>6. ASSUME NEW c \in Int, NEW d \in Int, d = x * (n * n) - c * (n * n)
      PROVE  d <= 0 \/ d * d <= 0 <=> x <= c
  <2>1. d <= 0 \/ d * d <= 0 <=> d <= 0
    BY <1>6, NoSquareBelow
  <2>2. x * (n * n) \in Int /\ c * (n * n) \in Int
    BY <1>1
  <2>3. d <= 0 <=> x * (n * n) <= c * (n * n)
    BY <1>6, <2>2
  <2>4. x * (n * n) <= c * (n * n) <=> x <= c
    BY <1>1, <1>4, ProductMonotone, ProductCancels
  <2> QED
    BY <2>1, <2>3, <2>4
<1>7. ASSUME NEW c \in Int
      PROVE  /\ x * n <= c * n <=> x <= c
             /\ x * n >= c * n <=> x >= c
  BY <1>1, ProductMonotone, ProductCancels
<1>8. /\ x * (n + 0) = x * n /\ x * (0 + n) = x * n
      /\ n * lo + 0 * hi = lo * n /\ 0 * lo + n * hi = hi * n
  BY <1>1
<1>9. CASE cfg.x = "volatility"
  <2>1. Natural(cfg.x) # "maximize"
    BY <1>9 DEF Natural
  <2>2. In(n, 0) <=> x <= lo
    <3>1. In(n, 0) <=> F(n, 0) <= 0 \/ F(n, 0) * F(n, 0) <= 0
      BY <1>5, <1>9
    <3>2. F(n, 0) \in Int
      BY <1>1
    <3> HIDE DEF F, In, M
    <3> QED
      BY <1>5, <1>6, <3>1, <3>2
  <2>3. In(0, n) <=> x <= hi
    <3>1. In(0, n) <=> F(0, n) <= 0 \/ F(0, n) * F(0, n) <= 0
      BY <1>5, <1>9
    <3>2. F(0, n) \in Int
      BY <1>1
    <3> HIDE DEF F, In, M
    <3> QED
      BY <1>5, <1>6, <3>1, <3>2
  <2> HIDE DEF In
  <2> QED
    BY <1>2, <1>3, <2>1, <2>2, <2>3 DEF n, x
<1>10. CASE cfg.x # "volatility"
  <2>1. /\ In(n, 0) <=> IF Natural(cfg.x) = "maximize" THEN x * n >= lo * n ELSE x * n <= lo * n
        /\ In(0, n) <=> IF Natural(cfg.x) = "maximize" THEN x * n >= hi * n ELSE x * n <= hi * n
    BY <1>8, <1>10
  <2> HIDE DEF In
  <2>2. /\ In(n, 0) <=> IF Natural(cfg.x) = "maximize" THEN x >= lo ELSE x <= lo
        /\ In(0, n) <=> IF Natural(cfg.x) = "maximize" THEN x >= hi ELSE x <= hi
    BY <1>7, <2>1
  <2> QED
    BY <1>2, <1>3, <2>2 DEF n, x
<1> QED
  BY <1>9, <1>10

\* What a level returns is the best in y of all that are as good in x.
LEMMA LevelIsBest ==
  ASSUME NEW p \in Problems, NEW cfg \in p.r.frontier, NEW lo \in Int, NEW hi \in Int,
         NEW k \in 0..(cfg.points - 1), NEW w \in LevelSolutions(cfg, p.u, p.r, lo, hi, k),
         NEW z \in Base(p.u, p.r),
         ~Better(cfg.x, Measure(cfg.x, p.u, w), Measure(cfg.x, p.u, z))
  PROVE  w \in Base(p.u, p.r) /\ ~Better(cfg.y, Measure(cfg.y, p.u, z), Measure(cfg.y, p.u, w))
<1>1. cfg.x \in Axes /\ cfg.points \in Nat \ {0, 1}
  BY ProblemAssumption DEF IsRequest
<1>2. w \in Base(p.u, p.r) /\ Within(cfg, p.u, w, lo, hi, k)
  BY DEF LevelSolutions, Best
<1>3. Measure(cfg.x, p.u, w) \in Int /\ Measure(cfg.x, p.u, z) \in Int
  BY <1>1, <1>2, BaseFacts
<1>4. Within(cfg, p.u, z, lo, hi, k)
  BY <1>1, <1>2, <1>3, WithinIsMonotone
<1> QED
  BY <1>2, <1>4 DEF LevelSolutions, Best

\* A level that admits a portfolio has a solution.
LEMMA LevelHasSolution ==
  ASSUME NEW p \in Problems, NEW cfg \in p.r.frontier, NEW lo, NEW hi, NEW k,
         NEW w \in Base(p.u, p.r), Within(cfg, p.u, w, lo, hi, k)
  PROVE  LevelSolutions(cfg, p.u, p.r, lo, hi, k) # {}
<1> DEFINE T == {z \in Base(p.u, p.r) : Within(cfg, p.u, z, lo, hi, k)}
<1>1. IsFiniteSet(T) /\ T # {} /\ T \in SUBSET Base(p.u, p.r)
  BY BaseFacts, FS_Subset
<1>2. \A z \in T : Measure(cfg.y, p.u, z) \in Int
  BY <1>1, BaseFacts, ProblemAssumption DEF IsRequest
<1>3. LevelSolutions(cfg, p.u, p.r, lo, hi, k) = Best(cfg.y, p.u, T)
  BY DEF LevelSolutions
<1> HIDE DEF T
<1> QED
  BY <1>1, <1>2, <1>3, BestExists

\* The levels lie between what two anchors report.
Anchored(cfg, v, W, lo, hi) ==
  \E a \in Best(cfg.x, v, W), b \in Best(cfg.y, v, W) :
    LET ends == {Raw(cfg.x, v, a), Raw(cfg.x, v, b)}
    IN  lo = Min(ends) /\ hi = Max(ends)

LEMMA EndsAreIntegers ==
  ASSUME NEW p \in Problems, NEW cfg \in p.r.frontier, NEW lo, NEW hi,
         Anchored(cfg, p.u, Base(p.u, p.r), lo, hi)
  PROVE  lo \in Int /\ hi \in Int
<1> DEFINE W == Base(p.u, p.r)
           X(w) == Raw(cfg.x, p.u, w)
<1>1. cfg.x \in Axes
  BY ProblemAssumption DEF IsRequest
<1>2. PICK a \in Best(cfg.x, p.u, W), b \in Best(cfg.y, p.u, W) :
             lo = Min({X(a), X(b)}) /\ hi = Max({X(a), X(b)})
  BY DEF Anchored
<1>3. X(a) \in Int /\ X(b) \in Int
  BY <1>1, BaseFacts DEF Best
<1> HIDE DEF X
<1> QED
  BY <1>2, <1>3, MinOfTwo, MaxOfTwo

\* In an exact sweep the first and the last level are at the anchors: one has
\* nothing but the best x, the other nothing but the best y, and both are solved.
LEMMA EndsAreSolved ==
  ASSUME NEW p \in Problems, NEW cfg \in p.r.frontier, NEW lo, NEW hi,
         Anchored(cfg, p.u, Base(p.u, p.r), lo, hi), Exact(cfg, p.u)
  PROVE  LET Solutions(k) == LevelSolutions(cfg, p.u, p.r, lo, hi, k)
             W == Base(p.u, p.r)
         IN  /\ \E k \in 0..(cfg.points - 1) :
                  /\ Solutions(k) # {}
                  /\ \A w \in Solutions(k), z \in W :
                       ~Better(cfg.x, Measure(cfg.x, p.u, z), Measure(cfg.x, p.u, w))
             /\ \E k \in 0..(cfg.points - 1) :
                  /\ Solutions(k) # {}
                  /\ \A w \in Solutions(k), z \in W :
                       ~Better(cfg.y, Measure(cfg.y, p.u, z), Measure(cfg.y, p.u, w))
<1> DEFINE Solutions(k) == LevelSolutions(cfg, p.u, p.r, lo, hi, k)
           W == Base(p.u, p.r)
           X(w) == Measure(cfg.x, p.u, w)
           Y(w) == Measure(cfg.y, p.u, w)
           n == cfg.points - 1
<1>1. cfg.x \in Axes /\ cfg.y \in Axes /\ cfg.points \in Nat \ {0, 1}
  BY ProblemAssumption DEF IsRequest
<1>2. PICK a \in Best(cfg.x, p.u, W), b \in Best(cfg.y, p.u, W) :
             lo = Min({X(a), X(b)}) /\ hi = Max({X(a), X(b)})
  <2>1. PICK a \in Best(cfg.x, p.u, W), b \in Best(cfg.y, p.u, W) :
               /\ lo = Min({Raw(cfg.x, p.u, a), Raw(cfg.x, p.u, b)})
               /\ hi = Max({Raw(cfg.x, p.u, a), Raw(cfg.x, p.u, b)})
    BY DEF Anchored
  <2>2. a \in W /\ b \in W
    BY DEF Best
  <2>3. Raw(cfg.x, p.u, a) = X(a) /\ Raw(cfg.x, p.u, b) = X(b)
    BY <2>2, ExactIsRaw
  <2> HIDE DEF X, W
  <2> QED
    BY <2>1, <2>3
<1>3. /\ a \in W /\ b \in W
      /\ \A z \in W : ~Better(cfg.x, X(z), X(a)) /\ ~Better(cfg.y, Y(z), Y(b))
  BY DEF Best
<1>4. \A z \in W : X(z) \in Int /\ Y(z) \in Int
  BY <1>1, BaseFacts
<1>5. /\ lo = IF X(a) <= X(b) THEN X(a) ELSE X(b)
      /\ hi = IF X(a) >= X(b) THEN X(a) ELSE X(b)
      /\ lo \in Int /\ hi \in Int
  <2> HIDE DEF X, W
  <2>1. X(a) \in Int /\ X(b) \in Int
    BY <1>3, <1>4
  <2> QED
    BY <1>2, <2>1, MinOfTwo, MaxOfTwo
<1>6. n \in 0..n /\ 0 \in 0..n
  BY <1>1
<1>7. \A w \in W : IF Natural(cfg.x) = "maximize"
                   THEN /\ Within(cfg, p.u, w, lo, hi, 0) <=> X(w) >= lo
                        /\ Within(cfg, p.u, w, lo, hi, n) <=> X(w) >= hi
                   ELSE /\ Within(cfg, p.u, w, lo, hi, 0) <=> X(w) <= lo
                        /\ Within(cfg, p.u, w, lo, hi, n) <=> X(w) <= hi
  BY <1>1, <1>4, <1>5, EndLevels
<1>8. \A k \in 0..n : \A w \in Solutions(k) :
         /\ w \in W /\ Within(cfg, p.u, w, lo, hi, k)
         /\ \A z \in W : Within(cfg, p.u, z, lo, hi, k) => ~Better(cfg.y, Y(z), Y(w))
  BY DEF LevelSolutions, Best
<1>9. \A k \in 0..n : \A w \in W : Within(cfg, p.u, w, lo, hi, k) => Solutions(k) # {}
  BY LevelHasSolution
<1> DEFINE tight == IF Natural(cfg.x) = "maximize" THEN n ELSE 0
           loose == IF Natural(cfg.x) = "maximize" THEN 0 ELSE n
<1>10. tight \in 0..n /\ loose \in 0..n
  BY <1>6
<1> HIDE DEF W, X, Y, Solutions, n
<1>11. /\ \A w \in W : Within(cfg, p.u, w, lo, hi, tight) <=> ~Better(cfg.x, X(a), X(w))
       /\ Within(cfg, p.u, b, lo, hi, loose)
  <2>1. CASE Natural(cfg.x) = "maximize"
    <3>1. X(a) >= X(b) /\ hi = X(a) /\ lo = X(b)
      BY <1>3, <1>4, <1>5, <2>1 DEF Better
    <3> QED
      BY <1>3, <1>4, <1>7, <2>1, <3>1 DEF Better
  <2>2. CASE Natural(cfg.x) # "maximize"
    <3>1. X(a) <= X(b) /\ lo = X(a) /\ hi = X(b)
      BY <1>3, <1>4, <1>5, <2>2 DEF Better
    <3> QED
      BY <1>3, <1>4, <1>7, <2>2, <3>1 DEF Better
  <2> QED
    BY <2>1, <2>2
<1> HIDE DEF tight, loose
<1>12. Solutions(tight) # {} /\ \A w \in Solutions(tight), z \in W : ~Better(cfg.x, X(z), X(w))
  <2>1. Within(cfg, p.u, a, lo, hi, tight)
    BY <1>3, <1>11
  <2>2. ASSUME NEW w \in Solutions(tight), NEW z \in W PROVE ~Better(cfg.x, X(z), X(w))
    <3>1. w \in W /\ ~Better(cfg.x, X(a), X(w)) /\ ~Better(cfg.x, X(z), X(a))
      BY <1>3, <1>8, <1>10, <1>11
    <3>2. X(a) \in Int /\ X(w) \in Int /\ X(z) \in Int
      BY <1>3, <1>4, <3>1
    <3> QED
      BY <3>1, <3>2 DEF Better
  <2> QED
    BY <1>3, <1>9, <1>10, <2>1, <2>2
<1>13. Solutions(loose) # {} /\ \A w \in Solutions(loose), z \in W : ~Better(cfg.y, Y(z), Y(w))
  <2>1. ASSUME NEW w \in Solutions(loose), NEW z \in W PROVE ~Better(cfg.y, Y(z), Y(w))
    <3>1. w \in W /\ ~Better(cfg.y, Y(b), Y(w)) /\ ~Better(cfg.y, Y(z), Y(b))
      BY <1>3, <1>8, <1>10, <1>11
    <3>2. Y(b) \in Int /\ Y(w) \in Int /\ Y(z) \in Int
      BY <1>3, <1>4, <3>1
    <3> QED
      BY <3>1, <3>2 DEF Better
  <2> QED
    BY <1>3, <1>9, <1>10, <1>11, <2>1
<1> QED
  BY <1>10, <1>12, <1>13 DEF W, X, Y, Solutions, n

-----------------------------------------------------------------------------
(* The pass over the points.                                               *)

\* A point as the levels return them: no portfolio that is as good in x is better
\* in y.
Sampled(cfg, R, p) ==
  p \in R /\ \A q \in R : ~Better(cfg.x, p.x, q.x) => ~Better(cfg.y, q.y, p.y)

\* L points as SortedByX leaves them.
Sorted(P, L) ==
  /\ L \in Nat /\ DOMAIN P = 1..L /\ Len(P) = L
  /\ \A i \in 1..L : P[i].x \in Int /\ P[i].y \in Int
  /\ \A i, j \in 1..L : i < j => P[i].x <= P[j].x

\* The dominant points are the Pareto set of the points but for ties in x, and every
\* other one has a dominant one that is as good: also where the pass compares
\* neighbours only.
LEMMA DominantIsPareto ==
  ASSUME NEW cfg, NEW L, NEW P, Sorted(P, L)
  PROVE  /\ Dominant(cfg, P) \in SUBSET (1..L)
         /\ \A i \in Dominant(cfg, P), j \in 1..L :
              Dominates(cfg, P[j], P[i]) => P[j].x = P[i].x
         /\ \A i \in (1..L) \ Dominant(cfg, P) :
              \E j \in Dominant(cfg, P) : AtLeastAsGood(cfg, P[j], P[i])
<1> DEFINE D == Dominant(cfg, P)
           Up == Natural(cfg.x) = "minimize" /\ Natural(cfg.y) = "maximize"
           Down == Natural(cfg.x) = "maximize" /\ Natural(cfg.y) = "minimize"
<1>0. \A m \in {cfg.x, cfg.y} : Natural(m) \in {"minimize", "maximize"}
  BY DEF Natural
<1>1. \A i \in 1..L : P[i].x \in Int /\ P[i].y \in Int
  BY DEF Sorted
<1>2. /\ L \in Nat /\ DOMAIN P = 1..L /\ Len(P) = L
      /\ \A i, j \in 1..L : i < j => P[i].x <= P[j].x
  BY DEF Sorted
<1> USE <1>2
<1>3. CASE Up
  <2>1. D = {i \in 1..L : \A j \in 1..(i - 1) : P[j].y < P[i].y}
    BY <1>3 DEF Dominant
  <2> HIDE DEF D
  <2>2. ASSUME NEW i \in D, NEW j \in 1..L, Dominates(cfg, P[j], P[i])
        PROVE  P[j].x = P[i].x
    <3>1. i \in 1..L
      BY <2>1
    <3>2. /\ P[j].x <= P[i].x /\ P[j].y >= P[i].y
          /\ P[j].x < P[i].x \/ P[j].y > P[i].y
      BY <1>1, <1>3, <2>2, <3>1 DEF Dominates, AtLeastAsGood, Better
    <3>3. CASE j < i
      <4>1. j \in 1..(i - 1)
        BY <3>1, <3>3
      <4>2. P[j].y < P[i].y
        BY <2>1, <4>1
      <4> QED
        BY <1>1, <3>1, <3>2, <4>2
    <3>4. CASE i < j
      <4>1. P[i].x <= P[j].x
        BY <3>1, <3>4
      <4>2. P[i].x = P[j].x
        BY <1>1, <3>1, <3>2, <4>1
      <4> QED
        BY <4>2
    <3>5. CASE i = j
      BY <1>1, <3>1, <3>2, <3>5
    <3> QED
      BY <3>1, <3>3, <3>4, <3>5
  <2>3. ASSUME NEW i \in (1..L) \ D PROVE \E j \in D : AtLeastAsGood(cfg, P[j], P[i])
    <3> DEFINE A == {j \in 1..L : j < i /\ P[j].y >= P[i].y}
    <3>1. PICK h \in 1..(i - 1) : ~(P[h].y < P[i].y)
      BY <2>1
    <3>2. h \in A
      BY <1>1, <3>1
    <3>3. PICK j \in A : \A k \in A : j <= k
      <4>1. A \subseteq Nat /\ A # {}
        BY <3>2
      <4> HIDE DEF A
      <4> QED
        BY <4>1, LeastNumber
    <3>4. j \in 1..L /\ j < i /\ P[j].y >= P[i].y
      BY <3>3
    <3>5. ASSUME NEW k \in 1..(j - 1) PROVE P[k].y < P[j].y
      <4>1. k \in 1..L /\ k < i /\ ~(j <= k)
        BY <3>4
      <4>2. ~(P[k].y >= P[i].y)
        BY <3>3, <4>1
      <4> QED
        BY <1>1, <3>4, <4>1, <4>2
    <3>6. j \in D
      BY <2>1, <3>4, <3>5
    <3>7. P[j].x <= P[i].x
      BY <3>4
    <3>8. AtLeastAsGood(cfg, P[j], P[i])
      BY <1>1, <1>3, <3>4, <3>7 DEF AtLeastAsGood, Better
    <3> QED
      BY <3>6, <3>8
  <2> QED
    BY <2>1, <2>2, <2>3 DEF D
<1>4. CASE Down
  <2>1. D = {i \in 1..L : \A j \in (i + 1)..L : P[j].y > P[i].y}
    BY <1>4 DEF Dominant
  <2> HIDE DEF D
  <2>2. ASSUME NEW i \in D, NEW j \in 1..L, Dominates(cfg, P[j], P[i])
        PROVE  P[j].x = P[i].x
    <3>1. i \in 1..L
      BY <2>1
    <3>2. /\ P[j].x >= P[i].x /\ P[j].y <= P[i].y
          /\ P[j].x > P[i].x \/ P[j].y < P[i].y
      BY <1>1, <1>4, <2>2, <3>1 DEF Dominates, AtLeastAsGood, Better
    <3>3. CASE i < j
      <4>1. j \in (i + 1)..L
        BY <3>1, <3>3
      <4>2. P[j].y > P[i].y
        BY <2>1, <4>1
      <4> QED
        BY <1>1, <3>1, <3>2, <4>2
    <3>4. CASE j < i
      <4>1. P[j].x <= P[i].x
        BY <3>1, <3>4
      <4>2. P[i].x = P[j].x
        BY <1>1, <3>1, <3>2, <4>1
      <4> QED
        BY <4>2
    <3>5. CASE i = j
      BY <1>1, <3>1, <3>2, <3>5
    <3> QED
      BY <3>1, <3>3, <3>4, <3>5
  <2>3. ASSUME NEW i \in (1..L) \ D PROVE \E j \in D : AtLeastAsGood(cfg, P[j], P[i])
    <3> DEFINE A == {d \in 0..L : \E j \in 1..L : j > i /\ P[j].y <= P[i].y /\ d = L - j}
    <3>1. PICK h \in (i + 1)..L : ~(P[h].y > P[i].y)
      BY <2>1
    <3>2. L - h \in A
      BY <1>1, <3>1
    <3>3. PICK d \in A : \A k \in A : d <= k
      <4>1. A \subseteq Nat
        OBVIOUS
      <4> HIDE DEF A
      <4> QED
        BY <3>2, <4>1, LeastNumber
    <3>4. PICK j \in 1..L : j > i /\ P[j].y <= P[i].y /\ d = L - j
      BY <3>3
    <3>5. ASSUME NEW k \in (j + 1)..L PROVE P[k].y > P[j].y
      <4>1. k \in 1..L /\ k > i /\ ~(d <= L - k) /\ L - k \in 0..L
        BY <3>4
      <4>2. ~(P[k].y <= P[i].y)
        BY <3>3, <4>1
      <4> QED
        BY <1>1, <3>4, <4>1, <4>2
    <3>6. j \in D
      BY <2>1, <3>4, <3>5
    <3>7. P[i].x <= P[j].x
      BY <3>4
    <3>8. AtLeastAsGood(cfg, P[j], P[i])
      BY <1>1, <1>4, <3>4, <3>7 DEF AtLeastAsGood, Better
    <3> QED
      BY <3>6, <3>8
  <2> QED
    BY <2>1, <2>2, <2>3 DEF D
<1>5. CASE ~Up /\ ~Down
  <2>1. D = {i \in 1..L : ~\E j \in (1..L) \ {i} : Dominates(cfg, P[j], P[i])}
    BY <1>5 DEF Dominant
  <2> HIDE DEF D
  <2>2. \A i \in 1..L : ~Dominates(cfg, P[i], P[i])
    BY <1>1 DEF Dominates, Better
  <2>3. ASSUME NEW i \in (1..L) \ D PROVE \E j \in D : AtLeastAsGood(cfg, P[j], P[i])
    <3> DEFINE B(j) == {k \in 1..L : Dominates(cfg, P[k], P[j])}
               A == {c \in Nat : \E j \in 1..L :
                       AtLeastAsGood(cfg, P[j], P[i]) /\ c = Cardinality(B(j))}
    <3>1. \A j \in 1..L : IsFiniteSet(B(j)) /\ Cardinality(B(j)) \in Nat
      <4>1. IsFiniteSet(1..L)
        BY FS_Interval
      <4> QED
        BY <4>1, FS_Subset, FS_CardinalityType
    <3>2. \A j, k, l \in 1..L :
            /\ AtLeastAsGood(cfg, P[j], P[j])
            /\ AtLeastAsGood(cfg, P[j], P[k]) /\ AtLeastAsGood(cfg, P[k], P[l])
                 => AtLeastAsGood(cfg, P[j], P[l])
            /\ Dominates(cfg, P[j], P[k]) /\ Dominates(cfg, P[k], P[l])
                 => Dominates(cfg, P[j], P[l])
      BY ONLY <1>1 DEF AtLeastAsGood, Dominates, Better
    <3>3. PICK c \in A : \A d \in A : c <= d
      <4>1. Cardinality(B(i)) \in A
        <5> HIDE DEF B
        <5> QED
          BY <3>1, <3>2
      <4>2. A \subseteq Nat /\ A # {}
        BY <4>1
      <4> HIDE DEF A
      <4> QED
        BY <4>2, LeastNumber
    <3>4. PICK j \in 1..L : AtLeastAsGood(cfg, P[j], P[i]) /\ c = Cardinality(B(j))
      BY <3>3
    <3>5. ASSUME NEW k \in 1..L, Dominates(cfg, P[k], P[j]) PROVE FALSE
      <4>1. k \in B(j) /\ B(k) \in SUBSET (B(j) \ {k})
        BY <2>2, <3>2, <3>5
      <4>2. AtLeastAsGood(cfg, P[k], P[i])
        BY <3>2, <3>4, <3>5 DEF Dominates
      <4> HIDE DEF B
      <4>3. IsFiniteSet(B(j) \ {k}) /\ Cardinality(B(j) \ {k}) = Cardinality(B(j)) - 1
        BY <3>1, <4>1, FS_RemoveElement
      <4>4. Cardinality(B(k)) <= c - 1
        BY <3>4, <4>1, <4>3, FS_Subset
      <4>5. Cardinality(B(k)) \in A /\ c \in Nat /\ Cardinality(B(k)) \in Nat
        BY <3>1, <3>4, <4>2
      <4> HIDE DEF A
      <4>6. c <= Cardinality(B(k))
        BY <3>3, <4>5
      <4> QED
        BY <4>4, <4>5, <4>6
    <3>6. j \in D
      BY <2>1, <3>5
    <3> QED
      BY <3>4, <3>6
  <2> QED
    BY <2>1, <2>2, <2>3 DEF D
<1> QED
  BY <1>3, <1>4, <1>5

\* A set of places has a first and a last.
LEMMA LeastAndGreatest ==
  ASSUME NEW L \in Nat, NEW S \in SUBSET (1..L), S # {}
  PROVE  /\ Min(S) \in S /\ \A x \in S : Min(S) <= x
         /\ Max(S) \in S /\ \A x \in S : x <= Max(S)
<1>1. \E x \in S : \A y \in S : x <= y
  <2>1. S \subseteq Nat
    OBVIOUS
  <2> QED
    BY <2>1, LeastNumber
<1>2. \E x \in S : \A y \in S : x >= y
  <2> DEFINE A == {L - x : x \in S}
  <2>1. A \subseteq Nat /\ A # {}
    <3>1. \A x \in S : L - x \in Nat
      OBVIOUS
    <3> QED
      BY <3>1
  <2>2. PICK d \in A : \A k \in A : d <= k
    <3> HIDE DEF A
    <3> QED
      BY <2>1, LeastNumber
  <2>3. PICK x \in S : d = L - x
    BY <2>2
  <2>4. ASSUME NEW y \in S PROVE x >= y
    <3>1. L - y \in A
      OBVIOUS
    <3>2. d <= L - y
      BY <2>2, <3>1
    <3> QED
      BY <2>3, <3>2
  <2> QED
    BY <2>4
<1>3. Max(S) \in S /\ \A y \in S : Max(S) >= y
  BY <1>2 DEF Max
<1>4. Min(S) \in S /\ \A y \in S : Min(S) <= y
  BY <1>1 DEF Min
<1>5. \A x \in S : x \in Int
  OBVIOUS
<1> QED
  BY <1>3, <1>4, <1>5

\* A knee lies between dominant points.
LEMMA KneeIsInside ==
  ASSUME NEW cfg, NEW P, NEW L \in Nat, NEW D \in SUBSET (1..L), NEW k \in Knees(cfg, P, D), k # 0
  PROVE  k \in D /\ \E i, j \in D : i < k /\ k < j
<1> DEFINE inner == D \ {Min(D), Max(D)}
<1>1. k \in inner
  <2> DEFINE far == [i \in inner |-> Abs((P[Max(D)].y - P[Min(D)].y) * (P[i].x - P[Min(D)].x)
                                     - (P[Max(D)].x - P[Min(D)].x) * (P[i].y - P[Min(D)].y))]
             farthest == {i \in inner : far[i] > 0 /\ \A j \in inner : far[j] <= far[i]}
  <2>1. \/ k \in {0} \/ k \in inner \cup {0}
        \/ k \in (IF farthest = {} THEN {0} ELSE {Min(farthest)})
    BY DEF Knees
  <2>2. farthest # {} => Min(farthest) \in inner
    <3>1. farthest \in SUBSET (1..L) /\ farthest \in SUBSET inner
      OBVIOUS
    <3> HIDE DEF farthest
    <3> QED
      BY <3>1, LeastAndGreatest
  <2> HIDE DEF farthest
  <2> QED
    BY <2>1, <2>2
<1>2. k \in D /\ D # {}
  BY <1>1
<1>3. /\ Min(D) \in D /\ Max(D) \in D /\ Min(D) <= k /\ k <= Max(D) /\ k # Min(D) /\ k # Max(D)
  BY <1>1, <1>2, LeastAndGreatest
<1>4. Min(D) < k /\ k < Max(D)
  <2>1. \A x \in D : x \in Int
    OBVIOUS
  <2>2. Min(D) \in Int /\ Max(D) \in Int /\ k \in Int
    BY <1>2, <1>3, <2>1
  <2> HIDE DEF inner
  <2> QED
    BY <1>3, <2>2
<1> QED
  BY <1>2, <1>3, <1>4

\* The points portfolios within the limits have on the axes of cfg.
PointsOf(cfg, v, q) == {Point(cfg, v, w) : w \in Base(v, q)}

\* What FrontierIsPareto says of one report.
Pareto(cfg, v, R, rep) ==
  /\ Exact(cfg, v) /\ Len(rep.points) > 1 =>
       /\ \E i \in DOMAIN rep.points : ~\E q \in R : Better(cfg.x, q.x, rep.points[i].x)
       /\ \E i \in DOMAIN rep.points : ~\E q \in R : Better(cfg.y, q.y, rep.points[i].y)
  /\ Exact(cfg, v) => \A i \in rep.dominant :
       ~\E q \in R : Better(cfg.x, q.x, rep.points[i].x) /\ Better(cfg.y, q.y, rep.points[i].y)
  /\ \A i \in rep.dominant, j \in DOMAIN rep.points :
       Dominates(cfg, rep.points[j], rep.points[i])
         => ~Exact(cfg, v) /\ rep.points[j].x = rep.points[i].x
  /\ \A i \in DOMAIN rep.points \ rep.dominant :
       \E j \in rep.dominant : AtLeastAsGood(cfg, rep.points[j], rep.points[i])
  /\ rep.knee # 0 => /\ rep.knee \in rep.dominant
                     /\ \E i, j \in rep.dominant : i < rep.knee /\ rep.knee < j

\* The coordinates of a point.
LEMMA PointsAreIntegers ==
  ASSUME NEW p \in Problems, NEW cfg \in p.r.frontier
  PROVE  \A q \in PointsOf(cfg, p.u, p.r) : q.x \in Int /\ q.y \in Int
<1>1. cfg.x \in Axes /\ cfg.y \in Axes
  BY ProblemAssumption DEF IsRequest
<1> QED
  BY <1>1, BaseFacts DEF PointsOf, Point

\* A point of a level of an exact sweep is better than all others in y that are as
\* good in x.
LEMMA SolutionsAreSampled ==
  ASSUME NEW p \in Problems, NEW cfg \in p.r.frontier, NEW lo \in Int, NEW hi \in Int,
         NEW k \in 0..(cfg.points - 1), NEW w \in LevelSolutions(cfg, p.u, p.r, lo, hi, k),
         Exact(cfg, p.u)
  PROVE  Sampled(cfg, PointsOf(cfg, p.u, p.r), Point(cfg, p.u, w))
<1>1. w \in Base(p.u, p.r)
  BY DEF LevelSolutions, Best
<1>2. ASSUME NEW z \in Base(p.u, p.r),
             ~Better(cfg.x, Measure(cfg.x, p.u, w), Measure(cfg.x, p.u, z))
      PROVE  ~Better(cfg.y, Measure(cfg.y, p.u, z), Measure(cfg.y, p.u, w))
  BY <1>2, LevelIsBest
<1>3. \A z \in Base(p.u, p.r) : /\ Raw(cfg.x, p.u, z) = Measure(cfg.x, p.u, z)
                                /\ Raw(cfg.y, p.u, z) = Measure(cfg.y, p.u, z)
  BY ExactIsRaw
<1> QED
  BY <1>1, <1>2, <1>3 DEF Sampled, PointsOf, Point

\* Two sampled points with one x have one y.
LEMMA SampledTies ==
  ASSUME NEW cfg, NEW R, NEW a, NEW b, Sampled(cfg, R, a), Sampled(cfg, R, b),
         a.x \in Int, a.y \in Int, b.y \in Int, a.x = b.x
  PROVE  ~Dominates(cfg, b, a)
<1>1. ~Better(cfg.x, a.x, b.x) /\ ~Better(cfg.x, b.x, a.x)
  BY DEF Better
<1>2. ~Better(cfg.y, b.y, a.y) /\ ~Better(cfg.y, a.y, b.y)
  BY <1>1 DEF Sampled
<1> QED
  BY <1>1, <1>2 DEF Dominates

\* The report over points which in an exact sweep are sampled and have both ends.
LEMMA ReportIsPareto ==
  ASSUME NEW p \in Problems, NEW cfg \in p.r.frontier,
         NEW P \in Seq(PointsOf(cfg, p.u, p.r)),
         Exact(cfg, p.u) =>
           LET R == PointsOf(cfg, p.u, p.r)
           IN  /\ \A i \in DOMAIN P : Sampled(cfg, R, P[i])
               /\ \E i \in DOMAIN P : \A q \in R : ~Better(cfg.x, q.x, P[i].x)
               /\ \E i \in DOMAIN P : \A q \in R : ~Better(cfg.y, q.y, P[i].y),
         NEW rep \in Reports(cfg, SortedByX(P))
  PROVE  Pareto(cfg, p.u, PointsOf(cfg, p.u, p.r), rep)
<1> DEFINE R == PointsOf(cfg, p.u, p.r)
           L == Len(P)
           Q == SortedByX(P)
           D == Dominant(cfg, Q)
<1> HIDE DEF R, Q, D
<1>1. \A q \in R : q.x \in Int /\ q.y \in Int
  BY PointsAreIntegers DEF R
<1>2. P \in Seq(R) /\ L \in Nat /\ DOMAIN P = 1..L /\ \A i \in 1..L : P[i] \in R
  BY DEF R
<1>3. /\ DOMAIN Q = 1..L
      /\ \A i \in 1..L : \E j \in 1..L : Q[i] = P[j]
      /\ \A j \in 1..L : \E i \in 1..L : Q[i] = P[j]
      /\ \A i, j \in 1..L : i < j => Q[i].x <= Q[j].x
  <2>1. \A i \in 1..L : P[i].x \in Int
    BY <1>1, <1>2
  <2> HIDE DEF L
  <2> QED
    BY <1>2, <2>1, SortedByXIs DEF Q
<1> HIDE DEF L
<1>4. /\ \A i \in 1..L : Q[i] \in R /\ Q[i].x \in Int /\ Q[i].y \in Int
      /\ Exact(cfg, p.u) => \A i \in 1..L : Sampled(cfg, R, Q[i])
  BY <1>1, <1>2, <1>3 DEF R
<1>5. Len(Q) = L
  <2>1. \A i \in 1..L : Q[i] \in R
    BY <1>4
  <2>2. Q = [i \in 1..L |-> Q[i]]
    BY <1>3 DEF Q, SortedByX
  <2>3. Q \in Seq(R)
    BY <1>2, <2>1, <2>2
  <2>4. Len(Q) \in Nat /\ DOMAIN Q = 1..Len(Q)
    BY <2>3
  <2> QED
    BY <1>2, <1>3, <2>4
<1>6. /\ D \in SUBSET (1..L)
      /\ \A i \in D, j \in 1..L : Dominates(cfg, Q[j], Q[i]) => Q[j].x = Q[i].x
      /\ \A i \in (1..L) \ D : \E j \in D : AtLeastAsGood(cfg, Q[j], Q[i])
  <2>1. Sorted(Q, L)
    BY <1>2, <1>3, <1>4, <1>5 DEF Sorted
  <2> QED
    BY <2>1, DominantIsPareto DEF D
<1>7. PICK k \in Knees(cfg, Q, D) : rep.points = Q /\ rep.dominant = D /\ rep.knee = k
  BY DEF Reports, Q, D
<1>8. ASSUME Exact(cfg, p.u)
      PROVE  /\ \E i \in 1..L : ~\E q \in R : Better(cfg.x, q.x, Q[i].x)
             /\ \E i \in 1..L : ~\E q \in R : Better(cfg.y, q.y, Q[i].y)
  <2>1. PICK i \in 1..L : \A q \in R : ~Better(cfg.x, q.x, P[i].x)
    BY <1>2, <1>8 DEF R
  <2>2. PICK j \in 1..L : \A q \in R : ~Better(cfg.y, q.y, P[j].y)
    BY <1>2, <1>8 DEF R
  <2>3. PICK h \in 1..L : Q[h] = P[i]
    BY <1>3
  <2>4. PICK l \in 1..L : Q[l] = P[j]
    BY <1>3
  <2> QED
    BY <2>1, <2>2, <2>3, <2>4
<1>9. ASSUME Exact(cfg, p.u), NEW i \in D, NEW q \in R,
             Better(cfg.x, q.x, Q[i].x), Better(cfg.y, q.y, Q[i].y)
      PROVE  FALSE
  <2>1. Sampled(cfg, R, Q[i]) /\ Q[i].x \in Int /\ q.x \in Int
    BY <1>1, <1>4, <1>6, <1>9
  <2>2. ~Better(cfg.x, Q[i].x, q.x)
    BY <1>9, <2>1 DEF Better
  <2> QED
    BY <1>9, <2>1, <2>2 DEF Sampled
<1>10. ASSUME NEW i \in D, NEW j \in 1..L, Dominates(cfg, Q[j], Q[i])
       PROVE  ~Exact(cfg, p.u) /\ Q[j].x = Q[i].x
  <2>1. Q[j].x = Q[i].x /\ i \in 1..L
    BY <1>6, <1>10
  <2> QED
    BY <1>4, <1>10, <2>1, SampledTies
<1>11. k # 0 => k \in D /\ \E i, j \in D : i < k /\ k < j
  BY <1>2, <1>6, KneeIsInside
<1> QED
  BY <1>3, <1>6, <1>7, <1>8, <1>9, <1>10, <1>11 DEF Pareto, R

-----------------------------------------------------------------------------
(* The sweep.                                                              *)

\* While the sweep runs its points are portfolios within the limits, sampled if it
\* is exact, and every level behind it that has solutions gave one.
SweptSoFar(cfg) ==
  /\ Anchored(cfg, u, Base(u, r), sweep.lo, sweep.hi)
  /\ sweep.level \in Nat
  /\ sweep.points \in Seq(PointsOf(cfg, u, r))
  /\ Exact(cfg, u) =>
       \A i \in DOMAIN sweep.points : Sampled(cfg, PointsOf(cfg, u, r), sweep.points[i])
  /\ \A k \in 0..(sweep.level - 1) :
       LET solutions == LevelSolutions(cfg, u, r, sweep.lo, sweep.hi, k)
       IN  solutions # {} => \E i \in DOMAIN sweep.points, w \in solutions :
                               sweep.points[i] = Point(cfg, u, w)

SweepInv ==
  /\ problem \in Problems
  /\ DOMAIN sweep = {"lo", "hi", "level", "points"}
  /\ stage = "sweep" => \A cfg \in r.frontier : SweptSoFar(cfg)
  /\ FrontierIsPareto

\* A report with no point or a single best one is a Pareto set as well.
LEMMA SmallReports ==
  ASSUME NEW cfg, NEW v, NEW R
  PROVE  /\ Pareto(cfg, v, R, EmptyReport)
         /\ \A p : /\ p.x \in Int /\ p.y \in Int
                   /\ Exact(cfg, v) => \A q \in R : ~Better(cfg.x, q.x, p.x)
                   => Pareto(cfg, v, R, SingleReport(p))
<1>1. Pareto(cfg, v, R, EmptyReport)
  BY DEF Pareto, EmptyReport
<1>2. ASSUME NEW p, p.x \in Int, p.y \in Int,
             Exact(cfg, v) => \A q \in R : ~Better(cfg.x, q.x, p.x)
      PROVE  Pareto(cfg, v, R, SingleReport(p))
  <2> DEFINE rep == SingleReport(p)
  <2>1. /\ rep.points = <<p>> /\ rep.dominant = {1} /\ rep.knee = 0
    BY DEF SingleReport
  <2>2. Len(<<p>>) = 1 /\ DOMAIN <<p>> = {1} /\ <<p>>[1] = p
    OBVIOUS
  <2>3. ~Dominates(cfg, p, p)
    BY <1>2 DEF Dominates, Better
  <2> HIDE DEF rep
  <2>4. /\ ~(Len(rep.points) > 1) /\ DOMAIN rep.points = {1} /\ rep.points[1] = p
        /\ rep.dominant = {1} /\ rep.knee = 0
    BY <2>1, <2>2
  <2>5. \A i \in rep.dominant :
          /\ ~\E j \in DOMAIN rep.points : Dominates(cfg, rep.points[j], rep.points[i])
          /\ Exact(cfg, v) => ~\E q \in R :
               Better(cfg.x, q.x, rep.points[i].x) /\ Better(cfg.y, q.y, rep.points[i].y)
    BY <1>2, <2>3, <2>4
  <2> QED
    BY <2>4, <2>5 DEF Pareto, rep
<1> QED
  BY <1>1, <1>2

\* No other step touches the sweep or the report.
LEMMA OthersKeepTheSweep ==
  ASSUME SweepInv, UNCHANGED <<problem, sweep, report>>, stage' = "sweep" => stage = "sweep"
  PROVE  SweepInv'
<1>1. u' = u /\ r' = r
  BY DEF u, r
<1>2. FrontierIsPareto'
  BY <1>1 DEF SweepInv, FrontierIsPareto
<1>3. ASSUME NEW cfg \in r.frontier, SweptSoFar(cfg) PROVE SweptSoFar(cfg)'
  BY <1>1, <1>3 DEF SweptSoFar
<1> QED
  BY <1>1, <1>2, <1>3 DEF SweepInv

\* The steps of the sweep keep the invariant.
LEMMA FinishKeeps ==
  ASSUME SweepInv, UNCHANGED problem, NEW cfg \in r.frontier, NEW rep, Finish(rep),
         Pareto(cfg, u, PointsOf(cfg, u, r), rep)
  PROVE  SweepInv'
<1>1. /\ u' = u /\ r' = r /\ report' = {rep} /\ stage' = "done" /\ sweep' = sweep
      /\ problem' = problem
  BY DEF u, r, Finish
<1>2. \A c \in r.frontier : c = cfg
  BY ProblemAssumption DEF IsRequest, SweepInv, r
<1>3. \A x \in report', c \in r'.frontier : Pareto(c, u', PointsOf(c, u', r'), x)
  BY <1>1, <1>2
<1>4. FrontierIsPareto'
  BY <1>3 DEF FrontierIsPareto, Pareto, PointsOf
<1> QED
  BY <1>1, <1>4 DEF SweepInv

LEMMA AnchorsKeep ==
  ASSUME SweepInv, Anchors PROVE SweepInv'
<1> DEFINE W == Base(u, r)
<1>0. problem \in Problems /\ UNCHANGED problem /\ u = problem.u /\ r = problem.r
  BY DEF SweepInv, Anchors, u, r
<1>1. PICK cfg \in r.frontier :
        IF W = {} THEN Finish(EmptyReport)
        ELSE \E a \in Best(cfg.x, u, W), b \in Best(cfg.y, u, W) :
          LET ends == {Raw(cfg.x, u, a), Raw(cfg.x, u, b)}
          IN  CASE Cardinality(ends) = 1 -> Finish(SingleReport(Point(cfg, u, a)))
                [] Cardinality(ends) = 2 /\ cfg.points >= Parallel ->
                     stage' = "raised" /\ UNCHANGED <<report, sweep>>
                [] OTHER -> /\ sweep' = [NoSweep EXCEPT !.lo = Min(ends), !.hi = Max(ends)]
                            /\ stage' = "sweep"
                            /\ UNCHANGED report
  BY DEF Anchors
<1>2. \A c \in r.frontier : c = cfg
  BY <1>0, ProblemAssumption DEF IsRequest
<1>3. CASE W = {}
  BY <1>0, <1>1, <1>3, SmallReports, FinishKeeps
<1>4. CASE W # {}
  <2>1. PICK a \in Best(cfg.x, u, W), b \in Best(cfg.y, u, W) :
          LET ends == {Raw(cfg.x, u, a), Raw(cfg.x, u, b)}
          IN  CASE Cardinality(ends) = 1 -> Finish(SingleReport(Point(cfg, u, a)))
                [] Cardinality(ends) = 2 /\ cfg.points >= Parallel ->
                     stage' = "raised" /\ UNCHANGED <<report, sweep>>
                [] OTHER -> /\ sweep' = [NoSweep EXCEPT !.lo = Min(ends), !.hi = Max(ends)]
                            /\ stage' = "sweep"
                            /\ UNCHANGED report
    BY <1>1, <1>4
  <2> DEFINE ends == {Raw(cfg.x, u, a), Raw(cfg.x, u, b)}
  <2>2. CASE Finish(SingleReport(Point(cfg, u, a)))
    <3>1. /\ Point(cfg, u, a).x \in Int /\ Point(cfg, u, a).y \in Int
          /\ Exact(cfg, u) =>
               \A q \in PointsOf(cfg, u, r) : ~Better(cfg.x, q.x, Point(cfg, u, a).x)
      <4>1. a \in W /\ \A z \in W : ~Better(cfg.x, Measure(cfg.x, u, z), Measure(cfg.x, u, a))
        BY DEF Best
      <4>2. Point(cfg, u, a) \in PointsOf(cfg, u, r)
        BY <4>1 DEF PointsOf
      <4>3. Point(cfg, u, a).x \in Int /\ Point(cfg, u, a).y \in Int
        BY <1>0, <4>2, PointsAreIntegers
      <4>4. Exact(cfg, u) => \A z \in W : Raw(cfg.x, u, z) = Measure(cfg.x, u, z)
        BY <1>0, ExactIsRaw
      <4> QED
        BY <4>1, <4>3, <4>4 DEF PointsOf, Point
    <3>2. Pareto(cfg, u, PointsOf(cfg, u, r), SingleReport(Point(cfg, u, a)))
      BY <3>1, SmallReports
    <3> QED
      BY <1>0, <2>2, <3>2, FinishKeeps
  <2>3. CASE stage' = "raised" /\ UNCHANGED <<report, sweep>>
    BY <1>0, <2>3, OthersKeepTheSweep
  <2>4. CASE /\ sweep' = [NoSweep EXCEPT !.lo = Min(ends), !.hi = Max(ends)]
             /\ stage' = "sweep"
             /\ UNCHANGED report
    <3>1. /\ sweep'.lo = Min(ends) /\ sweep'.hi = Max(ends)
          /\ sweep'.level = 0 /\ sweep'.points = <<>>
          /\ DOMAIN sweep' = {"lo", "hi", "level", "points"}
      BY <2>4 DEF NoSweep
    <3>2. Anchored(cfg, u, W, sweep'.lo, sweep'.hi)
      BY <3>1 DEF Anchored
    <3>3. u' = u /\ r' = r /\ report' = report /\ problem' = problem
      BY <1>0, <2>4 DEF u, r
    <3>4. SweptSoFar(cfg)'
      BY <3>1, <3>2, <3>3 DEF SweptSoFar
    <3>5. FrontierIsPareto'
      BY <3>3 DEF SweepInv, FrontierIsPareto
    <3> QED
      BY <1>2, <3>1, <3>3, <3>4, <3>5 DEF SweepInv
  <2> QED
    BY <2>1, <2>2, <2>3, <2>4
<1> QED
  BY <1>3, <1>4

LEMMA SweepLevelKeeps ==
  ASSUME SweepInv, SweepLevel PROVE SweepInv'
<1>0. /\ problem \in Problems /\ u = problem.u /\ r = problem.r
      /\ stage = "sweep" /\ DOMAIN sweep = {"lo", "hi", "level", "points"}
      /\ UNCHANGED <<problem, stage, report>> /\ u' = u /\ r' = r
  BY DEF SweepInv, SweepLevel, u, r
<1> DEFINE Solutions(c, k) == LevelSolutions(c, u, r, sweep.lo, sweep.hi, k)
<1>1. PICK cfg \in r.frontier :
        /\ sweep.level < cfg.points
        /\ IF Solutions(cfg, sweep.level) = {} THEN sweep' = [sweep EXCEPT !.level = @ + 1]
           ELSE \E w \in Solutions(cfg, sweep.level) :
                  sweep' = [sweep EXCEPT !.level = @ + 1, !.points = Append(@, Point(cfg, u, w))]
  BY DEF SweepLevel
<1>2. \A c \in r.frontier : c = cfg
  BY <1>0, ProblemAssumption DEF IsRequest
<1> DEFINE R == PointsOf(cfg, u, r)
<1>3. /\ Anchored(cfg, u, Base(u, r), sweep.lo, sweep.hi)
      /\ sweep.level \in Nat
      /\ sweep.points \in Seq(R)
      /\ Exact(cfg, u) => \A i \in DOMAIN sweep.points : Sampled(cfg, R, sweep.points[i])
      /\ \A k \in 0..(sweep.level - 1) : Solutions(cfg, k) # {} =>
           \E i \in DOMAIN sweep.points, w \in Solutions(cfg, k) :
             sweep.points[i] = Point(cfg, u, w)
  BY <1>0 DEF SweepInv, SweptSoFar
<1>4. cfg.points \in Nat \ {0, 1}
  BY <1>0, ProblemAssumption DEF IsRequest
<1> HIDE DEF Solutions
<1>5. /\ sweep'.lo = sweep.lo /\ sweep'.hi = sweep.hi /\ sweep'.level = sweep.level + 1
      /\ DOMAIN sweep' = {"lo", "hi", "level", "points"}
      /\ \/ Solutions(cfg, sweep.level) = {} /\ sweep'.points = sweep.points
         \/ \E w \in Solutions(cfg, sweep.level) :
              sweep'.points = Append(sweep.points, Point(cfg, u, w))
  BY <1>0, <1>1
<1>6. sweep.lo \in Int /\ sweep.hi \in Int
  BY <1>0, <1>3, EndsAreIntegers
<1>7. SweptSoFar(cfg)'
  <2>1. \A k \in 0..(sweep'.level - 1) : k = sweep.level \/ k \in 0..(sweep.level - 1)
    BY <1>3, <1>5
  <2>2. CASE Solutions(cfg, sweep.level) = {} /\ sweep'.points = sweep.points
    <3>1. \A k \in 0..(sweep'.level - 1) : Solutions(cfg, k) # {} =>
            \E i \in DOMAIN sweep.points, w \in Solutions(cfg, k) :
              sweep.points[i] = Point(cfg, u, w)
      BY <1>3, <2>1, <2>2
    <3>2. sweep'.level \in Nat
      BY <1>3, <1>5
    <3> QED
      BY <1>0, <1>3, <1>5, <2>2, <3>1, <3>2 DEF SweptSoFar, Solutions
  <2>3. ASSUME NEW w \in Solutions(cfg, sweep.level),
               sweep'.points = Append(sweep.points, Point(cfg, u, w))
        PROVE  SweptSoFar(cfg)'
    <3> DEFINE P == sweep.points
               Q == Append(P, Point(cfg, u, w))
    <3>1. Exact(cfg, u) => Sampled(cfg, R, Point(cfg, u, w))
      <4>0. sweep.level < cfg.points /\ sweep.level \in Nat /\ cfg.points \in Nat
        BY <1>1, <1>3, <1>4
      <4>1. sweep.level \in 0..(cfg.points - 1)
        BY <4>0
      <4> QED
        BY <1>0, <1>6, <2>3, <4>1, SolutionsAreSampled DEF Solutions
    <3>2. Point(cfg, u, w) \in R
      BY <2>3 DEF Solutions, LevelSolutions, Best, PointsOf
    <3> HIDE DEF R
    <3>3. /\ Q \in Seq(R) /\ DOMAIN Q = 1..(Len(P) + 1) /\ Len(P) \in Nat
          /\ \A i \in DOMAIN P : i \in DOMAIN Q /\ Q[i] = P[i]
          /\ Q[Len(P) + 1] = Point(cfg, u, w)
          /\ \A i \in DOMAIN Q : i \in DOMAIN P \/ i = Len(P) + 1
      BY <1>3, <3>2
    <3>4. Len(P) + 1 \in DOMAIN Q
      BY <3>3
    <3>5. sweep'.points = Q
      BY <2>3
    <3> HIDE DEF P, Q
    <3>6. Exact(cfg, u) => \A i \in DOMAIN Q : Sampled(cfg, R, Q[i])
      BY <1>3, <3>1, <3>3 DEF P
    <3>7. ASSUME NEW k \in 0..(sweep'.level - 1), Solutions(cfg, k) # {}
          PROVE  \E i \in DOMAIN Q, z \in Solutions(cfg, k) : Q[i] = Point(cfg, u, z)
      <4>1. CASE k = sweep.level
        BY <2>3, <3>3, <3>4, <4>1
      <4>2. CASE k \in 0..(sweep.level - 1)
        <5>1. PICK i \in DOMAIN P, z \in Solutions(cfg, k) : P[i] = Point(cfg, u, z)
          BY <1>3, <3>7, <4>2 DEF P
        <5> QED
          BY <3>3, <5>1
      <4> QED
        BY <2>1, <4>1, <4>2
    <3>8. /\ sweep'.points \in Seq(PointsOf(cfg, u, r))
          /\ Exact(cfg, u) => \A i \in DOMAIN sweep'.points :
               Sampled(cfg, PointsOf(cfg, u, r), sweep'.points[i])
      BY <3>3, <3>5, <3>6 DEF R
    <3>9. \A k \in 0..(sweep'.level - 1) :
            LevelSolutions(cfg, u, r, sweep'.lo, sweep'.hi, k) # {} =>
              \E i \in DOMAIN sweep'.points,
                 z \in LevelSolutions(cfg, u, r, sweep'.lo, sweep'.hi, k) :
                sweep'.points[i] = Point(cfg, u, z)
      BY <1>5, <3>5, <3>7 DEF Solutions
    <3>10. sweep'.level \in Nat /\ Anchored(cfg, u, Base(u, r), sweep'.lo, sweep'.hi)
      BY <1>3, <1>5
    <3> QED
      BY <1>0, <3>8, <3>9, <3>10 DEF SweptSoFar
  <2> QED
    BY <1>5, <2>2, <2>3
<1>8. FrontierIsPareto'
  BY <1>0 DEF SweepInv, FrontierIsPareto
<1> QED
  BY <1>0, <1>2, <1>5, <1>7, <1>8 DEF SweepInv

LEMMA ReportKeeps ==
  ASSUME SweepInv, Report PROVE SweepInv'
<1>0. /\ problem \in Problems /\ u = problem.u /\ r = problem.r
      /\ stage = "sweep" /\ UNCHANGED problem
  BY DEF SweepInv, Report, u, r
<1>1. PICK cfg \in r.frontier :
        /\ sweep.level = cfg.points
        /\ IF sweep.points = <<>> THEN Finish(EmptyReport)
           ELSE \E rep \in Reports(cfg, SortedByX(sweep.points)) : Finish(rep)
  BY DEF Report
<1> DEFINE R == PointsOf(cfg, u, r)
           Solutions(k) == LevelSolutions(cfg, u, r, sweep.lo, sweep.hi, k)
<1>2. /\ Anchored(cfg, u, Base(u, r), sweep.lo, sweep.hi)
      /\ sweep.points \in Seq(R)
      /\ Exact(cfg, u) => \A i \in DOMAIN sweep.points : Sampled(cfg, R, sweep.points[i])
      /\ \A k \in 0..(cfg.points - 1) : Solutions(k) # {} =>
           \E i \in DOMAIN sweep.points, w \in Solutions(k) :
             sweep.points[i] = Point(cfg, u, w)
  BY <1>0, <1>1 DEF SweepInv, SweptSoFar
<1>3. CASE sweep.points = <<>>
  BY <1>0, <1>1, <1>3, SmallReports, FinishKeeps
<1>4. ASSUME NEW rep \in Reports(cfg, SortedByX(sweep.points)), Finish(rep)
      PROVE  SweepInv'
  <2>1. ASSUME Exact(cfg, u)
        PROVE  /\ \E i \in DOMAIN sweep.points : \A q \in R : ~Better(cfg.x, q.x, sweep.points[i].x)
               /\ \E i \in DOMAIN sweep.points : \A q \in R : ~Better(cfg.y, q.y, sweep.points[i].y)
    <3>1. \A z \in Base(u, r) : /\ Raw(cfg.x, u, z) = Measure(cfg.x, u, z)
                                /\ Raw(cfg.y, u, z) = Measure(cfg.y, u, z)
      BY <1>0, <2>1, ExactIsRaw
    <3>2. \A m \in 0..(cfg.points - 1) : Solutions(m) \subseteq Base(u, r)
      BY DEF LevelSolutions, Best
    <3>3. PICK k \in 0..(cfg.points - 1) :
            /\ Solutions(k) # {}
            /\ \A w \in Solutions(k), z \in Base(u, r) :
                 ~Better(cfg.x, Measure(cfg.x, u, z), Measure(cfg.x, u, w))
      BY <1>0, <1>2, <2>1, EndsAreSolved
    <3>4. PICK i \in DOMAIN sweep.points, w \in Solutions(k) : sweep.points[i] = Point(cfg, u, w)
      BY <1>2, <3>3
    <3>5. \A q \in R : ~Better(cfg.x, q.x, sweep.points[i].x)
      BY <3>1, <3>2, <3>3, <3>4 DEF PointsOf, Point
    <3>6. PICK l \in 0..(cfg.points - 1) :
            /\ Solutions(l) # {}
            /\ \A v \in Solutions(l), z \in Base(u, r) :
                 ~Better(cfg.y, Measure(cfg.y, u, z), Measure(cfg.y, u, v))
      BY <1>0, <1>2, <2>1, EndsAreSolved
    <3>7. PICK j \in DOMAIN sweep.points, v \in Solutions(l) : sweep.points[j] = Point(cfg, u, v)
      BY <1>2, <3>6
    <3>8. \A q \in R : ~Better(cfg.y, q.y, sweep.points[j].y)
      BY <3>1, <3>2, <3>6, <3>7 DEF PointsOf, Point
    <3> QED
      BY <3>5, <3>8
  <2>2. Pareto(cfg, u, R, rep)
    BY <1>0, <1>2, <2>1, ReportIsPareto
  <2> QED
    BY <1>0, <1>4, <2>2, FinishKeeps
<1> QED
  BY <1>1, <1>3, <1>4

\* What compute_frontier reports, for every universe and request: where the solver
\* works on what the points report (any axes of uncorrelated assets, and axes without
\* volatility) a sweep has both ends of the trade-off and no dominant point is beaten
\* on both axes by a portfolio; of every sweep the dominant points are those no other
\* point dominates but for ties in x, although the fast pass compares neighbours only.
THEOREM FrontiersArePareto == Spec => []FrontierIsPareto
<1>1. Init => SweepInv
  BY DEF Init, SweepInv, NoSweep, FrontierIsPareto
<1>2. SweepInv /\ [Next]_vars => SweepInv'
  <2> SUFFICES ASSUME SweepInv, [Next]_vars PROVE SweepInv'
    OBVIOUS
  <2>1. CASE Validate \/ SolveClassical \/ Dispatch \/ QaoaReturns \/ VqeReturns \/ Collect
    <3>1. UNCHANGED <<problem, sweep, report>> /\ (stage' = "sweep" => stage = "sweep")
      BY <2>1 DEF Validate, SolveClassical, Dispatch, QaoaReturns, VqeReturns, Collect, AfterQuantum
    <3> QED
      BY <3>1, OthersKeepTheSweep
  <2>2. ASSUME NEW a \in Algorithms, FallsBack(a) \/ TimesOut(a) PROVE SweepInv'
    <3>1. UNCHANGED <<problem, sweep, report, stage>>
      BY <2>2 DEF FallsBack, TimesOut
    <3> QED
      BY <3>1, OthersKeepTheSweep
  <2>3. CASE UNCHANGED vars
    BY <2>3, OthersKeepTheSweep DEF vars
  <2> QED
    BY <2>1, <2>2, <2>3, AnchorsKeep, SweepLevelKeeps, ReportKeeps DEF Next
<1>3. SweepInv => FrontierIsPareto
  BY DEF SweepInv
<1> QED
  BY <1>1, <1>2, <1>3, PTL DEF Spec

-----------------------------------------------------------------------------
(* The answer.                                                             *)

\* The weights run_markowitz_mvo returns meet the limits of the request, whatever the
\* universe and however the limits contradict or overlap each other: all of them but
\* thresholds on sharpe, on the volatility of correlated assets (there the solver
\* bounds another expression) and min_weight_per_asset, which it never reads.
THEOREM AnswersMeetTheRequest == Spec => []AnswerMeetsRequest
<1> DEFINE AInv == problem \in Problems /\ AnswerMeetsRequest
<1>1. Init => AInv
  BY DEF Init, AnswerMeetsRequest
<1>2. AInv /\ [Next]_vars => AInv'
  <2> SUFFICES ASSUME AInv, [Next]_vars PROVE AInv'
    OBVIOUS
  <2>1. CASE UNCHANGED <<problem, answer>>
    BY <2>1 DEF AnswerMeetsRequest, WithinLimits, CalmEnough, u, r
  <2>2. CASE SolveClassical
    <3>1. problem' = problem /\ u' = u /\ r' = r /\ N(u) \in Nat
      BY <2>2, UniverseAssumption DEF SolveClassical, u, r
    <3>2. ASSUME NEW w \in Answers(u, r)
          PROVE  w \in Portfolios(u) /\ WithinLimits(w) /\ (Uncorrelated(u) => CalmEnough(w))
      <4>1. w \in Feasible(u, r)
        BY DEF Answers, ScalarBest, LegacyBest
      <4>2. w \in Base(u, r)
        BY <4>1 DEF Feasible
      <4>3. ASSUME NEW s \in r.sectors PROVE SectorWeight(u, w, s.sector) <= s.max
        <5>1. s.max \in Nat
          BY ProblemAssumption DEF IsRequest, r
        <5>2. CASE Members(u, s.sector) = {}
          <6>1. SectorWeight(u, w, s.sector) = 0
            BY <3>1, <5>2, EmptySector
          <6> QED
            BY <5>1, <6>1
        <5>3. CASE Members(u, s.sector) # {}
          BY <4>2, <5>3 DEF Base
        <5> QED
          BY <5>2, <5>3
      <4>4. \A o \in Enabled(r) : o.name \in Convex => ThresholdMet(o, u, w)
        BY <4>1 DEF Feasible, Rows
      <4>5. w \in Portfolios(u) /\ WithinLimits(w)
        BY <4>1, <4>2, <4>3, <4>4 DEF WithinLimits, Feasible, Base
      <4>6. ASSUME Uncorrelated(u) PROVE CalmEnough(w)
        <5>1. SolverVariance(u, w) = Variance(u, w)
          <6>1. IsUniverse(u) /\ w \in [Assets(u) -> 0..Grid]
            BY <4>5, ProblemAssumption DEF Portfolios, u
          <6> QED
            BY <3>1, <4>6, <6>1, ExpressionIsTrue
        <5>2. ASSUME NEW o \in Enabled(r), o.name = "volatility", NEW t \in o.threshold
              PROVE  IF o.direction = "maximize" THEN Variance(u, w) >= t * Grid * Grid
                                                 ELSE Variance(u, w) <= t * Grid * Grid
          <6>1. ThresholdMet(o, u, w)
            BY <4>4, <5>2 DEF Convex
          <6> QED
            BY <5>1, <5>2, <6>1 DEF ThresholdMet, AtLeast, AtMost
        <5> QED
          BY <5>2 DEF CalmEnough
      <4> QED
        BY <4>5, <4>6
    <3>3. answer' = answer \/ \E w \in Answers(u, r) : answer' = {w}
      BY <2>2 DEF SolveClassical
    <3>4. \A w \in answer' :
            w \in Portfolios(u) /\ WithinLimits(w) /\ (Uncorrelated(u) => CalmEnough(w))
      BY <3>2, <3>3 DEF AnswerMeetsRequest
    <3> QED
      BY <3>1, <3>4 DEF AnswerMeetsRequest, WithinLimits, CalmEnough
  <2>3. CASE Validate \/ Dispatch \/ QaoaReturns \/ VqeReturns \/ Collect
             \/ Anchors \/ SweepLevel \/ Report
    BY <2>1, <2>3 DEF Validate, Dispatch, QaoaReturns, VqeReturns, Collect, Anchors, SweepLevel,
                      Report
  <2>4. ASSUME NEW a \in Algorithms, FallsBack(a) \/ TimesOut(a) PROVE AInv'
    BY <2>1, <2>4 DEF FallsBack, TimesOut
  <2>5. CASE UNCHANGED vars
    BY <2>1, <2>5 DEF vars
  <2> QED
    BY <2>2, <2>3, <2>4, <2>5 DEF Next
<1>3. AInv => AnswerMeetsRequest
  OBVIOUS
<1> QED
  BY <1>1, <1>2, <1>3, PTL DEF Spec

-----------------------------------------------------------------------------
(* What a rejection says.                                                  *)

\* The steps of the sums below, as identities of integers.
LEMMA SquareExpands ==
  ASSUME NEW n \in Int, NEW x \in Int, NEW g \in Int
  PROVE  (n * x - g) * (n * x - g)
           = ((n * n) * (x * x) + 0) - ((2 * n * g) * x + (-(g * g)))
OBVIOUS

LEMMA GapFactors ==
  ASSUME NEW n \in Int, NEW h \in Int, NEW g \in Int
  PROVE  ((n * n) * h + 0 * n) - ((2 * n * g) * g + (-(g * g)) * n) = (h * n - g * g) * n
OBVIOUS

\* The parts of a portfolio.
LEMMA PartsAre ==
  ASSUME NEW v, N(v) \in Nat \ {0}, NEW w \in Portfolios(v)
  PROVE  /\ w \in [Assets(v) -> 0..Grid]
         /\ \A i \in Assets(v) : w[i] \in Nat
         /\ Total(Assets(v), w) = Grid
         /\ IsFiniteSet(Assets(v)) /\ Cardinality(Assets(v)) = N(v)
<1> DEFINE S == Assets(v)
           Is(g) == g = [s \in SUBSET S |-> IF s = {} THEN 0 ELSE w[One(s)] + g[s \ {One(s)}]]
           g == CHOOSE h : Is(h)
<1>1. IsFiniteSet(S) /\ Cardinality(S) = N(v)
  <2>1. N(v) \in Int /\ 1 \in Int /\ S = 1..N(v)
    BY DEF Assets, N
  <2> QED
    BY <2>1, FS_Interval
<1>2. MapThenSumSet(LAMBDA i : w[i], S) = g[S]
  BY DEF MapThenSumSet, MapThenFoldSet, One
<1>3. ASSUME NEW h PROVE Is(h) <=> Sums(S, w, h)
  BY DEF Sums
<1>4. Is(g)
  BY <1>1, <1>3, SumsExist
<1>5. Total(S, w) = g[S]
  <2> HIDE DEF g, Is, S
  <2> QED
    BY <1>1, <1>3, <1>4, TotalIs
<1>6. w \in [S -> 0..Grid] /\ MapThenSumSet(LAMBDA i : w[i], S) = Grid
  BY DEF Portfolios
<1>7. \A i \in S : w[i] \in Nat
  BY <1>6, GridAssumption
<1> QED
  BY <1>1, <1>2, <1>5, <1>6, <1>7

\* max_weight_per_asset < 1 / n leaves part of the budget.
LEMMA WeightsFallShort ==
  ASSUME NEW v, N(v) \in Nat \ {0}, NEW m \in Int, m * N(v) < Grid,
         NEW w \in Portfolios(v), \A i \in Assets(v) : w[i] <= m
  PROVE  FALSE
<1> DEFINE h == [i \in Assets(v) |-> m]
<1>1. /\ IsFiniteSet(Assets(v)) /\ Cardinality(Assets(v)) = N(v)
      /\ Total(Assets(v), w) = Grid /\ \A i \in Assets(v) : w[i] \in Int
  BY PartsAre
<1>2. \A i \in Assets(v) : w[i] \in Int /\ h[i] \in Int /\ w[i] <= h[i]
  BY <1>1
<1>3. \A i \in Assets(v) : w[i] \in Int /\ h[i] = 0 * w[i] + m
  BY <1>1
<1> HIDE DEF h
<1>4. Total(Assets(v), w) <= Total(Assets(v), h)
  BY <1>1, <1>2, TotalMonotone
<1>5. Total(Assets(v), h) = 0 * Total(Assets(v), w) + m * Cardinality(Assets(v))
  BY <1>1, <1>3, TotalIsLinear
<1>6. Total(Assets(v), h) = m * N(v) /\ m * N(v) \in Int /\ Grid \in Int
  BY <1>1, <1>5, GridAssumption
<1> QED
  BY <1>1, <1>4, <1>6

\* No portfolio returns more than its best asset.
LEMMA ReturnIsBounded ==
  ASSUME NEW v, N(v) \in Nat \ {0}, IsUniverse(v), NEW w \in Portfolios(v)
  PROVE  /\ MaxReturn(v) \in Int /\ Return(v, w) \in Int
         /\ Return(v, w) <= MaxReturn(v) * Grid
<1> DEFINE T == {v.mu[i] : i \in Assets(v)}
           f == [i \in Assets(v) |-> v.mu[i] * w[i]]
           h == [i \in Assets(v) |-> MaxReturn(v) * w[i]]
           c == [i \in Assets(v) |-> v.mu[i]]
<1>1. /\ IsFiniteSet(Assets(v)) /\ w \in [Assets(v) -> 0..Grid]
      /\ Total(Assets(v), w) = Grid /\ \A i \in Assets(v) : w[i] \in Nat
  BY PartsAre
<1>2. \A i \in Assets(v) : v.mu[i] \in Int
  BY DEF Assets, N, IsUniverse
<1>3. T # {} /\ T \in SUBSET Int /\ IsFiniteSet(T)
  <2>1. 1 \in Assets(v)
    BY DEF Assets, N
  <2>2. c \in Surjection(Assets(v), T)
    BY DEF Surjection
  <2>3. IsFiniteSet(T)
    BY <1>1, <2>2, FS_Surjection
  <2> QED
    BY <1>2, <2>1, <2>3
<1>4. MaxReturn(v) \in Int /\ \A i \in Assets(v) : v.mu[i] <= MaxReturn(v)
  <2>1. Max(T) \in Int /\ \A t \in T : Max(T) >= t
    <3> HIDE DEF T
    <3> QED
      BY <1>3, GreatestOf
  <2> QED
    BY <1>2, <2>1 DEF MaxReturn
<1>5. ASSUME NEW i \in Assets(v) PROVE f[i] \in Int /\ h[i] \in Int /\ f[i] <= h[i]
  <2>1. v.mu[i] \in Int /\ w[i] \in Nat /\ v.mu[i] <= MaxReturn(v)
    BY <1>1, <1>2, <1>4
  <2>2. v.mu[i] * w[i] <= MaxReturn(v) * w[i]
    BY <1>4, <2>1, ProductMonotone
  <2> QED
    BY <1>4, <2>1, <2>2
<1>6. Return(v, w) = Total(Assets(v), f)
  BY ReturnIs
<1>7. \A i \in Assets(v) : w[i] \in Int /\ h[i] = MaxReturn(v) * w[i] + 0
  <2>1. \A i \in Assets(v) : MaxReturn(v) * w[i] \in Int
    BY <1>1, <1>4
  <2> QED
    BY <1>1, <2>1
<1> HIDE DEF f, h
<1>8. Total(Assets(v), f) <= Total(Assets(v), h) /\ Total(Assets(v), f) \in Int
  BY <1>1, <1>5, TotalMonotone, TotalType
<1>9. Total(Assets(v), h) = MaxReturn(v) * Total(Assets(v), w) + 0 * Cardinality(Assets(v))
  BY <1>1, <1>4, <1>7, TotalIsLinear
<1>10. Total(Assets(v), h) = MaxReturn(v) * Grid
  <2>1. Cardinality(Assets(v)) \in Int
    BY <1>1, FS_CardinalityType
  <2>2. MaxReturn(v) * Grid \in Int
    BY <1>4, GridAssumption
  <2> QED
    BY <1>1, <1>9, <2>1, <2>2
<1> QED
  BY <1>4, <1>6, <1>8, <1>10

\* A return beyond the best asset's is out of reach.
LEMMA ReturnFallsShort ==
  ASSUME NEW v, N(v) \in Nat \ {0}, IsUniverse(v), NEW m \in Int, m > MaxReturn(v),
         NEW w \in Portfolios(v), Return(v, w) >= m * Grid
  PROVE  FALSE
<1>1. /\ MaxReturn(v) \in Int /\ Return(v, w) \in Int
      /\ Return(v, w) <= MaxReturn(v) * Grid
  BY ReturnIsBounded
<1>2. Grid \in Nat \ {0}
  BY GridAssumption
<1>3. m * Grid <= MaxReturn(v) * Grid
  <2>1. m * Grid \in Int /\ MaxReturn(v) * Grid \in Int
    BY <1>1, <1>2
  <2> QED
    BY <1>1, <2>1
<1>4. m <= MaxReturn(v)
  BY <1>1, <1>2, <1>3, ProductCancels
<1> QED
  BY <1>1, <1>4

\* Equal weights are the most diversified.
LEMMA HhiIsBounded ==
  ASSUME NEW v, N(v) \in Nat \ {0}, NEW w \in Portfolios(v)
  PROVE  Hhi(v, w) \in Int /\ Grid * Grid <= Hhi(v, w) * N(v)
<1> DEFINE n == N(v)
           q == [i \in Assets(v) |-> w[i] * w[i]]
           f == [i \in Assets(v) |-> (2 * n * Grid) * w[i] + (-(Grid * Grid))]
           h == [i \in Assets(v) |-> (n * n) * q[i] + 0]
<1>1. /\ IsFiniteSet(Assets(v)) /\ Cardinality(Assets(v)) = n
      /\ Total(Assets(v), w) = Grid /\ \A i \in Assets(v) : w[i] \in Int
  BY PartsAre
<1>2. n \in Nat \ {0} /\ n \in Int /\ Grid \in Int
  BY GridAssumption
<1>3. Hhi(v, w) = Total(Assets(v), q)
  BY HhiIs
<1> HIDE DEF n
<1>4. ASSUME NEW i \in Assets(v)
      PROVE  /\ q[i] \in Int /\ f[i] \in Int /\ h[i] \in Int
             /\ f[i] <= h[i]
  <2>1. w[i] \in Int
    BY <1>1
  <2>2. (n * w[i] - Grid) * (n * w[i] - Grid) >= 0
    BY <1>2, <2>1, SquareIsNotNegative
  <2>3. (n * w[i] - Grid) * (n * w[i] - Grid)
          = ((n * n) * (w[i] * w[i]) + 0) - ((2 * n * Grid) * w[i] + (-(Grid * Grid)))
    BY <1>2, <2>1, SquareExpands
  <2>4. /\ w[i] * w[i] \in Int /\ n * n \in Int /\ Grid * Grid \in Int /\ 2 * n * Grid \in Int
    BY <1>2, <2>1
  <2>5. /\ (n * n) * (w[i] * w[i]) + 0 \in Int
        /\ (2 * n * Grid) * w[i] + (-(Grid * Grid)) \in Int
    BY <1>2, <2>1, <2>4
  <2>6. q[i] = w[i] * w[i] /\ f[i] = (2 * n * Grid) * w[i] + (-(Grid * Grid))
        /\ h[i] = (n * n) * (w[i] * w[i]) + 0
    OBVIOUS
  <2> HIDE DEF q, f, h
  <2> QED
    BY <2>2, <2>3, <2>4, <2>5, <2>6
<1>5. \A i \in Assets(v) : h[i] = (n * n) * q[i] + 0
  OBVIOUS
<1>6. \A i \in Assets(v) : f[i] = (2 * n * Grid) * w[i] + (-(Grid * Grid))
  OBVIOUS
<1> HIDE DEF q, f, h
<1>7. Total(Assets(v), f) <= Total(Assets(v), h)
  BY <1>1, <1>4, TotalMonotone
<1>8. n * n \in Int /\ 2 * n * Grid \in Int /\ -(Grid * Grid) \in Int
  BY <1>2
<1>9. Total(Assets(v), h) = (n * n) * Total(Assets(v), q) + 0 * n
  BY <1>1, <1>4, <1>5, <1>8, TotalIsLinear
<1>10. Total(Assets(v), f) = (2 * n * Grid) * Grid + (-(Grid * Grid)) * n
  BY <1>1, <1>6, <1>8, TotalIsLinear
<1>11. Hhi(v, w) \in Int
  BY <1>1, <1>3, <1>4, TotalType
<1>12. Total(Assets(v), h) - Total(Assets(v), f) = (Hhi(v, w) * n - Grid * Grid) * n
  <2> DEFINE H == Hhi(v, w)
  <2>1. ((n * n) * H + 0 * n) - ((2 * n * Grid) * Grid + (-(Grid * Grid)) * n)
          = (H * n - Grid * Grid) * n
    <3> HIDE DEF H
    <3>1. H \in Int
      BY <1>11 DEF H
    <3> QED
      BY <1>2, <3>1, GapFactors
  <2> QED
    BY <1>3, <1>9, <1>10, <2>1
<1>13. 0 * n <= (Hhi(v, w) * n - Grid * Grid) * n
  <2>1. Total(Assets(v), h) \in Int /\ Total(Assets(v), f) \in Int
    BY <1>1, <1>4, TotalType
  <2> QED
    BY <1>2, <1>7, <1>12, <2>1
<1>14. Hhi(v, w) * n - Grid * Grid \in Int /\ Hhi(v, w) * n \in Int /\ Grid * Grid \in Int
  BY <1>2, <1>11
<1>15. 0 <= Hhi(v, w) * n - Grid * Grid
  BY <1>2, <1>13, <1>14, ProductCancels
<1> QED
  BY <1>11, <1>14, <1>15 DEF n

\* A concentration below that of equal weights is out of reach.
LEMMA HhiFallsShort ==
  ASSUME NEW v, N(v) \in Nat \ {0}, NEW t \in Int, t * N(v) < Grid * Grid,
         NEW w \in Portfolios(v), Hhi(v, w) <= t
  PROVE  FALSE
<1>1. Hhi(v, w) \in Int /\ Grid * Grid <= Hhi(v, w) * N(v)
  BY HhiIsBounded
<1>2. Hhi(v, w) * N(v) <= t * N(v)
  BY <1>1, ProductMonotone
<1>3. Grid * Grid \in Int /\ t * N(v) \in Int /\ Hhi(v, w) * N(v) \in Int
  BY <1>1, GridAssumption
<1> QED
  BY <1>1, <1>2, <1>3

-----------------------------------------------------------------------------
(* Verdicts.                                                               *)

\* What a position is worth, and what it moves with asset i.
Worth(v, x) == MapThenSumSet(LAMBDA i : x[i], Assets(v))
Exposure(v, x, i) == MapThenSumSet(LAMBDA j : v.sigma[i][j] * x[j], Assets(v))

\* What makes sigma a covariance matrix, and Num / Den the least variance: no
\* position, long or short, has a negative variance; and where there is an inverse,
\* the determinants name a position worth Den that moves by Num with every asset
\* (Cramer's rule for inv(cov) @ ones).
Covariance(v) ==
  /\ \A y \in [Assets(v) -> Int] : Variance(v, y) >= 0
  /\ MinVarNum(v) # 0 =>
       /\ MinVarDen(v) > 0
       /\ \E x \in [Assets(v) -> Int] :
            Worth(v, x) = MinVarDen(v) /\ \A i \in Assets(v) : Exposure(v, x, i) = MinVarNum(v)

LEMMA WorthIs ==
  ASSUME NEW v, N(v) \in Nat, NEW x
  PROVE  Worth(v, x) = Total(Assets(v), x)
<1> DEFINE S == Assets(v)
           Is(g) == g = [s \in SUBSET S |-> IF s = {} THEN 0 ELSE x[One(s)] + g[s \ {One(s)}]]
           g == CHOOSE h : Is(h)
<1>1. IsFiniteSet(S)
  BY AssetsAreFinite
<1>2. Worth(v, x) = g[S]
  BY DEF Worth, MapThenSumSet, MapThenFoldSet, One
<1>3. ASSUME NEW h PROVE Is(h) <=> Sums(S, x, h)
  BY DEF Sums
<1>4. Is(g)
  BY <1>1, <1>3, SumsExist
<1> HIDE DEF g, Is, S
<1>5. Total(S, x) = g[S]
  BY <1>1, <1>3, <1>4, TotalIs
<1> QED
  BY <1>2, <1>5 DEF S

LEMMA ExposureIs ==
  ASSUME NEW v, N(v) \in Nat, NEW x, NEW i
  PROVE  Exposure(v, x, i) = Total(Assets(v), [j \in Assets(v) |-> v.sigma[i][j] * x[j]])
<1> DEFINE S == Assets(v)
           f == [j \in S |-> v.sigma[i][j] * x[j]]
           Is(g) == g = [s \in SUBSET S |->
                           IF s = {} THEN 0 ELSE v.sigma[i][One(s)] * x[One(s)] + g[s \ {One(s)}]]
           g == CHOOSE h : Is(h)
<1>1. Exposure(v, x, i) = g[S]
  BY DEF Exposure, MapThenSumSet, MapThenFoldSet, One
<1>2. IsFiniteSet(S)
  BY AssetsAreFinite
<1>3. ASSUME NEW h PROVE Is(h) <=> Sums(S, f, h)
  <2>1. \A s \in SUBSET S : s # {} => f[One(s)] = v.sigma[i][One(s)] * x[One(s)]
    BY <1>2, OneOf
  <2> HIDE DEF f, S
  <2> QED
    BY <2>1 DEF Sums
<1>4. Is(g)
  BY <1>2, <1>3, SumsExist
<1> QED
  BY <1>1, <1>2, <1>3, <1>4, TotalIs

\* Less than the least variance.
LEMMA LeastQuotient ==
  ASSUME NEW D \in Nat \ {0}, NEW G \in Nat \ {0}, NEW n \in Int, NEW m \in Int, NEW Q \in Int,
         m * D < n, Q <= m * G * G, D * D * Q - D * G * G * n >= 0
  PROVE  FALSE
<1> DEFINE k == G * G
<1>1. k \in Nat \ {0} /\ D * G * G * n = D * (k * n) /\ m * G * G = m * k
  <2>1. \A a, b \in Nat \ {0} : a * b \in Nat \ {0}
    OBVIOUS
  <2>2. \A a, b, c \in Int : a * b * b * c = a * ((b * b) * c) /\ c * b * b = c * (b * b)
    OBVIOUS
  <2> QED
    BY <2>1, <2>2
<1>2. D * D * Q - D * (k * n) = D * (D * Q - k * n)
  <2>1. \A a, b, c \in Int : a * a * b - a * c = a * (a * b - c)
    OBVIOUS
  <2>2. k * n \in Int
    BY <1>1
  <2> HIDE DEF k
  <2> QED
    BY <2>1, <2>2
<1> HIDE DEF k
<1>3. D * Q - k * n >= 0
  <2>1. \A a \in Nat \ {0}, b \in Int : a * b >= 0 => b >= 0
    OBVIOUS
  <2>2. D * Q - k * n \in Int
    BY <1>1
  <2> QED
    BY <1>1, <1>2, <2>1, <2>2
<1>4. D * Q <= D * (m * k)
  <2>1. \A a \in Nat, b, c \in Int : b <= c => a * b <= a * c
    OBVIOUS
  <2>2. m * k \in Int /\ Q <= m * k
    BY <1>1
  <2> QED
    BY <2>1, <2>2
<1>5. D * (m * k) = k * (m * D)
  <2>1. \A a, b, c \in Int : a * (b * c) = c * (b * a)
    OBVIOUS
  <2> QED
    BY <1>1, <2>1
<1>6. k * (m * D) < k * n
  <2>1. \A a \in Nat \ {0}, b, c \in Int : b < c => a * b < a * c
    OBVIOUS
  <2>2. m * D \in Int
    OBVIOUS
  <2> QED
    BY <1>1, <2>1, <2>2
<1>7. k * n \in Int /\ k * (m * D) \in Int /\ D * Q \in Int
  <2>1. m * D \in Int
    OBVIOUS
  <2> QED
    BY <1>1, <2>1
<1> QED
  BY <1>3, <1>4, <1>5, <1>6, <1>7

\* max_volatility below the root of the least variance asks for less than there is:
\* the variance of the difference between Den parts of w and Grid parts of the
\* position of least variance is what w has above it.
LEMMA VolatilityFallsShort ==
  ASSUME NEW v, N(v) \in Nat \ {0}, IsUniverse(v), Covariance(v), NEW w \in Portfolios(v),
         NEW m \in Int, m * MinVarDen(v) < MinVarNum(v), Variance(v, w) <= m * Grid * Grid
  PROVE  FALSE
<1> DEFINE S == Assets(v)
           P == S \X S
           A == [p \in P |-> v.sigma[p[1]][p[2]]]
           Q == Form(S, A, w)
           n == MinVarNum(v)
           d == MinVarDen(v)
<1>1. /\ IsFiniteSet(S) /\ Total(S, w) = Grid /\ Grid \in Nat \ {0} /\ 1 \in S
      /\ w \in [S -> Int] /\ \A i, j \in S : v.sigma[i][j] \in Int /\ v.sigma[i][j] = v.sigma[j][i]
  <2>1. Total(S, w) = Grid /\ IsFiniteSet(S) /\ w \in [S -> 0..Grid] /\ Grid \in Nat \ {0}
    BY PartsAre, GridAssumption
  <2>2. 1 \in S
    BY DEF Assets, N
  <2>3. w \in [S -> Int]
    BY <2>1
  <2> QED
    BY <2>1, <2>2, <2>3 DEF IsUniverse
<1>2. ASSUME NEW z \in [S -> Int]
      PROVE  Variance(v, z) = Form(S, A, z)
  <2>1. Variance(v, z) = Total(P, [p \in P |-> v.sigma[p[1]][p[2]] * z[p[1]] * z[p[2]]])
    BY VarianceIs
  <2>2. [p \in P |-> v.sigma[p[1]][p[2]] * z[p[1]] * z[p[2]]] = [p \in P |-> A[p] * z[p[1]] * z[p[2]]]
    OBVIOUS
  <2> QED
    BY <2>1, <2>2 DEF Form
<1>3. Variance(v, w) = Q /\ \A z \in [S -> Int] : Variance(v, z) >= 0
  BY <1>1, <1>2 DEF Covariance
<1>4. CASE n = 0
  <2>1. d = 1 /\ m < 0
    BY <1>4 DEF MinVarDen
  <2>2. Variance(v, w) >= 0 /\ Variance(v, w) \in Int
    <3>1. w \in [Assets(v) -> 0..Grid]
      BY PartsAre
    <3>2. Variance(v, w) \in Int
      BY <3>1, MeasuresAreIntegers
    <3> QED
      BY <1>1, <1>3, <3>2
  <2>3. m * Grid * Grid < 0
    <3>1. \A a \in Int, b \in Nat \ {0} : a < 0 => a * b < 0 /\ a * b \in Int
      OBVIOUS
    <3>2. m * Grid < 0 /\ m * Grid \in Int
      BY <1>1, <2>1, <3>1
    <3> QED
      BY <1>1, <3>1, <3>2
  <2> QED
    BY <1>1, <2>2, <2>3
<1>5. CASE n # 0
  <2>1. PICK x \in [S -> Int] : Worth(v, x) = d /\ \A i \in S : Exposure(v, x, i) = n
    BY <1>5 DEF Covariance
  <2>2. d > 0
    BY <1>5 DEF Covariance
  <2>3. Total(S, x) = d /\ d \in Int
    <3>1. Total(S, x) = d
      BY <2>1, WorthIs
    <3>2. Total(S, x) \in Int
      BY <1>1, TotalType
    <3> QED
      BY <3>1, <3>2
  <2>4. ASSUME NEW i \in S
        PROVE  RowAt(S, A, x, i) = n /\ n \in Int
    <3> DEFINE f == [j \in S |-> v.sigma[i][j] * x[j]]
    <3>1. Total(S, f) = n
      BY <2>1, ExposureIs
    <3>2. f = [j \in S |-> A[<<i, j>>] * x[j]]
      OBVIOUS
    <3>3. \A j \in S : f[j] \in Int
      BY <1>1
    <3> HIDE DEF f
    <3>4. Total(S, f) \in Int
      BY <1>1, <3>3, TotalType
    <3> QED
      BY <3>1, <3>2, <3>4 DEF RowAt
  <2> DEFINE y == Apart(S, d, w, Grid, x)
  <2>5. y \in [S -> Int]
    <3>1. \A a, b, c, e \in Int : a * b - c * e \in Int
      OBVIOUS
    <3>2. \A i \in S : w[i] \in Int /\ x[i] \in Int
      BY <1>1
    <3> HIDE DEF d
    <3> QED
      BY <1>1, <2>3, <3>1, <3>2 DEF Apart
  <2>6. Level(S, A, x, n)
    <3>1. \A i, j \in S : A[<<i, j>>] \in Int /\ A[<<i, j>>] = A[<<j, i>>]
      BY <1>1
    <3>2. n \in Int /\ \A i \in S : RowAt(S, A, x, i) = n
      BY <1>1, <2>4
    <3> HIDE DEF A, n
    <3> QED
      BY <3>1, <3>2 DEF Level
  <2>9. Variance(v, y) = Form(S, A, y)
    <3> HIDE DEF y, A
    <3> QED
      BY <1>2, <2>5
  <2>10. Variance(v, y) >= 0
    BY <1>3, <2>5
  <2> HIDE DEF y, A, Q, n, d, S, P
  <2>11. /\ Q \in Int
         /\ Form(S, A, y) = d * d * Q - d * Grid * Grid * n
    <3>1. IsFiniteSet(S) /\ w \in [S -> Int] /\ Grid \in Int
      BY <1>1
    <3>2. d = Total(S, x) /\ Grid = Total(S, w)
      BY <1>1, <2>3
    <3> QED
      BY ONLY <2>3, <2>6, <3>1, <3>2, FormAtDifference DEF Q, y
  <2>12. d * d * Q - d * Grid * Grid * n >= 0 /\ Q <= m * Grid * Grid /\ m * d < n /\ d \in Nat \ {0}
    BY <1>3, <2>2, <2>3, <2>9, <2>10, <2>11 DEF n, d
  <2> QED
    BY ONLY <1>1, <2>6, <2>11, <2>12, LeastQuotient, m \in Int DEF Level
<1> QED
  BY <1>4, <1>5

\* No portfolio meets a request that is rejected for one of its limits.
LEMMA RejectedIsImpossible ==
  ASSUME problem \in Problems, NEW c \in Violations(u, r), c[1] # "weights",
         c[1] = "max_volatility" => Covariance(u), NEW w \in Portfolios(u), Asked(w)
  PROVE  FALSE
<1>1. N(u) \in Nat \ {0} /\ IsUniverse(u) /\ Grid \in Nat \ {0}
  BY UniverseAssumption, ProblemAssumption, GridAssumption DEF u
<1>2. /\ r.maxWeight \cup r.minReturn \cup r.maxVariance \subseteq Int
      /\ \A o \in r.objectives : o.threshold \subseteq Int
  BY ProblemAssumption DEF IsRequest, r
<1>3. ASSUME NEW m \in r.maxWeight, m * N(u) < Grid PROVE FALSE
  BY <1>1, <1>2, <1>3, WeightsFallShort DEF Asked, WithinLimits
<1>4. ASSUME NEW m \in r.minReturn, m > MaxReturn(u) PROVE FALSE
  BY <1>1, <1>2, <1>4, ReturnFallsShort DEF Asked, WithinLimits
<1>5. ASSUME NEW o \in Enabled(r), NEW t \in o.threshold,
             \/ o.name = "return" /\ o.direction = "maximize" /\ t > MaxReturn(u)
             \/ o.name = "diversification_hhi" /\ o.direction = "minimize" /\ t * N(u) < Grid * Grid
      PROVE FALSE
  <2>1. t \in Int
    BY <1>2 DEF Enabled
  <2>2. ThresholdMet(o, u, w)
    BY <1>5 DEF Asked, WithinLimits, Enabled, Convex
  <2>3. CASE o.name = "return"
    <3>1. Return(u, w) >= t * Grid
      BY <1>5, <2>2, <2>3 DEF ThresholdMet, AtLeast
    <3> QED
      BY <1>1, <1>5, <2>1, <2>3, <3>1, ReturnFallsShort
  <2>4. CASE o.name = "diversification_hhi"
    <3>1. Hhi(u, w) <= t
      BY <1>5, <2>2, <2>4 DEF ThresholdMet, AtMost, Measure
    <3> QED
      BY <1>1, <1>5, <2>1, <2>4, <3>1, HhiFallsShort
  <2> QED
    BY <1>5, <2>3, <2>4
<1>6. ASSUME NEW m \in r.maxVariance, m * MinVarDen(u) < MinVarNum(u), Covariance(u) PROVE FALSE
  <2>1. m \in Int /\ Variance(u, w) <= m * Grid * Grid
    BY <1>2, <1>6 DEF Asked, WithinLimits
  <2> QED
    BY <1>1, <1>6, <2>1, VolatilityFallsShort
<1> QED
  BY <1>3, <1>4, <1>5, <1>6 DEF Violations

\* In the solver every measure is an integer.
LEMMA SolverMeasuresAreIntegers ==
  ASSUME NEW v, N(v) \in Nat \ {0}, IsUniverse(v), NEW w \in Portfolios(v)
  PROVE  /\ \A name \in Convex : Measure(name, v, w) \in Int
         /\ LegacyScore(v, w) \in Int
<1>1. w \in [Assets(v) -> 0..Grid] /\ IsFiniteSet(Assets(v)) /\ Grid \in Int
  BY PartsAre, GridAssumption
<1>2. \A name \in Axes : Measure(name, v, w) \in Int
  BY <1>1, MeasuresAreIntegers
<1>3. Return(v, w) \in Int /\ Variance(v, w) \in Int
  BY <1>1, MeasuresAreIntegers
<1>4. ReturnScale(v) \in Int
  BY ScalesAreIntegers
<1>5. Trace(v) \in Int
  <2> DEFINE S == Assets(v)
             f == [i \in S |-> v.sigma[i][i]]
             Is(g) == g = [s \in SUBSET S |-> IF s = {} THEN 0
                                              ELSE v.sigma[One(s)][One(s)] + g[s \ {One(s)}]]
             g == CHOOSE h : Is(h)
  <2>1. Trace(v) = g[S]
    BY DEF Trace, MapThenSumSet, MapThenFoldSet, One
  <2>2. ASSUME NEW h PROVE Is(h) <=> Sums(S, f, h)
    <3>1. \A s \in SUBSET S : s # {} => f[One(s)] = v.sigma[One(s)][One(s)]
      BY <1>1, OneOf
    <3> HIDE DEF f, S
    <3> QED
      BY <3>1 DEF Sums
  <2>3. Is(g)
    BY <1>1, <2>2, SumsExist
  <2>4. \A i \in S : f[i] \in Int
    BY DEF IsUniverse
  <2> HIDE DEF f, g, Is
  <2>5. Total(S, f) = g[S] /\ Total(S, f) \in Int
    BY <1>1, <2>2, <2>3, <2>4, TotalIs, TotalType
  <2> QED
    BY <2>1, <2>5
<1>6. SharpeProxy(v, w) \in Int
  <2>1. \A a, b, c, d, e, n \in Int : a * b * c - d * n * e \in Int
    OBVIOUS
  <2> QED
    BY <1>1, <1>3, <1>4, <1>5, <2>1 DEF SharpeProxy
<1>7. LegacyScore(v, w) \in Int
  BY <1>1, <1>3 DEF LegacyScore
<1> QED
  BY <1>2, <1>6, <1>7 DEF Axes, Convex, Measure

\* Among the feasible portfolios there is one to return.
LEMMA FeasibleHasAnswer ==
  ASSUME NEW p \in Problems, Feasible(p.u, p.r) # {}
  PROVE  Answers(p.u, p.r) # {}
<1> DEFINE v == p.u
           q == p.r
           F == Feasible(v, q)
           used == {o \in Rows(q) : o.weight > 0}
<1>1. N(v) \in Nat \ {0} /\ IsUniverse(v)
  BY UniverseAssumption, ProblemAssumption
<1>2. F \in SUBSET Portfolios(v)
  BY DEF Feasible, Base
<1>3. IsFiniteSet(F)
  BY <1>1, <1>2, PortfoliosAreFinite, FS_Subset
<1>4. \A w \in F : /\ \A name \in Convex : Measure(name, v, w) \in Int
                   /\ LegacyScore(v, w) \in Int
  BY <1>1, <1>2, SolverMeasuresAreIntegers
<1>5. CASE Enabled(q) = {}
  <2> DEFINE R == {x \in F \X F : LegacyScore(v, x[1]) > LegacyScore(v, x[2])}
  <2> HIDE DEF F
  <2>1. \A w \in F : <<w, w>> \notin R
    BY <1>4
  <2>2. \A x, y, z \in F : <<x, y>> \in R /\ <<y, z>> \in R => <<x, z>> \in R
    BY <1>4
  <2>3. \A x, y \in F : <<x, y>> \notin R => LegacyScore(v, y) >= LegacyScore(v, x)
    BY <1>4
  <2> HIDE DEF R
  <2>4. PICK w \in F : \A z \in F : <<z, w>> \notin R
    BY <1>3, <2>1, <2>2, FirstExists DEF F
  <2>5. w \in LegacyBest(v, q)
    BY <2>3, <2>4 DEF LegacyBest, F
  <2> QED
    BY <1>5, <2>5 DEF Answers
<1>6. CASE Enabled(q) # {}
  <2> DEFINE NoWorse(x, y) == \A o \in used : AsGood(o, v, x, y)
             R == {x \in F \X F : NoWorse(x[1], x[2]) /\ ~NoWorse(x[2], x[1])}
  <2>1. ASSUME NEW x \in F, NEW y \in F, NEW z \in F, NoWorse(x, y), NoWorse(y, z)
        PROVE  NoWorse(x, z)
    <3>1. ASSUME NEW o \in used PROVE AsGood(o, v, x, z)
      <4>1. o.name \in Convex /\ AsGood(o, v, x, y) /\ AsGood(o, v, y, z)
        BY <2>1 DEF Rows
      <4>2. /\ Measure(o.name, v, x) \in Int /\ Measure(o.name, v, y) \in Int
            /\ Measure(o.name, v, z) \in Int
        BY <1>4, <4>1
      <4> QED
        BY <4>1, <4>2 DEF AsGood
    <3> QED
      BY <3>1
  <2> HIDE DEF F, NoWorse
  <2>2. \A w \in F : <<w, w>> \notin R
    OBVIOUS
  <2>3. \A x, y, z \in F : <<x, y>> \in R /\ <<y, z>> \in R => <<x, z>> \in R
    BY <2>1
  <2>4. \A x, y \in F : <<x, y>> \notin R => (NoWorse(x, y) => NoWorse(y, x))
    OBVIOUS
  <2> HIDE DEF R
  <2>5. PICK w \in F : \A z \in F : <<z, w>> \notin R
    BY <1>3, <2>2, <2>3, FirstExists DEF F
  <2>6. \A z \in F : NoWorse(z, w) => NoWorse(w, z)
    BY <2>4, <2>5
  <2>7. w \in ScalarBest(v, q)
    BY <2>6 DEF ScalarBest, F, NoWorse
  <2> QED
    BY <1>6, <2>7 DEF Answers
<1> QED
  BY <1>5, <1>6

\* Every portfolio that meets a request is feasible, but for thresholds on sharpe and
\* on the volatility of correlated assets.
LEMMA AskedIsFeasible ==
  ASSUME problem \in Problems, ~Limits("sharpe"), Limits("volatility") => Uncorrelated(u),
         NEW w \in Portfolios(u), Asked(w)
  PROVE  w \in Feasible(u, r)
<1>1. w \in Base(u, r)
  BY DEF Base, Asked, WithinLimits
<1>2. ASSUME NEW o \in Rows(r) PROVE ThresholdMet(o, u, w)
  <2>1. o \in Enabled(r) /\ o.name \in Convex
    BY DEF Rows
  <2>2. CASE o.threshold = {}
    BY <2>2 DEF ThresholdMet
  <2>3. CASE o.name = "volatility" /\ o.threshold # {}
    <3>1. Uncorrelated(u)
      BY <2>1, <2>3 DEF Limits
    <3>2. SolverVariance(u, w) = Variance(u, w)
      <4>1. N(u) \in Nat /\ IsUniverse(u) /\ w \in [Assets(u) -> 0..Grid]
        BY UniverseAssumption, ProblemAssumption DEF Portfolios, u
      <4> QED
        BY <3>1, <4>1, ExpressionIsTrue
    <3>3. \A t \in o.threshold :
            IF o.direction = "maximize" THEN Variance(u, w) >= t * Grid * Grid
                                        ELSE Variance(u, w) <= t * Grid * Grid
      BY <2>1, <2>3 DEF Asked, CalmEnough
    <3> QED
      BY <2>3, <3>2, <3>3 DEF ThresholdMet, AtLeast, AtMost
  <2>4. CASE o.name # "volatility" /\ o.threshold # {}
    <3>1. o.name # "sharpe"
      BY <2>1, <2>4 DEF Limits
    <3> QED
      BY <2>1, <2>4, <3>1 DEF Asked, WithinLimits
  <2> QED
    BY <2>2, <2>3, <2>4
<1> QED
  BY <1>1, <1>2 DEF Feasible, Asked, WithinLimits

\* What the bound on the volatility takes for granted: sigma is a covariance matrix,
\* where a request is rejected for it.
Bounded ==
  verdict = "rejected" /\ (\E c \in Violations(u, r) : c[1] = "max_volatility") => Covariance(u)

\* A request that is rejected for a limit, or found infeasible (without thresholds on
\* sharpe or on the volatility of correlated assets), is met by no portfolio, and an
\* answer meets what its request asks for as AnswerMeetsRequest has it, whatever the
\* universe.
THEOREM VerdictsAreRight == Spec => [](Bounded => VerdictIsRight)
<1> DEFINE VInv == /\ problem \in Problems
                   /\ verdict = "infeasible" => Answers(u, r) = {}
<1>1. Init => VInv
  BY DEF Init
<1>2. VInv /\ [Next]_vars => VInv'
  <2> SUFFICES ASSUME VInv, [Next]_vars PROVE VInv'
    OBVIOUS
  <2>1. CASE UNCHANGED <<problem, verdict>>
    BY <2>1 DEF u, r
  <2>2. CASE Validate
    BY <2>2 DEF Validate, u, r
  <2>3. CASE SolveClassical
    BY <2>3 DEF SolveClassical, u, r
  <2>4. CASE Dispatch \/ QaoaReturns \/ VqeReturns \/ Collect \/ Anchors \/ SweepLevel \/ Report
    BY <2>1, <2>4 DEF Dispatch, QaoaReturns, VqeReturns, Collect, Anchors, SweepLevel, Report
  <2>5. ASSUME NEW a \in Algorithms, FallsBack(a) \/ TimesOut(a) PROVE VInv'
    BY <2>1, <2>5 DEF FallsBack, TimesOut
  <2>6. CASE UNCHANGED vars
    BY <2>1, <2>6 DEF vars
  <2> QED
    BY <2>2, <2>3, <2>4, <2>5, <2>6 DEF Next
<1>3. VInv /\ AnswerMeetsRequest => (Bounded => VerdictIsRight)
  <2> SUFFICES ASSUME VInv, AnswerMeetsRequest, Bounded,
                      \/ verdict = "rejected" /\ \E c \in Violations(u, r) : c[1] # "weights"
                      \/ /\ verdict = "infeasible" /\ ~Limits("sharpe")
                         /\ Limits("volatility") => Uncorrelated(u),
                      NEW w \in Portfolios(u), Asked(w)
               PROVE  FALSE
    BY DEF VerdictIsRight
  <2>1. CASE verdict = "rejected" /\ \E c \in Violations(u, r) : c[1] # "weights"
    <3>1. PICK c \in Violations(u, r) : c[1] # "weights"
      BY <2>1
    <3>2. c[1] = "max_volatility" => Covariance(u)
      BY <2>1 DEF Bounded
    <3> QED
      BY <3>1, <3>2, RejectedIsImpossible
  <2>2. CASE /\ verdict = "infeasible" /\ ~Limits("sharpe")
             /\ Limits("volatility") => Uncorrelated(u)
    <3>1. Feasible(u, r) # {}
      BY <2>2, AskedIsFeasible
    <3> QED
      BY <2>2, <3>1, FeasibleHasAnswer DEF u, r
  <2> QED
    BY <2>1, <2>2
<1> QED
  BY <1>1, <1>2, <1>3, AnswersMeetTheRequest, PTL DEF Spec
=============================================================================
