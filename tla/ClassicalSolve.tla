----------------------------- MODULE ClassicalSolve -----------------------------
(***************************************************************************)
(* validate_constraints and run_markowitz_mvo. A request's optional limits *)
(* are sets of at most one number: weights and sector limits in 1/Grid of  *)
(* the budget, returns as mu, volatilities by their square as sigma,       *)
(* concentrations in 1/Grid^2.                                             *)
(***************************************************************************)
EXTENDS Portfolio

Convex == {"return", "volatility", "sharpe", "diversification_hhi", "sector_concentration"}
Deferred == {"max_drawdown", "esg_score"}

Whole == 4    \* objective weights are quarters

-----------------------------------------------------------------------------
(* validate_constraints.                                                   *)

MaxReturn(u) == Max({u.mu[i] : i \in Assets(u)})

\* Permutations of 1..n and their signs, for the determinant.
Perms(n) == {p \in [1..n -> 1..n] : \A i, j \in 1..n : i # j => p[i] # p[j]}
Inversions(p, n) == Cardinality({q \in (1..n) \X (1..n) : q[1] < q[2] /\ p[q[1]] > p[q[2]]})
Det(A, n) ==
  LET Term(p) == MapThenFoldSet(LAMBDA x, y : x * y, IF Inversions(p, n) % 2 = 0 THEN 1 ELSE -1,
                                LAMBDA i : A[i][p[i]], LAMBDA S : CHOOSE i \in S : TRUE, 1..n)
  IN  MapThenSumSet(Term, Perms(n))

\* 1 / (ones @ inv(cov) @ ones) is Num / Den; a singular matrix has no inverse
\* and counts as no risk.
MinVarNum(u) == Det(u.sigma, N(u))
MinVarDen(u) ==
  LET plus1 == [i \in Assets(u) |-> [j \in Assets(u) |-> u.sigma[i][j] + 1]]
  IN  IF MinVarNum(u) = 0 THEN 1 ELSE Det(plus1, N(u)) - MinVarNum(u)

Enabled(r) == {o \in r.objectives : o.enabled}
TotalWeight(r) == MapThenSumSet(LAMBDA o : o.weight, Enabled(r))

\* What makes validate_constraints raise.
Violations(u, r) ==
  {<<"max_weight", m>> : m \in {m \in r.maxWeight : m * N(u) < Grid}}
  \cup {<<"min_return", m>> : m \in {m \in r.minReturn : m > MaxReturn(u)}}
  \cup {<<"max_volatility", v>> : v \in {v \in r.maxVariance : v * MinVarDen(u) < MinVarNum(u)}}
  \cup (IF Enabled(r) # {} /\ TotalWeight(r) <= 0 THEN {<<"weights", 0>>} ELSE {})
  \cup UNION {{<<o.name, t>> : t \in {t \in o.threshold :
          \/ o.name = "return" /\ o.direction = "maximize" /\ t > MaxReturn(u)
          \/ o.name = "diversification_hhi" /\ o.direction = "minimize" /\ t * N(u) < Grid * Grid}} :
        o \in Enabled(r)}

\* What it warns of instead: limits close to the bounds (100 v < 121 MinVar is
\* max_volatility < 1.1 * min_vol), sector limits and objective weights that do
\* not add up to the whole.
Warnings(u, r) ==
  {k \in {"min_return", "max_volatility", "sectors", "weights"} :
     CASE k = "min_return"     -> \E m \in r.minReturn : 10 * m > 9 * MaxReturn(u)
       [] k = "max_volatility" -> \E v \in r.maxVariance :
                                     100 * v * MinVarDen(u) < 121 * MinVarNum(u)
       [] k = "sectors"        -> /\ r.sectors # {}
                                  /\ 100 * MapThenSumSet(LAMBDA s : s.max, r.sectors) < 99 * Grid
       [] k = "weights"        -> /\ Enabled(r) # {}
                                  /\ 100 * Abs(TotalWeight(r) - Whole) > Whole}

-----------------------------------------------------------------------------
(* run_markowitz_mvo.                                                      *)

\* Mutant of Base: the limits of the sectors are not handed to the solver.
BaseNoSectors(u, r) ==
  {w \in Portfolios(u) : \A m \in r.maxWeight, i \in Assets(u) : w[i] <= m}

\* Fully invested, max_weight_per_asset and the sector limits. A limit on a
\* sector no asset belongs to is skipped. min_weight_per_asset is never read.
Base(u, r) ==
  {w \in Portfolios(u) :
     /\ \A m \in r.maxWeight, i \in Assets(u) : w[i] <= m
     /\ \A s \in r.sectors : Members(u, s.sector) # {} => SectorWeight(u, w, s.sector) <= s.max}

\* A measure against a limit t in the measure's own unit.
AtMost(name, u, w, t) ==
  CASE name = "return"     -> Return(u, w) <= t * Grid
    [] name = "volatility" -> SolverVariance(u, w) <= t * Grid * Grid
    [] name = "sharpe"     -> SharpeProxy(u, w) <= t * Trace(u) * Grid * Grid
    [] OTHER               -> Measure(name, u, w) <= t
AtLeast(name, u, w, t) ==
  CASE name = "return"     -> Return(u, w) >= t * Grid
    [] name = "volatility" -> SolverVariance(u, w) >= t * Grid * Grid
    [] name = "sharpe"     -> SharpeProxy(u, w) >= t * Trace(u) * Grid * Grid
    [] OTHER               -> Measure(name, u, w) >= t

\* _build_scalar_objective: the enabled rows the solver takes, their thresholds
\* as constraints. Deferred measures are skipped, thresholds included.
Rows(r) == {o \in Enabled(r) : o.name \in Convex}
ThresholdMet(o, u, w) ==
  \A t \in o.threshold : IF o.direction = "maximize" THEN AtLeast(o.name, u, w, t)
                                                     ELSE AtMost(o.name, u, w, t)

Feasible(u, r) ==
  {w \in Base(u, r) :
     /\ \A m \in r.minReturn : Return(u, w) >= m * Grid
     /\ \A v \in r.maxVariance : Variance(u, w) <= v * Grid * Grid
     /\ \A o \in Rows(r) : ThresholdMet(o, u, w)}

\* Maximising a convex or minimising a concave expression, or a threshold from
\* that side: CVXPY refuses the problem with either solver.
WrongWay(o) ==
  /\ IF o.direction = "maximize"
     THEN o.name \in {"volatility", "diversification_hhi", "sector_concentration"}
     ELSE o.name = "sharpe"
  /\ o.weight > 0 \/ o.threshold # {}

Refused(r) == \E o \in Rows(r) : WrongWay(o)

AsGood(o, u, v, w) ==
  IF o.direction = "maximize" THEN Measure(o.name, u, v) >= Measure(o.name, u, w)
                              ELSE Measure(o.name, u, v) <= Measure(o.name, u, w)

\* A best point of a weighted sum of the rows: no feasible portfolio is as good
\* in all of them and better in one. (Which of these it is the weights decide.)
ScalarBest(u, r) ==
  LET used == {o \in Rows(r) : o.weight > 0}
      F == Feasible(u, r)
  IN  {w \in F : \A v \in F : (\A o \in used : AsGood(o, u, v, w))
                               => \A o \in used : AsGood(o, u, w, v)}

\* return - variance, times Grid^2.
LegacyScore(u, w) == Grid * Return(u, w) - Variance(u, w)
LegacyBest(u, r) ==
  LET F == Feasible(u, r)
  IN  {w \in F : \A v \in F : LegacyScore(u, w) >= LegacyScore(u, v)}

\* The weights the solver may return; none means an infeasible problem.
Answers(u, r) == IF Enabled(r) = {} THEN LegacyBest(u, r) ELSE ScalarBest(u, r)
=============================================================================
