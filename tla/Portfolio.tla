------------------------------- MODULE Portfolio -------------------------------
(***************************************************************************)
(* The data the solvers share. A universe is what the data fetch delivers: *)
(* expected returns, a covariance matrix sigma and the sector of each      *)
(* asset; with sigma comes the factor numpy finds for it, root. A portfolio*)
(* gives every asset a number of 1/Grid parts of the budget, so each       *)
(* measure below is the code's value times a power of Grid, an integer     *)
(* that compares as the real number does.                                  *)
(***************************************************************************)
EXTENDS Integers, Sequences, FiniteSets, FiniteSetsExt, Folds

CONSTANT Grid    \* parts a budget is divided into (bound)

ASSUME GridAssumption == Grid \in Nat \ {0}

Assets(u) == 1..Len(u.mu)
N(u) == Len(u.mu)

\* w >= 0 and sum(w) = 1.
Portfolios(u) ==
  {w \in [Assets(u) -> 0..Grid] : MapThenSumSet(LAMBDA i : w[i], Assets(u)) = Grid}

\* mu @ w and w @ cov @ w.
Return(u, w) == MapThenSumSet(LAMBDA i : u.mu[i] * w[i], Assets(u))
Variance(u, w) ==
  MapThenSumSet(LAMBDA p : u.sigma[p[1]][p[2]] * w[p[1]] * w[p[2]], Assets(u) \X Assets(u))

\* np.linalg.cholesky: the lower triangular L with L @ L.T = sigma. The 1e-10 on
\* the diagonal only decides what a singular sigma has: no column under a zero.
IsRoot(u) ==
  \A i, j \in Assets(u) :
    /\ u.sigma[i][j] = MapThenSumSet(LAMBDA k : u.root[i][k] * u.root[j][k], Assets(u))
    /\ i < j => u.root[i][j] = 0
    /\ u.root[i][i] = 0 => u.root[j][i] = 0

\* What the solver takes for the variance: the square of norm(L @ w), w @ L.T @ L @ w.
Load(u, w, k) == MapThenSumSet(LAMBDA i : u.root[k][i] * w[i], Assets(u))
SolverVariance(u, w) == MapThenSumSet(LAMBDA k : Load(u, w, k) * Load(u, w, k), Assets(u))

\* Where L is diagonal the two are the same.
Uncorrelated(u) == \A i, j \in Assets(u) : i # j => u.sigma[i][j] = 0

Hhi(u, w) == MapThenSumSet(LAMBDA i : w[i] * w[i], Assets(u))

\* _build_sector_indices: an asset without a sector ("") is in no group.
Members(u, s) == {i \in Assets(u) : u.sector[i] = s}
SectorsOf(u) == {u.sector[i] : i \in Assets(u)} \ {""}
SectorWeight(u, w, s) == MapThenSumSet(LAMBDA i : w[i], Members(u, s))
SectorConcentration(u, w) ==
  IF SectorsOf(u) = {} THEN Hhi(u, w)
  ELSE MapThenSumSet(LAMBDA s : SectorWeight(u, w, s) * SectorWeight(u, w, s), SectorsOf(u))

Abs(x) == IF x < 0 THEN -x ELSE x

\* The largest |mu_i|; the code adds 1e-8 or takes 1e-6 where all are zero.
ReturnScale(u) == Max({Abs(u.mu[i]) : i \in Assets(u)} \cup {1})
Trace(u) == MapThenSumSet(LAMBDA i : u.sigma[i][i], Assets(u))

\* "sharpe" inside a solve: return - lam * variance with
\* lam = ReturnScale / (Trace / n), times Trace * Grid^2.
SharpeProxy(u, w) ==
  Grid * Trace(u) * Return(u, w) - ReturnScale(u) * N(u) * Variance(u, w)

\* A measure as an expression of the solver. Volatility stands for its square,
\* which orders the portfolios alike.
Measure(name, u, w) ==
  CASE name = "return"               -> Return(u, w)
    [] name = "volatility"           -> SolverVariance(u, w)
    [] name = "sharpe"               -> SharpeProxy(u, w)
    [] name = "diversification_hhi"  -> Hhi(u, w)
    [] name = "sector_concentration" -> SectorConcentration(u, w)

\* a / sqrt(b) >= c / sqrt(d), the quotient being 0 over 0 risk.
RatioAtLeast(a, b, c, d) ==
  LET x == IF b > 0 THEN a ELSE 0
      y == IF d > 0 THEN c ELSE 0
      p == IF b > 0 THEN b ELSE 1
      q == IF d > 0 THEN d ELSE 1
  IN  \/ x >= 0 /\ y <= 0
      \/ x >= 0 /\ y > 0 /\ x * x * q >= y * y * p
      \/ x < 0 /\ y < 0 /\ x * x * q <= y * y * p
=============================================================================
