--------------------------------- MODULE Solvers ---------------------------------
(***************************************************************************)
(* What the solver nodes of the agent graph compute for one request: the   *)
(* validation of its constraints, the classical solve, QAOA and VQE in two *)
(* threads, and the frontier's sweep level by level. AgentGraph has the    *)
(* walk between the nodes; here a node's failure ends what depends on it.  *)
(***************************************************************************)
EXTENDS FrontierSweep, QuantumSelection

CONSTANTS Problems,           \* pairs of a universe and a request
          MaxQuantumAssets,   \* MAX_QUANTUM_ASSETS
          RiskFree,           \* RISK_FREE_RATE, in the unit of mu
          Parallel            \* sweeps of at least so many points use threads: 8

ASSUME SolverAssumptions == MaxQuantumAssets \in Nat /\ RiskFree \in Nat /\ Parallel \in Nat
ASSUME UniverseAssumption == \A p \in Problems : N(p.u) \in Nat \ {0}

\* The numbers are integers and the covariance is symmetric, with its Cholesky
\* factor; limits and sweeps are what the request's schema lets through: a sector's
\* share is not negative, a sweep has two levels at least.
IsUniverse(v) == /\ v.mu \in Seq(Int)
                 /\ v.sigma \in [Assets(v) -> [Assets(v) -> Int]]
                 /\ \A i, j \in Assets(v) : v.sigma[i][j] = v.sigma[j][i]
                 /\ v.root \in [Assets(v) -> [Assets(v) -> Int]]
                 /\ IsRoot(v)
IsRequest(q) == /\ q.maxWeight \cup q.minReturn \cup q.maxVariance \subseteq Int
                /\ \A o \in q.objectives : o.threshold \subseteq Int
                /\ \A s \in q.sectors : s.max \in Nat
                /\ \A c, d \in q.frontier : c = d
                /\ \A c \in q.frontier : c.x \in Axes /\ c.y \in Axes /\ c.points \in Nat \ {0, 1}
ASSUME ProblemAssumption == \A p \in Problems : IsUniverse(p.u) /\ IsRequest(p.r)

VARIABLES
  problem,   \* [u, r]: the universe and the request
  stage,     \* the node at work
  verdict,   \* "none", or what became of the classical solve
  warned,    \* the kinds of warnings validate_constraints returned
  answer,    \* the classical weights, as a set of at most one portfolio
  qubo,      \* the matrix both quantum solvers were given
  threads,   \* per quantum solver: "none", "running", "failed" or "done"
  selection, \* per quantum solver: the assets it selected
  sampledAll,\* VQE drew every bit string
  best,      \* the solvers select_best_quantum_result may name
  sweep,     \* [lo, hi, level, points]
  report     \* the FrontierReport, as a set of at most one

vars == <<problem, stage, verdict, warned, answer, qubo, threads, selection, sampledAll, best,
          sweep, report>>

u == problem.u
r == problem.r

Algorithms == {"qaoa", "vqe"}
NoSweep == [lo |-> 0, hi |-> 0, level |-> 0, points |-> <<>>]

Init ==
  /\ problem \in Problems
  /\ stage = "validate"
  /\ verdict = "none"
  /\ warned = {}
  /\ answer = {}
  /\ qubo = <<>>
  /\ threads = [a \in Algorithms |-> "none"]
  /\ selection = [a \in Algorithms |-> {}]
  /\ sampledAll = FALSE
  /\ best = {}
  /\ sweep = NoSweep
  /\ report = {}

-----------------------------------------------------------------------------
(* Constraints and the classical solve.                                    *)

Validate ==
  /\ stage = "validate"
  /\ IF Violations(u, r) # {}
     THEN stage' = "done" /\ verdict' = "rejected" /\ UNCHANGED warned
     ELSE stage' = "classical" /\ warned' = Warnings(u, r) /\ UNCHANGED verdict
  /\ UNCHANGED <<problem, answer, qubo, threads, selection, sampledAll, best, sweep, report>>

AfterQuantum == IF r.frontier = {} THEN "done" ELSE "anchors"

SolveClassical ==
  /\ stage = "classical"
  /\ CASE Refused(r) -> stage' = "done" /\ verdict' = "error" /\ UNCHANGED answer
       [] ~Refused(r) /\ Answers(u, r) = {} ->
            stage' = "done" /\ verdict' = "infeasible" /\ UNCHANGED answer
       [] OTHER -> /\ \E w \in Answers(u, r) : answer' = {w}
                   /\ verdict' = "solved"
                   /\ stage' = IF r.quantum /\ N(u) <= MaxQuantumAssets
                               THEN "dispatch" ELSE AfterQuantum
  /\ UNCHANGED <<problem, warned, qubo, threads, selection, sampledAll, best, sweep, report>>

-----------------------------------------------------------------------------
(* run_quantum_optimization: one matrix, two threads.                      *)

Dispatch ==
  /\ stage = "dispatch"
  /\ qubo' = Qubo(u, TargetSize(u))
  /\ threads' = [a \in Algorithms |-> "running"]
  /\ stage' = "quantum"
  /\ UNCHANGED <<problem, verdict, warned, answer, selection, sampledAll, best, sweep, report>>

\* A solver returned T: equal weights over T.
Selected(a, T) ==
  /\ threads' = [threads EXCEPT ![a] = "done"]
  /\ selection' = [selection EXCEPT ![a] = T]

\* Any bit string may come out of the circuit.
QaoaReturns ==
  /\ threads["qaoa"] = "running"
  /\ \E S \in SUBSET Assets(u) :
       \E T \in EnforceCardinality(u, S, TargetSize(u)) : Selected("qaoa", T)
  /\ UNCHANGED <<problem, stage, verdict, warned, answer, qubo, sampledAll, best, sweep, report>>

\* VQE keeps the sample of the least energy. The device it names has no shots, so
\* that PennyLane may refuse to sample and only FallsBack is left. Samples: one or two bit strings, or all.
Samples == kSubset(1, SUBSET Assets(u)) \cup kSubset(2, SUBSET Assets(u)) \cup {SUBSET Assets(u)}

VqeReturns ==
  /\ threads["vqe"] = "running"
  /\ \E samples \in Samples, S \in SUBSET Assets(u) :
       /\ S \in OfLeastEnergy(qubo, samples)
       /\ sampledAll' = (samples = SUBSET Assets(u))
       /\ \E T \in EnforceCardinality(u, S, TargetSize(u)) : Selected("vqe", T)
  /\ UNCHANGED <<problem, stage, verdict, warned, answer, qubo, best, sweep, report>>

\* An exception other than a time-out, a missing library for one.
FallsBack(a) ==
  /\ threads[a] = "running"
  /\ \E S \in GreedySelection(u, TargetSize(u)) :
       \E T \in EnforceCardinality(u, S, TargetSize(u)) : Selected(a, T)
  /\ UNCHANGED <<problem, stage, verdict, warned, answer, qubo, sampledAll, best, sweep, report>>

\* QUANTUM_TIMEOUT_SECONDS: QAOA looks at the clock before and after the solve,
\* VQE at each step of the descent.
TimesOut(a) ==
  /\ threads[a] = "running"
  /\ threads' = [threads EXCEPT ![a] = "failed"]
  /\ UNCHANGED <<problem, stage, verdict, warned, answer, qubo, selection, sampledAll, best,
                 sweep, report>>

\* Both futures are in; select_best_quantum_result (the first of two equals).
Collect ==
  /\ stage = "quantum"
  /\ \A a \in Algorithms : threads[a] \in {"done", "failed"}
  /\ best' = LET done == {a \in Algorithms : threads[a] = "done"}
                 top == {a \in done : \A b \in done :
                           SharpeAtLeast(u, selection[a], selection[b], RiskFree)}
             IN  IF "qaoa" \in top THEN {"qaoa"} ELSE top
  /\ stage' = AfterQuantum
  /\ UNCHANGED <<problem, verdict, warned, answer, qubo, threads, selection, sampledAll, sweep, report>>

-----------------------------------------------------------------------------
(* compute_frontier.                                                       *)

Finish(rep) ==
  /\ stage' = "done"
  /\ report' = {rep}
  /\ UNCHANGED sweep

\* Both anchors, the range of levels between them, and the special cases. A
\* sweep of Parallel points or more raises: os is not imported.
Anchors ==
  /\ stage = "anchors"
  /\ \E cfg \in r.frontier :
       LET W == Base(u, r)
       IN  IF W = {} THEN Finish(EmptyReport)
           ELSE \E a \in Best(cfg.x, u, W), b \in Best(cfg.y, u, W) :
             LET ends == {Raw(cfg.x, u, a), Raw(cfg.x, u, b)}
             IN  CASE Cardinality(ends) = 1 -> Finish(SingleReport(Point(cfg, u, a)))
                   [] Cardinality(ends) = 2 /\ cfg.points >= Parallel ->
                        stage' = "raised" /\ UNCHANGED <<report, sweep>>
                   [] OTHER -> /\ sweep' = [NoSweep EXCEPT !.lo = Min(ends), !.hi = Max(ends)]
                               /\ stage' = "sweep"
                               /\ UNCHANGED report
  /\ UNCHANGED <<problem, verdict, warned, answer, qubo, threads, selection, sampledAll, best>>

\* One level: a solution is appended, an infeasible one left out.
SweepLevel ==
  /\ stage = "sweep"
  /\ \E cfg \in r.frontier :
       /\ sweep.level < cfg.points
       /\ LET solutions == LevelSolutions(cfg, u, r, sweep.lo, sweep.hi, sweep.level)
          IN  IF solutions = {} THEN sweep' = [sweep EXCEPT !.level = @ + 1]
              ELSE \E w \in solutions :
                     sweep' = [sweep EXCEPT !.level = @ + 1, !.points = Append(@, Point(cfg, u, w))]
  /\ UNCHANGED <<problem, stage, verdict, warned, answer, qubo, threads, selection, sampledAll,
                 best, report>>

Report ==
  /\ stage = "sweep"
  /\ \E cfg \in r.frontier :
       /\ sweep.level = cfg.points
       /\ IF sweep.points = <<>> THEN Finish(EmptyReport)
          ELSE \E rep \in Reports(cfg, SortedByX(sweep.points)) : Finish(rep)
  /\ UNCHANGED <<problem, verdict, warned, answer, qubo, threads, selection, sampledAll, best>>

Next ==
  \/ Validate \/ SolveClassical
  \/ Dispatch \/ QaoaReturns \/ VqeReturns
  \/ \E a \in Algorithms : FallsBack(a) \/ TimesOut(a)
  \/ Collect
  \/ Anchors \/ SweepLevel \/ Report

Spec == Init /\ [][Next]_vars

-----------------------------------------------------------------------------
(* Properties.                                                             *)

\* What the request asks of a portfolio, by its fields' descriptions: the limits,
\* and the thresholds on volatility, which the description calls the standard
\* deviation of the portfolio. Two things asked for are left out: a threshold on
\* sharpe, which the solver applies to the proxy, and min_weight_per_asset, which
\* it does not apply at all.
WithinLimits(w) ==
  /\ \A m \in r.maxWeight, i \in Assets(u) : w[i] <= m
  /\ \A s \in r.sectors : SectorWeight(u, w, s.sector) <= s.max
  /\ \A m \in r.minReturn : Return(u, w) >= m * Grid
  /\ \A v \in r.maxVariance : Variance(u, w) <= v * Grid * Grid
  /\ \A o \in {o \in Enabled(r) : o.name \in Convex \ {"sharpe", "volatility"}} :
       ThresholdMet(o, u, w)
CalmEnough(w) ==
  \A o \in {o \in Enabled(r) : o.name = "volatility"} : \A t \in o.threshold :
    IF o.direction = "maximize" THEN Variance(u, w) >= t * Grid * Grid
                                ELSE Variance(u, w) <= t * Grid * Grid
Asked(w) == WithinLimits(w) /\ CalmEnough(w)

Limits(name) == \E o \in Enabled(r) : o.name = name /\ o.threshold # {}

\* The bounds validate_constraints works out for itself (1/n, max mu, the inverse
\* of the covariance) and the solver's constraints say the same: a request is
\* turned down for a limit, or as infeasible, only if no portfolio meets it, and
\* the answer meets it. A threshold on volatility says the same only where the
\* assets are uncorrelated.
AnswerMeetsRequest ==
  \A w \in answer : w \in Portfolios(u) /\ WithinLimits(w) /\ (Uncorrelated(u) => CalmEnough(w))
VerdictIsRight ==
  /\ \/ verdict = "rejected" /\ \E c \in Violations(u, r) : c[1] # "weights"
     \/ verdict = "infeasible" /\ ~Limits("sharpe") /\ (Limits("volatility") => Uncorrelated(u))
     => ~\E w \in Portfolios(u) : Asked(w)
  /\ AnswerMeetsRequest

\* "The true portfolio standard deviation" (optimizer.py): a threshold on it holds
\* of the answer whatever the covariance. The code violates this.
VolatilityIsTrue == \A w \in answer : CalmEnough(w)

\* What the solver bounds and minimises on the axes of a sweep is what its points
\* report.
Exact(cfg, v) == "volatility" \in {cfg.x, cfg.y} => Uncorrelated(v)

\* A frontier whose sweep ran has its ends (the best x and the best y a portfolio
\* within the limits can have) and no dominant point that another portfolio beats on
\* both axes, as long as it is Exact. Of any sweep, a dominant point is dominated by
\* no other (but one with the same x where the sweep is not Exact), any other point
\* has a dominant one at least as good, and the knee is inside the dominant part.
FrontierIsPareto ==
  \A rep \in report, cfg \in r.frontier :
    LET W == {Point(cfg, u, w) : w \in Base(u, r)}
        P == rep.points
    IN  /\ Exact(cfg, u) /\ Len(P) > 1 =>
             /\ \E i \in DOMAIN P : ~\E q \in W : Better(cfg.x, q.x, P[i].x)
             /\ \E i \in DOMAIN P : ~\E q \in W : Better(cfg.y, q.y, P[i].y)
        /\ Exact(cfg, u) => \A i \in rep.dominant :
             ~\E q \in W : Better(cfg.x, q.x, P[i].x) /\ Better(cfg.y, q.y, P[i].y)
        /\ \A i \in rep.dominant, j \in DOMAIN P :
             Dominates(cfg, P[j], P[i]) => ~Exact(cfg, u) /\ P[j].x = P[i].x
        /\ \A i \in DOMAIN P \ rep.dominant : \E j \in rep.dominant : AtLeastAsGood(cfg, P[j], P[i])
        /\ rep.knee # 0 => /\ rep.knee \in rep.dominant
                           /\ \E i, j \in rep.dominant : i < rep.knee /\ rep.knee < j

\* The matrix says what the documentation of build_qubo_matrix promises, up to its
\* constant: return, risk and the penalty for a wrong size; and the Hamiltonian
\* VQE descends ranks the bit strings as the matrix does.
QuboIsTheObjective ==
  stage = "quantum" /\ threads["qaoa"] = "running" /\ threads["vqe"] = "running" =>
    LET m == ReturnScale(u)
        s == CovScale(u)
        k == TargetSize(u)
        I == Ising(qubo, N(u))
        Cost(S) == m * Risk(u, S) - s * MapThenSumSet(LAMBDA i : u.mu[i], S)
                   + LambdaCardinality * m * s * (Cardinality(S) - k) * (Cardinality(S) - k)
    IN  \A S, T \in SUBSET Assets(u) :
          /\ Energy(qubo, S) - Energy(qubo, T) = Cost(S) - Cost(T)
          /\ IsingEnergy(I, N(u), S) - IsingEnergy(I, N(u), T)
               = 4 * (Energy(qubo, S) - Energy(qubo, T))

\* A selection has the target size whatever the circuit returned; and when VQE has
\* seen every bit string of a small universe, no selection of that size is better:
\* the penalty is heavy enough and the repair does nothing.
RightSize == \A a \in Algorithms : threads[a] = "done" => Cardinality(selection[a]) = TargetSize(u)
SelectionIsRight ==
  /\ RightSize
  /\ sampledAll =>
       \A T \in kSubset(TargetSize(u), Assets(u)) :
         Energy(qubo, selection["vqe"]) <= Energy(qubo, T)
=============================================================================
