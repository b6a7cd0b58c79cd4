------------------------------ MODULE FrontierSweep ------------------------------
(***************************************************************************)
(* compute_frontier without its loop: anchors, levels, dominance, knee and *)
(* reference points. cfg is the request's frontier: [x, y, points]. The    *)
(* axis "sharpe" is not modelled: the solver works on the proxy and the    *)
(* levels are true ratios, whose roots do not fit the integers.            *)
(***************************************************************************)
EXTENDS ClassicalSolve

\* The measures a sweep is modelled for.
Axes == {"return", "volatility", "diversification_hhi", "sector_concentration"}

Natural(name) == IF name \in {"return", "sharpe"} THEN "maximize" ELSE "minimize"

\* a is better than b on the axis of that measure.
Better(name, a, b) == IF Natural(name) = "maximize" THEN a > b ELSE a < b

\* _evaluate_raw: what a measure of a solved portfolio is reported as.
Raw(name, u, w) == IF name = "volatility" THEN Variance(u, w) ELSE Measure(name, u, w)

\* The optima of one measure over a set of portfolios.
Best(name, u, W) ==
  {w \in W : ~\E v \in W : Better(name, Measure(name, u, v), Measure(name, u, w))}

\* Level k of linspace(lo, hi, points) is (a lo + b hi) / (a + b) with
\* a = points - 1 - k and b = k. The solver's expression is held against levels
\* made of reported values. On the axis of volatility these are squares, and
\* sqrt(x) <= (a sqrt(lo) + b sqrt(hi)) / (a + b) is squared twice.
Within(cfg, u, w, lo, hi, k) ==
  LET a == cfg.points - 1 - k
      b == k
      x == Measure(cfg.x, u, w)
      d == x * (a + b) * (a + b) - a * a * lo - b * b * hi
  IN  CASE cfg.x = "volatility"          -> d <= 0 \/ d * d <= 4 * a * a * b * b * lo * hi
        [] Natural(cfg.x) = "maximize"   -> x * (a + b) >= a * lo + b * hi
        [] OTHER                         -> x * (a + b) <= a * lo + b * hi

\* Mutant of LevelSolutions: the sweep optimises the axis it bounds.
LevelSolutionsOfX(cfg, u, r, lo, hi, k) ==
  Best(cfg.x, u, {w \in Base(u, r) : Within(cfg, u, w, lo, hi, k)})

\* _solve_one: the portfolios one subproblem may return.
LevelSolutions(cfg, u, r, lo, hi, k) ==
  Best(cfg.y, u, {w \in Base(u, r) : Within(cfg, u, w, lo, hi, k)})

-----------------------------------------------------------------------------
(* The points of the sweep and the report over them.                       *)

\* _build_point: ret and var give the Sharpe ratio a point carries.
Point(cfg, u, w) ==
  [w |-> w, x |-> Raw(cfg.x, u, w), y |-> Raw(cfg.y, u, w),
   ret |-> Return(u, w), var |-> Variance(u, w)]

\* A stable sort by x: the point at i has i - 1 points before it.
Before(P, i, j) == P[i].x < P[j].x \/ (P[i].x = P[j].x /\ i < j)
Position(P, j) == 1 + Cardinality({i \in DOMAIN P : Before(P, i, j)})
SortedByX(P) == [i \in DOMAIN P |-> P[CHOOSE j \in DOMAIN P : Position(P, j) = i]]

AtLeastAsGood(cfg, p, q) == ~Better(cfg.x, q.x, p.x) /\ ~Better(cfg.y, q.y, p.y)
Dominates(cfg, p, q) ==
  AtLeastAsGood(cfg, p, q) /\ (Better(cfg.x, p.x, q.x) \/ Better(cfg.y, p.y, q.y))

\* _flag_dominance: one pass from the left for minimise/maximise, one from the
\* right for maximise/minimise, all pairs otherwise.
Dominant(cfg, P) ==
  {i \in DOMAIN P :
     CASE Natural(cfg.x) = "minimize" /\ Natural(cfg.y) = "maximize" ->
            \A j \in 1..(i - 1) : P[j].y < P[i].y
       [] Natural(cfg.x) = "maximize" /\ Natural(cfg.y) = "minimize" ->
            \A j \in (i + 1)..Len(P) : P[j].y > P[i].y
       [] OTHER -> ~\E j \in DOMAIN P \ {i} : Dominates(cfg, P[j], P[i])}

\* _find_knee over the dominant points D: the first of those farthest from the
\* chord, in coordinates scaled to the unit square (times the square's area).
\* With volatility on an axis the distances are irrational: any inner point.
Knees(cfg, P, D) ==
  LET first  == P[Min(D)]
      last   == P[Max(D)]
      inner  == D \ {Min(D), Max(D)}
      far    == [i \in inner |-> Abs((last.y - first.y) * (P[i].x - first.x)
                                     - (last.x - first.x) * (P[i].y - first.y))]
      farthest == {i \in inner : far[i] > 0 /\ \A j \in inner : far[j] <= far[i]}
  IN  CASE Cardinality(D) < 3              -> {0}
        [] Cardinality(D) >= 3 /\ "volatility" \in {cfg.x, cfg.y} -> inner \cup {0}
        [] OTHER -> IF farthest = {} THEN {0} ELSE {Min(farthest)}

\* The first point with the best ratio, and the first with the least risk.
MaxSharpe(P) ==
  Min({i \in DOMAIN P : \A j \in DOMAIN P : RatioAtLeast(P[i].ret, P[i].var, P[j].ret, P[j].var)})

MinRisk(cfg, P) ==
  CASE Natural(cfg.x) = "minimize" -> Min({i \in DOMAIN P : \A j \in DOMAIN P : P[i].x <= P[j].x})
    [] Natural(cfg.x) # "minimize" /\ Natural(cfg.y) = "minimize" ->
         Min({i \in DOMAIN P : \A j \in DOMAIN P : P[i].y <= P[j].y})
    [] OTHER -> 0

\* The reports over the sorted points; 0 is None.
Reports(cfg, P) ==
  LET D == Dominant(cfg, P)
  IN  {[points |-> P, dominant |-> D, knee |-> k, maxSharpe |-> MaxSharpe(P),
        minRisk |-> MinRisk(cfg, P)] : k \in Knees(cfg, P, D)}

EmptyReport == [points |-> <<>>, dominant |-> {}, knee |-> 0, maxSharpe |-> 0, minRisk |-> 0]
SingleReport(p) ==
  [points |-> <<p>>, dominant |-> {1}, knee |-> 0, maxSharpe |-> 0, minRisk |-> 0]
=============================================================================
