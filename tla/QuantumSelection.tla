---------------------------- MODULE QuantumSelection ----------------------------
(***************************************************************************)
(* The asset selection both quantum solvers work on: the QUBO, its Ising   *)
(* form, the energy of a bit string and the repair of its size. A bit      *)
(* string is the set of the assets it selects. The QUBO is scaled by       *)
(* max |mu| * max |sigma|, the Ising coefficients by four times as much.   *)
(***************************************************************************)
EXTENDS Portfolio

LambdaReturn == 1
LambdaRisk == 1
LambdaCardinality == 5

\* The constraints carry no num_assets_to_select (validate_constraints does not
\* forward it), so the default is all there is.
TargetSize(u) == Max({1, Min({Max({2, N(u) \div 2}), N(u)})})

CovScale(u) == Max({Abs(u.sigma[i][j]) : i, j \in Assets(u)} \cup {1})

\* Mutant of Qubo: sigma_ij of a pair counted once.
QuboHalfRisk(u, k) ==
  LET m == ReturnScale(u)
      s == CovScale(u)
  IN  [p \in Assets(u) \X Assets(u) |->
         CASE p[1] = p[2] -> LambdaRisk * m * u.sigma[p[1]][p[1]] - LambdaReturn * s * u.mu[p[1]]
                              + LambdaCardinality * m * s * (1 - 2 * k)
           [] p[1] < p[2] -> LambdaRisk * m * u.sigma[p[1]][p[2]] + 2 * LambdaCardinality * m * s
           [] p[1] > p[2] -> 0]

\* build_qubo_matrix: upper triangular.
Qubo(u, k) ==
  LET m == ReturnScale(u)
      s == CovScale(u)
  IN  [p \in Assets(u) \X Assets(u) |->
         CASE p[1] = p[2] -> LambdaRisk * m * u.sigma[p[1]][p[1]] - LambdaReturn * s * u.mu[p[1]]
                              + LambdaCardinality * m * s * (1 - 2 * k)
           [] p[1] < p[2] -> 2 * (LambdaRisk * m * u.sigma[p[1]][p[2]] + LambdaCardinality * m * s)
           [] p[1] > p[2] -> 0]

\* x @ Q @ x.
Energy(Q, S) == MapThenSumSet(LAMBDA p : Q[p], S \X S)

\* _qubo_to_ising: fields and couplings for Z_i = 1 - 2 x_i.
Ising(Q, n) ==
  [field |-> [i \in 1..n |->
      -2 * Q[<<i, i>>] - MapThenSumSet(LAMBDA j : Q[<<i, j>>] + Q[<<j, i>>], (1..n) \ {i})],
   coupling |-> [p \in {q \in (1..n) \X (1..n) : q[1] < q[2]} |-> Q[p]]]

Spin(S, i) == IF i \in S THEN -1 ELSE 1
IsingEnergy(I, n, S) ==
  MapThenSumSet(LAMBDA i : I.field[i] * Spin(S, i), 1..n)
  + MapThenSumSet(LAMBDA p : I.coupling[p] * Spin(S, p[1]) * Spin(S, p[2]), DOMAIN I.coupling)

\* The sample run_vqe keeps; which of several equals depends on their order.
OfLeastEnergy(Q, samples) == {S \in samples : \A T \in samples : Energy(Q, S) <= Energy(Q, T)}

\* k of S with the greatest (least) returns; argsort orders equals either way.
HighestReturns(u, S, k) ==
  {T \in SUBSET S : Cardinality(T) = k /\ \A i \in T, j \in S \ T : u.mu[i] >= u.mu[j]}
LowestReturns(u, S, k) ==
  {T \in SUBSET S : Cardinality(T) = k /\ \A i \in T, j \in S \ T : u.mu[i] <= u.mu[j]}

\* _greedy_selection.
GreedySelection(u, k) == HighestReturns(u, Assets(u), Min({k, N(u)}))

\* Mutant of EnforceCardinality: only a selection that is too large is repaired.
EnforceAtMost(u, S, k) ==
  IF Cardinality(S) <= k THEN {S}
  ELSE {S \ T : T \in LowestReturns(u, S, Cardinality(S) - k)}

\* _enforce_cardinality: remove the worst of too many, add the best to too few.
EnforceCardinality(u, S, k) ==
  CASE Cardinality(S) = k -> {S}
    [] Cardinality(S) > k -> {S \ T : T \in LowestReturns(u, S, Cardinality(S) - k)}
    [] Cardinality(S) < k -> {S \cup T : T \in HighestReturns(u, Assets(u) \ S, k - Cardinality(S))}

\* Sharpe ratio of equal weights over S against that over T (rate: the risk-free
\* rate in the unit of mu).
ExcessReturn(u, S, rate) == MapThenSumSet(LAMBDA i : u.mu[i] - rate, S)
Risk(u, S) == MapThenSumSet(LAMBDA p : u.sigma[p[1]][p[2]], S \X S)
SharpeAtLeast(u, S, T, rate) ==
  RatioAtLeast(ExcessReturn(u, S, rate), Risk(u, S), ExcessReturn(u, T, rate), Risk(u, T))
=============================================================================
