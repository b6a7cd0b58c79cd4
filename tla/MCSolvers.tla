------------------------------- MODULE MCSolvers -------------------------------
(* Universes and requests for Solvers: one to five assets, correlated,       *)
(* uncorrelated and without risk, negative returns, with and without sectors.*)
EXTENDS Solvers

\* The universe whose covariance has that root.
Universe(mu, root, sector) ==
  [mu |-> mu, root |-> root, sector |-> sector,
   sigma |-> [i \in DOMAIN mu |-> [j \in DOMAIN mu |->
                MapThenSumSet(LAMBDA k : root[i][k] * root[j][k], DOMAIN mu)]]]

\* Two assets that move as one; two against each other; uncorrelated ones; one
\* beside two that go together; one without risk; a chain of four.
Pair     == Universe(<<2, -1>>, <<<<1, 0>>, <<1, 0>>>>, <<"", "">>)
Hedge    == Universe(<<1, 3>>, <<<<1, 0>>, <<-1, 1>>>>, <<"tech", "energy">>)
Apart    == Universe(<<1, 3, 2>>, <<<<1, 0, 0>>, <<0, 2, 0>>, <<0, 0, 1>>>>,
                     <<"energy", "tech", "tech">>)
Trio     == Universe(<<1, 3, 2>>, <<<<1, 0, 0>>, <<0, 2, 0>>, <<0, 1, 1>>>>,
                     <<"energy", "tech", "tech">>)
Flat     == Universe(<<0, 0, 0>>, <<<<0, 0, 0>>, <<0, 1, 0>>, <<0, 0, 1>>>>, <<"", "tech", "">>)
Quartet  == Universe(<<3, 1, 2, -2>>,
                     <<<<2, 0, 0, 0>>, <<1, 1, 0, 0>>, <<0, -1, 1, 0>>, <<0, 0, -1, 1>>>>,
                     <<"tech", "energy", "tech", "energy">>)
Quintet  == Universe(<<1, 2, 2, 4, 1>>, [i \in 1..5 |-> [j \in 1..5 |-> IF j <= i THEN 1 ELSE 0]],
                     <<"tech", "tech", "energy", "energy", "">>)
Alone    == Universe(<<2>>, <<<<1>>>>, <<"tech">>)

Plain == [maxWeight |-> {}, minReturn |-> {}, maxVariance |-> {}, sectors |-> {},
          objectives |-> {}, quantum |-> FALSE, size |-> {}, frontier |-> {}]

Row(name, direction, weight, threshold) ==
  [name |-> name, direction |-> direction, weight |-> weight, threshold |-> threshold,
   enabled |-> TRUE]

\* What normalize_legacy_constraints makes of min_return and max_volatility.
Legacy(m, v) == {Row("return", "maximize", 2, m), Row("volatility", "minimize", 2, v)}

Scalar ==
  {[Plain EXCEPT !.minReturn = m, !.maxVariance = v, !.maxWeight = w, !.sectors = s,
                 !.objectives = IF m = {} /\ v = {} THEN {} ELSE Legacy(m, v)] :
     m \in {{}, {1}, {2}, {3}}, v \in {{}, {0}, {1}, {2}}, w \in {{}, {1}, {2}},
     s \in {{}, {[sector |-> "tech", max |-> 1]}, {[sector |-> "other", max |-> 0]},
            {[sector |-> "tech", max |-> 1], [sector |-> "energy", max |-> 2]}}}

Matrix ==
  {[Plain EXCEPT !.objectives = rows, !.maxWeight = w] : w \in {{}, {2}},
     rows \in {{Row("diversification_hhi", "minimize", 4, t)} : t \in {{}, {3}, {5}, {8}}}
              \cup {{Row("return", "maximize", 1, t), Row("sector_concentration", "minimize", 2, {10})} :
                      t \in {{1}, {3}, {4}}}
              \cup {{Row("sharpe", "maximize", 3, {}), Row("max_drawdown", "minimize", 1, {0})},
                    {Row("return", "maximize", 2, {}), Row("volatility", "minimize", 2, {1})},
                    {Row("esg_score", "maximize", 4, {2})},
                    {Row("volatility", "maximize", 2, {}), Row("return", "maximize", 2, {})},
                    {Row("sharpe", "minimize", 0, {1}), Row("return", "minimize", 4, {})},
                    {[Row("sharpe", "minimize", 4, {}) EXCEPT !.enabled = FALSE],
                     Row("volatility", "minimize", 4, {4})}}}

Sweeps ==
  {[Plain EXCEPT !.frontier = {[x |-> x, y |-> y, points |-> n]}, !.maxWeight = w, !.sectors = s] :
     x \in Axes, y \in Axes, n \in {5, 9}, w \in {{}, {0}, {3}},
     s \in {{}, {[sector |-> "tech", max |-> 2]}}}

Quantum == {[Plain EXCEPT !.quantum = TRUE, !.size = s] : s \in {{}, {2}, {3}}}

Problem(universes, requests) == {[u |-> v, r |-> q] : v \in universes, q \in requests}

MCProblems ==
  Problem({Pair, Hedge, Apart, Trio, Flat, Quartet, Alone}, Scalar \cup Matrix)
  \cup Problem({Pair, Hedge, Apart, Trio}, {q \in Sweeps : \A c \in q.frontier : c.x # c.y})
  \cup Problem({Quartet}, {q \in Sweeps : \A c \in q.frontier :
                             <<c.x, c.y>> \in {<<"volatility", "return">>, <<"return", "volatility">>}})
  \cup Problem({Pair, Hedge, Apart, Trio, Flat, Quartet, Quintet, Alone}, Quantum)
=============================================================================
