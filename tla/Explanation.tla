------------------------------ MODULE Explanation ------------------------------
(***************************************************************************)
(* What the user is told of a run: the recommendation of the comparison    *)
(* node and the text of the explanation node, as the set of the things it  *)
(* speaks of. A quantum result holds, per solver, at most one number: by   *)
(* how much its Sharpe ratio differs from the classical one, in            *)
(* _SIGNIFICANT_SHARPE_DELTA. A value that may be None is a set of at most *)
(* one element.                                                            *)
(***************************************************************************)
EXTENDS Integers, FiniteSetsExt, SequencesExt

CONSTANT MaxGain    \* largest difference, either way (bound)

ASSUME GainAssumption == MaxGain \in Nat

Gain == {{}} \cup {{g} : g \in -MaxGain..MaxGain}
QuantumResult == [qaoa : Gain, vqe : Gain]

Significant == 1
Marginal == 0
MaxTold == 3    \* warnings the template quotes

Recommendations == {"no_classical", "not_run", "no_result", "qaoa", "vqe", "marginal",
                    "classical_better", "comparable"}

\* _best_improvement, _best_algorithm.
BestImprovement(q) == Max(q.qaoa \cup q.vqe)
BestAlgorithm(q) == IF \E g \in q.qaoa : \A h \in q.vqe : g >= h THEN "qaoa" ELSE "vqe"

\* _generate_recommendation, given that there is a quantum result.
Compared(q) ==
  IF q.qaoa \cup q.vqe = {} THEN "no_result"
  ELSE LET best == BestImprovement(q)
       IN  CASE best > Significant                     -> BestAlgorithm(q)
             [] best > Marginal /\ best <= Significant -> "marginal"
             [] best < -Significant                    -> "classical_better"
             [] OTHER                                  -> "comparable"

\* compute_comparison: the recommendation of its summary.
Recommendation(classical, quantum) ==
  IF ~classical THEN "no_classical"
  ELSE IF quantum = {} THEN "not_run" ELSE Compared(CHOOSE q \in quantum : TRUE)

\* The second paragraph of the template.
QuantumParagraph(quantum, comparison) ==
  CASE quantum = {}                            -> {"not_run"}
    [] quantum # {} /\ comparison # "none"     -> {comparison}
    [] OTHER -> IF \E q \in quantum : q.qaoa \cup q.vqe # {} THEN {"results"} ELSE {}

\* The third: the first warnings that are not of the quantum solvers.
WarningParagraph(warnings) ==
  LET user == {i \in DOMAIN warnings : warnings[i] # "quantum"}
      Rank(i) == Cardinality({j \in user : j <= i})
  IN  {warnings[i] : i \in {k \in user : Rank(k) <= MaxTold}}
      \cup (IF Cardinality(user) > MaxTold THEN {"more"} ELSE {})

\* _generate_template_explanation.
Template(classical, quantum, comparison, warnings) ==
  {IF classical THEN "classical" ELSE "no_classical"}
  \cup QuantumParagraph(quantum, comparison)
  \cup WarningParagraph(warnings)

\* generate_explanation: the language model's text if there is a key and the call
\* goes well, the template otherwise.
ModelText == {"model"}
Explanations(classical, quantum, comparison, warnings) ==
  {ModelText, Template(classical, quantum, comparison, warnings)}
=============================================================================
