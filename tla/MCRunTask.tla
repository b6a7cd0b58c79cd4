----------------------------- MODULE MCRunTask ------------------------------
(* Instances of RunTask for TLC: messages are interchangeable, and the runs  *)
(* with lost workers take three outcomes: all results, some, an explanation   *)
(* that is missing.                                                          *)
EXTENDS RunTask, TLC

Symmetry == Permutations(Msgs)

Outcome(s, c, q, e) == [status |-> s, classical |-> c, quantum |-> q, explained |-> e]

FewOutcomes == {Outcome("completed", TRUE, TRUE, TRUE),   \* everything
                Outcome("completed", TRUE, FALSE, TRUE),  \* no quantum result
                Outcome("failed", TRUE, TRUE, FALSE)}     \* a late escaped exception
AllOutcomes == Detail
=============================================================================
