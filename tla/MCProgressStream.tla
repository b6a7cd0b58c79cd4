-------------------------- MODULE MCProgressStream --------------------------
(* Instances of ProgressStream for TLC: connections are interchangeable.   *)
EXTENDS ProgressStream, TLC

Symmetry == Permutations(Conns)
=============================================================================
