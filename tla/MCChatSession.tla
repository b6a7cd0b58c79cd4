--------------------------- MODULE MCChatSession ----------------------------
(* Instances of ChatSession for TLC: requests are interchangeable.         *)
EXTENDS ChatSession, TLC

Symmetry == Permutations(Requests)
=============================================================================
