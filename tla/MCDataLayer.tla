---------------------------- MODULE MCDataLayer -----------------------------
(* Instances of DataLayer for TLC.                                         *)
EXTENDS DataLayer

Spellings == [t \in {"a", "A", "B", "blank"} |->
                CASE t = "a" -> "A" [] t = "blank" -> "" [] OTHER -> t]
Requests == {<<>>, <<"a", "B", "A">>}
=============================================================================
