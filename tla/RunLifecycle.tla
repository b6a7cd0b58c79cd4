---------------------------- MODULE RunLifecycle ----------------------------
(***************************************************************************)
(* What the status column of a run promises to those who poll it: the      *)
(* lifecycle documented on OptimizationRun. A run is created pending (or   *)
(* running, by the worker's safety net), starts once, ends once, and what  *)
(* ended stays ended.                                                      *)
(***************************************************************************)
VARIABLE status

Init == status = "absent"

Create == status = "absent" /\ status' \in {"pending", "running"}
Start  == status = "pending" /\ status' = "running"
Finish == status = "running" /\ status' \in {"completed", "failed"}

\* A run none of whose attempts reached the transition to running.
Abort == status = "pending" /\ status' = "failed"

Next == Create \/ Start \/ Finish \/ Abort

Spec == Init /\ [][Next]_status
=============================================================================
