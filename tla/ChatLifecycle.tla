--------------------------- MODULE ChatLifecycle ----------------------------
(***************************************************************************)
(* What a chat session promises to its one client: it collects parameters, *)
(* asks for confirmation, is confirmed once, with the run it started, or   *)
(* expires; confirmed and expired sessions stay as they are.               *)
(***************************************************************************)
CONSTANTS Run, NoRun
VARIABLES status, run

Init == status = "absent" /\ run = NoRun

Create  == /\ status = "absent"
           /\ status' \in {"collecting", "pending_confirmation"}
           /\ run' = run
Ask     == status = "collecting" /\ status' = "pending_confirmation" /\ run' = run
Confirm == status = "pending_confirmation" /\ status' = "confirmed" /\ run' \in Run
Expire  == /\ status \in {"collecting", "pending_confirmation"}
           /\ status' = "expired"
           /\ run' = run

Next == Create \/ Ask \/ Confirm \/ Expire

Spec == Init /\ [][Next]_<<status, run>>
=============================================================================
