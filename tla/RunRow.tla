------------------------------- MODULE RunRow -------------------------------
(***************************************************************************)
(* The optimization_runs row of one run_id, the detail the agent graph     *)
(* returns for it, and how SQLAlchemy writes a row back: a session SELECTs *)
(* the row, the task sets attributes on the object it got, and the UPDATE  *)
(* at commit names only the columns whose value differs from the SELECTed  *)
(* one.                                                                    *)
(*                                                                         *)
(* A result column holds the number of the execution that wrote it, 0 for  *)
(* NULL: the properties tell results of different executions apart and     *)
(* nothing else about them.                                                *)
(***************************************************************************)
EXTENDS Naturals

Terminal == {"completed", "failed"}                  \* is_terminal
Status   == {"absent", "pending", "running"} \cup Terminal

Row == [status : Status, error : BOOLEAN, ended : BOOLEAN,
        classical : Nat, quantum : Nat, explanation : Nat]

NewRow(s) == [status |-> s, error |-> FALSE, ended |-> FALSE,
              classical |-> 0, quantum |-> 0, explanation |-> 0]

NoRow == NewRow("absent")

\* What run_agent_graph may return (AgentGraph shows that it does): completed
\* or failed, with any of the results stored before the end or the failure;
\* an explanation only if the last node was reached without an error.
Detail ==
    { d \in [status : Terminal, classical : BOOLEAN, quantum : BOOLEAN, explained : BOOLEAN] :
        d.explained => d.status = "completed" }

\* One column of the UPDATE: written only if the object's value differs from
\* the one SELECTed, else whatever the table holds now.
Column(read, set, now) == IF set = read THEN now ELSE set

\* The row after session.commit() of an object read as `read` and set to `set`
\* when the table holds `now`.
Flush(read, set, now) ==
    [status      |-> Column(read.status,      set.status,      now.status),
     error       |-> Column(read.error,       set.error,       now.error),
     ended       |-> Column(read.ended,       set.ended,       now.ended),
     classical   |-> Column(read.classical,   set.classical,   now.classical),
     quantum     |-> Column(read.quantum,     set.quantum,     now.quantum),
     explanation |-> Column(read.explanation, set.explanation, now.explanation)]

MarkRunning(r) == [r EXCEPT !.status = "running"]

MarkFailed(r) == [r EXCEPT !.status = "failed", !.error = TRUE, !.ended = TRUE]

\* mark_completed and the result columns: classical_result and quantum_result
\* only when the detail has them, llm_explanation always. The detail's own
\* status and error_message are not looked at.
MarkCompleted(r, d, a) ==
    [r EXCEPT !.status      = "completed",
              !.ended       = TRUE,
              !.classical   = IF d.classical THEN a ELSE @,
              !.quantum     = IF d.quantum THEN a ELSE @,
              !.explanation = IF d.explained THEN a ELSE 0]
=============================================================================
