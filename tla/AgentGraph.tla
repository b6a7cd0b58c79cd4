----------------------------- MODULE AgentGraph -----------------------------
(***************************************************************************)
(* One call of run_agent_graph: the compiled LangGraph walks from node to  *)
(* node, every node wrapped by wrap_node, and the final state becomes the  *)
(* detail that the Celery task stores and publishes.                       *)
(*                                                                         *)
(* A node ends in one of three ways: its function does its work; it catches *)
(* an exception of the code it calls and returns a state that says so; or  *)
(* an exception escapes it and the wrapper catches it. The control of the  *)
(* graph hangs on state["error"], which is str(exc): an exception without  *)
(* a message leaves the empty string there, which Python takes for false.  *)
(***************************************************************************)
EXTENDS Explanation

CONSTANTS MaxAssets,          \* tickers of the largest request (bound)
          MaxWarnings,        \* warnings of validate_constraints (bound)
          MaxQuantumAssets,   \* MAX_QUANTUM_ASSETS
          SweepSizes,         \* values of frontier.num_points
          Surprises           \* nodes an exception may escape from

Fatal == {"data_fetch", "constraint_validation", "classical_optimization"}
NonFatal == {"quantum_dispatch", "comparison", "frontier_computation", "llm_explanation"}
Nodes == Fatal \cup NonFatal

ASSUME GraphAssumptions ==
  /\ MaxAssets \in Nat \ {0}
  /\ MaxQuantumAssets \in Nat
  /\ MaxWarnings \in Nat
  /\ SweepSizes \subseteq 5..100
  /\ Surprises \subseteq Nodes

VARIABLES
  request,   \* what of the OptimizationRequest steers the graph
  node,      \* the node LangGraph runs next, or END
  state,     \* the AgentState
  events     \* the calls of progress_callback, in order

vars == <<request, node, state, events>>

\* frontier: "off", or what the requested sweep amounts to: it cannot be set up
\* or solved, no anchor is feasible, its range is one point, or a real sweep.
Request == [assets : 1..MaxAssets, run_quantum : BOOLEAN,
            frontier : {"off", "invalid", "empty", "single", "sweep"},
            num_points : SweepSizes, blank_errors : BOOLEAN]

\* "none" stands for a key that is missing from the state, or None.
State ==
  [error : {"none", "text", ""}, failed_node : Nodes \cup {"none"},
   tickers : 1..MaxAssets,
   market_data : BOOLEAN, validated : BOOLEAN, classical : BOOLEAN,
   quantum : {{}} \cup {{q} : q \in QuantumResult},
   comparison : {"none"} \cup Recommendations,
   frontier : {"none", "empty", "single", "sweep"},
   explanation : SUBSET (Recommendations \cup {"classical", "results", "constraint", "frontier",
                                               "more", "model", "minimal"}),
   warnings : Seq({"constraint", "quantum", "frontier"}),
   completed_nodes : SUBSET Nodes]

TypeOK ==
  /\ request \in Request
  /\ node \in Nodes \cup {"END"}
  /\ state \in State
  /\ events \in Seq([node : Nodes, status : {"started", "completed", "failed"}])

Init ==
  /\ request \in Request
  /\ node = "data_fetch"
  /\ state = [error |-> "none", failed_node |-> "none", tickers |-> request.assets,
              market_data |-> FALSE, validated |-> FALSE, classical |-> FALSE,
              quantum |-> {}, comparison |-> "none", frontier |-> "none",
              explanation |-> {}, warnings |-> <<>>, completed_nodes |-> {}]
  /\ events = <<>>

\* str(exc) of an exception a node or the wrapper catches.
Messages == IF request.blank_errors THEN {"text", ""} ELSE {"text"}

\* state.get("error") as a condition.
Failed(s) == s.error = "text" /\ s.failed_node # "none"

-----------------------------------------------------------------------------
(* Routing.                                                                *)

AfterFatalNode(s, next) == IF Failed(s) THEN "END" ELSE next

ShouldRunQuantum(s) == request.run_quantum /\ s.tickers <= MaxQuantumAssets

AfterClassical(s) ==
  IF Failed(s) /\ s.failed_node \in Fatal THEN "END"
  ELSE IF ShouldRunQuantum(s) THEN "quantum_dispatch" ELSE "comparison"

\* validated_constraints carries the request's frontier config.
AfterComparison(s) ==
  IF s.validated /\ request.frontier # "off" /\ s.classical
  THEN "frontier_computation" ELSE "llm_explanation"

Route(n, s) ==
  CASE n = "data_fetch"             -> AfterFatalNode(s, "constraint_validation")
    [] n = "constraint_validation"  -> AfterFatalNode(s, "classical_optimization")
    [] n = "classical_optimization" -> AfterClassical(s)
    [] n = "quantum_dispatch"       -> "comparison"
    [] n = "comparison"             -> AfterComparison(s)
    [] n = "frontier_computation"   -> "llm_explanation"
    [] n = "llm_explanation"        -> "END"

-----------------------------------------------------------------------------
(* The wrapper.                                                            *)

FailIn(n, s, msg) == [s EXCEPT !.error = msg, !.failed_node = n]
Completed(n, s) == [s EXCEPT !.completed_nodes = @ \cup {n}]

Report(n, status) ==
  events' = events \o <<[node |-> n, status |-> "started"], [node |-> n, status |-> status]>>

\* Mutant of Return: the wrapper reports what it did not have to catch as done.
ReturnAsCompleted(n, s) ==
  /\ state' = s
  /\ Report(n, "completed")
  /\ node' = Route(n, s)

\* The node's function returned s.
Return(n, s) ==
  /\ state' = s
  /\ Report(n, IF Failed(s) /\ s.failed_node = n THEN "failed" ELSE "completed")
  /\ node' = Route(n, s)

\* An exception escaped from the node's function.
Escape(n, msg) ==
  LET s == FailIn(n, state, msg)
  IN  /\ state' = s
      /\ Report(n, "failed")
      /\ node' = Route(n, s)

\* Mutant of Enters: the wrapper does not look for an earlier failure.
EntersAnyway(n) == node = n /\ UNCHANGED request

Enters(n) == /\ node = n
             /\ ~(Failed(state) /\ state.failed_node # n)
             /\ UNCHANGED request

\* A node that is reached although a node before it failed does nothing.
Skip(n) ==
  /\ node = n
  /\ Failed(state)
  /\ state.failed_node # n
  /\ node' = Route(n, state)
  /\ UNCHANGED <<request, state, events>>

UnexpectedException(n) ==
  /\ n \in Surprises
  /\ Enters(n)
  /\ \E msg \in Messages : Escape(n, msg)

-----------------------------------------------------------------------------
(* The nodes.                                                              *)

\* A fatal node's except clause.
CatchFatal(n) == \E msg \in Messages : Return(n, FailIn(n, state, msg))

\* fetch_market_data may drop tickers it found no prices for.
DataFetch ==
  /\ Enters("data_fetch")
  /\ \/ \E k \in 1..request.assets :
          Return("data_fetch",
                 Completed("data_fetch", [state EXCEPT !.market_data = TRUE, !.tickers = k]))
     \/ CatchFatal("data_fetch")

\* state["expected_returns"] is read before the try: without market data the
\* KeyError escapes, with a message.
ConstraintValidation ==
  /\ Enters("constraint_validation")
  /\ \/ /\ state.market_data
        /\ \/ \E k \in 0..MaxWarnings :
                Return("constraint_validation",
                       Completed("constraint_validation",
                                 [state EXCEPT !.validated = TRUE,
                                               !.warnings = [i \in 1..k |-> "constraint"]]))
           \/ CatchFatal("constraint_validation")
     \/ ~state.market_data /\ Escape("constraint_validation", "text")

\* Missing validated_constraints are taken for an empty dict.
ClassicalOptimization ==
  /\ Enters("classical_optimization")
  /\ \/ /\ state.market_data
        /\ \/ Return("classical_optimization",
                     Completed("classical_optimization", [state EXCEPT !.classical = TRUE]))
           \/ CatchFatal("classical_optimization")
     \/ ~state.market_data /\ Escape("classical_optimization", "text")

\* Mutant of QuantumDispatch: the except clause does what a fatal node's does.
QuantumFatal ==
  /\ Enters("quantum_dispatch")
  /\ \/ \E q \in QuantumResult :
          Return("quantum_dispatch", Completed("quantum_dispatch", [state EXCEPT !.quantum = {q}]))
     \/ \E msg \in Messages : Return("quantum_dispatch", FailIn("quantum_dispatch", state, msg))

\* Either solver may fail on its own: the result then lacks one or both.
QuantumDispatch ==
  /\ Enters("quantum_dispatch")
  /\ \/ \E q \in QuantumResult :
          Return("quantum_dispatch", Completed("quantum_dispatch", [state EXCEPT !.quantum = {q}]))
     \/ Return("quantum_dispatch",
               Completed("quantum_dispatch", [state EXCEPT !.warnings = Append(@, "quantum")]))

Comparison ==
  /\ Enters("comparison")
  /\ \/ Return("comparison",
               Completed("comparison",
                 [state EXCEPT !.comparison = Recommendation(state.classical, state.quantum)]))
     \/ Return("comparison", Completed("comparison", state))

\* compute_frontier: the parallel path of a real sweep, taken from 8 points on,
\* raises NameError on os.cpu_count. The node catches that like the rest.
ParallelFrom == 8
SweepRaises == \/ request.frontier = "invalid"
               \/ request.frontier = "sweep" /\ request.num_points >= ParallelFrom

\* Mutant of FrontierComputation: the except clause starts a new list of warnings.
FrontierForgets ==
  /\ Enters("frontier_computation")
  /\ Return("frontier_computation",
            Completed("frontier_computation",
                      IF SweepRaises THEN [state EXCEPT !.warnings = <<"frontier">>]
                                     ELSE [state EXCEPT !.frontier = request.frontier]))

FrontierComputation ==
  /\ Enters("frontier_computation")
  /\ Return("frontier_computation",
            Completed("frontier_computation",
                      IF SweepRaises THEN [state EXCEPT !.warnings = Append(@, "frontier")]
                                     ELSE [state EXCEPT !.frontier = request.frontier]))

\* The model's text, the template's, or the minimal fallback.
LlmExplanation ==
  /\ Enters("llm_explanation")
  /\ \E text \in Explanations(state.classical, state.quantum, state.comparison, state.warnings)
                 \cup {{"minimal"}} :
       Return("llm_explanation", Completed("llm_explanation", [state EXCEPT !.explanation = text]))

Next ==
  \/ DataFetch \/ ConstraintValidation \/ ClassicalOptimization
  \/ QuantumDispatch \/ Comparison \/ FrontierComputation \/ LlmExplanation
  \/ \E n \in Nodes : UnexpectedException(n) \/ Skip(n)

Spec == Init /\ [][Next]_vars

\* _state_to_run_detail, as far as the task and the row care.
Done == node = "END"
RunDetail ==
  [status    |-> IF state.error = "text" THEN "failed" ELSE "completed",
   classical |-> state.classical,
   quantum   |-> state.quantum # {},
   explained |-> state.explanation # {}]
-----------------------------------------------------------------------------
(* Properties.                                                             *)

Announced(n, status) == \E i \in DOMAIN events : events[i] = [node |-> n, status |-> status]

\* Once a node has been announced failed, no node is announced at all: the
\* routing or the wrapper keeps every later node from running (the subscribers
\* of the progress channel see the failure as the last step). With exceptions
\* that have a message.
NothingAfterFailure ==
  ~request.blank_errors =>
    \A i \in DOMAIN events : events[i].status = "failed" => i = Len(events)

\* The events agree with the detail: the run is returned as failed if and only
\* if a node was announced failed, namely the one the error message names.
EventsTellTheOutcome ==
  ~request.blank_errors =>
    \A n \in Nodes :
      Announced(n, "failed") <=> RunDetail.status = "failed" /\ state.failed_node = n

\* A run has its classical result and an explanation that speaks of it, or a
\* failure of a node that is fatal or that an exception escaped from; no other
\* node fails the run by what it catches. And the detail is one of those RunTask
\* lets run_agent_graph return.
RR == INSTANCE RunRow
AnsweredUnlessFatal ==
  /\ Failed(state) => state.failed_node \in Fatal \cup Surprises
  /\ Done => RunDetail \in RR!Detail
  /\ ~request.blank_errors /\ Done /\ RunDetail.status = "completed" =>
       RunDetail.classical /\ RunDetail.explained /\ "no_classical" \notin state.explanation

\* What is missing can be explained: a quantum dispatch or a sweep that came to
\* nothing left its warning, and later nodes kept it. The template then quotes
\* the sweep's, unless three others come first; it speaks of whatever the quantum
\* solvers found; and it recommends nothing a solver did better than.
Templated == state.explanation \cap {"model", "minimal"} = {} /\ state.explanation # {}
ExplanationFits ==
  Done /\ ~Failed(state) =>
    /\ Announced("quantum_dispatch", "completed") /\ state.quantum = {}
       => "quantum" \in ToSet(state.warnings)
    /\ Announced("frontier_computation", "completed") /\ state.frontier = "none"
       => /\ "frontier" \in ToSet(state.warnings)
          /\ Templated => {"frontier", "more"} \cap state.explanation # {}
    /\ Templated => \A q \in state.quantum :
         LET gains == q.qaoa \cup q.vqe
         IN  /\ gains # {} => "not_run" \notin state.explanation
             /\ "qaoa" \in state.explanation => \E g \in q.qaoa : g > 1 /\ \A h \in gains : g >= h
             /\ "vqe" \in state.explanation => \E g \in q.vqe : g > 1 /\ \A h \in gains : g >= h
             /\ {"classical_better", "comparable"} \cap state.explanation # {}
                  => \A g \in gains : g <= 0

-----------------------------------------------------------------------------
(* What the documentation says and the code does not do.                   *)

\* nodes.py: the report is missing "if the sweep fails (infeasible anchors,
\* solver errors, unsupported measure)". It is also when nothing of that is
\* the case and the sweep has 8 points or more.
FrontierDelivered ==
  Announced("frontier_computation", "completed") /\ request.frontier # "invalid"
    => state.frontier # "none"
=============================================================================
