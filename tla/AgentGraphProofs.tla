---------------------------- MODULE AgentGraphProofs ----------------------------
(***************************************************************************)
(* Theorems about AgentGraph, for every request, every combination of      *)
(* failures and every set of nodes an exception may escape from.           *)
(***************************************************************************)
EXTENDS AgentGraph, FiniteSetTheorems, TLAPS

\* The place of a node in the walk: every edge leads forward.
Place(n) ==
  CASE n = "data_fetch"             -> 1
    [] n = "constraint_validation"  -> 2
    [] n = "classical_optimization" -> 3
    [] n = "quantum_dispatch"       -> 4
    [] n = "comparison"             -> 5
    [] n = "frontier_computation"   -> 6
    [] n = "llm_explanation"        -> 7
    [] n = "END"                    -> 8

EventType == [node : Nodes, status : {"started", "completed", "failed"}]

\* With exceptions that have a message: either nothing has failed, or one node
\* has, its event is the last one, and the walk has left it.
Untouched == /\ state.error = "none"
             /\ \A i \in DOMAIN events : events[i].status # "failed"
Over == /\ state.error = "text"
        /\ state.failed_node \in Nodes
        /\ Place(state.failed_node) < Place(node)
        /\ Len(events) >= 1
        /\ events[Len(events)] = [node |-> state.failed_node, status |-> "failed"]
        /\ \A i \in DOMAIN events : i < Len(events) => events[i].status # "failed"

Shape == /\ {"error", "failed_node"} \subseteq DOMAIN state
         /\ events \in Seq(EventType)

GraphInv == Shape /\ (~request.blank_errors => Untouched \/ Over)

LEMMA PlaceType == ASSUME NEW n \in Nodes \cup {"END"} PROVE Place(n) \in 1..8
BY DEF Place, Nodes, Fatal, NonFatal

LEMMA RouteMovesOn ==
  ASSUME NEW n \in Nodes, NEW s
  PROVE  Route(n, s) \in Nodes \cup {"END"} /\ Place(n) < Place(Route(n, s))
<1>1. CASE n = "data_fetch"
  <2>1. Route(n, s) \in {"END", "constraint_validation"}  BY <1>1 DEF Route, AfterFatalNode
  <2>2. QED  BY <1>1, <2>1 DEF Place, Nodes, Fatal
<1>2. CASE n = "constraint_validation"
  <2>1. Route(n, s) \in {"END", "classical_optimization"}  BY <1>2 DEF Route, AfterFatalNode
  <2>2. QED  BY <1>2, <2>1 DEF Place, Nodes, Fatal
<1>3. CASE n = "classical_optimization"
  <2>1. Route(n, s) \in {"END", "quantum_dispatch", "comparison"}
    BY <1>3 DEF Route, AfterClassical
  <2>2. QED  BY <1>3, <2>1 DEF Place, Nodes, NonFatal
<1>4. CASE n = "quantum_dispatch"
  <2>1. Route(n, s) = "comparison"  BY <1>4 DEF Route
  <2>2. QED  BY <1>4, <2>1 DEF Place, Nodes, NonFatal
<1>5. CASE n = "comparison"
  <2>1. Route(n, s) \in {"frontier_computation", "llm_explanation"}
    BY <1>5 DEF Route, AfterComparison
  <2>2. QED  BY <1>5, <2>1 DEF Place, Nodes, NonFatal
<1>6. CASE n = "frontier_computation"
  <2>1. Route(n, s) = "llm_explanation"  BY <1>6 DEF Route
  <2>2. QED  BY <1>6, <2>1 DEF Place, Nodes, NonFatal
<1>7. CASE n = "llm_explanation"
  <2>1. Route(n, s) = "END"  BY <1>7 DEF Route
  <2>2. QED  BY <1>7, <2>1 DEF Place
<1>8. QED  BY <1>1, <1>2, <1>3, <1>4, <1>5, <1>6, <1>7 DEF Nodes, Fatal, NonFatal

\* The two events of a node, behind those there were.
LEMMA ReportAppends ==
  ASSUME events \in Seq(EventType), NEW n \in Nodes, NEW status \in {"completed", "failed"},
         Report(n, status)
  PROVE  /\ events' \in Seq(EventType)
         /\ Len(events') = Len(events) + 2
         /\ \A i \in DOMAIN events : events'[i] = events[i]
         /\ events'[Len(events) + 1] = [node |-> n, status |-> "started"]
         /\ events'[Len(events) + 2] = [node |-> n, status |-> status]
<1>1. /\ [node |-> n, status |-> "started"] \in EventType
      /\ [node |-> n, status |-> status] \in EventType
  BY DEF EventType
<1>2. QED  BY <1>1 DEF Report

\* A node that is entered, with no failure before it, either completes or fails
\* and is left; both keep the invariant.
LEMMA NodeKeeps ==
  ASSUME GraphInv, NEW n \in Nodes, NEW s, request' = request, state' = s,
         {"error", "failed_node"} \subseteq DOMAIN s,
         ~request.blank_errors => Untouched,
         node' = Route(n, s),
         \/ Report(n, "completed") /\ (~request.blank_errors => s.error = "none")
         \/ Report(n, "failed") /\ (~request.blank_errors => s.error = "text" /\ s.failed_node = n)
  PROVE  GraphInv'
<1>1. events \in Seq(EventType)  BY DEF GraphInv, Shape
<1>2. CASE Report(n, "completed") /\ (~request.blank_errors => s.error = "none")
  <2>1. /\ events' \in Seq(EventType)
        /\ Len(events') = Len(events) + 2
        /\ \A i \in DOMAIN events : events'[i] = events[i]
        /\ events'[Len(events) + 1] = [node |-> n, status |-> "started"]
        /\ events'[Len(events) + 2] = [node |-> n, status |-> "completed"]
    BY <1>1, <1>2, ReportAppends
  <2>2. \A i \in DOMAIN events' :
          i \in DOMAIN events \/ i = Len(events) + 1 \/ i = Len(events) + 2
    BY <1>1, <2>1
  <2>3. ~request.blank_errors => \A i \in DOMAIN events' : events'[i].status # "failed"
    BY <2>1, <2>2 DEF Untouched
  <2>4. QED  BY <1>2, <2>1, <2>3 DEF GraphInv, Shape, Untouched
<1>3. CASE Report(n, "failed") /\ (~request.blank_errors => s.error = "text" /\ s.failed_node = n)
  <2>1. /\ events' \in Seq(EventType)
        /\ Len(events') = Len(events) + 2
        /\ \A i \in DOMAIN events : events'[i] = events[i]
        /\ events'[Len(events) + 1] = [node |-> n, status |-> "started"]
        /\ events'[Len(events) + 2] = [node |-> n, status |-> "failed"]
    BY <1>1, <1>3, ReportAppends
  <2>2. \A i \in DOMAIN events' :
          i < Len(events') => i \in DOMAIN events \/ i = Len(events) + 1
    BY <1>1, <2>1
  <2>3. ~request.blank_errors =>
          \A i \in DOMAIN events' : i < Len(events') => events'[i].status # "failed"
    BY <2>1, <2>2 DEF Untouched
  <2>4. Place(n) < Place(node')  BY RouteMovesOn
  <2>5. Len(events') >= 1  BY <1>1, <2>1
  <2>6. QED  BY <1>3, <2>1, <2>3, <2>4, <2>5 DEF GraphInv, Shape, Over
<1>4. QED  BY <1>2, <1>3

\* Only a walk without a failure enters a node.
LEMMA EntersUntouched ==
  ASSUME GraphInv, NEW n \in Nodes, Enters(n)
  PROVE  (~request.blank_errors => Untouched) /\ request' = request
<1>1. Over => state.failed_node # n  BY PlaceType DEF Over, Enters
<1>2. QED  BY <1>1 DEF GraphInv, Enters, Over, Failed, Nodes, Fatal, NonFatal

\* The wrapper's two ways to report.
LEMMA ReturnKeeps ==
  ASSUME GraphInv, NEW n \in Nodes, Enters(n), NEW s, Return(n, s),
         {"error", "failed_node"} \subseteq DOMAIN s,
         ~request.blank_errors => s.error = "none" \/ (s.error = "text" /\ s.failed_node = n)
  PROVE  GraphInv'
<1>1. (~request.blank_errors => Untouched) /\ request' = request  BY EntersUntouched
<1>2. CASE Failed(s) /\ s.failed_node = n
  <2>1. Report(n, "failed")  BY <1>2 DEF Return
  <2>2. s.error = "text"  BY <1>2 DEF Failed
  <2>3. QED  BY <1>1, <1>2, <2>1, <2>2, NodeKeeps DEF Return
<1>3. CASE ~(Failed(s) /\ s.failed_node = n)
  <2>1. Report(n, "completed")  BY <1>3 DEF Return
  <2>2. ~request.blank_errors => s.error = "none"
    BY <1>3 DEF Failed, Nodes, Fatal, NonFatal
  <2>3. QED  BY <1>1, <2>1, <2>2, NodeKeeps DEF Return
<1>4. QED  BY <1>2, <1>3

LEMMA EscapeKeeps ==
  ASSUME GraphInv, NEW n \in Nodes, Enters(n), NEW msg, Escape(n, msg),
         ~request.blank_errors => msg = "text"
  PROVE  GraphInv'
<1>1. (~request.blank_errors => Untouched) /\ request' = request  BY EntersUntouched
<1>2. DEFINE s == FailIn(n, state, msg)
<1>3. /\ {"error", "failed_node"} \subseteq DOMAIN s
      /\ s.error = msg /\ s.failed_node = n
  BY DEF FailIn, GraphInv, Shape
<1>4. state' = s /\ Report(n, "failed") /\ node' = Route(n, s)  BY DEF Escape
<1>5. QED  BY <1>1, <1>3, <1>4, NodeKeeps

\* A fatal node's except clause.
LEMMA CatchKeeps ==
  ASSUME GraphInv, NEW n \in Nodes, Enters(n), CatchFatal(n)
  PROVE  GraphInv'
<1>1. PICK msg \in Messages : Return(n, FailIn(n, state, msg))  BY DEF CatchFatal
<1>2. ~request.blank_errors => msg = "text"  BY <1>1 DEF Messages
<1>3. /\ {"error", "failed_node"} \subseteq DOMAIN FailIn(n, state, msg)
      /\ FailIn(n, state, msg).error = msg /\ FailIn(n, state, msg).failed_node = n
  BY DEF FailIn, GraphInv, Shape
<1>4. QED  BY <1>1, <1>2, <1>3, ReturnKeeps

\* A node that did its work: the state it returns says nothing of a failure.
LEMMA WorkKeeps ==
  ASSUME GraphInv, NEW n \in Nodes, Enters(n), NEW s, Return(n, s),
         {"error", "failed_node"} \subseteq DOMAIN s, s.error = state.error
  PROVE  GraphInv'
<1>1. ~request.blank_errors => s.error = "none"  BY EntersUntouched DEF Untouched
<1>2. QED  BY <1>1, ReturnKeeps

LEMMA NextKeeps == ASSUME GraphInv, Next PROVE GraphInv'
<1>0. {"error", "failed_node"} \subseteq DOMAIN state  BY DEF GraphInv, Shape
<1> USE DEF Nodes, Fatal, NonFatal
<1>1. CASE DataFetch
  <2>1. Enters("data_fetch")  BY <1>1 DEF DataFetch
  <2>2. ASSUME NEW k, Return("data_fetch", Completed("data_fetch",
                        [state EXCEPT !.market_data = TRUE, !.tickers = k]))
        PROVE  GraphInv'
    BY <1>0, <2>1, <2>2, WorkKeeps DEF Completed
  <2>3. CASE CatchFatal("data_fetch")  BY <2>1, <2>3, CatchKeeps
  <2>4. QED  BY <1>1, <2>2, <2>3 DEF DataFetch
<1>2. CASE ConstraintValidation
  <2>1. Enters("constraint_validation")  BY <1>2 DEF ConstraintValidation
  <2>2. ASSUME NEW list, Return("constraint_validation", Completed("constraint_validation",
                           [state EXCEPT !.validated = TRUE, !.warnings = list]))
        PROVE  GraphInv'
    BY <1>0, <2>1, <2>2, WorkKeeps DEF Completed
  <2>3. CASE CatchFatal("constraint_validation")  BY <2>1, <2>3, CatchKeeps
  <2>4. CASE Escape("constraint_validation", "text")  BY <2>1, <2>4, EscapeKeeps
  <2>5. QED  BY <1>2, <2>2, <2>3, <2>4 DEF ConstraintValidation
<1>3. CASE ClassicalOptimization
  <2>1. Enters("classical_optimization")  BY <1>3 DEF ClassicalOptimization
  <2>2. CASE Return("classical_optimization",
               Completed("classical_optimization", [state EXCEPT !.classical = TRUE]))
    BY <1>0, <2>1, <2>2, WorkKeeps DEF Completed
  <2>3. CASE CatchFatal("classical_optimization")  BY <2>1, <2>3, CatchKeeps
  <2>4. CASE Escape("classical_optimization", "text")  BY <2>1, <2>4, EscapeKeeps
  <2>5. QED  BY <1>3, <2>2, <2>3, <2>4 DEF ClassicalOptimization
<1>4. CASE QuantumDispatch
  <2>1. Enters("quantum_dispatch")  BY <1>4 DEF QuantumDispatch
  <2>2. ASSUME NEW q, Return("quantum_dispatch",
                        Completed("quantum_dispatch", [state EXCEPT !.quantum = {q}]))
        PROVE  GraphInv'
    BY <1>0, <2>1, <2>2, WorkKeeps DEF Completed
  <2>3. CASE Return("quantum_dispatch", Completed("quantum_dispatch",
               [state EXCEPT !.warnings = Append(@, "quantum")]))
    BY <1>0, <2>1, <2>3, WorkKeeps DEF Completed
  <2>4. QED  BY <1>4, <2>2, <2>3 DEF QuantumDispatch
<1>5. CASE Comparison
  <2>1. Enters("comparison")  BY <1>5 DEF Comparison
  <2>2. ASSUME NEW c, Return("comparison", Completed("comparison", [state EXCEPT !.comparison = c]))
        PROVE  GraphInv'
    BY <1>0, <2>1, <2>2, WorkKeeps DEF Completed
  <2>3. CASE Return("comparison", Completed("comparison", state))
    BY <1>0, <2>1, <2>3, WorkKeeps DEF Completed
  <2>4. QED  BY <1>5, <2>2, <2>3 DEF Comparison
<1>6. CASE FrontierComputation
  <2>1. Enters("frontier_computation")  BY <1>6 DEF FrontierComputation
  <2>2. CASE Return("frontier_computation", Completed("frontier_computation",
               [state EXCEPT !.warnings = Append(@, "frontier")]))
    BY <1>0, <2>1, <2>2, WorkKeeps DEF Completed
  <2>3. CASE Return("frontier_computation", Completed("frontier_computation",
               [state EXCEPT !.frontier = request.frontier]))
    BY <1>0, <2>1, <2>3, WorkKeeps DEF Completed
  <2>4. QED  BY <1>6, <2>2, <2>3 DEF FrontierComputation
<1>7. CASE LlmExplanation
  <2>1. Enters("llm_explanation")  BY <1>7 DEF LlmExplanation
  <2>2. PICK text : Return("llm_explanation",
                      Completed("llm_explanation", [state EXCEPT !.explanation = text]))
    BY <1>7 DEF LlmExplanation
  <2>3. QED  BY <1>0, <2>1, <2>2, WorkKeeps DEF Completed
<1>8. ASSUME NEW n \in Nodes, UnexpectedException(n) PROVE GraphInv'
  <2>1. PICK msg \in Messages : Escape(n, msg)  BY <1>8 DEF UnexpectedException
  <2>2. ~request.blank_errors => msg = "text"  BY <2>1 DEF Messages
  <2>3. QED  BY <1>8, <2>1, <2>2, EscapeKeeps DEF UnexpectedException
<1>9. ASSUME NEW n \in Nodes, Skip(n) PROVE GraphInv'
  <2>1. UNCHANGED <<request, state, events>>  BY <1>9 DEF Skip
  <2>2. state.error = "text" /\ node' = Route(n, state)  BY <1>9 DEF Skip, Failed
  <2>3. Over => Over'
    <3>1. Over => Place(node) < Place(node')  BY <1>9, <2>2, RouteMovesOn DEF Skip
    <3>2. node' \in Nodes \cup {"END"} /\ node \in Nodes \cup {"END"}
      BY <1>9, <2>2, RouteMovesOn DEF Skip
    <3>3. Over => state.failed_node \in Nodes  BY DEF Over
    <3>4. Over => Place(state.failed_node) < Place(node')
      BY <3>1, <3>2, <3>3, PlaceType DEF Over
    <3>5. QED  BY <2>1, <3>4 DEF Over
  <2>4. QED  BY <2>1, <2>2, <2>3 DEF GraphInv, Shape, Untouched
<1>10. QED  BY <1>1, <1>2, <1>3, <1>4, <1>5, <1>6, <1>7, <1>8, <1>9 DEF Next

LEMMA InvariantHolds == Spec => []GraphInv
<1>1. Init => GraphInv  BY DEF Init, GraphInv, Shape, Untouched, EventType
<1>2. GraphInv /\ [Next]_vars => GraphInv'
  <2>1. CASE UNCHANGED vars  BY <2>1 DEF vars, GraphInv, Shape, Untouched, Over
  <2>2. QED  BY <2>1, NextKeeps
<1>3. QED  BY <1>1, <1>2, PTL DEF Spec

\* Whichever node fails, and however: the failure is the last thing the
\* subscribers are told of the walk.
THEOREM FailureIsLast == Spec => []NothingAfterFailure
<1>1. GraphInv => NothingAfterFailure
  <2>1. ASSUME events \in Seq(EventType), NEW i \in DOMAIN events, ~(i < Len(events))
        PROVE  i = Len(events)
    BY <2>1
  <2>2. QED  BY <2>1 DEF GraphInv, Shape, Untouched, Over, NothingAfterFailure
<1>2. QED  BY <1>1, InvariantHolds, PTL

\* The events and the detail never disagree about the outcome.
THEOREM OutcomeIsTold == Spec => []EventsTellTheOutcome
<1>1. GraphInv => EventsTellTheOutcome
  <2>1. ASSUME GraphInv, ~request.blank_errors, NEW n \in Nodes
        PROVE  Announced(n, "failed") <=> state.error = "text" /\ state.failed_node = n
    <3>1. events \in Seq(EventType)  BY <2>1 DEF GraphInv, Shape
    <3>2. CASE Untouched
      BY <3>2 DEF Untouched, Announced
    <3>3. CASE Over
      <4>1. ASSUME NEW i \in DOMAIN events, events[i] = [node |-> n, status |-> "failed"]
            PROVE  state.failed_node = n
        <5>1. i = Len(events)  BY <3>1, <3>3, <4>1 DEF Over
        <5>2. QED  BY <3>3, <4>1, <5>1 DEF Over
      <4>2. Len(events) \in DOMAIN events  BY <3>1, <3>3 DEF Over
      <4>3. QED  BY <3>3, <4>1, <4>2 DEF Over, Announced
    <3>4. QED  BY <2>1, <3>2, <3>3 DEF GraphInv
  <2>2. RunDetail.status = "failed" <=> state.error = "text"  BY DEF RunDetail
  <2>3. QED  BY <2>1, <2>2 DEF EventsTellTheOutcome
<1>2. QED  BY <1>1, InvariantHolds, PTL
-----------------------------------------------------------------------------
(* What the explanation speaks of.                                         *)

Warnings == {"constraint", "quantum", "frontier"}
Topics == Recommendations \cup {"classical", "results", "constraint", "frontier", "more", "model",
                                "minimal"}

\* A solver's result that decides the recommendation is the best there is.
LEMMA ComparedFits ==
  ASSUME NEW q \in QuantumResult
  PROVE  LET gains == q.qaoa \cup q.vqe
             told == Compared(q)
         IN  /\ told \in Recommendations \ {"no_classical", "not_run"}
             /\ told = "qaoa" => \E g \in q.qaoa : g > 1 /\ \A h \in gains : g >= h
             /\ told = "vqe" => \E g \in q.vqe : g > 1 /\ \A h \in gains : g >= h
             /\ told \in {"classical_better", "comparable"} => \A g \in gains : g <= 0
<1> DEFINE gains == q.qaoa \cup q.vqe
<1>1. q.qaoa \in Gain /\ q.vqe \in Gain
  BY DEF QuantumResult
<1>2. CASE gains = {}
  <2>1. Compared(q) = "no_result"
    BY <1>2 DEF Compared
  <2> QED
    BY <2>1 DEF Recommendations
<1>3. CASE gains # {}
  <2>1. \E x \in gains : \A y \in gains : x >= y
    BY <1>1, <1>3, GainAssumption DEF Gain
  <2>2. BestImprovement(q) \in gains /\ \A y \in gains : BestImprovement(q) >= y
    BY <2>1 DEF BestImprovement, Max
  <2>3. \A g \in gains : g \in Int
    BY <1>1, GainAssumption DEF Gain
  <2>4. PICK best \in Int :
          /\ best = BestImprovement(q) /\ best \in gains /\ \A y \in gains : best >= y
    BY <2>2, <2>3
  <2>5. Compared(q) = CASE best > 1 -> BestAlgorithm(q)
                        [] best > 0 /\ best <= 1 -> "marginal"
                        [] best < -1 -> "classical_better"
                        [] OTHER -> "comparable"
    BY <1>3, <2>4 DEF Compared, Significant, Marginal
  <2>6. CASE best > 1
    <3>1. Compared(q) = BestAlgorithm(q)
      BY <2>5, <2>6
    <3>2. CASE \E g \in q.qaoa : \A h \in q.vqe : g >= h
      <4>1. Compared(q) = "qaoa"
        BY <3>1, <3>2 DEF BestAlgorithm
      <4>2. \E g \in q.qaoa : g > 1 /\ \A h \in gains : g >= h
        BY <1>1, <2>3, <2>4, <2>6, <3>2 DEF Gain
      <4> QED
        BY <4>1, <4>2 DEF Recommendations
    <3>3. CASE ~\E g \in q.qaoa : \A h \in q.vqe : g >= h
      <4>1. Compared(q) = "vqe"
        BY <3>1, <3>3 DEF BestAlgorithm
      <4>2. best \in q.vqe
        BY <2>3, <2>4, <3>3
      <4> QED
        BY <2>4, <2>6, <4>1, <4>2 DEF Recommendations
    <3> QED
      BY <3>2, <3>3
  <2>7. CASE best <= 1 /\ best > 0
    <3>1. Compared(q) = "marginal"
      BY <2>5, <2>7
    <3> QED
      BY <3>1 DEF Recommendations
  <2>8. CASE best <= 0
    <3>1. Compared(q) \in {"classical_better", "comparable"}
      BY <2>5, <2>8
    <3>2. \A g \in gains : g <= 0
      BY <2>3, <2>4, <2>8
    <3> QED
      BY <3>1, <3>2 DEF Recommendations
  <2> QED
    BY <2>4, <2>6, <2>7, <2>8
<1> QED
  BY <1>2, <1>3

\* state["quantum_result"], where there is at most one.
QuantumSlot == {{}} \cup {{q} : q \in QuantumResult}

LEMMA RecommendationFits ==
  ASSUME NEW quantum \in QuantumSlot, NEW classical \in BOOLEAN
  PROVE  /\ Recommendation(classical, quantum) \in Recommendations
         /\ classical => Recommendation(classical, quantum) # "no_classical"
         /\ classical => \A q \in quantum : Recommendation(classical, quantum) = Compared(q)
         /\ ~classical => Recommendation(classical, quantum) = "no_classical"
<1>1. CASE ~classical \/ quantum = {}
  BY <1>1 DEF Recommendation, Recommendations
<1>2. CASE classical /\ quantum # {}
  <2>1. PICK q \in QuantumResult : quantum = {q}
    BY <1>2 DEF QuantumSlot
  <2>2. (CHOOSE p \in quantum : TRUE) = q
    BY <2>1
  <2>3. Recommendation(classical, quantum) = Compared(q)
    BY <1>2, <2>2 DEF Recommendation
  <2> QED
    BY <1>2, <2>1, <2>3, ComparedFits
<1> QED
  BY <1>1, <1>2

\* A warning that is not told is one of those the text counts.
LEMMA WarningsTold ==
  ASSUME NEW list \in Seq(Warnings)
  PROVE  /\ WarningParagraph(list) \subseteq {"constraint", "frontier", "more"}
         /\ "frontier" \in ToSet(list) => {"frontier", "more"} \cap WarningParagraph(list) # {}
<1> DEFINE user == {i \in DOMAIN list : list[i] # "quantum"}
           Rank(i) == Cardinality({j \in user : j <= i})
<1>1. WarningParagraph(list) = {list[i] : i \in {k \in user : Rank(k) <= MaxTold}}
                               \cup (IF Cardinality(user) > MaxTold THEN {"more"} ELSE {})
  BY DEF WarningParagraph
<1>2. \A i \in DOMAIN list : list[i] \in Warnings
  OBVIOUS
<1>3. WarningParagraph(list) \subseteq {"constraint", "frontier", "more"}
  BY <1>1, <1>2 DEF Warnings
<1>4. ASSUME "frontier" \in ToSet(list)
      PROVE  {"frontier", "more"} \cap WarningParagraph(list) # {}
  <2>1. PICK i \in DOMAIN list : list[i] = "frontier"
    BY <1>4 DEF ToSet
  <2>2. i \in user
    BY <2>1
  <2>3. IsFiniteSet(user)
    <3>1. DOMAIN list = 1..Len(list) /\ Len(list) \in Nat
      OBVIOUS
    <3>2. IsFiniteSet(1..Len(list))
      BY <3>1, FS_Interval
    <3> QED
      BY <3>1, <3>2, FS_Subset
  <2>4. Rank(i) <= Cardinality(user) /\ Rank(i) \in Nat /\ Cardinality(user) \in Nat
    <3>1. {j \in user : j <= i} \subseteq user
      OBVIOUS
    <3> QED
      BY <2>3, <3>1, FS_Subset, FS_CardinalityType
  <2> HIDE DEF user, Rank
  <2>5. CASE Rank(i) <= MaxTold
    BY <1>1, <2>1, <2>2, <2>5
  <2>6. CASE Rank(i) > MaxTold
    BY <1>1, <2>4, <2>6 DEF MaxTold
  <2> QED
    BY <2>4, <2>5, <2>6 DEF MaxTold
<1> QED
  BY <1>3, <1>4

\* What a template never says, and what it says for sure.
LEMMA TemplateFits ==
  ASSUME NEW classical \in BOOLEAN, NEW quantum \in QuantumSlot, NEW list \in Seq(Warnings),
         NEW comparison \in {"none", Recommendation(classical, quantum)}
  PROVE  LET text == Template(classical, quantum, comparison, list)
         IN  /\ text # {} /\ text \subseteq Topics /\ text \cap {"model", "minimal"} = {}
             /\ classical => "no_classical" \notin text
             /\ "frontier" \in ToSet(list) => {"frontier", "more"} \cap text # {}
             /\ \A q \in quantum :
                  LET gains == q.qaoa \cup q.vqe
                  IN  /\ gains # {} => "not_run" \notin text
                      /\ "qaoa" \in text => \E g \in q.qaoa : g > 1 /\ \A h \in gains : g >= h
                      /\ "vqe" \in text => \E g \in q.vqe : g > 1 /\ \A h \in gains : g >= h
                      /\ {"classical_better", "comparable"} \cap text # {}
                           => \A g \in gains : g <= 0
<1> DEFINE text == Template(classical, quantum, comparison, list)
           second == QuantumParagraph(quantum, comparison)
           third == WarningParagraph(list)
           head == IF classical THEN "classical" ELSE "no_classical"
<1>1. text = {head} \cup second \cup third
  BY DEF Template
<1>2. /\ third \subseteq {"constraint", "frontier", "more"}
      /\ "frontier" \in ToSet(list) => {"frontier", "more"} \cap third # {}
  BY WarningsTold
<1>3. /\ second \in {{}, {"results"}, {"not_run"}, {comparison}}
      /\ "none" \notin second
      /\ second = {"not_run"} => quantum = {} \/ comparison = "not_run"
  BY DEF QuantumParagraph
<1>4. head \in {"classical", "no_classical"} /\ (classical => head = "classical")
  OBVIOUS
<1>5. /\ Recommendation(classical, quantum) \in Recommendations
      /\ classical => Recommendation(classical, quantum) # "no_classical"
      /\ classical => \A q \in quantum : Recommendation(classical, quantum) = Compared(q)
      /\ ~classical => Recommendation(classical, quantum) = "no_classical"
  BY RecommendationFits
<1> HIDE DEF text, second, third, head
<1>6. comparison \in Recommendations \cup {"none"} /\ (classical => comparison # "no_classical")
  BY <1>5
<1>7. /\ text # {} /\ text \subseteq Topics /\ text \cap {"model", "minimal"} = {}
      /\ classical => "no_classical" \notin text
      /\ "frontier" \in ToSet(list) => {"frontier", "more"} \cap text # {}
  BY <1>1, <1>2, <1>3, <1>4, <1>6 DEF Topics, Recommendations
<1>8. ASSUME NEW q \in quantum
      PROVE  LET gains == q.qaoa \cup q.vqe
             IN  /\ gains # {} => "not_run" \notin text
                 /\ "qaoa" \in text => \E g \in q.qaoa : g > 1 /\ \A h \in gains : g >= h
                 /\ "vqe" \in text => \E g \in q.vqe : g > 1 /\ \A h \in gains : g >= h
                 /\ {"classical_better", "comparable"} \cap text # {} => \A g \in gains : g <= 0
  <2>1. q \in QuantumResult
    BY <1>8 DEF QuantumSlot
  <2>2. comparison \in {"none", "no_classical", Compared(q)}
    BY <1>5, <1>8
  <2>3. Compared(q) # "not_run"
    BY <2>1, ComparedFits
  <2>4. ASSUME NEW w \in text, w \in {"not_run", "qaoa", "vqe", "classical_better", "comparable"}
        PROVE  w = Compared(q)
    BY <1>1, <1>2, <1>3, <1>4, <1>8, <2>2, <2>3, <2>4
  <2>5. "not_run" \notin text
    BY <2>3, <2>4
  <2>6. "qaoa" \in text => Compared(q) = "qaoa"
    BY <2>4
  <2>7. "vqe" \in text => Compared(q) = "vqe"
    BY <2>4
  <2>8. {"classical_better", "comparable"} \cap text # {}
          => Compared(q) \in {"classical_better", "comparable"}
    BY <2>4
  <2> QED
    BY <2>1, <2>5, <2>6, <2>7, <2>8, ComparedFits
<1> QED
  BY <1>7, <1>8 DEF text

-----------------------------------------------------------------------------
(* What the walk leaves in the state.                                      *)

LEMMA StateShape ==
  ASSUME NEW s \in State
  PROVE  /\ s.error \in {"none", "text", ""} /\ s.failed_node \in Nodes \cup {"none"}
         /\ s.classical \in BOOLEAN /\ s.quantum \in QuantumSlot
         /\ s.comparison \in {"none"} \cup Recommendations
         /\ s.frontier \in {"none", "empty", "single", "sweep"}
         /\ s.explanation \subseteq Topics /\ s.warnings \in Seq(Warnings)
  BY DEF State, QuantumSlot, Topics, Warnings

Texts(s) == {{"model"}, {"minimal"}, Template(s.classical, s.quantum, s.comparison, s.warnings)}

\* Each result is there from its node on, each missing result has its warning,
\* and what the explanation was written from is still in the state at the end.
Filled(s) ==
  /\ Place(node) <= 4 => s.quantum = {}
  /\ Place(node) <= 5 => s.comparison = "none"
  /\ s.comparison \in {"none", Recommendation(s.classical, s.quantum)}
  /\ s.error = "none" /\ Place(node) >= 4 => s.classical
  /\ s.explanation # {} => /\ node = "END" /\ s.error # "text"
                           /\ s.explanation \in Texts(s)
  /\ node = "END" /\ s.error = "none" => s.explanation # {}
  /\ Announced("quantum_dispatch", "completed") /\ s.quantum = {}
       => "quantum" \in ToSet(s.warnings)
  /\ Announced("frontier_computation", "completed") /\ s.frontier = "none"
       => "frontier" \in ToSet(s.warnings)

Blamed(s) ==
  /\ s.failed_node \in Fatal \cup Surprises \cup {"none"}
  /\ s.error = "text" => s.failed_node \in Nodes /\ Place(s.failed_node) < Place(node)

OutcomeInv ==
  /\ TypeOK
  /\ \A i \in DOMAIN events : Place(events[i].node) < Place(node)
  /\ node = "frontier_computation" => request.frontier # "off"
  /\ Blamed(state)
  /\ Filled(state)

LEMMA RouteNext ==
  ASSUME NEW n \in Nodes, NEW s, s.error # "text"
  PROVE  /\ Route(n, s) = "END" => n = "llm_explanation"
         /\ n \in {"data_fetch", "constraint_validation"} => Place(Route(n, s)) <= 3
<1>1. ~Failed(s)
  BY DEF Failed
<1>2. CASE n = "data_fetch"
  BY <1>1, <1>2 DEF Route, AfterFatalNode, Place
<1>3. CASE n = "constraint_validation"
  BY <1>1, <1>3 DEF Route, AfterFatalNode, Place
<1>4. CASE n = "classical_optimization"
  BY <1>1, <1>4 DEF Route, AfterClassical
<1>5. CASE n = "quantum_dispatch" \/ n = "frontier_computation" \/ n = "llm_explanation"
  BY <1>5 DEF Route
<1>6. CASE n = "comparison"
  BY <1>6 DEF Route, AfterComparison
<1> QED
  BY <1>2, <1>3, <1>4, <1>5, <1>6 DEF Nodes, Fatal, NonFatal

LEMMA RouteToFrontier ==
  ASSUME NEW n \in Nodes, NEW s, Route(n, s) = "frontier_computation"
  PROVE  request.frontier # "off"
<1>1. n \in {"data_fetch", "constraint_validation", "classical_optimization", "quantum_dispatch",
            "frontier_computation", "llm_explanation"} => FALSE
  BY DEF Route, AfterFatalNode, AfterClassical
<1> QED
  BY <1>1 DEF Route, AfterComparison, Nodes, Fatal, NonFatal

\* The walk leaves what it announces.
LEMMA ReportedPlaces ==
  ASSUME OutcomeInv, NEW n \in Nodes, node = n, NEW s, node' = Route(n, s),
         NEW status \in {"completed", "failed"}, Report(n, status)
  PROVE  /\ events' \in Seq(EventType)
         /\ \A i \in DOMAIN events' : Place(events'[i].node) < Place(node')
         /\ \A m \in Nodes : Announced(m, "completed")' =>
              Announced(m, "completed") \/ (m = n /\ status = "completed")
<1>1. events \in Seq(EventType) /\ node' \in Nodes \cup {"END"} /\ Place(n) < Place(node')
  BY RouteMovesOn DEF OutcomeInv, TypeOK, EventType
<1>2. /\ events' \in Seq(EventType)
      /\ Len(events') = Len(events) + 2
      /\ \A i \in DOMAIN events : events'[i] = events[i]
      /\ events'[Len(events) + 1] = [node |-> n, status |-> "started"]
      /\ events'[Len(events) + 2] = [node |-> n, status |-> status]
  BY <1>1, ReportAppends
<1>3. \A i \in DOMAIN events' : i \in DOMAIN events \/ i = Len(events) + 1 \/ i = Len(events) + 2
  BY <1>1, <1>2
<1>4. ASSUME NEW i \in DOMAIN events' PROVE Place(events'[i].node) < Place(node')
  <2>1. CASE i \in DOMAIN events
    <3>0. events[i] \in EventType /\ events'[i] = events[i]
      BY <1>1, <1>2, <2>1
    <3>1. events'[i].node \in Nodes /\ Place(events'[i].node) < Place(n)
      BY <2>1, <3>0 DEF OutcomeInv, EventType
    <3> QED
      BY <1>1, <3>1, PlaceType
  <2>2. CASE i \notin DOMAIN events
    BY <1>1, <1>2, <1>3, <2>2
  <2> QED
    BY <2>1, <2>2
<1>5. ASSUME NEW m \in Nodes, Announced(m, "completed")'
      PROVE  Announced(m, "completed") \/ (m = n /\ status = "completed")
  BY <1>2, <1>3, <1>5 DEF Announced
<1> QED
  BY <1>2, <1>4, <1>5

\* Nothing is announced of a node that the walk has not left.
LEMMA NotYet ==
  ASSUME OutcomeInv, NEW n \in Nodes, Place(node) <= Place(n), NEW status
  PROVE  ~Announced(n, status)
<1>1. node \in Nodes \cup {"END"}
  BY DEF OutcomeInv, TypeOK
<1> QED
  BY <1>1, PlaceType DEF OutcomeInv, Announced

LEMMA EntersSound ==
  ASSUME OutcomeInv, NEW n \in Nodes, Enters(n)
  PROVE  /\ node = n /\ request' = request /\ state.error # "text"
         /\ state.explanation = {}
<1>1. state.error = "text" => state.failed_node \in Nodes /\ Place(state.failed_node) < Place(n)
  BY DEF OutcomeInv, Blamed, Enters
<1>2. state.error # "text"
  BY <1>1, PlaceType DEF Enters, Failed, Nodes, Fatal, NonFatal
<1>3. node # "END"
  BY DEF Enters, Nodes, Fatal, NonFatal
<1> QED
  BY <1>2, <1>3 DEF Enters, OutcomeInv, Filled

LEMMA Earlier ==
  ASSUME NEW a \in 1..8, NEW b \in 1..8, a < b
  PROVE  (b <= 4 => a <= 4) /\ (b <= 5 => a <= 5)
  OBVIOUS

\* A node that fails changes nothing else; one that is announced completed all
\* the same is fatal.
LEMMA FailureFills ==
  ASSUME OutcomeInv, NEW n \in Fatal \cup Surprises, Enters(n), NEW msg \in {"text", ""},
         state' = FailIn(n, state, msg), node' = Route(n, FailIn(n, state, msg)),
         NEW status \in {"completed", "failed"}, Report(n, status),
         status = "completed" => n \in Fatal
  PROVE  OutcomeInv'
<1>0. n \in Nodes /\ Surprises \subseteq Nodes
  BY GraphAssumptions DEF Nodes
<1>1. /\ node = n /\ request' = request /\ state.explanation = {}
      /\ state \in State /\ request \in Request
  BY <1>0, EntersSound DEF OutcomeInv, TypeOK
<1>2. /\ state' \in State
      /\ state'.error = msg /\ state'.failed_node = n
      /\ state'.classical = state.classical /\ state'.quantum = state.quantum
      /\ state'.comparison = state.comparison /\ state'.frontier = state.frontier
      /\ state'.explanation = {} /\ state'.warnings = state.warnings
  BY <1>0, <1>1 DEF FailIn, State
<1>3. /\ events' \in Seq(EventType)
      /\ \A i \in DOMAIN events' : Place(events'[i].node) < Place(node')
      /\ \A m \in Nodes : Announced(m, "completed")' =>
           Announced(m, "completed") \/ (m = n /\ status = "completed")
  BY <1>0, <1>1, ReportedPlaces
<1>4. node' \in Nodes \cup {"END"} /\ Place(n) < Place(node') /\ Place(n) \in 1..8
      /\ Place(node') \in 1..8
  BY <1>0, RouteMovesOn, PlaceType
<1>5. TypeOK'
  BY <1>1, <1>2, <1>3, <1>4 DEF TypeOK, EventType
<1>6. Blamed(state)'
  BY <1>0, <1>2, <1>4 DEF Blamed
<1>7. \A m \in NonFatal : Announced(m, "completed")' => Announced(m, "completed")
  BY <1>3 DEF Nodes, Fatal, NonFatal
<1>8. Filled(state)'
  <2>1. /\ Place(node') <= 4 => state'.quantum = {}
        /\ Place(node') <= 5 => state'.comparison = "none"
        /\ state'.comparison \in {"none", Recommendation(state'.classical, state'.quantum)}
    <3>1. /\ Place(n) <= 4 => state.quantum = {}
          /\ Place(n) <= 5 => state.comparison = "none"
          /\ state.comparison \in {"none", Recommendation(state.classical, state.quantum)}
      BY <1>1 DEF OutcomeInv, Filled
    <3>2. Recommendation(state'.classical, state'.quantum)
            = Recommendation(state.classical, state.quantum)
      BY <1>2
    <3>3. (Place(node') <= 4 => Place(n) <= 4) /\ (Place(node') <= 5 => Place(n) <= 5)
      BY <1>4, Earlier
    <3>4. state'.comparison \in {"none", Recommendation(state'.classical, state'.quantum)}
      BY <1>2, <3>1, <3>2
    <3> QED
      BY <1>2, <3>1, <3>3, <3>4
  <2>2. state'.error # "none" /\ state'.explanation = {}
    BY <1>2
  <2>3. /\ Announced("quantum_dispatch", "completed") /\ state.quantum = {}
             => "quantum" \in ToSet(state.warnings)
        /\ Announced("frontier_computation", "completed") /\ state.frontier = "none"
             => "frontier" \in ToSet(state.warnings)
    BY DEF OutcomeInv, Filled
  <2>4. /\ Announced("quantum_dispatch", "completed")' /\ state'.quantum = {}
             => "quantum" \in ToSet(state'.warnings)
        /\ Announced("frontier_computation", "completed")' /\ state'.frontier = "none"
             => "frontier" \in ToSet(state'.warnings)
    BY <1>2, <1>7, <2>3 DEF NonFatal
  <2> QED
    BY <2>1, <2>2, <2>4 DEF Filled
<1>9. node' = "frontier_computation" => request'.frontier # "off"
  BY <1>0, <1>1, RouteToFrontier
<1> QED
  BY <1>3, <1>5, <1>6, <1>8, <1>9 DEF OutcomeInv

\* What a node that does its work owes to the state it returns.
WorkFills(n, s) ==
  /\ s \in State /\ s.error = state.error /\ s.failed_node = state.failed_node
  /\ n = "quantum_dispatch" \/ s.quantum = state.quantum
  /\ n = "comparison" \/ s.comparison = state.comparison
  /\ n = "comparison" => s.comparison \in {"none", Recommendation(s.classical, s.quantum)}
  /\ Place(n) >= 4 => s.classical = state.classical
  /\ n = "classical_optimization" => s.classical
  /\ n = "frontier_computation" \/ s.frontier = state.frontier
  /\ n = "llm_explanation" => s.explanation \in Texts(s)
  /\ n # "llm_explanation" => s.explanation = {}
  /\ Place(n) >= 4 => \A w \in ToSet(state.warnings) : w \in ToSet(s.warnings)
  /\ n = "quantum_dispatch" /\ s.quantum = {} => "quantum" \in ToSet(s.warnings)
  /\ n = "frontier_computation" /\ s.frontier = "none" => "frontier" \in ToSet(s.warnings)

LEMMA WorkKeepsFilled ==
  ASSUME OutcomeInv, NEW n \in Nodes, Enters(n), NEW s, Return(n, s), WorkFills(n, s)
  PROVE  OutcomeInv'
<1>1. /\ node = n /\ request' = request /\ state.error # "text" /\ state.explanation = {}
      /\ state \in State /\ request \in Request
  BY EntersSound DEF OutcomeInv, TypeOK
<1>2. PICK status \in {"completed", "failed"} : Report(n, status)
  BY DEF Return
<1>3. state' = s /\ node' = Route(n, s) /\ s \in State /\ s.error = state.error
      /\ s.failed_node = state.failed_node
  BY DEF Return, WorkFills
<1>4. /\ events' \in Seq(EventType)
      /\ \A i \in DOMAIN events' : Place(events'[i].node) < Place(node')
      /\ \A m \in Nodes : Announced(m, "completed")' => Announced(m, "completed") \/ m = n
  BY <1>1, <1>2, <1>3, ReportedPlaces
<1>5. /\ node' \in Nodes \cup {"END"} /\ Place(n) < Place(node')
      /\ Place(n) \in 1..8 /\ Place(node') \in 1..8
  BY <1>3, RouteMovesOn, PlaceType
<1>6. TypeOK'
  BY <1>1, <1>3, <1>4, <1>5 DEF TypeOK, EventType
<1>7. Blamed(state)'
  BY <1>1, <1>3 DEF OutcomeInv, Blamed
<1>8. /\ Place("classical_optimization") = 3 /\ Place("quantum_dispatch") = 4
      /\ Place("comparison") = 5 /\ Place("frontier_computation") = 6
      /\ Place("data_fetch") = 1 /\ Place("constraint_validation") = 2
      /\ Place("llm_explanation") = 7
  BY DEF Place
<1>9. Filled(state)'
  <2>1. Place(node') <= 4 => s.quantum = {}
    BY <1>1, <1>5, <1>8 DEF OutcomeInv, Filled, WorkFills
  <2>2. Place(node') <= 5 => s.comparison = "none"
    BY <1>1, <1>5, <1>8 DEF OutcomeInv, Filled, WorkFills
  <2>3. s.comparison \in {"none", Recommendation(s.classical, s.quantum)}
    <3>1. CASE n = "comparison"
      BY <3>1 DEF WorkFills
    <3>2. CASE n # "comparison" /\ Place(n) <= 5
      BY <1>1, <3>2 DEF OutcomeInv, Filled, WorkFills
    <3>3. CASE n # "comparison" /\ Place(n) > 5
      <4>1. s.quantum = state.quantum /\ s.comparison = state.comparison
            /\ s.classical = state.classical
        BY <1>5, <1>8, <3>3 DEF WorkFills
      <4> QED
        BY <4>1 DEF OutcomeInv, Filled
    <3> QED
      BY <1>5, <3>1, <3>2, <3>3
  <2>4. s.error = "none" /\ Place(node') >= 4 => s.classical
    <3>1. CASE Place(n) >= 4
      BY <1>1, <1>3, <3>1 DEF OutcomeInv, Filled, WorkFills
    <3>2. CASE n = "classical_optimization"
      BY <3>2 DEF WorkFills
    <3>3. CASE n \in {"data_fetch", "constraint_validation"}
      BY <1>1, <1>3, <1>5, <3>3, RouteNext
    <3> QED
      BY <1>8, <3>1, <3>2, <3>3 DEF Nodes, Fatal, NonFatal
  <2>5. s.explanation # {} => node' = "END" /\ s.error # "text" /\ s.explanation \in Texts(s)
    BY <1>1, <1>3 DEF WorkFills, Route
  <2>6. node' = "END" /\ s.error = "none" => s.explanation # {}
    <3>1. node' = "END" => n = "llm_explanation"
      BY <1>1, <1>3, RouteNext
    <3>2. \A text \in Texts(s) : text # {}
      BY DEF Texts, Template
    <3> QED
      BY <3>1, <3>2 DEF WorkFills
  <2>7. ASSUME Announced("quantum_dispatch", "completed")', s.quantum = {}
        PROVE  "quantum" \in ToSet(s.warnings)
    <3>1. CASE n = "quantum_dispatch"
      BY <2>7, <3>1 DEF WorkFills
    <3>2. CASE n # "quantum_dispatch"
      <4>1. Announced("quantum_dispatch", "completed") /\ state.quantum = {}
        BY <1>4, <2>7, <3>2 DEF WorkFills, Nodes, NonFatal
      <4>2. Place(n) >= 4
        BY <1>1, <1>5, <1>8, <4>1, NotYet DEF Nodes, NonFatal
      <4> QED
        BY <4>1, <4>2 DEF OutcomeInv, Filled, WorkFills
    <3> QED
      BY <3>1, <3>2
  <2>8. ASSUME Announced("frontier_computation", "completed")', s.frontier = "none"
        PROVE  "frontier" \in ToSet(s.warnings)
    <3>1. CASE n = "frontier_computation"
      BY <2>8, <3>1 DEF WorkFills
    <3>2. CASE n # "frontier_computation"
      <4>1. Announced("frontier_computation", "completed") /\ state.frontier = "none"
        BY <1>4, <2>8, <3>2 DEF WorkFills, Nodes, NonFatal
      <4>2. Place(n) >= 4
        BY <1>1, <1>5, <1>8, <4>1, NotYet DEF Nodes, NonFatal
      <4> QED
        BY <4>1, <4>2 DEF OutcomeInv, Filled, WorkFills
    <3> QED
      BY <3>1, <3>2
  <2> QED
    BY <1>3, <2>1, <2>2, <2>3, <2>4, <2>5, <2>6, <2>7, <2>8 DEF Filled
<1>10. node' = "frontier_computation" => request'.frontier # "off"
  BY <1>1, <1>3, RouteToFrontier
<1> QED
  BY <1>4, <1>6, <1>7, <1>9, <1>10 DEF OutcomeInv

\* The fields a node does not set stay as they are.
LEMMA SetFields ==
  ASSUME state \in State, NEW n \in Nodes
  PROVE  /\ \A k \in 1..MaxAssets :
              Completed(n, [state EXCEPT !.market_data = TRUE, !.tickers = k]) \in State
         /\ \A list \in Seq(Warnings) :
              Completed(n, [state EXCEPT !.validated = TRUE, !.warnings = list]) \in State
         /\ \A list \in Seq(Warnings) :
              Completed(n, [state EXCEPT !.warnings = list]) \in State
         /\ Completed(n, [state EXCEPT !.classical = TRUE]) \in State
         /\ \A q \in QuantumResult : Completed(n, [state EXCEPT !.quantum = {q}]) \in State
         /\ \A c \in {"none"} \cup Recommendations :
              Completed(n, [state EXCEPT !.comparison = c]) \in State
         /\ \A f \in {"empty", "single", "sweep"} :
              Completed(n, [state EXCEPT !.frontier = f]) \in State
         /\ \A text \in SUBSET Topics : Completed(n, [state EXCEPT !.explanation = text]) \in State
         /\ Completed(n, state) \in State
  BY DEF Completed, State, Warnings, Topics

\* What a step that only completes or sets fields of no interest here keeps.
KeepsAll(s) ==
  /\ s.error = state.error /\ s.failed_node = state.failed_node
  /\ s.quantum = state.quantum /\ s.comparison = state.comparison
  /\ s.frontier = state.frontier /\ s.explanation = state.explanation

LEMMA AppendKeeps ==
  ASSUME NEW list \in Seq(Warnings), NEW w \in Warnings
  PROVE  /\ Append(list, w) \in Seq(Warnings) /\ w \in ToSet(Append(list, w))
         /\ \A v \in ToSet(list) : v \in ToSet(Append(list, w))
<1>1. /\ Append(list, w) \in Seq(Warnings) /\ Len(Append(list, w)) = Len(list) + 1
      /\ Append(list, w)[Len(list) + 1] = w
      /\ \A i \in DOMAIN list : Append(list, w)[i] = list[i]
  OBVIOUS
<1>2. /\ Len(list) + 1 \in DOMAIN Append(list, w)
      /\ DOMAIN list \subseteq DOMAIN Append(list, w)
  BY <1>1
<1>3. ASSUME NEW v \in ToSet(list) PROVE v \in ToSet(Append(list, w))
  <2>1. PICK i \in DOMAIN list : v = list[i]
    BY <1>3 DEF ToSet
  <2> QED
    BY <1>1, <1>2, <2>1 DEF ToSet
<1>4. w \in ToSet(Append(list, w))
  BY <1>1, <1>2 DEF ToSet
<1> QED
  BY <1>1, <1>3, <1>4

LEMMA CatchFills ==
  ASSUME OutcomeInv, NEW n \in Fatal, Enters(n), CatchFatal(n)
  PROVE  OutcomeInv'
<1>1. PICK msg \in Messages : Return(n, FailIn(n, state, msg))
  BY DEF CatchFatal
<1>2. msg \in {"text", ""}
  BY <1>1 DEF Messages
<1>3. PICK status \in {"completed", "failed"} : Report(n, status)
  BY <1>1 DEF Return
<1> QED
  BY <1>1, <1>2, <1>3, FailureFills DEF Return

LEMMA EscapeFills ==
  ASSUME OutcomeInv, NEW n \in Fatal \cup Surprises, Enters(n), NEW msg \in {"text", ""},
         Escape(n, msg)
  PROVE  OutcomeInv'
  BY FailureFills DEF Escape

LEMMA SkipFills ==
  ASSUME OutcomeInv, NEW n \in Nodes, Skip(n)
  PROVE  OutcomeInv'
<1>1. /\ node = n /\ node' = Route(n, state) /\ state.error = "text"
      /\ UNCHANGED <<request, state, events>>
  BY DEF Skip, Failed
<1>2. /\ node' \in Nodes \cup {"END"} /\ Place(n) < Place(node')
      /\ Place(n) \in 1..8 /\ Place(node') \in 1..8
  BY <1>1, RouteMovesOn, PlaceType
<1>3. TypeOK' /\ events \in Seq(EventType)
  BY <1>1, <1>2 DEF OutcomeInv, TypeOK, EventType
<1>4. ASSUME NEW i \in DOMAIN events PROVE Place(events[i].node) < Place(node')
  <2>1. events[i] \in EventType
    BY <1>3
  <2>2. events[i].node \in Nodes /\ Place(events[i].node) < Place(n)
    BY <1>1, <2>1 DEF OutcomeInv, EventType
  <2> QED
    BY <1>2, <2>2, PlaceType
<1>5. Blamed(state)'
  <2>1. state.failed_node \in Nodes /\ Place(state.failed_node) < Place(n)
    BY <1>1 DEF OutcomeInv, Blamed
  <2> QED
    BY <1>1, <1>2, <2>1, PlaceType DEF OutcomeInv, Blamed
<1>6. Filled(state)'
  <2>1. state.explanation = {}
    BY <1>1 DEF OutcomeInv, Filled
  <2>2. Announced("quantum_dispatch", "completed")' <=> Announced("quantum_dispatch", "completed")
    BY <1>1 DEF Announced
  <2>3. Announced("frontier_computation", "completed")'
          <=> Announced("frontier_computation", "completed")
    BY <1>1 DEF Announced
  <2> QED
    BY <1>1, <1>2, <2>1, <2>2, <2>3 DEF OutcomeInv, Filled
<1>7. node' = "frontier_computation" => request'.frontier # "off"
  BY <1>1, RouteToFrontier
<1> QED
  BY <1>1, <1>3, <1>4, <1>5, <1>6, <1>7 DEF OutcomeInv

LEMMA NextFills == ASSUME OutcomeInv, Next PROVE OutcomeInv'
<1>0. state \in State /\ request \in Request /\ Surprises \subseteq Nodes
  BY GraphAssumptions DEF OutcomeInv, TypeOK
<1>a. /\ Place("data_fetch") = 1 /\ Place("constraint_validation") = 2
       /\ Place("classical_optimization") = 3 /\ Place("quantum_dispatch") = 4
       /\ Place("comparison") = 5 /\ Place("frontier_computation") = 6
       /\ Place("llm_explanation") = 7
  BY DEF Place
<1>b. /\ state.classical \in BOOLEAN /\ state.quantum \in QuantumSlot
        /\ state.warnings \in Seq(Warnings)
        /\ state.comparison \in {"none", Recommendation(state.classical, state.quantum)}
  BY <1>0, StateShape DEF OutcomeInv, Filled
<1> USE DEF Nodes, Fatal, NonFatal
<1>1. CASE DataFetch
  <2>1. Enters("data_fetch") /\ state.explanation = {}
    BY <1>1, EntersSound DEF DataFetch
  <2>2. ASSUME NEW k \in 1..request.assets, Return("data_fetch", Completed("data_fetch",
                        [state EXCEPT !.market_data = TRUE, !.tickers = k]))
        PROVE  OutcomeInv'
    <3> DEFINE s == Completed("data_fetch", [state EXCEPT !.market_data = TRUE, !.tickers = k])
    <3>1. k \in 1..MaxAssets
      BY <1>0, GraphAssumptions DEF Request
    <3>2. s \in State
      BY <1>0, <3>1, SetFields
    <3>3. WorkFills("data_fetch", s)
      BY <1>0, <1>a, <2>1, <3>2 DEF WorkFills, Completed, State
    <3> QED
      BY <2>1, <2>2, <3>3, WorkKeepsFilled
  <2>3. CASE CatchFatal("data_fetch")
    BY <2>1, <2>3, CatchFills
  <2> QED
    BY <1>1, <2>2, <2>3 DEF DataFetch
<1>2. CASE ConstraintValidation
  <2>1. Enters("constraint_validation") /\ state.explanation = {}
    BY <1>2, EntersSound DEF ConstraintValidation
  <2>2. ASSUME NEW k \in 0..MaxWarnings, Return("constraint_validation",
                   Completed("constraint_validation",
                             [state EXCEPT !.validated = TRUE,
                                           !.warnings = [i \in 1..k |-> "constraint"]]))
        PROVE  OutcomeInv'
    <3> DEFINE list == [i \in 1..k |-> "constraint"]
               s == Completed("constraint_validation",
                              [state EXCEPT !.validated = TRUE, !.warnings = list])
    <3>1. list \in Seq(Warnings)
      BY GraphAssumptions DEF Warnings
    <3> HIDE DEF list
    <3>2. s \in State
      BY <1>0, <3>1, SetFields
    <3>3. KeepsAll(s)
      BY <1>0 DEF KeepsAll, Completed, State
    <3>4. WorkFills("constraint_validation", s)
      BY <1>a, <2>1, <3>2, <3>3 DEF WorkFills, KeepsAll
    <3> QED
      BY <2>1, <2>2, <3>4, WorkKeepsFilled DEF list
  <2>3. CASE CatchFatal("constraint_validation")
    BY <2>1, <2>3, CatchFills
  <2>4. CASE Escape("constraint_validation", "text")
    BY <2>1, <2>4, EscapeFills
  <2> QED
    BY <1>2, <2>2, <2>3, <2>4 DEF ConstraintValidation
<1>3. CASE ClassicalOptimization
  <2>1. Enters("classical_optimization") /\ state.explanation = {}
    BY <1>3, EntersSound DEF ClassicalOptimization
  <2>2. CASE Return("classical_optimization",
               Completed("classical_optimization", [state EXCEPT !.classical = TRUE]))
    <3> DEFINE s == Completed("classical_optimization", [state EXCEPT !.classical = TRUE])
    <3>1. s \in State
      BY <1>0, SetFields
    <3>2. KeepsAll(s) /\ s.classical = TRUE
      BY <1>0 DEF KeepsAll, Completed, State
    <3> HIDE DEF s
    <3>3. WorkFills("classical_optimization", s)
      BY <1>a, <2>1, <3>1, <3>2 DEF WorkFills, KeepsAll
    <3> QED
      BY <2>1, <2>2, <3>3, WorkKeepsFilled DEF s
  <2>3. CASE CatchFatal("classical_optimization")
    BY <2>1, <2>3, CatchFills
  <2>4. CASE Escape("classical_optimization", "text")
    BY <2>1, <2>4, EscapeFills
  <2> QED
    BY <1>3, <2>2, <2>3, <2>4 DEF ClassicalOptimization
<1>4. CASE QuantumDispatch
  <2>1. Enters("quantum_dispatch") /\ state.explanation = {}
    BY <1>4, EntersSound DEF QuantumDispatch
  <2>2. ASSUME NEW q \in QuantumResult, Return("quantum_dispatch",
                        Completed("quantum_dispatch", [state EXCEPT !.quantum = {q}]))
        PROVE  OutcomeInv'
    <3> DEFINE s == Completed("quantum_dispatch", [state EXCEPT !.quantum = {q}])
    <3>1. s \in State
      BY <1>0, SetFields
    <3>2. WorkFills("quantum_dispatch", s)
      BY <1>0, <1>a, <2>1, <3>1 DEF WorkFills, Completed, State
    <3> QED
      BY <2>1, <2>2, <3>2, WorkKeepsFilled
  <2>3. CASE Return("quantum_dispatch", Completed("quantum_dispatch",
               [state EXCEPT !.warnings = Append(@, "quantum")]))
    <3> DEFINE list == Append(state.warnings, "quantum")
               s == Completed("quantum_dispatch", [state EXCEPT !.warnings = list])
    <3>1. /\ list \in Seq(Warnings) /\ "quantum" \in ToSet(list)
          /\ \A w \in ToSet(state.warnings) : w \in ToSet(list)
      BY <1>b, AppendKeeps DEF Warnings
    <3>2. Return("quantum_dispatch", s)
      BY <1>0, <2>3 DEF State
    <3> HIDE DEF list
    <3>3. s \in State
      BY <1>0, <3>1, SetFields
    <3>4. WorkFills("quantum_dispatch", s)
      BY <1>0, <1>a, <2>1, <3>1, <3>3 DEF WorkFills, Completed, State
    <3> QED
      BY <2>1, <3>2, <3>4, WorkKeepsFilled
  <2> QED
    BY <1>4, <2>2, <2>3 DEF QuantumDispatch
<1>5. CASE Comparison
  <2>1. Enters("comparison") /\ state.explanation = {}
    BY <1>5, EntersSound DEF Comparison
  <2>2. CASE Return("comparison", Completed("comparison",
               [state EXCEPT !.comparison = Recommendation(state.classical, state.quantum)]))
    <3> DEFINE c == Recommendation(state.classical, state.quantum)
               s == Completed("comparison", [state EXCEPT !.comparison = c])
    <3>1. c \in Recommendations
      BY <1>0, StateShape, RecommendationFits
    <3> HIDE DEF c
    <3>2. s \in State
      BY <1>0, <3>1, SetFields
    <3>3. s.comparison = c /\ s.classical = state.classical /\ s.quantum = state.quantum
      BY <1>0 DEF Completed, State
    <3>4. WorkFills("comparison", s)
      BY <1>0, <1>a, <2>1, <3>2, <3>3 DEF WorkFills, Completed, State, c
    <3> QED
      BY <2>1, <2>2, <3>4, WorkKeepsFilled DEF c
  <2>3. CASE Return("comparison", Completed("comparison", state))
    <3> DEFINE s == Completed("comparison", state)
    <3>1. s \in State
      BY <1>0, SetFields
    <3>2. state.comparison \in {"none", Recommendation(state.classical, state.quantum)}
      BY DEF OutcomeInv, Filled
    <3>3. WorkFills("comparison", s)
      BY <1>0, <1>a, <2>1, <3>1, <3>2 DEF WorkFills, Completed, State
    <3> QED
      BY <2>1, <2>3, <3>3, WorkKeepsFilled
  <2> QED
    BY <1>5, <2>2, <2>3 DEF Comparison
<1>6. CASE FrontierComputation
  <2>1. Enters("frontier_computation") /\ state.explanation = {}
    BY <1>6, EntersSound DEF FrontierComputation
  <2>2. CASE SweepRaises
    <3> DEFINE list == Append(state.warnings, "frontier")
               s == Completed("frontier_computation", [state EXCEPT !.warnings = list])
    <3>1. /\ list \in Seq(Warnings) /\ "frontier" \in ToSet(list)
          /\ \A w \in ToSet(state.warnings) : w \in ToSet(list)
      BY <1>b, AppendKeeps DEF Warnings
    <3>2. Return("frontier_computation", s)
      BY <1>0, <1>6, <2>2 DEF FrontierComputation, State
    <3> HIDE DEF list
    <3>3. s \in State
      BY <1>0, <3>1, SetFields
    <3>4. WorkFills("frontier_computation", s)
      BY <1>0, <1>a, <2>1, <3>1, <3>3 DEF WorkFills, Completed, State
    <3> QED
      BY <2>1, <3>2, <3>4, WorkKeepsFilled
  <2>3. CASE ~SweepRaises
    <3> DEFINE s == Completed("frontier_computation", [state EXCEPT !.frontier = request.frontier])
    <3>1. request.frontier \in {"empty", "single", "sweep"}
      BY <1>0, <2>1, <2>3 DEF OutcomeInv, SweepRaises, Request, Enters
    <3>2. s \in State
      BY <1>0, <3>1, SetFields
    <3>3. WorkFills("frontier_computation", s)
      BY <1>0, <1>a, <2>1, <3>1, <3>2 DEF WorkFills, Completed, State
    <3>4. Return("frontier_computation", s)
      BY <1>6, <2>3 DEF FrontierComputation
    <3> QED
      BY <2>1, <3>3, <3>4, WorkKeepsFilled
  <2> QED
    BY <2>2, <2>3
<1>7. CASE LlmExplanation
  <2>1. Enters("llm_explanation") /\ state.explanation = {}
    BY <1>7, EntersSound DEF LlmExplanation
  <2>2. PICK text \in Texts(state) : Return("llm_explanation",
                Completed("llm_explanation", [state EXCEPT !.explanation = text]))
    BY <1>7 DEF LlmExplanation, Explanations, ModelText, Texts
  <2> DEFINE s == Completed("llm_explanation", [state EXCEPT !.explanation = text])
  <2>3. text \in SUBSET Topics
    <3>1. Template(state.classical, state.quantum, state.comparison, state.warnings)
            \subseteq Topics
      BY <1>b, TemplateFits
    <3> QED
      BY <2>2, <3>1 DEF Texts, Topics
  <2>4. s \in State
    BY <1>0, <2>3, SetFields
  <2>5. s.explanation = text /\ Texts(s) = Texts(state)
    BY <1>0 DEF Completed, State, Texts
  <2>6. WorkFills("llm_explanation", s)
    BY <1>0, <1>a, <2>2, <2>4, <2>5 DEF WorkFills, Completed, State
  <2> QED
    BY <2>1, <2>2, <2>6, WorkKeepsFilled
<1>8. ASSUME NEW n \in Nodes, UnexpectedException(n) PROVE OutcomeInv'
  <2>1. PICK msg \in Messages : Escape(n, msg)
    BY <1>8 DEF UnexpectedException
  <2>2. msg \in {"text", ""}
    BY <2>1 DEF Messages
  <2> QED
    BY <1>8, <2>1, <2>2, EscapeFills DEF UnexpectedException
<1>9. ASSUME NEW n \in Nodes, Skip(n) PROVE OutcomeInv'
  BY <1>9, SkipFills
<1> QED
  BY <1>1, <1>2, <1>3, <1>4, <1>5, <1>6, <1>7, <1>8, <1>9 DEF Next

LEMMA OutcomeHolds == Spec => []OutcomeInv
<1>1. Init => OutcomeInv
  <2> SUFFICES ASSUME Init PROVE OutcomeInv
    OBVIOUS
  <2>1. request \in Request /\ request.assets \in 1..MaxAssets
    BY DEF Init, Request
  <2>2. <<>> \in Seq(Warnings) /\ events \in Seq(EventType) /\ DOMAIN events = {}
    BY DEF Init
  <2>3. state \in State
    BY <2>1, <2>2 DEF Init, State, Warnings
  <2>4. node = "data_fetch" /\ Place(node) = 1
    BY DEF Init, Place
  <2>5. Blamed(state)
    BY DEF Init, Blamed
  <2>6. Filled(state)
    BY <2>2, <2>4 DEF Init, Filled, Announced
  <2> QED
    BY <2>1, <2>2, <2>3, <2>4, <2>5, <2>6
       DEF OutcomeInv, TypeOK, EventType, Nodes, Fatal, NonFatal
<1>2. OutcomeInv /\ [Next]_vars => OutcomeInv'
  <2>1. CASE UNCHANGED vars
    BY <2>1 DEF vars, OutcomeInv, TypeOK, Blamed, Filled, Announced, Texts
  <2> QED
    BY <2>1, NextFills
<1> QED
  BY <1>1, <1>2, PTL DEF Spec

\* A run is answered, classical result and explanation, unless a node that may
\* fail it did: for every request, every set of nodes an exception may escape
\* from and every exception that has a message. And the task can count on the
\* detail whatever the exceptions say.
THEOREM RunsAreAnswered == Spec => []AnsweredUnlessFatal
<1>1. OutcomeInv /\ GraphInv => AnsweredUnlessFatal
  <2> SUFFICES ASSUME OutcomeInv, GraphInv PROVE AnsweredUnlessFatal
    OBVIOUS
  <2>1. state \in State
    BY DEF OutcomeInv, TypeOK
  <2>2. Failed(state) => state.failed_node \in Fatal \cup Surprises
    BY DEF OutcomeInv, Blamed, Failed
  <2>3. RunDetail \in RR!Detail
    BY <2>1, StateShape DEF RunDetail, RR!Detail, RR!Terminal, OutcomeInv, Filled
  <2>4. ASSUME ~request.blank_errors, Done, RunDetail.status = "completed"
        PROVE  RunDetail.classical /\ RunDetail.explained /\ "no_classical" \notin state.explanation
    <3>1. state.error = "none"
      BY <2>4 DEF GraphInv, Untouched, Over, RunDetail
    <3>2. node = "END" /\ Place(node) = 8
      BY <2>4 DEF Done, Place
    <3>3. state.classical /\ state.explanation \in Texts(state) /\ state.explanation # {}
      BY <3>1, <3>2 DEF OutcomeInv, Filled
    <3>4. "no_classical" \notin
             Template(state.classical, state.quantum, state.comparison, state.warnings)
      BY <2>1, <3>3, StateShape, TemplateFits DEF OutcomeInv, Filled
    <3> QED
      BY <3>3, <3>4 DEF Texts, RunDetail
  <2> QED
    BY <2>2, <2>3, <2>4 DEF AnsweredUnlessFatal
<1> QED
  BY <1>1, OutcomeHolds, InvariantHolds, PTL

\* What is missing from a run is explained and what is said of its quantum
\* result is so, for every number of warnings, every gain and every request.
THEOREM ExplanationsFit == Spec => []ExplanationFits
<1>1. OutcomeInv => ExplanationFits
  <2> SUFFICES ASSUME OutcomeInv, Done, ~Failed(state) PROVE ExplanationFits
    BY DEF ExplanationFits
  <2>1. state \in State
    BY DEF OutcomeInv, TypeOK
  <2>2. /\ Announced("quantum_dispatch", "completed") /\ state.quantum = {}
             => "quantum" \in ToSet(state.warnings)
        /\ Announced("frontier_computation", "completed") /\ state.frontier = "none"
             => "frontier" \in ToSet(state.warnings)
    BY DEF OutcomeInv, Filled
  <2> DEFINE text == Template(state.classical, state.quantum, state.comparison, state.warnings)
  <2>3. Templated => state.explanation = text
    BY DEF OutcomeInv, Filled, Templated, Texts
  <2>4. /\ state.classical \in BOOLEAN /\ state.quantum \in QuantumSlot
        /\ state.warnings \in Seq(Warnings)
        /\ state.comparison \in {"none", Recommendation(state.classical, state.quantum)}
    BY <2>1, StateShape DEF OutcomeInv, Filled
  <2>5. /\ "frontier" \in ToSet(state.warnings) => {"frontier", "more"} \cap text # {}
        /\ \A q \in state.quantum :
             LET gains == q.qaoa \cup q.vqe
             IN  /\ gains # {} => "not_run" \notin text
                 /\ "qaoa" \in text => \E g \in q.qaoa : g > 1 /\ \A h \in gains : g >= h
                 /\ "vqe" \in text => \E g \in q.vqe : g > 1 /\ \A h \in gains : g >= h
                 /\ {"classical_better", "comparable"} \cap text # {} => \A g \in gains : g <= 0
    BY <2>4, TemplateFits
  <2> HIDE DEF text
  <2> QED
    BY <2>2, <2>3, <2>5 DEF ExplanationFits
<1> QED
  BY <1>1, OutcomeHolds, PTL

=============================================================================
