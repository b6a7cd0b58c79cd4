--------------------------- MODULE RunTaskProofs ----------------------------
(***************************************************************************)
(* Proofs about RunTask for every set of messages, retry limit, number of  *)
(* lost workers and set of faults: the executions and the row first, then  *)
(* what a run's clients are told and what they find stored: how often the  *)
(* task is attempted, when a failure is final, that there is one verdict,  *)
(* that it was stored before it was told and that the stored results come  *)
(* from one execution.                                                     *)
(***************************************************************************)
EXTENDS RunTask, FiniteSums

-----------------------------------------------------------------------------
(* The row: what a flush can leave in its columns.                         *)

LEMMA RowShape ==
  ASSUME NEW r \in Row
  PROVE  /\ r.status \in Status
         /\ r.error \in BOOLEAN /\ r.ended \in BOOLEAN
         /\ r.classical \in Nat /\ r.quantum \in Nat /\ r.explanation \in Nat
  BY DEF Row

LEMMA NewRowType ==
  ASSUME NEW s \in Status
  PROVE  NewRow(s) \in Row /\ NewRow(s).status = s
  BY DEF NewRow, Row

LEMMA NoRowType == NoRow \in Row /\ NoRow.status = "absent"
  BY NewRowType DEF NoRow, Status

LEMMA MarkRunningType ==
  ASSUME NEW r \in Row
  PROVE  MarkRunning(r) \in Row /\ MarkRunning(r).status = "running"
  BY DEF MarkRunning, Row, Status, Terminal

LEMMA MarkFailedType ==
  ASSUME NEW r \in Row
  PROVE  MarkFailed(r) \in Row /\ MarkFailed(r).status = "failed"
  BY DEF MarkFailed, Row, Status, Terminal

LEMMA DetailShape ==
  ASSUME NEW d \in Detail
  PROVE  /\ d.status \in {"completed", "failed"}
         /\ d.classical \in BOOLEAN /\ d.quantum \in BOOLEAN /\ d.explained \in BOOLEAN
  BY DEF Detail, Terminal

LEMMA MarkCompletedType ==
  ASSUME NEW r \in Row, NEW d \in Detail, NEW a \in Nat
  PROVE  MarkCompleted(r, d, a) \in Row /\ MarkCompleted(r, d, a).status = "completed"
  BY DetailShape DEF MarkCompleted, Row, Status, Terminal

LEMMA FlushType ==
  ASSUME NEW r \in Row, NEW s \in Row, NEW t \in Row
  PROVE  /\ Flush(r, s, t) \in Row
         /\ Flush(r, s, t).status = IF s.status = r.status THEN t.status ELSE s.status
  BY DEF Flush, Column, Row

LEMMA EndExecutionType ==
  ASSUME TypeOK, NEW m \in Msgs, EndExecution(m)
  PROVE  /\ seen' \in [Msgs -> Row]
         /\ detail' \in [Msgs -> Detail \cup {NoDetail}]
         /\ \A n \in Msgs : n # m => detail'[n] = detail[n]
         /\ soft' \in [Msgs -> BOOLEAN]
         /\ att' \in [Msgs -> Nat]
  BY NoRowType DEF TypeOK, EndExecution, CloseSession, DropDetail

LEMMA PublishType ==
  ASSUME TypeOK, NEW m \in Msgs,
         NEW kind \in {"progress", "retrying", "result", "error"}, Publish(m, kind)
  PROVE  events' \in SUBSET Event
  BY DEF TypeOK, Publish, Event

-----------------------------------------------------------------------------
(* Type correctness.                                                       *)

\* A detail is only written back where run_agent_graph returned one.
HoldsDetail == \A m \in Msgs : pc[m] \in {"read", "write"} => detail[m] \in Detail

LEMMA TypeAndDetail == Spec => [](TypeOK /\ HoldsDetail)
<1> DEFINE IInv == TypeOK /\ HoldsDetail
<1>1. Init => IInv
  BY Assumptions, NoRowType
     DEF Init, TypeOK, HoldsDetail, Api, PC, Pipeline, Handlers
<1>2. IInv /\ [Next]_vars => IInv'
  <2> SUFFICES ASSUME IInv, [Next]_vars PROVE IInv'
    OBVIOUS
  <2> USE Assumptions DEF TypeOK, HoldsDetail
  <2>1. CASE UNCHANGED vars
    BY <2>1 DEF vars, local
  <2>2. CASE Submit \/ DispatchFails \/ Commit \/ CommitFails
    BY <2>2, NewRowType DEF Submit, DispatchFails, Commit, CommitFails, local, Api, Status
  <2>3. ASSUME NEW m \in Msgs, Dispatch(m) PROVE IInv'
    BY <2>3 DEF Dispatch, Goto, local, Api, PC
  <2>4. ASSUME NEW m \in Msgs, Execute(m) PROVE IInv'
    <3> USE DEF Goto, local, PC, Pipeline, Handlers
    <3>1. CASE Deliver(m)
      BY <3>1 DEF Deliver
    <3>2. CASE SelectRun(m) \/ ReadForCompleted(m) \/ GraphReturns(m)
      BY <3>2 DEF SelectRun, ReadForCompleted, GraphReturns
    <3>3. CASE EnterRunning(m)
      BY <3>3, NoRowType, MarkRunningType, FlushType
         DEF EnterRunning, CloseSession, Publish, Event
    <3>4. CASE CreateRun(m)
      BY <3>4, NewRowType DEF CreateRun, Publish, Event, Status
    <3>5. CASE WriteCompleted(m)
      BY <3>5, NoRowType, MarkCompletedType, FlushType
         DEF WriteCompleted, CloseSession, DropDetail
    <3>6. CASE PublishResult(m) \/ Ack(m)
      BY <3>6, EndExecutionType, PublishType DEF PublishResult, Ack
    <3>7. CASE ScheduleRetry(m)
      BY <3>7, EndExecutionType, PublishType DEF ScheduleRetry, TellOfRetry
    <3>8. CASE PublishError(m)
      BY <3>8 DEF PublishError, Publish, Event
    <3>9. CASE ReadForFailed(m) \/ FailureHasNoRow(m)
      BY <3>9, EndExecutionType DEF ReadForFailed, FailureHasNoRow
    <3>10. CASE WriteFailed(m)
      BY <3>10, EndExecutionType, MarkFailedType, FlushType DEF WriteFailed
    <3> QED
      BY <2>4, <3>1, <3>2, <3>3, <3>4, <3>5, <3>6, <3>7, <3>8, <3>9, <3>10 DEF Execute
  <2>5. ASSUME NEW m \in Msgs, Fault(m) PROVE IInv'
    <3> USE DEF Goto, local, PC, Pipeline, Handlers
    <3>1. CASE EnterFails(m) \/ GraphRaises(m) \/ CompletedNotPersisted(m)
      BY <3>1, NoRowType
         DEF EnterFails, GraphRaises, CompletedNotPersisted, CloseSession, DropDetail
    <3>2. CASE RetryNotPublished(m) \/ FailureNotPersisted(m)
      BY <3>2, EndExecutionType, PublishType
         DEF RetryNotPublished, TellOfRetry, FailureNotPersisted
    <3>3. CASE SoftLimitAtEnd(m) \/ HardLimit(m) \/ WorkerLost(m)
      BY <3>3, EndExecutionType DEF SoftLimitAtEnd, HardLimit, WorkerLost
    <3>4. CASE SoftLimit(m)
      BY <3>4, NoRowType DEF SoftLimit, SoftLimitFires, CloseSession
    <3>5. CASE SoftLimitLate(m)
      BY <3>5, NoRowType DEF SoftLimitLate, SoftLimitFires, CloseSession, DropDetail
    <3>6. CASE ErrorEventEaten(m)
      BY <3>6, PublishType DEF ErrorEventEaten, SoftLimitFires
    <3> QED
      BY <2>5, <3>1, <3>2, <3>3, <3>4, <3>5, <3>6 DEF Fault
  <2> QED
    BY <2>1, <2>2, <2>3, <2>4, <2>5 DEF Next, ApiStep
<1>3. QED
  BY <1>1, <1>2, PTL DEF Spec

\* Every variable has its type in every reachable state: in particular no
\* message carries more retries than max_retries.
THEOREM TypeCorrect == Spec => []TypeOK
  BY TypeAndDetail, PTL

-----------------------------------------------------------------------------
(* One execution at a time.                                                *)

\* Before the request dispatches, no message exists: this is what makes the
\* dispatched one the first.
NothingSent == api \in {"idle", "open"} => \A m \in Msgs : pc[m] = "unsent"

LEMMA SingleAndNothingSent == Spec => [](SingleExecution /\ NothingSent)
<1> DEFINE IInv == SingleExecution /\ NothingSent
<1>1. Init => IInv
  BY DEF Init, SingleExecution, NothingSent, Live
<1>2. TypeOK /\ IInv /\ [Next]_vars => IInv'
  <2> SUFFICES ASSUME TypeOK, IInv, [Next]_vars PROVE IInv'
    OBVIOUS
  <2> USE DEF SingleExecution, NothingSent, Live
  <2>0. pc \in [Msgs -> PC] /\ crashes \in Nat
    BY Assumptions DEF TypeOK
  <2>1. CASE UNCHANGED vars
    BY <2>1 DEF vars
  <2>2. CASE Submit \/ DispatchFails \/ Commit \/ CommitFails
    BY <2>2 DEF Submit, DispatchFails, Commit, CommitFails
  <2>3. ASSUME NEW m \in Msgs, Dispatch(m) PROVE IInv'
    BY <2>0, <2>3 DEF Dispatch, Goto
  <2>4. ASSUME NEW m \in Msgs, WorkerLost(m) PROVE IInv'
    BY <2>0, <2>4, Assumptions DEF WorkerLost, Executing, Pipeline, Handlers, Goto
  <2>5. ASSUME NEW m \in Msgs, ScheduleRetry(m) PROVE IInv'
    BY <2>0, <2>5 DEF ScheduleRetry
  <2>6. ASSUME NEW m \in Msgs, Execute(m) \/ Fault(m),
               ~WorkerLost(m), ~ScheduleRetry(m)
        PROVE  IInv'
    <3>1. /\ pc[m] \notin {"unsent", "acked"}
          /\ \A n \in Msgs : n # m => pc'[n] = pc[n]
          /\ pc[m] = "ack" => pc'[m] = "acked"
          /\ UNCHANGED <<api, crashes>>
      <4> USE <2>0, <2>6 DEF Goto
      <4>1. CASE Execute(m)
        BY <4>1 DEF Execute, Deliver, SelectRun, EnterRunning, CreateRun, GraphReturns,
             ReadForCompleted, WriteCompleted, PublishResult, PublishError,
             ReadForFailed, FailureHasNoRow, WriteFailed, Ack
      <4>2. CASE Fault(m)
        BY <4>2 DEF Fault, EnterFails, GraphRaises, CompletedNotPersisted,
             RetryNotPublished, FailureNotPersisted, SoftLimit, SoftLimitLate,
             SoftLimitAtEnd, ErrorEventEaten, SoftLimitFires, HardLimit, Executing, Pipeline,
             Handlers
      <4> QED
        BY <4>1, <4>2, <2>6
    <3> QED
      BY <3>1, <2>0
  <2> QED
    BY <2>1, <2>2, <2>3, <2>4, <2>5, <2>6 DEF Next, ApiStep
<1>3. QED
  BY <1>1, <1>2, TypeCorrect, PTL DEF Spec

\* As long as no worker process is lost, a run is never executed by two
\* messages at a time, for any number of messages, retries and other faults:
\* only ScheduleRetry adds a message, and it ends the execution that adds it.
THEOREM NeverTwoExecutions == Spec => []SingleExecution
  BY SingleAndNothingSent, PTL

-----------------------------------------------------------------------------
(* The row is created once and never pending again.                        *)

\* The row exists wherever an execution counts on it, and does not exist
\* before the request commits, unless the request gave up.
RowBehind ==
  /\ \A m \in Msgs :
       \/ pc[m] \in {"graph", "read", "write", "publish", "failwrite"}
       \/ seen[m].status # "absent"
       => row.status # "absent"
  /\ api \in {"idle", "open", "dispatched"} => row.status = "absent"

\* What one step does to the row, whatever the step.
RowStep ==
  \/ row' = row
  \/ Commit
  \/ \E m \in Msgs : CreateRun(m) /\ row.status = "absent" /\ row' = NewRow("running")
  \/ \E m \in Msgs :
       /\ EnterRunning(m)
       /\ row'.status = IF seen[m].status = "running" THEN row.status ELSE "running"
  \/ \E m \in Msgs :
       /\ WriteCompleted(m)
       /\ row'.status = IF seen[m].status = "completed" THEN row.status ELSE "completed"
  \/ \E m \in Msgs :
       /\ WriteFailed(m)
       /\ row'.status = IF seen[m].status = "failed" THEN row.status ELSE "failed"

LEMMA RowStepHolds ==
  ASSUME TypeOK, HoldsDetail, [Next]_vars
  PROVE  RowStep
<1>1. CASE UNCHANGED vars
  BY <1>1 DEF vars, RowStep
<1>2. CASE Submit \/ DispatchFails \/ Commit \/ CommitFails
  BY <1>2 DEF Submit, DispatchFails, CommitFails, RowStep
<1>3. ASSUME NEW m \in Msgs, Dispatch(m) PROVE RowStep
  BY <1>3 DEF Dispatch, RowStep
<1>4. ASSUME NEW m \in Msgs, Execute(m) PROVE RowStep
  <2>1. seen[m] \in Row /\ row \in Row /\ att[m] \in Nat
    BY DEF TypeOK
  <2>2. CASE EnterRunning(m)
    BY <2>1, <2>2, MarkRunningType, FlushType DEF EnterRunning, RowStep
  <2>3. CASE WriteCompleted(m)
    <3>1. detail[m] \in Detail
      BY <2>3 DEF WriteCompleted, HoldsDetail
    <3> QED
      BY <2>1, <2>3, <3>1, MarkCompletedType, FlushType DEF WriteCompleted, RowStep
  <2>4. CASE WriteFailed(m)
    BY <2>1, <2>4, MarkFailedType, FlushType DEF WriteFailed, RowStep
  <2>5. CASE CreateRun(m)
    BY <2>5 DEF CreateRun, RowStep
  <2> QED
    BY <1>4, <2>2, <2>3, <2>4, <2>5
       DEF Execute, Deliver, SelectRun, GraphReturns, ReadForCompleted, PublishResult,
           ScheduleRetry, PublishError, ReadForFailed, FailureHasNoRow, Ack, RowStep
<1>5. ASSUME NEW m \in Msgs, Fault(m) PROVE RowStep
  BY <1>5 DEF Fault, EnterFails, GraphRaises, CompletedNotPersisted, RetryNotPublished,
     FailureNotPersisted, SoftLimit, SoftLimitLate, SoftLimitAtEnd, ErrorEventEaten, HardLimit,
     WorkerLost,
     RowStep
<1> QED
  BY <1>1, <1>2, <1>3, <1>4, <1>5 DEF Next, ApiStep

LEMMA RowBehindHolds == Spec => []RowBehind
<1>1. Init => RowBehind
  BY NoRowType DEF Init, RowBehind
<1>2. TypeOK /\ HoldsDetail /\ NothingSent /\ RowBehind /\ [Next]_vars => RowBehind'
  <2> SUFFICES ASSUME TypeOK, HoldsDetail, NothingSent, RowBehind, [Next]_vars
               PROVE  RowBehind'
    OBVIOUS
  <2>1. row.status # "absent" => row'.status # "absent"
    BY RowStepHolds, NewRowType DEF RowStep, Commit, Status
  <2>2. ASSUME NEW n \in Msgs,
               \/ pc'[n] \in {"graph", "read", "write", "publish", "failwrite"}
               \/ seen'[n].status # "absent"
        PROVE  row'.status # "absent"
    <3> USE <2>1, <2>2, NoRowType DEF RowBehind
    <3>0. pc \in [Msgs -> PC] /\ seen \in [Msgs -> Row]
      BY DEF TypeOK
    <3>1. CASE \E m \in Msgs : EnterRunning(m) \/ CreateRun(m)
      <4> PICK m \in Msgs : EnterRunning(m) \/ CreateRun(m)
        BY <3>1
      <4>1. \/ row'.status # "absent"
            \/ pc' = [pc EXCEPT ![m] = "raised"] /\ seen' = seen
        <5>1. CASE CreateRun(m)
          BY <5>1, NewRowType DEF CreateRun, Goto, Status, local
        <5>2. CASE EnterRunning(m)
          BY <5>2 DEF EnterRunning
        <5> QED
          BY <5>1, <5>2
      <4> QED
        BY <3>0, <4>1
    <3>2. CASE \E m \in Msgs : Execute(m) /\ ~EnterRunning(m) /\ ~CreateRun(m)
      <4> PICK m \in Msgs : Execute(m) /\ ~EnterRunning(m) /\ ~CreateRun(m)
        BY <3>2
      <4> QED
        BY <3>0
           DEF Execute, Deliver, SelectRun, GraphReturns, ReadForCompleted, WriteCompleted,
               PublishResult, ScheduleRetry, PublishError, ReadForFailed, FailureHasNoRow,
               WriteFailed, Ack, Goto, EndExecution, CloseSession, local
    <3>3. CASE \E m \in Msgs : Fault(m)
      <4> PICK m \in Msgs : Fault(m)
        BY <3>3
      <4> QED
        BY <3>0
           DEF Fault, EnterFails, GraphRaises, CompletedNotPersisted, RetryNotPublished,
               FailureNotPersisted, SoftLimit, SoftLimitLate, SoftLimitAtEnd, ErrorEventEaten,
               SoftLimitFires,
               HardLimit, WorkerLost, Goto, EndExecution, CloseSession, local
    <3>4. CASE \/ Submit \/ ApiStep \/ DispatchFails \/ CommitFails
              \/ UNCHANGED vars
      BY <3>0, <3>4 DEF Submit, ApiStep, Dispatch, Goto, Commit, DispatchFails, CommitFails,
         vars, local
    <3> QED
      BY <3>1, <3>2, <3>3, <3>4 DEF Next
  <2>3. ASSUME api' \in {"idle", "open", "dispatched"} PROVE row'.status = "absent"
    <3>1. row.status = "absent" /\ ~Commit
      <4>1. CASE \E m \in Msgs : Execute(m) \/ Fault(m)
        <5>1. api' = api
          BY <4>1 DEF Execute, Deliver, SelectRun, EnterRunning, CreateRun, GraphReturns,
             ReadForCompleted, WriteCompleted, PublishResult, ScheduleRetry, PublishError,
             ReadForFailed, FailureHasNoRow, WriteFailed, Ack, Fault, EnterFails,
             GraphRaises, CompletedNotPersisted, RetryNotPublished, FailureNotPersisted,
             SoftLimit, SoftLimitLate, SoftLimitAtEnd, ErrorEventEaten, HardLimit, WorkerLost
        <5> QED
          BY <5>1, <2>3 DEF RowBehind, Commit
      <4>2. CASE Submit \/ ApiStep \/ DispatchFails \/ CommitFails \/ UNCHANGED vars
        BY <4>2, <2>3 DEF Submit, ApiStep, Dispatch, Commit, DispatchFails, CommitFails,
           vars, RowBehind
      <4> QED
        BY <4>1, <4>2 DEF Next
    <3>2. ASSUME NEW m \in Msgs
          PROVE  ~CreateRun(m) /\ ~EnterRunning(m) /\ ~WriteCompleted(m) /\ ~WriteFailed(m)
      BY <3>1, <2>3 DEF RowBehind, NothingSent, CreateRun, EnterRunning, WriteCompleted, WriteFailed
    <3> QED
      BY <3>1, <3>2, RowStepHolds DEF RowStep
  <2> QED
    BY <2>2, <2>3 DEF RowBehind
<1>3. QED
  BY <1>1, <1>2, TypeAndDetail, SingleAndNothingSent, PTL DEF Spec

\* Nobody sets the row back to pending and nobody removes it, for any number
\* of messages, faults and lost workers: the worker's INSERT waits for the
\* API's transaction and the API's commit comes before any worker's.
THEOREM RowNeverReset == Spec => NeverBackToPending
<1>1. TypeOK /\ HoldsDetail /\ RowBehind /\ [Next]_vars
      => [/\ row'.status = "pending" => row.status \in {"absent", "pending"}
          /\ row'.status = "absent" => row.status = "absent"]_vars
  BY RowStepHolds, NewRowType DEF RowStep, RowBehind, Commit, Status
<1>2. QED
  BY <1>1, TypeAndDetail, RowBehindHolds, PTL DEF Spec, NeverBackToPending

-----------------------------------------------------------------------------
(* The error event comes before the failed row.                            *)

ErrorSent == \E e \in events : e.kind = "error"

\* No reader of the row can find a failure that was not published first, for
\* any number of messages, faults and lost workers, unless a soft limit fires
\* behind the pipeline: publish_error may eat one with its event.
THEOREM FailuresAreAnnounced == Spec => []FailureWasAnnounced
<1> DEFINE Reporting == (\E m \in Msgs : pc[m] \in {"failread", "failwrite"}) => ErrorSent
           IInv == "softlate" \notin Faults => (row.status = "failed" => ErrorSent) /\ Reporting
<1>1. Init => IInv
  BY NoRowType DEF Init
<1>2. TypeOK /\ HoldsDetail /\ IInv /\ [Next]_vars => IInv'
  <2> SUFFICES ASSUME TypeOK, HoldsDetail, "softlate" \notin Faults, [Next]_vars,
                      row.status = "failed" => ErrorSent, Reporting
               PROVE  (row'.status = "failed" => ErrorSent') /\ Reporting'
    OBVIOUS
  <2>0. pc \in [Msgs -> PC]
    BY DEF TypeOK
  <2>1. events \subseteq events'
    BY DEF Next, vars, Submit, ApiStep, Dispatch, Commit, DispatchFails, CommitFails,
       Execute, Deliver, SelectRun, EnterRunning, CreateRun, GraphReturns,
       ReadForCompleted, WriteCompleted, PublishResult, ScheduleRetry, PublishError,
       ReadForFailed, FailureHasNoRow, WriteFailed, Ack, Fault, EnterFails,
       GraphRaises, CompletedNotPersisted, RetryNotPublished, FailureNotPersisted,
       SoftLimit, SoftLimitLate, SoftLimitAtEnd, ErrorEventEaten, HardLimit, WorkerLost, Publish,
       TellOfRetry
  <2>2. ErrorSent => ErrorSent'
    BY <2>1 DEF ErrorSent
  <2>3. ASSUME row'.status = "failed" PROVE row.status = "failed" \/ ErrorSent
    BY <2>3, RowStepHolds, NewRowType DEF RowStep, Commit, WriteFailed, Status
  <2>4. ASSUME NEW n \in Msgs, pc'[n] \in {"failread", "failwrite"} PROVE ErrorSent'
    <3>1. CASE \E m \in Msgs : PublishError(m)
      <4> PICK m \in Msgs : PublishError(m)
        BY <3>1
      <4>1. [kind |-> "error", att |-> att[m]] \in events'
        BY DEF PublishError, Publish
      <4> QED
        BY <4>1 DEF ErrorSent
    <3>2. CASE \E m \in Msgs : Execute(m) /\ ~PublishError(m)
      <4> PICK m \in Msgs : Execute(m) /\ ~PublishError(m)
        BY <3>2
      <4> QED
        BY <2>0, <2>2, <2>4
           DEF Execute, Deliver, SelectRun, EnterRunning, CreateRun, GraphReturns,
               ReadForCompleted, WriteCompleted, PublishResult, ScheduleRetry,
               ReadForFailed, FailureHasNoRow, WriteFailed, Ack, Goto
    <3>3. CASE \E m \in Msgs : Fault(m)
      BY <2>0, <2>2, <2>4, <3>3
         DEF Fault, EnterFails, GraphRaises, CompletedNotPersisted, RetryNotPublished,
             FailureNotPersisted, SoftLimit, SoftLimitLate, SoftLimitAtEnd, ErrorEventEaten,
             SoftLimitFires,
             HardLimit, WorkerLost, Goto
    <3>4. CASE Submit \/ ApiStep \/ DispatchFails \/ CommitFails \/ UNCHANGED vars
      BY <2>0, <2>2, <2>4, <3>4
         DEF Submit, ApiStep, Dispatch, Commit, DispatchFails, CommitFails, Goto, vars
    <3> QED
      BY <3>1, <3>2, <3>3, <3>4 DEF Next
  <2> QED
    BY <2>2, <2>3, <2>4
<1>3. IInv => FailureWasAnnounced
  BY DEF FailureWasAnnounced, ErrorSent
<1>4. QED
  BY <1>1, <1>2, <1>3, TypeAndDetail, PTL DEF Spec

-----------------------------------------------------------------------------
(* No run is stranded.                                                     *)

\* An execution that, if nothing else happens to it, makes the row terminal or
\* passes the run on: its open session, if any, did not read the very status
\* it is going to write, which the UPDATE would leave out.
Finisher(m) ==
  \/ pc[m] \in {"queued", "select", "enter", "graph", "read", "raised", "timeout", "failread"}
  \/ pc[m] = "write" /\ seen[m].status # "completed"
  \/ pc[m] = "failwrite" /\ seen[m].status # "failed"

SomeFinisher == \E m \in Msgs : Finisher(m)

\* The strengthening of NoStrandedRun: not only is some message alive, one of
\* them is able to finish the run; and the dispatched message waits for the
\* request's commit.
Finishable ==
  /\ row.status \in {"pending", "running"} => SomeFinisher
  /\ api = "dispatched" => \E m \in Msgs : pc[m] \in {"queued", "select", "enter"}

LEMMA OthersKeepFinishing ==
  ASSUME TypeOK, NEW m \in Msgs, Execute(m) \/ Fault(m), NEW n \in Msgs, n # m, Finisher(n)
  PROVE  Finisher(n)'
<1>0. pc \in [Msgs -> PC] /\ seen \in [Msgs -> Row]
  BY DEF TypeOK
<1>1. pc'[n] = pc[n] /\ seen'[n] = seen[n]
  <2>1. CASE Execute(m) /\ ~ScheduleRetry(m)
    BY <1>0, <2>1
       DEF Execute, Deliver, SelectRun, EnterRunning, CreateRun, GraphReturns,
           ReadForCompleted, WriteCompleted, PublishResult, PublishError,
           ReadForFailed, FailureHasNoRow, WriteFailed, Ack, Goto, CloseSession,
           EndExecution, local
  <2>2. CASE ScheduleRetry(m)
    BY <1>0, <2>2 DEF ScheduleRetry, CloseSession, EndExecution, Finisher
  <2>3. CASE Fault(m)
    BY <1>0, <2>3
       DEF Fault, EnterFails, GraphRaises, CompletedNotPersisted, RetryNotPublished,
           FailureNotPersisted, SoftLimit, SoftLimitLate, SoftLimitAtEnd, ErrorEventEaten,
           SoftLimitFires,
           HardLimit, WorkerLost, Goto, CloseSession, EndExecution, local
  <2> QED
    BY <2>1, <2>2, <2>3
<1> QED
  BY <1>1 DEF Finisher

LEMMA FinisherPassesOn ==
  ASSUME TypeOK, HoldsDetail, [Next]_vars, Recoverable,
         NEW m \in Msgs, Execute(m) \/ Fault(m), Finisher(m),
         row.status \in {"pending", "running"}
  PROVE  SomeFinisher' \/ row'.status \in Terminal
<1> USE DEF SomeFinisher, Finisher
<1>0. pc \in [Msgs -> PC] /\ seen \in [Msgs -> Row] /\ row \in Row
  BY DEF TypeOK
<1>1. CASE WriteCompleted(m) \/ WriteFailed(m)
  <2>1. seen[m] \in Row /\ att[m] \in Nat
    BY DEF TypeOK
  <2>2. CASE WriteCompleted(m)
    <3>1. detail[m] \in Detail
      BY <2>2 DEF WriteCompleted, HoldsDetail
    <3> QED
      BY <1>0, <2>1, <2>2, <3>1, MarkCompletedType, FlushType DEF WriteCompleted, Terminal
  <2>3. CASE WriteFailed(m)
    BY <1>0, <2>1, <2>3, MarkFailedType, FlushType DEF WriteFailed, Terminal
  <2> QED
    BY <1>1, <2>2, <2>3
<1>2. CASE ScheduleRetry(m)
  BY <1>0, <1>2 DEF ScheduleRetry
<1>3. CASE Execute(m) /\ ~WriteCompleted(m) /\ ~WriteFailed(m) /\ ~ScheduleRetry(m)
  BY <1>0, <1>3
     DEF Execute, Deliver, SelectRun, EnterRunning, CreateRun, GraphReturns,
         ReadForCompleted, PublishResult, PublishError, ReadForFailed, FailureHasNoRow,
         Ack, Goto
<1>4. CASE Fault(m)
  BY <1>0, <1>4
     DEF Recoverable, Fault, EnterFails, GraphRaises, CompletedNotPersisted,
         RetryNotPublished, FailureNotPersisted, SoftLimit, SoftLimitLate, SoftLimitAtEnd,
         ErrorEventEaten,
         SoftLimitFires, HardLimit, WorkerLost, Goto
<1> QED
  BY <1>1, <1>2, <1>3, <1>4

\* Late acknowledgement and reject-on-worker-lost do their job: whatever
\* workers are lost, attempts fail and time limits fire, a run that is not
\* terminal still has a message able to finish it, for any retry limit and any
\* number of losses. TLC's run shows the same for one loss.
THEOREM RunsAreNotStranded == Spec => []NoStrandedRun
<1> DEFINE IInv == Recoverable => Finishable
<1>1. Init => IInv
  BY NoRowType DEF Init, Finishable
<1>2. TypeOK /\ HoldsDetail /\ RowBehind /\ IInv /\ [Next]_vars => IInv'
  <2> SUFFICES ASSUME TypeOK, HoldsDetail, RowBehind, Finishable, Recoverable, [Next]_vars
               PROVE  Finishable'
    BY DEF Recoverable
  <2>0. pc \in [Msgs -> PC] /\ seen \in [Msgs -> Row] /\ row \in Row
    BY DEF TypeOK
  <2>1. CASE Submit \/ ApiStep \/ DispatchFails \/ CommitFails \/ UNCHANGED vars
    <3>1. CASE \E m \in Msgs : Dispatch(m)
      <4> PICK m \in Msgs : Dispatch(m)
        BY <3>1
      <4>1. row' = row /\ seen' = seen /\ pc' = [pc EXCEPT ![m] = "queued"]
        BY DEF Dispatch, Goto, local
      <4> QED
        BY <2>0, <4>1 DEF Finishable, SomeFinisher, Finisher
    <3>2. CASE Commit
      BY <2>0, <3>2 DEF Commit, Finishable, SomeFinisher, Finisher
    <3>3. CASE Submit \/ DispatchFails \/ CommitFails \/ UNCHANGED vars
      BY <3>3 DEF Submit, DispatchFails, CommitFails, vars, local, Finishable, SomeFinisher, Finisher
    <3> QED
      BY <2>1, <3>1, <3>2, <3>3 DEF ApiStep
  <2>2. ASSUME NEW m \in Msgs, Execute(m) \/ Fault(m) PROVE Finishable'
    <3>1. api' = api
      BY <2>2 DEF Execute, Deliver, SelectRun, EnterRunning, CreateRun, GraphReturns,
         ReadForCompleted, WriteCompleted, PublishResult, ScheduleRetry, PublishError,
         ReadForFailed, FailureHasNoRow, WriteFailed, Ack, Fault, EnterFails,
         GraphRaises, CompletedNotPersisted, RetryNotPublished, FailureNotPersisted,
         SoftLimit, SoftLimitLate, SoftLimitAtEnd, ErrorEventEaten, HardLimit, WorkerLost
    <3>2. ASSUME row'.status \in {"pending", "running"} PROVE SomeFinisher'
      <4>1. CASE row.status \in {"pending", "running"}
        <5> PICK n \in Msgs : Finisher(n)
          BY <4>1 DEF Finishable, SomeFinisher
        <5>1. CASE n = m
          BY <2>2, <3>2, <4>1, <5>1, FinisherPassesOn DEF Terminal
        <5>2. CASE n # m
          BY <2>2, <5>2, OthersKeepFinishing DEF SomeFinisher
        <5> QED
          BY <5>1, <5>2
      <4>2. CASE row.status \notin {"pending", "running"}
        <5>1. ~Commit
          BY <3>1 DEF Commit
        <5>2. \E n \in Msgs : EnterRunning(n) \/ (CreateRun(n) /\ row.status = "absent")
          BY <3>2, <4>2, <5>1, RowStepHolds DEF RowStep
        <5> PICK n \in Msgs : EnterRunning(n) \/ (CreateRun(n) /\ row.status = "absent")
          BY <5>2
        <5>3. pc'[n] = "graph"
          BY <2>0, NewRowType DEF EnterRunning, CreateRun, Goto, Status
        <5> QED
          BY <5>3 DEF SomeFinisher, Finisher
      <4> QED
        BY <4>1, <4>2
    <3>3. ASSUME api = "dispatched"
          PROVE  \E n \in Msgs : pc'[n] \in {"queued", "select", "enter"}
      <4> PICK n \in Msgs : pc[n] \in {"queued", "select", "enter"}
        BY <3>3 DEF Finishable
      <4>1. row.status = "absent" /\ seen[n].status = "absent"
        BY <3>3 DEF RowBehind
      <4>2. CASE Execute(m)
        BY <2>0, <3>3, <4>1, <4>2
           DEF Execute, Deliver, SelectRun, EnterRunning, CreateRun, GraphReturns,
               ReadForCompleted, WriteCompleted, PublishResult, ScheduleRetry, PublishError,
               ReadForFailed, FailureHasNoRow, WriteFailed, Ack, Goto
      <4>3. CASE Fault(m)
        BY <2>0, <3>3, <4>3
           DEF Recoverable, Fault, EnterFails, GraphRaises, CompletedNotPersisted,
               RetryNotPublished, FailureNotPersisted, SoftLimit, SoftLimitLate,
               SoftLimitAtEnd, ErrorEventEaten, SoftLimitFires, HardLimit, WorkerLost, Goto
      <4> QED
        BY <2>2, <4>2, <4>3
    <3> QED
      BY <3>1, <3>2, <3>3 DEF Finishable
  <2> QED
    BY <2>1, <2>2 DEF Next
<1>3. IInv => NoStrandedRun
  BY DEF Finishable, SomeFinisher, Finisher, NoStrandedRun, Live
<1>4. QED
  BY <1>1, <1>2, <1>3, TypeAndDetail, RowBehindHolds, PTL DEF Spec

-----------------------------------------------------------------------------
(* Without lost workers and time limits the task implements RunLifecycle.  *)

Quiet == Faults \cap {"crash", "soft", "softlate"} = {}

\* How the row stands to an execution at each point of it: not terminal until
\* it wrote the outcome, running from EnterRunning on, and what it SELECTed is
\* still there when it writes, save that the request may have committed.
Calm(m) ==
  /\ pc[m] # "timeout"
  /\ Live(m) /\ pc[m] # "publish" => row.status \notin Terminal
  /\ pc[m] \in {"graph", "read", "write"} => row.status = "running"
  /\ pc[m] = "enter" => seen[m].status \in {"absent", row.status}
  /\ pc[m] \in {"write", "failwrite"} => seen[m].status = row.status

AllCalm == crashes = 0 /\ \A m \in Msgs : Calm(m)

LEMMA CalmKept ==
  ASSUME TypeOK, HoldsDetail, RowBehind, NothingSent, SingleExecution, AllCalm, Quiet,
         [Next]_vars
  PROVE  AllCalm'
<1> USE DEF AllCalm, Calm, Live
<1>0. pc \in [Msgs -> PC] /\ seen \in [Msgs -> Row] /\ row \in Row
  BY DEF TypeOK
<1>1. CASE \E m \in Msgs : Execute(m) \/ Fault(m)
  <2> PICK m \in Msgs : Execute(m) \/ Fault(m)
    BY <1>1
  <2>1. Live(m) \/ pc[m] = "ack"
    BY Assumptions
       DEF Quiet, Execute, Deliver, SelectRun, EnterRunning, CreateRun, GraphReturns,
           ReadForCompleted, WriteCompleted, PublishResult, ScheduleRetry, PublishError,
           ReadForFailed, FailureHasNoRow, WriteFailed, Ack, Fault, EnterFails,
           GraphRaises, CompletedNotPersisted, RetryNotPublished, FailureNotPersisted,
           SoftLimit, SoftLimitLate, SoftLimitAtEnd, ErrorEventEaten, HardLimit, WorkerLost,
           Executing, Pipeline, Handlers
  <2>2. CASE Ack(m)
    BY <1>0, <2>2 DEF Ack, Goto, local
  <2>3. CASE ScheduleRetry(m)
    BY <1>0, <2>3 DEF ScheduleRetry, SingleExecution, EndExecution, CloseSession
  <2>4. CASE (Execute(m) /\ ~Ack(m) /\ ~ScheduleRetry(m)) \/ Fault(m)
    <3>1. /\ Live(m)
          /\ \A n \in Msgs : n # m => pc'[n] = pc[n]
          /\ crashes' = crashes
      <4>1. CASE Execute(m) /\ ~Ack(m) /\ ~ScheduleRetry(m)
        BY <1>0, <4>1
           DEF Execute, Deliver, SelectRun, EnterRunning, CreateRun, GraphReturns,
               ReadForCompleted, WriteCompleted, PublishResult, PublishError,
               ReadForFailed, FailureHasNoRow, WriteFailed, Goto
      <4>2. CASE Fault(m)
        BY <1>0, <4>2
           DEF Quiet, Fault, EnterFails, GraphRaises, CompletedNotPersisted,
               RetryNotPublished, FailureNotPersisted, SoftLimit, SoftLimitLate,
               SoftLimitAtEnd, ErrorEventEaten, HardLimit, WorkerLost, Goto, Executing, Pipeline,
               Handlers
      <4> QED
        BY <2>4, <4>1, <4>2
    <3>2. \A n \in Msgs : n # m => ~Live(n) /\ ~Live(n)'
      BY <3>1 DEF SingleExecution
    <3>3. Calm(m)'
      <4>1. CASE EnterRunning(m) \/ WriteCompleted(m) \/ WriteFailed(m) \/ CreateRun(m)
        <5>1. seen[m] \in Row
          BY <1>0
        <5>2. CASE EnterRunning(m)
          BY <1>0, <5>1, <5>2, MarkRunningType, FlushType DEF EnterRunning, Goto, Terminal
        <5>3. CASE CreateRun(m)
          BY <1>0, <5>3, NewRowType DEF CreateRun, Goto, Terminal, Status, local
        <5>4. CASE WriteCompleted(m)
          BY <1>0, <5>4 DEF WriteCompleted, Goto
        <5>5. CASE WriteFailed(m)
          BY <1>0, <5>5 DEF WriteFailed, Goto
        <5> QED
          BY <4>1, <5>2, <5>3, <5>4, <5>5
      <4>2. CASE Execute(m) /\ ~EnterRunning(m) /\ ~WriteCompleted(m) /\ ~WriteFailed(m)
                 /\ ~CreateRun(m) /\ ~Ack(m) /\ ~ScheduleRetry(m)
        BY <1>0, <4>2
           DEF Execute, Deliver, SelectRun, GraphReturns, ReadForCompleted, PublishResult,
               PublishError, ReadForFailed, FailureHasNoRow, Goto, local, Terminal
      <4>3. CASE Fault(m)
        BY <1>0, <4>3
           DEF Quiet, Fault, EnterFails, GraphRaises, CompletedNotPersisted,
               RetryNotPublished, FailureNotPersisted, SoftLimit, SoftLimitLate,
               SoftLimitAtEnd, ErrorEventEaten, HardLimit, WorkerLost, Goto, local
      <4> QED
        BY <2>4, <4>1, <4>2, <4>3
    <3> QED
      BY <1>0, <3>1, <3>2, <3>3
  <2> QED
    BY <2>2, <2>3, <2>4
<1>2. CASE \E m \in Msgs : Dispatch(m)
  BY <1>0, <1>2 DEF Dispatch, Goto, local, RowBehind, Terminal
<1>3. CASE Commit
  BY <1>0, <1>3, NewRowType DEF Commit, local, RowBehind, Terminal, Status
<1>4. CASE Submit \/ DispatchFails \/ CommitFails \/ UNCHANGED vars
  BY <1>4 DEF Submit, DispatchFails, CommitFails, vars, local
<1> QED
  BY <1>1, <1>2, <1>3, <1>4 DEF Next, ApiStep

\* Whatever attempts, sessions, commits and publications fail and however
\* often the task is retried, the status column goes through the documented
\* lifecycle, as long as no worker is lost and no time limit fires.
THEOREM LifecycleImplemented ==
  ASSUME Quiet PROVE Spec => Lifecycle
<1>1. Init => RL!Init
  BY NoRowType DEF Init, RL!Init
<1>2. Init => AllCalm
  BY NoRowType DEF Init, AllCalm, Calm, Live
<1>3. Spec => []AllCalm
  BY <1>2, CalmKept, TypeAndDetail, RowBehindHolds, SingleAndNothingSent, PTL DEF Spec
<1>4. TypeOK /\ HoldsDetail /\ RowBehind /\ AllCalm /\ [Next]_vars => [RL!Next]_(row.status)
  <2> SUFFICES ASSUME TypeOK, HoldsDetail, RowBehind, AllCalm, [Next]_vars,
                      row'.status # row.status
               PROVE  RL!Next
    OBVIOUS
  <2> USE DEF RL!Next, RL!Create, RL!Start, RL!Finish, RL!Abort
  <2>1. row.status \in Status
    BY RowShape DEF TypeOK
  <2>2. CASE Commit
    BY <2>2, NewRowType DEF Commit, RowBehind, Status
  <2>3. CASE \E m \in Msgs : CreateRun(m) /\ row.status = "absent" /\ row' = NewRow("running")
    BY <2>3, NewRowType DEF Status
  <2>4. CASE \E m \in Msgs : /\ EnterRunning(m)
                           /\ row'.status = IF seen[m].status = "running" THEN row.status
                                            ELSE "running"
    BY <2>1, <2>4 DEF EnterRunning, AllCalm, Calm, Live, Status, Terminal
  <2>5. CASE \E m \in Msgs : /\ WriteCompleted(m)
                           /\ row'.status = IF seen[m].status = "completed" THEN row.status
                                            ELSE "completed"
    BY <2>1, <2>5 DEF WriteCompleted, AllCalm, Calm
  <2>6. CASE \E m \in Msgs : /\ WriteFailed(m)
                           /\ row'.status = IF seen[m].status = "failed" THEN row.status
                                            ELSE "failed"
    BY <2>1, <2>6 DEF WriteFailed, RowBehind, AllCalm, Calm, Live, Status, Terminal
  <2> QED
    BY <2>2, <2>3, <2>4, <2>5, <2>6, RowStepHolds DEF RowStep
<1>5. QED
  BY <1>1, <1>3, <1>4, TypeAndDetail, RowBehindHolds, PTL DEF Spec, Lifecycle, RL!Spec

-----------------------------------------------------------------------------
(* One step of Next, as far as most invariants care.                       *)

\* A step of one execution other than a retry touches its own message only.
LEMMA WorkerStep ==
  ASSUME TypeOK, NEW m \in Msgs, Execute(m) \/ Fault(m), ~ScheduleRetry(m)
  PROVE  /\ api' = api /\ retries' = retries
         /\ \A n \in Msgs : n # m => pc'[n] = pc[n] /\ seen'[n] = seen[n]
         /\ pc[m] \notin {"unsent", "acked"} /\ pc'[m] # "unsent"
         /\ Live(m) \/ (pc[m] = "ack" /\ (crashes' = 0 => pc'[m] = "acked"))
         /\ crashes' = 0 => crashes = 0 /\ ~WorkerLost(m)
<1>0. pc \in [Msgs -> PC] /\ seen \in [Msgs -> Row] /\ crashes \in Nat
  BY Assumptions DEF TypeOK
<1> USE DEF Goto, CloseSession, EndExecution, local, Live
<1>1. CASE Execute(m)
  BY <1>0, <1>1
     DEF Execute, Deliver, SelectRun, EnterRunning, CreateRun, GraphReturns,
         ReadForCompleted, WriteCompleted, PublishResult, PublishError, ReadForFailed,
         FailureHasNoRow, WriteFailed, Ack, WorkerLost
<1>2. CASE WorkerLost(m)
  BY <1>0, <1>2 DEF WorkerLost, Executing, Pipeline, Handlers
<1>3. CASE Fault(m) /\ ~WorkerLost(m)
  BY <1>0, <1>3
     DEF Fault, EnterFails, GraphRaises, CompletedNotPersisted, RetryNotPublished,
         FailureNotPersisted, SoftLimit, SoftLimitLate, SoftLimitAtEnd, ErrorEventEaten,
         SoftLimitFires,
         HardLimit, Executing, Pipeline, Handlers
<1> QED
  BY <1>1, <1>2, <1>3

\* A retry hands the run from one message to another.
LEMMA RetryStep ==
  ASSUME TypeOK, NEW m \in Msgs, ScheduleRetry(m)
  PROVE  \E n \in Msgs :
           /\ n # m /\ pc[n] = "unsent" /\ pc[m] = "raised"
           /\ pc' = [pc EXCEPT ![m] = "ack", ![n] = "queued"]
           /\ retries' = [retries EXCEPT ![n] = retries[m] + 1]
           /\ seen' = [seen EXCEPT ![m] = NoRow]
           /\ \/ events' = events \cup {[kind |-> "retrying", att |-> att[m]]}
              \/ "softlate" \in Faults /\ events' = events
           /\ UNCHANGED <<api, row, started, crashes>>
           /\ \A k \in Msgs : k # m => att'[k] = att[k]
<1>1. PICK n \in Msgs : /\ pc[n] = "unsent"
                        /\ pc' = [pc EXCEPT ![m] = "ack", ![n] = "queued"]
                        /\ retries' = [retries EXCEPT ![n] = retries[m] + 1]
  BY DEF ScheduleRetry
<1>2. n # m
  BY <1>1 DEF ScheduleRetry
<1> QED
  BY <1>1, <1>2 DEF ScheduleRetry, TellOfRetry, Publish, EndExecution, CloseSession, TypeOK

\* What the request does to the messages and the row.
LEMMA RequestStep ==
  ASSUME TypeOK, Submit \/ DispatchFails \/ CommitFails \/ Commit \/ UNCHANGED vars
  PROVE  /\ UNCHANGED <<pc, retries, seen, started, events, crashes>>
         /\ row' = row \/ Commit
         /\ api' \in {"idle", "open"} => api \in {"idle", "open"}
  BY DEF Submit, DispatchFails, CommitFails, Commit, vars, local

\* Every step is one of the four kinds.
LEMMA StepKinds ==
  ASSUME [Next]_vars
  PROVE  \/ Submit \/ DispatchFails \/ CommitFails \/ Commit \/ UNCHANGED vars
         \/ \E m \in Msgs : Dispatch(m)
         \/ \E m \in Msgs : ScheduleRetry(m)
         \/ \E m \in Msgs : (Execute(m) \/ Fault(m)) /\ ~ScheduleRetry(m)
  BY DEF Next, ApiStep

-----------------------------------------------------------------------------
(* The attempts.                                                           *)

\* Each message carries the number of attempts before it.
Counted ==
  crashes = 0 =>
    /\ started <= MaxRetries + 1
    /\ api \in {"idle", "open"} => started = 0
    /\ \A m \in Msgs : Live(m) => started <= retries[m] + (IF pc[m] = "queued" THEN 0 ELSE 1)

\* A step of an execution other than Deliver starts none, and none queues.
LEMMA NotDelivered ==
  ASSUME TypeOK, NEW m \in Msgs, Execute(m) \/ Fault(m), ~ScheduleRetry(m), crashes' = 0
  PROVE  \/ Deliver(m)
         \/ started' = started /\ pc'[m] # "queued" /\ pc[m] # "queued"
<1>0. pc \in [Msgs -> PC] /\ crashes \in Nat
  BY Assumptions DEF TypeOK
<1>1. CASE Execute(m)
  BY <1>0, <1>1
     DEF Execute, SelectRun, EnterRunning, CreateRun, GraphReturns,
         ReadForCompleted, WriteCompleted, PublishResult, PublishError, ReadForFailed,
         FailureHasNoRow, WriteFailed, Ack, Goto, local
<1>2. CASE Fault(m)
  BY <1>0, <1>2
     DEF Fault, EnterFails, GraphRaises, CompletedNotPersisted, RetryNotPublished,
         FailureNotPersisted, SoftLimit, SoftLimitLate, SoftLimitAtEnd, ErrorEventEaten,
         SoftLimitFires,
         HardLimit, WorkerLost, Executing, Pipeline, Handlers, Goto, local
<1> QED
  BY <1>1, <1>2

\* As long as no worker is lost: however the attempts fail, whatever is
\* published and however the request ends, the run is executed no more often
\* than the retry limit says.
THEOREM AttemptsAreBounded == Spec => []AttemptBudget
<1>1. Init => Counted
  BY Assumptions DEF Init, Counted, Live
<1>2. TypeOK /\ SingleExecution /\ NothingSent /\ Counted /\ [Next]_vars => Counted'
  <2> SUFFICES ASSUME TypeOK, SingleExecution, NothingSent, Counted, [Next]_vars, crashes' = 0
               PROVE  Counted'
    BY DEF Counted
  <2>0. /\ pc \in [Msgs -> PC] /\ retries \in [Msgs -> 0..MaxRetries] /\ started \in Nat
        /\ MaxRetries \in Nat /\ crashes \in Nat
    BY Assumptions DEF TypeOK
  <2>1. CASE Submit \/ DispatchFails \/ CommitFails \/ Commit \/ UNCHANGED vars
    BY <2>1, RequestStep DEF Counted, Live
  <2>2. ASSUME NEW m \in Msgs, Dispatch(m) PROVE Counted'
    BY <2>0, <2>2 DEF Dispatch, Goto, local, NothingSent, Counted, Live
  <2>3. ASSUME NEW m \in Msgs, ScheduleRetry(m) PROVE Counted'
    <3>1. PICK n \in Msgs :
            /\ n # m /\ pc[n] = "unsent" /\ pc[m] = "raised"
            /\ pc' = [pc EXCEPT ![m] = "ack", ![n] = "queued"]
            /\ retries' = [retries EXCEPT ![n] = retries[m] + 1]
            /\ UNCHANGED <<api, started, crashes>>
      BY <2>3, RetryStep
    <3>2. \A k \in Msgs : Live(k)' => k = n
      BY <2>0, <3>1 DEF SingleExecution, Live
    <3>3. started <= retries[m] + 1
      BY <3>1 DEF Counted, Live
    <3> QED
      BY <2>0, <3>1, <3>2, <3>3 DEF Counted
  <2>4. ASSUME NEW m \in Msgs, Execute(m) \/ Fault(m), ~ScheduleRetry(m) PROVE Counted'
    <3>1. /\ api' = api /\ retries' = retries
          /\ \A n \in Msgs : n # m => pc'[n] = pc[n]
          /\ pc[m] \notin {"unsent", "acked"}
          /\ Live(m) \/ (pc[m] = "ack" /\ pc'[m] = "acked")
      BY <2>4, WorkerStep
    <3>2. crashes = 0
      BY <2>4, WorkerStep
    <3>3. CASE Deliver(m)
      <4>1. pc[m] = "queued" /\ pc'[m] = "select" /\ started' = started + 1
        BY <2>0, <3>3 DEF Deliver, Goto
      <4>2. \A n \in Msgs : n # m => ~Live(n) /\ ~Live(n)'
        BY <3>1, <3>2, <4>1 DEF SingleExecution, Live
      <4>3. started <= retries[m] /\ api \notin {"idle", "open"}
        BY <2>0, <3>2, <4>1 DEF Counted, Live, NothingSent
      <4> QED
        BY <2>0, <3>1, <4>1, <4>2, <4>3 DEF Counted
    <3>4. CASE started' = started /\ pc'[m] # "queued" /\ pc[m] # "queued"
      BY <2>0, <3>1, <3>2, <3>4 DEF Counted, Live
    <3> QED
      BY <2>4, <3>3, <3>4, NotDelivered
  <2> QED
    BY <2>1, <2>2, <2>3, <2>4, StepKinds
<1>3. Counted => AttemptBudget
  BY DEF Counted, AttemptBudget
<1> QED
  BY <1>1, <1>2, <1>3, TypeCorrect, SingleAndNothingSent, PTL DEF Spec

-----------------------------------------------------------------------------
(* When a failure is final.                                                *)

TimeLimits == Faults \cap {"soft", "softlate"} # {}

\* The handler of a time-out is reached by a time limit only.
Handled == TimeLimits \/ \A m \in Msgs : pc[m] # "timeout"

\* The retries the subscribers were told of by executions before number k.
RetriesTold(E, k) == {f \in E : f.kind = "retrying" /\ f.att < k}

\* A message carries no more retries than were told of before its execution, or
\* before the next one where it waits for it.
Spent ==
  ~TimeLimits =>
    /\ IsFiniteSet(events)
    /\ \A e \in events : e.att <= started
    /\ \A m \in Msgs : Cardinality(RetriesTold(events, started + 1)) >= retries[m]
    /\ \A m \in Msgs : Executing(m) =>
         att[m] <= started /\ Cardinality(RetriesTold(events, att[m])) >= retries[m]

LEMMA MoreRetriesTold ==
  ASSUME NEW E, NEW D \in SUBSET E, IsFiniteSet(E), \A f \in E : f.att \in Nat,
         NEW k \in Nat, NEW j \in Nat, j <= k
  PROVE  /\ Cardinality(RetriesTold(D, j)) \in Nat /\ Cardinality(RetriesTold(E, k)) \in Nat
         /\ Cardinality(RetriesTold(D, j)) <= Cardinality(RetriesTold(E, k))
<1>1. RetriesTold(E, k) \subseteq E /\ RetriesTold(D, j) \subseteq RetriesTold(E, k)
  BY DEF RetriesTold
<1>2. IsFiniteSet(RetriesTold(E, k))
  BY <1>1, FS_Subset
<1>3. IsFiniteSet(RetriesTold(D, j))
  BY <1>1, <1>2, FS_Subset
<1> QED
  BY <1>1, <1>2, <1>3, FS_Subset, FS_CardinalityType

\* What a step other than a retry says and counts: an error is published with the
\* last retry in hand.
LEMMA EventStep ==
  ASSUME TypeOK, Handled, ~TimeLimits, NEW m \in Msgs,
         (Execute(m) \/ Fault(m)) /\ ~ScheduleRetry(m)
  PROVE  /\ pc'[m] # "timeout"
         /\ \/ events' = events
            \/ Executing(m) /\ \E k \in {"progress", "retrying", "result", "error"} :
                 /\ events' = events \cup {[kind |-> k, att |-> att[m]]}
                 /\ k = "error" => retries[m] = MaxRetries
         /\ \/ Deliver(m)
            \/ /\ started' = started /\ \A n \in Msgs : n # m => att'[n] = att[n]
               /\ Executing(m)' => Executing(m) /\ att'[m] = att[m]
<1>0. pc \in [Msgs -> PC] /\ att \in [Msgs -> Nat]
  BY DEF TypeOK
<1>1. pc'[m] # "timeout"
  <2>1. CASE Execute(m)
    BY <1>0, <2>1 DEF Execute, Deliver, SelectRun, EnterRunning, CreateRun, GraphReturns,
       ReadForCompleted, WriteCompleted, PublishResult, PublishError, ReadForFailed,
       FailureHasNoRow, WriteFailed, Ack, Goto
  <2>2. CASE Fault(m)
    BY <1>0, <2>2 DEF TimeLimits, Fault, EnterFails, GraphRaises, CompletedNotPersisted,
       RetryNotPublished, FailureNotPersisted, SoftLimit, SoftLimitLate, SoftLimitAtEnd,
       ErrorEventEaten, HardLimit, WorkerLost, Goto
  <2> QED
    BY <2>1, <2>2
<1>2. \/ events' = events
      \/ Executing(m) /\ \E k \in {"progress", "retrying", "result", "error"} :
           /\ events' = events \cup {[kind |-> k, att |-> att[m]]}
           /\ k = "error" => retries[m] = MaxRetries
  <2>1. CASE EnterRunning(m) \/ CreateRun(m) \/ PublishResult(m)
    BY <2>1 DEF EnterRunning, CreateRun, PublishResult, Publish, Executing, Pipeline, Handlers
  <2>2. CASE PublishError(m)
    BY <1>0, <2>2 DEF PublishError, Publish, Handled, Executing, Pipeline, Handlers
  <2>3. CASE RetryNotPublished(m)
    BY <2>3 DEF RetryNotPublished, TellOfRetry, TimeLimits, Publish, Executing, Pipeline,
       Handlers
  <2>4. CASE Execute(m) /\ ~(EnterRunning(m) \/ CreateRun(m) \/ PublishResult(m))
             /\ ~PublishError(m)
    BY <2>4 DEF Execute, Deliver, SelectRun, GraphReturns, ReadForCompleted, WriteCompleted,
       ReadForFailed, FailureHasNoRow, WriteFailed, Ack
  <2>5. CASE Fault(m) /\ ~RetryNotPublished(m)
    BY <2>5 DEF TimeLimits, Fault, EnterFails, GraphRaises, CompletedNotPersisted,
       FailureNotPersisted, SoftLimit, SoftLimitLate, SoftLimitAtEnd, ErrorEventEaten,
       HardLimit, WorkerLost
  <2> QED
    BY <2>1, <2>2, <2>3, <2>4, <2>5
<1>3. \/ Deliver(m)
      \/ /\ started' = started /\ \A n \in Msgs : n # m => att'[n] = att[n]
         /\ Executing(m)' => Executing(m) /\ att'[m] = att[m]
  <2> USE <1>0 DEF Goto, EndExecution, Executing, Pipeline, Handlers, local
  <2>1. CASE Execute(m)
    BY <2>1 DEF Execute, SelectRun, EnterRunning, CreateRun, GraphReturns,
       ReadForCompleted, WriteCompleted, PublishResult, PublishError, ReadForFailed,
       FailureHasNoRow, WriteFailed, Ack
  <2>2. CASE Fault(m)
    BY <2>2 DEF TimeLimits, Fault, EnterFails, GraphRaises, CompletedNotPersisted,
       RetryNotPublished, FailureNotPersisted, SoftLimit, SoftLimitLate, SoftLimitAtEnd,
       ErrorEventEaten, HardLimit, WorkerLost
  <2> QED
    BY <2>1, <2>2
<1> QED
  BY <1>1, <1>2, <1>3

\* Before an error that no time limit has caused, max_retries executions ended
\* with a retry the subscribers were told of: also with lost workers, failing
\* sessions and a request that never commits.
THEOREM FailureTakesEveryRetry == Spec => []FailureNeedsExhaustion
<1> DEFINE IInv == Handled /\ Spent /\ FailureNeedsExhaustion
<1>1. Init => IInv
  <2> HAVE Init
  <2>1. IsFiniteSet({}) /\ Cardinality({}) = 0 /\ RetriesTold({}, started + 1) = {}
    BY FS_EmptySet DEF RetriesTold
  <2> QED
    BY <2>1 DEF Init, FailureNeedsExhaustion, Handled, Spent, Executing, Pipeline, Handlers
<1>2. TypeOK /\ TypeOK' /\ IInv /\ [Next]_vars => IInv'
  <2> SUFFICES ASSUME TypeOK, TypeOK', Handled, Spent, FailureNeedsExhaustion, [Next]_vars,
                      ~TimeLimits
               PROVE  IInv'
    BY DEF FailureNeedsExhaustion, Handled, Spent, TimeLimits
  <2>0. /\ pc \in [Msgs -> PC] /\ retries \in [Msgs -> 0..MaxRetries] /\ MaxRetries \in Nat
        /\ att \in [Msgs -> Nat] /\ started \in Nat /\ started' \in Nat
        /\ \A f \in events' : f.att \in Nat
        /\ \A n \in Msgs : retries[n] \in Nat /\ att[n] \in Nat
    BY Assumptions DEF TypeOK, Event
  <2>s. /\ IsFiniteSet(events) /\ \A e \in events : e.att <= started
        /\ \A n \in Msgs : Cardinality(RetriesTold(events, started + 1)) >= retries[n]
        /\ \A n \in Msgs : Executing(n) =>
             att[n] <= started /\ Cardinality(RetriesTold(events, att[n])) >= retries[n]
    BY DEF Spent
  <2>e. \A e \in events : e.kind = "error" =>
          Cardinality(RetriesTold(events, e.att)) >= MaxRetries
    BY DEF FailureNeedsExhaustion, TimeLimits, RetriesTold
  <2>h. \A n \in Msgs : pc[n] # "timeout"
    BY DEF Handled
  <2>a. ASSUME /\ IsFiniteSet(events') /\ \A e \in events' : e.att <= started'
               /\ \A n \in Msgs : Cardinality(RetriesTold(events', started' + 1)) >= retries'[n]
               /\ \A n \in Msgs : Executing(n)' =>
                    att'[n] <= started' /\ Cardinality(RetriesTold(events', att'[n])) >= retries'[n]
               /\ \A e \in events' : e.kind = "error" =>
                    Cardinality(RetriesTold(events', e.att)) >= MaxRetries
               /\ \A n \in Msgs : pc'[n] # "timeout"
        PROVE  IInv'
    BY <2>a DEF Handled, Spent, FailureNeedsExhaustion, RetriesTold
  <2>m. ASSUME events \subseteq events', IsFiniteSet(events')
        PROVE  \A j, k, x \in Nat : j <= k /\ Cardinality(RetriesTold(events, j)) >= x
                 => Cardinality(RetriesTold(events', k)) >= x
    <3> TAKE j, k, x \in Nat
    <3> HAVE j <= k /\ Cardinality(RetriesTold(events, j)) >= x
    <3>1. /\ Cardinality(RetriesTold(events, j)) \in Nat
          /\ Cardinality(RetriesTold(events', k)) \in Nat
          /\ Cardinality(RetriesTold(events, j)) <= Cardinality(RetriesTold(events', k))
      BY <2>m, <2>0, MoreRetriesTold
    <3> QED
      BY <3>1
  <2>1. CASE Submit \/ DispatchFails \/ CommitFails \/ Commit \/ UNCHANGED vars
    <3>1. UNCHANGED <<pc, retries, att, started, events>>
      BY <2>1 DEF Submit, DispatchFails, CommitFails, Commit, vars, local
    <3> QED
      BY <3>1, <2>s, <2>e, <2>h, <2>a DEF Executing
  <2>2. ASSUME NEW m \in Msgs, Dispatch(m) PROVE IInv'
    <3>1. UNCHANGED <<retries, att, started, events>> /\ pc' = [pc EXCEPT ![m] = "queued"]
      BY <2>2 DEF Dispatch, Goto, local
    <3> QED
      BY <3>1, <2>0, <2>s, <2>e, <2>h, <2>a DEF Executing, Pipeline, Handlers
  <2>3. ASSUME NEW m \in Msgs, ScheduleRetry(m) PROVE IInv'
    <3> DEFINE told == [kind |-> "retrying", att |-> att[m]]
    <3>1. PICK n \in Msgs :
            /\ n # m /\ pc[n] = "unsent" /\ pc[m] = "raised"
            /\ pc' = [pc EXCEPT ![m] = "ack", ![n] = "queued"]
            /\ retries' = [retries EXCEPT ![n] = retries[m] + 1]
            /\ events' = events \cup {told}
            /\ started' = started
            /\ \A k \in Msgs : k # m => att'[k] = att[k]
      BY <2>3, RetryStep DEF TimeLimits
    <3>2. /\ events \subseteq events' /\ IsFiniteSet(events')
          /\ \A e \in events' : e = told \/ e \in events
          /\ told.att = att[m] /\ told.kind = "retrying"
      BY <3>1, <2>s, FS_AddElement
    <3>3. att[m] <= started /\ Cardinality(RetriesTold(events, att[m])) >= retries[m]
      BY <3>1, <2>s DEF Executing, Handlers
    <3>4. Cardinality(RetriesTold(events', started' + 1)) >= retries[m] + 1
      <4> DEFINE before == RetriesTold(events, att[m])
                 D == before \cup {told}
                 E == RetriesTold(events', started' + 1)
      <4>1. D \subseteq E
        BY <3>1, <3>2, <3>3, <2>0 DEF RetriesTold
      <4>2. told \notin before
        BY <3>2, <2>0 DEF RetriesTold
      <4>3. IsFiniteSet(before) /\ IsFiniteSet(E)
        BY <2>s, <3>2, FS_Subset DEF RetriesTold
      <4>4. Cardinality(D) = Cardinality(before) + 1
        BY <4>2, <4>3, FS_AddElement
      <4>5. Cardinality(D) <= Cardinality(E) /\ Cardinality(E) \in Nat
        BY <4>1, <4>3, FS_Subset, FS_CardinalityType
      <4>6. Cardinality(before) \in Nat
        BY <4>3, FS_CardinalityType
      <4> HIDE DEF before, D, E
      <4>7. Cardinality(E) >= retries[m] + 1
        <5>1. Cardinality(before) >= retries[m]
          BY <3>3 DEF before
        <5> QED
          BY <5>1, <4>4, <4>5, <4>6, <2>0
      <4> QED
        BY <4>7 DEF E
    <3> HIDE DEF told
    <3>5. \A k \in Msgs : Cardinality(RetriesTold(events', started' + 1)) >= retries'[k]
      <4>1. \A k \in Msgs : Cardinality(RetriesTold(events', started' + 1)) >= retries[k]
        <5> TAKE k \in Msgs
        <5>1. retries[k] \in Nat /\ started + 1 \in Nat /\ started' + 1 = started + 1
          BY <2>0, <3>1
        <5>2. Cardinality(RetriesTold(events, started + 1)) >= retries[k]
          BY <2>s
        <5> QED
          BY ONLY <5>1, <5>2, <2>m, <3>2
      <4> QED
        BY <4>1, <3>4, <3>1, <2>0
    <3>6. \A k \in Msgs : Executing(k)' => Executing(k) /\ k # m /\ k # n
      BY <3>1, <2>0 DEF Executing, Pipeline, Handlers
    <3>7. \A k \in Msgs : Executing(k)' =>
            att'[k] <= started' /\ Cardinality(RetriesTold(events', att'[k])) >= retries'[k]
      <4> TAKE k \in Msgs
      <4> HAVE Executing(k)'
      <4>1. /\ Executing(k) /\ att'[k] = att[k] /\ retries'[k] = retries[k]
            /\ att[k] \in Nat /\ retries[k] \in Nat
        BY <3>6, <3>1, <2>0
      <4>2. att[k] <= started /\ Cardinality(RetriesTold(events, att[k])) >= retries[k]
        BY <4>1, <2>s
      <4>3. Cardinality(RetriesTold(events', att[k])) >= retries[k]
        BY ONLY <4>1, <4>2, <2>m, <3>2, att[k] <= att[k]
      <4> QED
        BY <3>1, <4>1, <4>2, <4>3
    <3>8. \A e \in events' : e.kind = "error" =>
            Cardinality(RetriesTold(events', e.att)) >= MaxRetries
      <4> TAKE e \in events'
      <4> HAVE e.kind = "error"
      <4>1. e \in events /\ e.att \in Nat /\ e.att <= e.att
        BY <3>2, <2>0
      <4>2. Cardinality(RetriesTold(events, e.att)) >= MaxRetries
        BY <4>1, <2>e
      <4> QED
        BY ONLY <4>1, <4>2, <2>m, <2>0, <3>2
    <3>9. \A e \in events' : e.att <= started'
      BY <2>s, <3>1, <3>2, <3>3
    <3>10. \A k \in Msgs : pc'[k] # "timeout"
      BY <3>1, <2>0, <2>h
    <3> QED
      BY <2>a, <3>2, <3>5, <3>7, <3>8, <3>9, <3>10
  <2>4. ASSUME NEW m \in Msgs, (Execute(m) \/ Fault(m)) /\ ~ScheduleRetry(m) PROVE IInv'
    <3>1. retries' = retries /\ \A n \in Msgs : n # m => pc'[n] = pc[n]
      BY <2>4, WorkerStep
    <3>2. /\ pc'[m] # "timeout"
          /\ \/ events' = events
             \/ Executing(m) /\ \E k \in {"progress", "retrying", "result", "error"} :
                  /\ events' = events \cup {[kind |-> k, att |-> att[m]]}
                  /\ k = "error" => retries[m] = MaxRetries
          /\ \/ Deliver(m)
             \/ /\ started' = started /\ \A n \in Msgs : n # m => att'[n] = att[n]
                /\ Executing(m)' => Executing(m) /\ att'[m] = att[m]
      BY <2>4, EventStep
    <3>3. /\ events \subseteq events' /\ IsFiniteSet(events')
          /\ \A e \in events' : \/ e \in events
                                \/ /\ Executing(m) /\ e.att = att[m]
                                   /\ e.kind = "error" => retries[m] = MaxRetries
      <4>1. CASE events' = events
        BY <4>1, <2>s
      <4>2. ASSUME Executing(m), NEW k, events' = events \cup {[kind |-> k, att |-> att[m]]},
                   k = "error" => retries[m] = MaxRetries
            PROVE  /\ events \subseteq events' /\ IsFiniteSet(events')
                   /\ \A e \in events' : \/ e \in events
                                         \/ /\ Executing(m) /\ e.att = att[m]
                                            /\ e.kind = "error" => retries[m] = MaxRetries
        <5>1. IsFiniteSet(events')
          BY <4>2, <2>s, FS_AddElement
        <5> QED
          BY <4>2, <5>1
      <4> QED
        BY <3>2, <4>1, <4>2
    <3>4. started <= started'
      BY <3>2, <2>0 DEF Deliver
    <3>5. \A k \in Msgs : Cardinality(RetriesTold(events', started' + 1)) >= retries'[k]
      BY <2>0, <2>s, <2>m, <3>1, <3>3, <3>4
    <3>6. \A e \in events' : e.att <= started'
      BY <2>0, <2>s, <3>3, <3>4
    <3>7. \A e \in events' : e.kind = "error" =>
            Cardinality(RetriesTold(events', e.att)) >= MaxRetries
      <4> TAKE e \in events'
      <4>1. CASE e \in events
        <5>1. e.att \in Nat /\ e.att <= e.att
          BY <2>0
        <5>2. e.kind = "error" => Cardinality(RetriesTold(events, e.att)) >= MaxRetries
          BY <4>1, <2>e
        <5> QED
          BY ONLY <5>1, <5>2, <2>m, <2>0, <3>3
      <4>2. CASE e \notin events
        <5>1. Cardinality(RetriesTold(events, att[m])) >= retries[m]
          BY <4>2, <3>3, <2>s
        <5>2. Cardinality(RetriesTold(events', att[m])) >= retries[m]
          BY <5>1, <2>0, <2>m, <3>3
        <5> QED
          BY <4>2, <5>2, <3>3
      <4> QED
        BY <4>1, <4>2
    <3>8. ASSUME NEW k \in Msgs, Executing(k)'
          PROVE  att'[k] <= started' /\ Cardinality(RetriesTold(events', att'[k])) >= retries'[k]
      <4>1. CASE att'[k] = att[k] /\ Executing(k)
        BY <4>1, <2>0, <2>s, <2>m, <3>1, <3>3, <3>4
      <4>2. CASE att'[k] = started + 1 /\ started' = started + 1
        BY <4>2, <2>0, <2>s, <2>m, <3>1, <3>3
      <4>3. k # m => Executing(k)
        BY <3>1, <3>8 DEF Executing
      <4>4. CASE Deliver(m)
        <5>1. started' = started + 1 /\ att' = [att EXCEPT ![m] = started + 1]
          BY <4>4 DEF Deliver
        <5> QED
          BY <5>1, <4>1, <4>2, <4>3, <2>0
      <4> QED
        BY <4>1, <4>3, <4>4, <3>2, <3>8
    <3>9. \A k \in Msgs : pc'[k] # "timeout"
      BY <3>1, <3>2, <2>h
    <3> QED
      BY <2>a, <3>3, <3>5, <3>6, <3>7, <3>8, <3>9
  <2> QED
    BY <2>1, <2>2, <2>3, <2>4, StepKinds
<1>3. QED
  BY <1>1, <1>2, TypeCorrect, PTL DEF Spec

-----------------------------------------------------------------------------
(* One verdict.                                                            *)

\* Once a verdict was published nobody is left who could publish another: what
\* still runs stores the failure.
Told ==
  crashes = 0 /\ "softlate" \notin Faults =>
    /\ api \in {"idle", "open"} => TerminalEvents = {}
    /\ \/ TerminalEvents = {}
       \/ /\ \E e \in events : TerminalEvents = {e}
          /\ \A m \in Msgs : Live(m) => pc[m] \in {"failread", "failwrite"}

\* Only two actions publish a verdict; from where the failure is stored nothing
\* leads back.
LEMMA TellingStep ==
  ASSUME TypeOK, NEW m \in Msgs, (Execute(m) \/ Fault(m)) /\ ~ScheduleRetry(m),
         crashes' = 0, "softlate" \notin Faults
  PROVE  \/ /\ pc[m] = "publish" /\ pc'[m] = "ack"
            /\ \E e \in events' : TerminalEvents' = TerminalEvents \cup {e}
         \/ /\ pc[m] \in {"raised", "timeout"} /\ pc'[m] = "failread"
            /\ \E e \in events' : TerminalEvents' = TerminalEvents \cup {e}
         \/ /\ TerminalEvents' = TerminalEvents
            /\ pc[m] \in {"failread", "failwrite", "ack"} =>
                 pc'[m] \in {"failread", "failwrite", "ack", "acked"}
<1>0. pc \in [Msgs -> PC]
  BY DEF TypeOK
<1>1. CASE PublishResult(m)
  <2>1. pc[m] = "publish" /\ pc'[m] = "ack"
    BY <1>0, <1>1 DEF PublishResult, Goto
  <2>2. TerminalEvents' = TerminalEvents \cup {[kind |-> "result", att |-> att[m]]}
    BY <1>1 DEF PublishResult, Publish, TerminalEvents
  <2>3. [kind |-> "result", att |-> att[m]] \in events'
    BY <1>1 DEF PublishResult, Publish
  <2> QED
    BY <2>1, <2>2, <2>3
<1>2. CASE PublishError(m)
  <2>1. pc[m] \in {"raised", "timeout"} /\ pc'[m] = "failread"
    BY <1>0, <1>2 DEF PublishError, Goto
  <2>2. TerminalEvents' = TerminalEvents \cup {[kind |-> "error", att |-> att[m]]}
    BY <1>2 DEF PublishError, Publish, TerminalEvents
  <2>3. [kind |-> "error", att |-> att[m]] \in events'
    BY <1>2 DEF PublishError, Publish
  <2> QED
    BY <2>1, <2>2, <2>3
<1>3. CASE Execute(m) /\ ~PublishResult(m) /\ ~PublishError(m)
  <2>1. TerminalEvents' = TerminalEvents
    BY <1>3 DEF Execute, Deliver, SelectRun, EnterRunning, CreateRun, GraphReturns,
       ReadForCompleted, WriteCompleted, ScheduleRetry, ReadForFailed, FailureHasNoRow,
       WriteFailed, Ack, Publish, TerminalEvents
  <2>2. pc[m] \in {"failread", "failwrite", "ack"} =>
          pc'[m] \in {"failread", "failwrite", "ack", "acked"}
    BY <1>0, <1>3 DEF Execute, Deliver, SelectRun, EnterRunning, CreateRun, GraphReturns,
       ReadForCompleted, WriteCompleted, ReadForFailed, FailureHasNoRow, WriteFailed, Ack,
       Goto
  <2> QED
    BY <2>1, <2>2
<1>4. CASE Fault(m)
  <2>1. TerminalEvents' = TerminalEvents
    BY <1>4 DEF Fault, EnterFails, GraphRaises, CompletedNotPersisted, RetryNotPublished,
       FailureNotPersisted, SoftLimit, SoftLimitLate, SoftLimitAtEnd, ErrorEventEaten, HardLimit,
       WorkerLost,
       Publish, TellOfRetry, TerminalEvents
  <2>2. ~WorkerLost(m)
    BY <1>4, WorkerStep
  <2>3. pc[m] \in {"failread", "failwrite", "ack"} =>
          pc'[m] \in {"failread", "failwrite", "ack", "acked"}
    BY <1>0, <1>4, <2>2 DEF Fault, EnterFails, GraphRaises, CompletedNotPersisted,
       RetryNotPublished, FailureNotPersisted, SoftLimit, SoftLimitLate, SoftLimitAtEnd,
       ErrorEventEaten,
       HardLimit, Goto
  <2> QED
    BY <2>1, <2>3
<1> QED
  BY <1>1, <1>2, <1>3, <1>4

\* Unless a worker is lost or a time limit fires behind the result: over all
\* attempts together the subscribers are told one outcome, once.
THEOREM VerdictIsUnique == Spec => []OneVerdict
<1>1. Init => Told
  BY DEF Init, Told, TerminalEvents
<1>2. TypeOK /\ SingleExecution /\ NothingSent /\ Told /\ [Next]_vars => Told'
  <2> SUFFICES ASSUME TypeOK, SingleExecution, NothingSent, Told, [Next]_vars, crashes' = 0,
                      "softlate" \notin Faults
               PROVE  Told'
    BY DEF Told
  <2>0. pc \in [Msgs -> PC]
    BY DEF TypeOK
  <2>1. CASE Submit \/ DispatchFails \/ CommitFails \/ Commit \/ UNCHANGED vars
    BY <2>1, RequestStep DEF Told, TerminalEvents, Live
  <2>2. ASSUME NEW m \in Msgs, Dispatch(m) PROVE Told'
    BY <2>2 DEF Dispatch, Told, TerminalEvents
  <2>3. ASSUME NEW m \in Msgs, ScheduleRetry(m) PROVE Told'
    <3>1. PICK n \in Msgs :
            /\ pc[m] = "raised"
            /\ \/ events' = events \cup {[kind |-> "retrying", att |-> att[m]]}
               \/ events' = events
            /\ UNCHANGED <<api, crashes>>
      BY <2>3, RetryStep
    <3>2. TerminalEvents = {}
      BY <3>1 DEF Told, Live
    <3>3. TerminalEvents' = TerminalEvents
      BY <3>1 DEF TerminalEvents
    <3> QED
      BY <3>1, <3>2, <3>3 DEF Told
  <2>4. ASSUME NEW m \in Msgs, (Execute(m) \/ Fault(m)) /\ ~ScheduleRetry(m) PROVE Told'
    <3>1. /\ api' = api /\ crashes = 0
          /\ \A n \in Msgs : n # m => pc'[n] = pc[n]
          /\ pc[m] # "acked" /\ pc[m] # "unsent"
      BY <2>4, WorkerStep
    <3>2. CASE /\ \/ pc[m] = "publish" /\ pc'[m] = "ack"
                  \/ pc[m] \in {"raised", "timeout"} /\ pc'[m] = "failread"
               /\ \E e \in events' : TerminalEvents' = TerminalEvents \cup {e}
      <4>1. \A n \in Msgs : n # m => ~Live(n)'
        BY <3>1, <3>2 DEF SingleExecution, Live
      <4>2. TerminalEvents = {}
        BY <3>1, <3>2 DEF Told, Live
      <4> HIDE DEF TerminalEvents
      <4>3. \E e \in events' : TerminalEvents' = {e}
        BY <3>2, <4>2
      <4>4. api' \notin {"idle", "open"}
        BY <3>1 DEF NothingSent
      <4> QED
        BY <3>2, <4>1, <4>3, <4>4 DEF Told, Live
    <3>3. CASE /\ TerminalEvents' = TerminalEvents
               /\ pc[m] \in {"failread", "failwrite", "ack"} =>
                    pc'[m] \in {"failread", "failwrite", "ack", "acked"}
      BY <3>1, <3>3 DEF Told, Live, TerminalEvents
    <3> QED
      BY <2>4, <3>2, <3>3, TellingStep
  <2> QED
    BY <2>1, <2>2, <2>3, <2>4, StepKinds
<1>3. Told => OneVerdict
  BY DEF Told, OneVerdict
<1> QED
  BY <1>1, <1>2, <1>3, TypeCorrect, SingleAndNothingSent, PTL DEF Spec

-----------------------------------------------------------------------------
(* What is stored.                                                         *)

\* Without a lost worker nobody writes between an execution's SELECT and its
\* UPDATE.
Fresh == crashes = 0 => \A m \in Msgs : pc[m] \in {"write", "failwrite"} => seen[m] = row

\* A worker's step leaves the row alone unless it is one of the four that write,
\* and only two reads take it to a write.
LEMMA RowOfStep ==
  ASSUME TypeOK, NEW m \in Msgs, (Execute(m) \/ Fault(m)) /\ ~ScheduleRetry(m)
  PROVE  /\ \/ EnterRunning(m) \/ CreateRun(m) \/ WriteCompleted(m) \/ WriteFailed(m)
            \/ row' = row
         /\ pc'[m] \in {"write", "failwrite"} => row' = row /\ seen'[m] = row
<1>0. pc \in [Msgs -> PC] /\ seen \in [Msgs -> Row]
  BY DEF TypeOK
<1>1. CASE Execute(m)
  BY <1>0, <1>1
     DEF Execute, Deliver, SelectRun, EnterRunning, CreateRun, GraphReturns,
         ReadForCompleted, WriteCompleted, PublishResult, PublishError, ReadForFailed,
         FailureHasNoRow, WriteFailed, Ack, Goto, local
<1>2. CASE Fault(m)
  BY <1>0, <1>2
     DEF Fault, EnterFails, GraphRaises, CompletedNotPersisted, RetryNotPublished,
         FailureNotPersisted, SoftLimit, SoftLimitLate, SoftLimitAtEnd, ErrorEventEaten,
         SoftLimitFires,
         HardLimit, WorkerLost, Goto, local
<1> QED
  BY <1>1, <1>2

LEMMA FreshHolds == Spec => []Fresh
<1>1. Init => Fresh
  BY DEF Init, Fresh
<1>2. TypeOK /\ SingleExecution /\ RowBehind /\ Fresh /\ [Next]_vars => Fresh'
  <2> SUFFICES ASSUME TypeOK, SingleExecution, RowBehind, Fresh, [Next]_vars, crashes' = 0
               PROVE  Fresh'
    BY DEF Fresh
  <2>0. pc \in [Msgs -> PC] /\ seen \in [Msgs -> Row]
    BY DEF TypeOK
  <2>1. CASE Submit \/ DispatchFails \/ CommitFails \/ Commit \/ UNCHANGED vars
    <3>1. CASE Commit
      BY <3>1 DEF Commit, local, RowBehind, Fresh
    <3>2. CASE ~Commit
      BY <2>1, <3>2, RequestStep DEF Fresh
    <3> QED
      BY <3>1, <3>2
  <2>2. ASSUME NEW m \in Msgs, Dispatch(m) PROVE Fresh'
    BY <2>0, <2>2 DEF Dispatch, Goto, local, Fresh
  <2>3. ASSUME NEW m \in Msgs, ScheduleRetry(m) PROVE Fresh'
    BY <2>0, <2>3, RetryStep DEF Fresh
  <2>4. ASSUME NEW m \in Msgs, (Execute(m) \/ Fault(m)) /\ ~ScheduleRetry(m) PROVE Fresh'
    <3>1. /\ crashes = 0 /\ (Live(m) \/ row' = row)
          /\ \A n \in Msgs : n # m => pc'[n] = pc[n] /\ seen'[n] = seen[n]
      BY <2>4, WorkerStep, RowOfStep
         DEF Live, EnterRunning, CreateRun, WriteCompleted, WriteFailed
    <3>2. CASE row' = row
      BY <2>4, <3>1, <3>2, RowOfStep DEF Fresh
    <3>3. CASE Live(m)
      <4>1. \A n \in Msgs : n # m => ~Live(n) /\ pc'[n] \notin {"write", "failwrite"}
        BY <3>1, <3>3 DEF SingleExecution, Live
      <4> QED
        BY <2>4, <4>1, RowOfStep DEF Fresh
    <3> QED
      BY <3>1, <3>2, <3>3
  <2> QED
    BY <2>1, <2>2, <2>3, <2>4, StepKinds
<1>3. QED
  BY <1>1, <1>2, TypeCorrect, SingleAndNothingSent, RowBehindHolds, PTL DEF Spec

\* An UPDATE made from a row nobody else has written meanwhile leaves what the
\* session set.
LEMMA FlushOfFresh ==
  ASSUME NEW r \in Row, NEW s \in Row
  PROVE  Flush(r, s, r) = s
  BY DEF Flush, Column, Row

\* Without faults that lose a write, what stores the outcome stores it whole.
LEMMA StoringStep ==
  ASSUME TypeOK, HoldsDetail, Fresh, crashes = 0, NEW m \in Msgs, WriteCompleted(m)
  PROVE  row' = MarkCompleted(row, detail[m], att[m]) /\ detail[m] \in Detail /\ att[m] \in Nat
<1>1. row \in Row /\ detail[m] \in Detail /\ att[m] \in Nat /\ seen[m] = row
  BY DEF TypeOK, HoldsDetail, Fresh, WriteCompleted
<1> QED
  BY <1>1, FlushOfFresh, MarkCompletedType DEF WriteCompleted

Resulted == \E e \in events : e.kind = "result"
AllStored == row.status = "completed" /\ row.ended

\* What is published was stored by the same execution just before, and then
\* nobody is left to change it.
Stored ==
  crashes = 0 /\ Faults \cap {"db", "softlate"} = {} =>
    /\ (\E m \in Msgs : pc[m] = "publish") => AllStored
    /\ Resulted => AllStored /\ \A m \in Msgs : ~Live(m)
    /\ api \in {"idle", "open"} => ~Resulted

\* Where no write is swallowed the last publish follows the last write, and
\* only that publish tells a result.
LEMMA ResultStep ==
  ASSUME TypeOK, Faults \cap {"db", "softlate"} = {},
         NEW m \in Msgs, Execute(m) \/ Fault(m), ~ScheduleRetry(m)
  PROVE  /\ pc'[m] = "publish" => WriteCompleted(m)
         /\ Resulted' => Resulted \/ (pc[m] = "publish" /\ pc'[m] = "ack" /\ row' = row)
<1>0. pc \in [Msgs -> PC]
  BY DEF TypeOK
<1>1. CASE Execute(m)
  BY <1>0, <1>1 DEF Execute, Deliver, SelectRun, EnterRunning, CreateRun, GraphReturns,
     ReadForCompleted, WriteCompleted, PublishResult, PublishError, ReadForFailed,
     FailureHasNoRow, WriteFailed, Ack, Goto, Publish, Resulted
<1>2. CASE Fault(m)
  <2>1. pc'[m] # "publish"
    BY <1>0, <1>2 DEF Fault, EnterFails, GraphRaises, CompletedNotPersisted,
       RetryNotPublished, FailureNotPersisted, SoftLimit, SoftLimitLate, SoftLimitFires,
       SoftLimitAtEnd, ErrorEventEaten, HardLimit, WorkerLost, Goto
  <2>2. \A e \in events' : e.kind = "result" => e \in events
    BY <1>2 DEF Fault, EnterFails, GraphRaises, CompletedNotPersisted, RetryNotPublished,
       FailureNotPersisted, SoftLimit, SoftLimitLate, SoftLimitAtEnd, ErrorEventEaten, HardLimit,
       WorkerLost,
       Publish, TellOfRetry
  <2> QED
    BY <2>1, <2>2 DEF Resulted
<1> QED
  BY <1>1, <1>2

\* A client that is told the result finds it stored: with any number of failed
\* attempts, lost publications, graph failures and time-outs before it, and for
\* as long as the run exists.
THEOREM ResultsAreDurable == Spec => []ResultIsDurable
<1>1. Init => Stored
  BY DEF Init, Stored, Resulted
<1>2. /\ TypeOK /\ HoldsDetail /\ SingleExecution /\ NothingSent /\ RowBehind /\ Fresh
      /\ Stored /\ [Next]_vars
      => Stored'
  <2> SUFFICES ASSUME TypeOK, HoldsDetail, SingleExecution, NothingSent, RowBehind, Fresh,
                      Stored, [Next]_vars, crashes' = 0, Faults \cap {"db", "softlate"} = {}
               PROVE  Stored'
    BY DEF Stored
  <2>0. pc \in [Msgs -> PC]
    BY DEF TypeOK
  <2>1. CASE Submit \/ DispatchFails \/ CommitFails \/ Commit \/ UNCHANGED vars
    <3>1. row' = row \/ (row.status = "absent" /\ api = "dispatched" /\ api' = "accepted")
      BY <2>1, RequestStep DEF Commit, RowBehind
    <3> QED
      BY <2>1, <3>1, RequestStep DEF Stored, AllStored, Resulted, Live
  <2>2. ASSUME NEW m \in Msgs, Dispatch(m) PROVE Stored'
    BY <2>0, <2>2 DEF Dispatch, Goto, Stored, AllStored, Resulted, Live
  <2>3. ASSUME NEW m \in Msgs, ScheduleRetry(m) PROVE Stored'
    <3>1. PICK n \in Msgs :
            /\ pc[m] = "raised"
            /\ pc' = [pc EXCEPT ![m] = "ack", ![n] = "queued"]
            /\ events' = events \cup {[kind |-> "retrying", att |-> att[m]]}
            /\ UNCHANGED <<api, row, crashes>>
      BY <2>3, RetryStep
    <3>2. ~Resulted /\ ~Resulted'
      BY <3>1 DEF Stored, Live, Resulted
    <3> QED
      BY <2>0, <3>1, <3>2 DEF Stored, AllStored
  <2>4. ASSUME NEW m \in Msgs, (Execute(m) \/ Fault(m)) /\ ~ScheduleRetry(m) PROVE Stored'
    <3>1. /\ api' = api /\ crashes = 0
          /\ \A n \in Msgs : n # m => pc'[n] = pc[n]
          /\ pc[m] \notin {"unsent", "acked"}
          /\ Live(m) \/ (pc[m] = "ack" /\ pc'[m] = "acked")
      BY <2>4, WorkerStep
    <3>2. Live(m) \/ row' = row
      BY <2>4, RowOfStep DEF Live, EnterRunning, CreateRun, WriteCompleted, WriteFailed
    <3>3. CASE ~Live(m)
      <4>1. row' = row /\ (Resulted' => Resulted)
        BY <2>4, <3>2, <3>3, ResultStep DEF Live
      <4> QED
        BY <3>1, <3>3, <4>1 DEF Stored, AllStored, Live
    <3>4. CASE Live(m)
      <4>1. \A n \in Msgs : n # m => ~Live(n) /\ ~Live(n)' /\ pc'[n] # "publish"
        BY <3>1, <3>4 DEF SingleExecution, Live
      <4>2. ~Resulted /\ api' \notin {"idle", "open"}
        BY <3>1, <3>4 DEF Stored, NothingSent
      <4>3. pc'[m] = "publish" => AllStored'
        BY <2>4, <3>1, StoringStep, ResultStep DEF MarkCompleted, AllStored, TypeOK, Row
      <4>4. Resulted' => AllStored' /\ ~Live(m)'
        BY <2>4, <3>1, <4>2, ResultStep DEF Stored, AllStored, Live
      <4> QED
        BY <4>1, <4>2, <4>3, <4>4 DEF Stored
    <3> QED
      BY <3>3, <3>4
  <2> QED
    BY <2>1, <2>2, <2>3, <2>4, StepKinds
<1>3. Stored => ResultIsDurable
  BY DEF Stored, ResultIsDurable, Resulted, AllStored
<1> QED
  BY <1>1, <1>2, <1>3, TypeAndDetail, SingleAndNothingSent, RowBehindHolds, FreshHolds, PTL
     DEF Spec

-----------------------------------------------------------------------------
(* Where the results come from.                                            *)

Results(r) == {r.classical, r.quantum, r.explanation}

\* The results are those of at most one execution, and once there are any,
\* nobody is left who would store others.
Sourced ==
  crashes = 0 =>
    /\ \/ Results(row) = {0}
       \/ /\ \E a \in Nat : Results(row) \subseteq {0, a}
          /\ \A m \in Msgs : Live(m) => pc[m] \in {"publish", "timeout", "failread", "failwrite"}
    /\ api \in {"idle", "open"} => Results(row) = {0}

\* The actions that write the row other than WriteCompleted leave the results
\* as they are or create the row without any.
LEMMA ResultsKept ==
  ASSUME TypeOK, NEW m \in Msgs, Execute(m) \/ Fault(m), ~ScheduleRetry(m), ~WriteCompleted(m)
  PROVE  \/ Results(row') = Results(row)
         \/ Results(row') = {0} /\ CreateRun(m)
<1>1. seen[m] \in Row /\ row \in Row
  BY DEF TypeOK
<1>2. CASE EnterRunning(m)
  BY <1>1, <1>2 DEF EnterRunning, MarkRunning, Flush, Column, Row, Results
<1>3. CASE WriteFailed(m)
  BY <1>1, <1>3 DEF WriteFailed, MarkFailed, Flush, Column, Row, Results
<1>4. CASE CreateRun(m)
  BY <1>4 DEF CreateRun, NewRow, Results
<1> QED
  BY <1>2, <1>3, <1>4, RowOfStep

\* From where the outcome is stored nothing leads back to the pipeline.
LEMMA PastStoring ==
  ASSUME TypeOK, NEW m \in Msgs, Execute(m) \/ Fault(m), ~ScheduleRetry(m), crashes' = 0,
         pc[m] \in {"publish", "timeout", "failread", "failwrite", "ack"}
  PROVE  pc'[m] \in {"publish", "timeout", "failread", "failwrite", "ack", "acked"}
<1>0. pc \in [Msgs -> PC] /\ ~WorkerLost(m)
  BY WorkerStep DEF TypeOK
<1>1. CASE Execute(m)
  BY <1>0, <1>1 DEF Execute, Deliver, SelectRun, EnterRunning, CreateRun, GraphReturns,
     ReadForCompleted, WriteCompleted, PublishResult, PublishError, ReadForFailed,
     FailureHasNoRow, WriteFailed, Ack, Goto
<1>2. CASE Fault(m)
  BY <1>0, <1>2 DEF Fault, EnterFails, GraphRaises, CompletedNotPersisted, RetryNotPublished,
     FailureNotPersisted, SoftLimit, SoftLimitLate, SoftLimitFires, SoftLimitAtEnd,
     ErrorEventEaten, HardLimit,
     Goto
<1> QED
  BY <1>1, <1>2

\* However many attempts a run takes and whichever of them fail or time out,
\* also while the outcome is stored: as long as no worker is lost, the result
\* columns never mix two attempts. The invariant says so of every row, whatever
\* its status.
THEOREM ResultsHaveOneSource == Spec => []OneSource
<1>1. Init => Sourced
  BY DEF Init, Sourced, Results, NoRow, NewRow
<1>2. /\ TypeOK /\ HoldsDetail /\ SingleExecution /\ NothingSent /\ Fresh /\ RowBehind
      /\ Sourced /\ [Next]_vars
      => Sourced'
  <2> SUFFICES ASSUME TypeOK, HoldsDetail, SingleExecution, NothingSent, Fresh, RowBehind,
                      Sourced, [Next]_vars, crashes' = 0
               PROVE  Sourced'
    BY DEF Sourced
  <2>0. pc \in [Msgs -> PC]
    BY DEF TypeOK
  <2>1. CASE Submit \/ DispatchFails \/ CommitFails \/ Commit \/ UNCHANGED vars
    <3>1. CASE Commit
      <4>1. Results(row') = {0}
        BY <3>1 DEF Commit, NewRow, Results
      <4>2. api' = "accepted"
        BY <3>1 DEF Commit
      <4> QED
        BY <4>1, <4>2 DEF Sourced, Results
    <3>2. CASE row' = row
      BY <2>1, <3>2, RequestStep DEF Sourced, Live, Results
    <3> QED
      BY <2>1, <3>1, <3>2, RequestStep
  <2>2. ASSUME NEW m \in Msgs, Dispatch(m) PROVE Sourced'
    BY <2>2 DEF Dispatch, Sourced, Results
  <2>3. ASSUME NEW m \in Msgs, ScheduleRetry(m) PROVE Sourced'
    <3>1. pc[m] = "raised" /\ UNCHANGED <<api, row, crashes>>
      BY <2>3, RetryStep
    <3>2. Results(row) = {0}
      BY <3>1 DEF Sourced, Live
    <3> QED
      BY <3>1, <3>2 DEF Sourced, Results
  <2>4. ASSUME NEW m \in Msgs, (Execute(m) \/ Fault(m)) /\ ~ScheduleRetry(m) PROVE Sourced'
    <3>1. /\ api' = api /\ crashes = 0 /\ pc[m] # "unsent"
          /\ \A n \in Msgs : n # m => pc'[n] = pc[n]
          /\ Live(m) \/ (pc[m] = "ack" /\ pc'[m] = "acked")
      BY <2>4, WorkerStep
    <3>2. api' \notin {"idle", "open"}
      BY <3>1 DEF NothingSent
    <3>3. CASE WriteCompleted(m)
      <4>1. /\ row' = MarkCompleted(row, detail[m], att[m])
            /\ detail[m] \in Detail /\ att[m] \in Nat /\ row \in Row
        BY <3>1, <3>3, StoringStep DEF TypeOK
      <4>2. pc[m] = "write" /\ pc'[m] = "publish"
        BY <2>0, <3>3 DEF WriteCompleted, Goto
      <4>3. Results(row) = {0}
        BY <3>1, <4>2 DEF Sourced, Live
      <4>4. Results(row') \subseteq {0, att[m]}
        BY <4>1, <4>3 DEF MarkCompleted, Results, Row
      <4>5. \A n \in Msgs : n # m => ~Live(n)'
        BY <3>1, <4>2 DEF SingleExecution, Live
      <4> QED
        BY <3>2, <4>1, <4>2, <4>4, <4>5 DEF Sourced, Results
    <3>4. CASE ~WriteCompleted(m)
      <4>1. Results(row') = Results(row) \/ (Results(row') = {0} /\ CreateRun(m))
        BY <2>4, <3>4, ResultsKept
      <4>2. CASE Results(row') = {0}
        BY <3>2, <4>2 DEF Sourced, Results
      <4>3. CASE Results(row') = Results(row) /\ Results(row) # {0}
        <5>1. pc[m] \in {"publish", "timeout", "failread", "failwrite", "ack"}
          BY <3>1, <4>3 DEF Sourced
        <5>2. pc'[m] \in {"publish", "timeout", "failread", "failwrite", "ack", "acked"}
          BY <2>4, <5>1, PastStoring
        <5> QED
          BY <3>1, <3>2, <4>3, <5>2 DEF Sourced, Results, Live
      <4> QED
        BY <4>1, <4>2, <4>3
    <3> QED
      BY <3>3, <3>4
  <2> QED
    BY <2>1, <2>2, <2>3, <2>4, StepKinds
<1>3. Sourced => OneSource
  BY DEF Sourced, OneSource, Results
<1> QED
  BY <1>1, <1>2, <1>3, TypeAndDetail, SingleAndNothingSent, RowBehindHolds, FreshHolds, PTL
     DEF Spec

-----------------------------------------------------------------------------
(* Every run comes to an end.                                              *)

\* The steps left in an execution, give or take: no path through the pipeline,
\* the except clauses and the handlers leads back, so each place has a number
\* below those from which it is reached.
Stage == [p \in PC |->
  CASE p = "queued" -> 12
    [] p = "select" -> 11
    [] p = "enter" -> 10
    [] p = "graph" -> 9
    [] p = "read" -> 8
    [] p = "write" -> 7
    [] p = "publish" -> 6
    [] p \in {"raised", "timeout"} -> 5
    [] p = "failread" -> 4
    [] p = "failwrite" -> 3
    [] OTHER -> 0]

\* What a message may still cause: the attempts its retries leave, each worth
\* more than a whole execution, the rest of this one, and the soft limit, which
\* fires once. A settled message is only acknowledged.
Load(m) ==
  IF pc[m] \in {"unsent", "acked"} THEN 0
  ELSE IF pc[m] = "ack" THEN 1
  ELSE 25 * (MaxRetries - retries[m]) + 2 * Stage[pc[m]] - (IF soft[m] THEN 1 ELSE 0)

\* More than any message can carry.
FullLoad == 25 * MaxRetries + 25

\* The request's own steps, with the message it has not dispatched yet.
ApiLoad ==
  CASE api = "idle" -> FullLoad + 2
    [] api = "open" -> FullLoad + 1
    [] api = "dispatched" -> 1
    [] OTHER -> 0

Loads == [m \in Msgs |-> Load(m)]
Carried == Total(Msgs, Loads)
Spare == (MaxCrashes - crashes) * FullLoad
Work == Spare + ApiLoad + Carried

\* A load is a natural number, and one that still counts is not zero.
LEMMA LoadBounds ==
  ASSUME TypeOK, NEW m \in Msgs
  PROVE  /\ Load(m) \in Nat /\ Load(m) < FullLoad /\ FullLoad \in Nat
         /\ pc[m] \notin {"unsent", "acked"} => 1 <= Load(m)
         /\ pc[m] \notin {"unsent", "acked", "ack"} => 5 <= Load(m)
<1>1. /\ pc[m] \in PC /\ retries[m] \in 0..MaxRetries /\ soft[m] \in BOOLEAN
      /\ MaxRetries \in Nat
  BY Assumptions DEF TypeOK
<1>2. /\ Stage[pc[m]] \in 0..12
      /\ pc[m] \notin {"unsent", "acked", "ack"} => Stage[pc[m]] >= 3
  BY <1>1 DEF Stage, PC, Pipeline, Handlers
<1> DEFINE s == Stage[pc[m]]
<1> HIDE DEF s
<1>3. s \in 0..12 /\ (pc[m] \notin {"unsent", "acked", "ack"} => s >= 3)
  BY <1>2 DEF s
<1>4. Load(m) = IF pc[m] \in {"unsent", "acked"} THEN 0
                ELSE IF pc[m] = "ack" THEN 1
                ELSE 25 * (MaxRetries - retries[m]) + 2 * s - (IF soft[m] THEN 1 ELSE 0)
  BY DEF Load, s
<1> QED
  BY <1>1, <1>3, <1>4 DEF FullLoad

\* The bounds once more, in the form that can be primed.
LEMMA LoadsInBounds ==
  TypeOK => \A m \in Msgs : Load(m) \in Nat /\ Load(m) < FullLoad
  BY LoadBounds

\* An execution's own step, or a fault that is no loss of the worker, leaves
\* less to do for its message and as much for every other.
LEMMA StepUnloads ==
  ASSUME TypeOK, TypeOK', NEW m \in Msgs, Execute(m) \/ Fault(m),
         ~ScheduleRetry(m), ~WorkerLost(m)
  PROVE  /\ Load(m)' < Load(m)
         /\ \A n \in Msgs \ {m} : Load(n)' = Load(n)
         /\ UNCHANGED <<api, crashes>>
<1>0. /\ pc \in [Msgs -> PC] /\ retries \in [Msgs -> 0..MaxRetries]
      /\ soft \in [Msgs -> BOOLEAN] /\ MaxRetries \in Nat
  BY Assumptions DEF TypeOK
<1>1. retries' = retries /\ UNCHANGED <<api, crashes>>
      /\ \A n \in Msgs \ {m} : pc'[n] = pc[n] /\ soft'[n] = soft[n]
  BY <1>0
     DEF Execute, Deliver, SelectRun, EnterRunning, CreateRun, GraphReturns,
         ReadForCompleted, WriteCompleted, PublishResult, PublishError, ReadForFailed,
         FailureHasNoRow, WriteFailed, Ack, Fault, EnterFails, GraphRaises,
         CompletedNotPersisted, RetryNotPublished,
         FailureNotPersisted, SoftLimit, SoftLimitLate, SoftLimitAtEnd, ErrorEventEaten,
         SoftLimitFires,
         HardLimit, Goto, EndExecution, local
<1>2. \A n \in Msgs \ {m} : Load(n)' = Load(n)
  BY <1>1 DEF Load
<1>3. \/ pc[m] = "ack" /\ pc'[m] = "acked"
      \/ pc[m] \notin {"unsent", "ack", "acked"} /\ pc'[m] \in {"ack", "acked"}
      \/ /\ pc[m] \notin {"unsent", "ack", "acked"}
         /\ pc'[m] \notin {"unsent", "ack", "acked"}
         /\ \/ Stage[pc'[m]] < Stage[pc[m]]
            \/ pc'[m] = pc[m] /\ soft'[m] /\ ~soft[m]
  <2> USE DEF Goto, EndExecution, local
  <2>1. CASE Execute(m)
    BY <1>0, <2>1
       DEF Execute, Deliver, SelectRun, EnterRunning, CreateRun, GraphReturns,
           ReadForCompleted, WriteCompleted, PublishResult, PublishError, ReadForFailed,
           FailureHasNoRow, WriteFailed, Ack, Stage, PC, Pipeline, Handlers
  <2>2. CASE EnterFails(m) \/ GraphRaises(m) \/ CompletedNotPersisted(m)
             \/ RetryNotPublished(m) \/ FailureNotPersisted(m)
    BY <1>0, <2>2
       DEF EnterFails, GraphRaises, CompletedNotPersisted, RetryNotPublished,
           FailureNotPersisted, Stage, PC, Pipeline, Handlers
  <2>3. CASE SoftLimit(m) \/ SoftLimitLate(m) \/ ErrorEventEaten(m)
    BY <1>0, <2>3
       DEF SoftLimit, SoftLimitLate, ErrorEventEaten, SoftLimitFires, Stage, PC, Pipeline,
       Handlers
  <2>4. CASE SoftLimitAtEnd(m) \/ HardLimit(m)
    BY <1>0, <2>4
       DEF SoftLimitAtEnd, HardLimit, Executing, Pipeline, Handlers
  <2> QED
    BY <2>1, <2>2, <2>3, <2>4 DEF Fault
<1>4. /\ Load(m) \in Nat
      /\ pc[m] \notin {"unsent", "acked"} => 1 <= Load(m)
      /\ pc[m] \notin {"unsent", "acked", "ack"} => 5 <= Load(m)
  BY LoadBounds
<1>5. /\ pc'[m] = "acked" => Load(m)' = 0
      /\ pc'[m] = "ack" => Load(m)' = 1
  BY DEF Load
<1>6. ASSUME /\ pc[m] \notin {"unsent", "ack", "acked"}
             /\ pc'[m] \notin {"unsent", "ack", "acked"}
             /\ \/ Stage[pc'[m]] < Stage[pc[m]]
                \/ pc'[m] = pc[m] /\ soft'[m] /\ ~soft[m]
      PROVE  Load(m)' < Load(m)
  <2> DEFINE s == Stage[pc[m]]
             t == Stage[pc'[m]]
             r == 25 * (MaxRetries - retries[m])
             d == IF soft[m] THEN 1 ELSE 0
             e == IF soft'[m] THEN 1 ELSE 0
  <2>1. /\ s \in 0..12 /\ t \in 0..12 /\ r \in Int /\ d \in 0..1 /\ e \in 0..1
        /\ Load(m) = r + 2 * s - d /\ Load(m)' = r + 2 * t - e
    <3>1. pc[m] \in PC /\ pc'[m] \in PC
      BY DEF TypeOK
    <3>2. s \in 0..12 /\ t \in 0..12
      BY <3>1 DEF Stage
    <3>3. r \in Int
      BY <1>0
    <3>4. Load(m) = r + 2 * s - d
      BY <1>6 DEF Load
    <3>5. Load(m)' = r + 2 * t - e
      BY <1>1, <1>6 DEF Load, Stage
    <3> QED
      BY <3>2, <3>3, <3>4, <3>5
  <2>2. t < s \/ (t = s /\ e = 1 /\ d = 0)
    BY <1>6
  <2> HIDE DEF s, t, r, d, e
  <2> QED
    BY <2>1, <2>2
<1>7. Load(m)' < Load(m)
  BY <1>3, <1>4, <1>5, <1>6
<1> QED
  BY <1>1, <1>2, <1>7

\* The loads as a function, and the sum of two of them that differ in one place.
LEMMA LoadsAdd ==
  ASSUME TypeOK, TypeOK', IsFiniteSet(Msgs)
  PROVE  /\ \A m \in Msgs : Loads[m] = Load(m) /\ Load(m) \in Nat /\ Load(m) < FullLoad
         /\ \A m \in Msgs : Loads'[m] = Load(m)' /\ Load(m)' \in Nat /\ Load(m)' < FullLoad
         /\ Total(Msgs, Loads) \in Nat /\ Total(Msgs, Loads)' \in Nat
         /\ \A m \in Msgs :
              (\A n \in Msgs \ {m} : Load(n)' = Load(n)) =>
                Total(Msgs, Loads)' = Total(Msgs, Loads) + Load(m)' - Load(m)
<1>1. \A m \in Msgs : Loads[m] = Load(m) /\ Load(m) \in Nat /\ Load(m) < FullLoad
  BY LoadBounds DEF Loads
<1>2. \A m \in Msgs : Loads'[m] = Load(m)' /\ Load(m)' \in Nat /\ Load(m)' < FullLoad
  <2>1. TypeOK' => \A m \in Msgs : Load(m)' \in Nat /\ Load(m)' < FullLoad
    <3>1. (TypeOK => \A m \in Msgs : Load(m) \in Nat /\ Load(m) < FullLoad)'
      BY LoadsInBounds, PTL
    <3> QED
      BY <3>1
  <2> QED
    BY <2>1 DEF Loads
<1>3. Total(Msgs, Loads)' = Total(Msgs, Loads')
  OBVIOUS
<1>4. Total(Msgs, Loads) \in Nat /\ Total(Msgs, Loads') \in Nat
  BY <1>1, <1>2, TotalIsNatural
<1>5. ASSUME NEW m \in Msgs, \A n \in Msgs \ {m} : Load(n)' = Load(n)
      PROVE  Total(Msgs, Loads') = Total(Msgs, Loads) + Load(m)' - Load(m)
  <2>1. /\ \A n \in Msgs : Loads[n] \in Int /\ Loads'[n] \in Int
        /\ \A n \in Msgs \ {m} : Loads'[n] = Loads[n]
    BY <1>1, <1>2, <1>5
  <2>2. Total(Msgs, Loads') = Total(Msgs, Loads) + Loads'[m] - Loads[m]
    BY <2>1, TotalChanges
  <2> QED
    BY <1>1, <1>2, <2>2
<1> QED
  BY <1>1, <1>2, <1>3, <1>4, <1>5

\* A retry moves the run to another message, with one attempt less.
LEMMA RetryUnloads ==
  ASSUME TypeOK, TypeOK', IsFiniteSet(Msgs), NEW m \in Msgs, ScheduleRetry(m)
  PROVE  /\ Total(Msgs, Loads)' < Total(Msgs, Loads)
         /\ UNCHANGED <<api, crashes>>
<1>1. PICK n \in Msgs :
         /\ n # m /\ pc[n] = "unsent" /\ pc[m] = "raised"
         /\ pc' = [pc EXCEPT ![m] = "ack", ![n] = "queued"]
         /\ retries' = [retries EXCEPT ![n] = retries[m] + 1]
         /\ UNCHANGED <<api, crashes>>
  BY RetryStep
<1>2. /\ pc \in [Msgs -> PC] /\ retries \in [Msgs -> 0..MaxRetries]
      /\ soft \in [Msgs -> BOOLEAN] /\ soft' \in [Msgs -> BOOLEAN] /\ MaxRetries \in Nat
  BY Assumptions DEF TypeOK
<1>3. soft' = [soft EXCEPT ![m] = FALSE]
  BY DEF ScheduleRetry, EndExecution
<1>4. /\ pc'[m] = "ack" /\ pc'[n] = "queued"
      /\ \A k \in Msgs \ {m, n} : pc'[k] = pc[k] /\ retries'[k] = retries[k] /\ soft'[k] = soft[k]
      /\ retries'[n] = retries[m] + 1
  BY <1>1, <1>2, <1>3
<1>5. Load(n) = 0 /\ Load(m)' = 1
      /\ \A k \in Msgs \ {m, n} : Load(k)' = Load(k)
  <2>1. Load(n) = 0 /\ Load(m)' = 1
    BY <1>1, <1>4 DEF Load
  <2>2. ASSUME NEW k \in Msgs \ {m, n} PROVE Load(k)' = Load(k)
    BY <1>4, <2>2 DEF Load
  <2> QED
    BY <2>1, <2>2
<1>6. Load(m) >= 25 * (MaxRetries - retries[m]) + 9
  <2>1. Load(m) = 25 * (MaxRetries - retries[m]) + 10 - (IF soft[m] THEN 1 ELSE 0)
    <3>1. Stage["raised"] = 5
      BY DEF Stage, PC, Handlers
    <3> QED
      BY <1>1, <3>1 DEF Load
  <2> QED
    BY <1>2, <2>1
<1>7. Load(n)' <= 25 * (MaxRetries - retries[m]) - 1
  <2>1. Load(n)' = 25 * (MaxRetries - (retries[m] + 1)) + 24 - (IF soft'[n] THEN 1 ELSE 0)
    <3>1. Stage["queued"] = 12
      BY DEF Stage, PC
    <3> QED
      BY <1>4, <3>1 DEF Load
  <2> QED
    BY <1>2, <2>1
<1>8. /\ \A k \in Msgs : /\ Loads[k] = Load(k) /\ Loads[k] \in Int
                         /\ Loads'[k] = Load(k)' /\ Loads'[k] \in Int
      /\ Total(Msgs, Loads) \in Nat /\ Total(Msgs, Loads)' = Total(Msgs, Loads')
  BY LoadsAdd
<1>9. Total(Msgs, Loads') = Total(Msgs, Loads) + (Load(m)' - Load(m)) + (Load(n)' - Load(n))
  <2>1. /\ \A k \in Msgs : Loads[k] \in Int /\ Loads'[k] \in Int
        /\ \A k \in Msgs \ {m, n} : Loads'[k] = Loads[k]
    BY <1>5, <1>8
  <2>2. Total(Msgs, Loads')
          = Total(Msgs, Loads) + (Loads'[m] - Loads[m]) + (Loads'[n] - Loads[n])
    <3>1. PICK f, h : f = Loads /\ h = Loads'
      OBVIOUS
    <3>2. /\ \A k \in Msgs : f[k] \in Int /\ h[k] \in Int
          /\ \A k \in Msgs \ {m, n} : h[k] = f[k]
          /\ m # n /\ n \in Msgs
      BY <1>1, <2>1, <3>1
    <3>3. Total(Msgs, h) = Total(Msgs, f) + (h[m] - f[m]) + (h[n] - f[n])
      <4>1. \A k \in Msgs : f[k] \in Int /\ h[k] \in Int
        BY <3>2
      <4>2. \A k \in Msgs \ {m, n} : h[k] = f[k]
        BY <3>2
      <4>3. m \in Msgs /\ n \in Msgs /\ m # n /\ IsFiniteSet(Msgs)
        BY <3>2
      <4>4. ASSUME NEW x \in Msgs, NEW y \in Msgs, x # y, \A k \in Msgs \ {x, y} : h[k] = f[k]
            PROVE  Total(Msgs, h) = Total(Msgs, f) + (h[x] - f[x]) + (h[y] - f[y])
        BY <4>1, <4>4, TotalChangesTwice
      <4> QED
        BY <4>2, <4>3, <4>4
    <3> QED
      BY <3>1, <3>3
  <2> QED
    BY <1>8, <2>2
<1>10. Load(m) \in Int /\ Load(n)' \in Int
  BY <1>8
<1> QED
  BY <1>1, <1>2, <1>5, <1>6, <1>7, <1>8, <1>9, <1>10

\* A lost worker gives its message everything back, and there is one less to lose.
LEMMA LossReloads ==
  ASSUME TypeOK, TypeOK', IsFiniteSet(Msgs), NEW m \in Msgs, WorkerLost(m)
  PROVE  /\ Total(Msgs, Loads)' < Total(Msgs, Loads) + FullLoad
         /\ api' = api /\ crashes < MaxCrashes /\ crashes' = crashes + 1
<1>1. /\ pc \in [Msgs -> PC] /\ retries' = retries
      /\ pc[m] \notin {"unsent", "acked"}
      /\ \A n \in Msgs \ {m} : pc'[n] = pc[n] /\ soft'[n] = soft[n]
      /\ api' = api /\ crashes < MaxCrashes /\ crashes' = crashes + 1
  BY DEF TypeOK, WorkerLost, Executing, Pipeline, Handlers, Goto, EndExecution
<1>2. \A n \in Msgs \ {m} : Load(n)' = Load(n)
  BY <1>1 DEF Load
<1>3. 1 <= Load(m) /\ Load(m) \in Nat /\ FullLoad \in Nat
  BY <1>1, LoadBounds
<1>4. /\ Total(Msgs, Loads)' = Total(Msgs, Loads) + Load(m)' - Load(m)
      /\ Load(m)' \in Nat /\ Load(m)' < FullLoad /\ Total(Msgs, Loads) \in Nat
  BY <1>2, LoadsAdd
<1> QED
  BY <1>1, <1>3, <1>4

\* What the request does: each of its steps is one less, and the message it
\* dispatches was counted.
LEMMA RequestUnloads ==
  ASSUME TypeOK, TypeOK', IsFiniteSet(Msgs),
         \/ Submit \/ DispatchFails \/ CommitFails \/ Commit
         \/ \E m \in Msgs : Dispatch(m)
  PROVE  /\ ApiLoad' + Total(Msgs, Loads)' < ApiLoad + Total(Msgs, Loads)
         /\ crashes' = crashes
<1>0. MaxRetries \in Nat /\ FullLoad \in Nat /\ FullLoad >= 25
  BY Assumptions DEF FullLoad
<1>1. Total(Msgs, Loads) \in Nat
  BY LoadsAdd
<1>2. CASE Submit \/ DispatchFails \/ CommitFails \/ Commit
  <2>1. Loads' = Loads /\ crashes' = crashes
    BY <1>2 DEF Submit, DispatchFails, CommitFails, Commit, local, Loads, Load
  <2>2. Total(Msgs, Loads)' = Total(Msgs, Loads)
    BY <2>1
  <2>3. ApiLoad' < ApiLoad /\ ApiLoad' \in Int /\ ApiLoad \in Int
    BY <1>0, <1>2 DEF Submit, DispatchFails, CommitFails, Commit, ApiLoad
  <2> QED
    BY <1>1, <2>1, <2>2, <2>3
<1>3. ASSUME NEW m \in Msgs, Dispatch(m)
      PROVE  /\ ApiLoad' + Total(Msgs, Loads)' < ApiLoad + Total(Msgs, Loads)
             /\ crashes' = crashes
  <2>1. /\ pc[m] = "unsent" /\ \A n \in Msgs \ {m} : pc'[n] = pc[n]
        /\ retries' = retries /\ soft' = soft /\ crashes' = crashes
        /\ api = "open" /\ api' = "dispatched"
    BY <1>3 DEF Dispatch, Goto, local, TypeOK
  <2>2. Load(m) = 0 /\ \A n \in Msgs \ {m} : Load(n)' = Load(n)
    BY <2>1 DEF Load
  <2>3. /\ Total(Msgs, Loads)' = Total(Msgs, Loads) + Load(m)' - Load(m)
        /\ Load(m)' \in Nat /\ Load(m)' < FullLoad
    BY <2>2, LoadsAdd
  <2>4. ApiLoad = FullLoad + 1 /\ ApiLoad' = 1
    BY <2>1 DEF ApiLoad, FullLoad
  <2> QED
    BY <1>0, <1>1, <2>1, <2>2, <2>3, <2>4
<1> QED
  BY <1>2, <1>3

\* The arithmetic of it: a smaller summand, a smaller sum.
LEMMA SumKeepsOrder ==
  /\ \A a, b, c \in Nat : b < c => a + b < a + c
  /\ \A a, b, c, k \in Nat : b < c + k => a + b < a + c + k
  OBVIOUS

\* Every step of every run leaves less to do, whatever goes wrong in it: with
\* as many messages and lost workers as the constants allow, no schedule of
\* retries, redeliveries and time limits keeps a run going for ever. What is
\* left of RunSettles is that the steps are taken.
RunsDown == [][Work' < Work /\ Work' \in Nat /\ Work \in Nat]_vars

\* No run goes on for ever, however it fails.
THEOREM RunsEnd ==
  ASSUME IsFiniteSet(Msgs)
  PROVE  Spec => RunsDown
<1>1. TypeOK /\ TypeOK' /\ [Next]_vars => [Work' < Work /\ Work' \in Nat /\ Work \in Nat]_vars
  <2> SUFFICES ASSUME TypeOK, TypeOK', Next PROVE Work' < Work /\ Work' \in Nat /\ Work \in Nat
    OBVIOUS
  <2>1. /\ Carried \in Nat /\ Carried' \in Nat /\ FullLoad \in Nat
        /\ crashes \in 0..MaxCrashes /\ crashes' \in 0..MaxCrashes
    BY Assumptions, LoadsAdd DEF TypeOK, FullLoad, Carried
  <2>2. ApiLoad \in Nat /\ ApiLoad' \in Nat
    BY <2>1 DEF ApiLoad, FullLoad
  <2>3. Spare \in Nat /\ Spare' \in Nat
    <3>1. \A x, y \in Nat : x * y \in Nat
      OBVIOUS
    <3>2. MaxCrashes - crashes \in Nat /\ MaxCrashes - crashes' \in Nat
      <4>1. \A c \in 0..MaxCrashes : MaxCrashes - c \in Nat
        BY Assumptions
      <4> QED
        BY <2>1, <4>1
    <3> QED
      BY <2>1, <3>1, <3>2 DEF Spare, FullLoad
  <2>4. Work = Spare + ApiLoad + Carried /\ Work' = Spare' + ApiLoad' + Carried'
    BY DEF Work
  <2>5. \/ crashes' = crashes /\ ApiLoad' + Carried' < ApiLoad + Carried
        \/ crashes' = crashes + 1 /\ ApiLoad' = ApiLoad /\ Carried' < Carried + FullLoad
    <3>1. CASE Submit \/ DispatchFails \/ CommitFails \/ Commit \/ \E m \in Msgs : Dispatch(m)
      BY <3>1, RequestUnloads DEF Carried
    <3>2. ASSUME NEW m \in Msgs, ScheduleRetry(m)
          PROVE crashes' = crashes /\ ApiLoad' + Carried' < ApiLoad + Carried
      <4>1. Carried' < Carried /\ UNCHANGED <<api, crashes>>
        BY <3>2, RetryUnloads DEF Carried
      <4>2. ApiLoad' = ApiLoad
        BY <4>1 DEF ApiLoad, FullLoad
      <4>3. crashes' = crashes
        BY <4>1
      <4>4. ApiLoad' + Carried' < ApiLoad + Carried
        BY <2>1, <2>2, <4>1, <4>2, SumKeepsOrder
      <4> QED
        BY <4>3, <4>4
    <3>3. ASSUME NEW m \in Msgs, WorkerLost(m)
          PROVE crashes' = crashes + 1 /\ ApiLoad' = ApiLoad /\ Carried' < Carried + FullLoad
      <4>1. Carried' < Carried + FullLoad /\ api' = api /\ crashes' = crashes + 1
        BY <3>3, LossReloads DEF Carried
      <4> QED
        BY <4>1 DEF ApiLoad, FullLoad
    <3>4. ASSUME NEW m \in Msgs, Execute(m) \/ Fault(m), ~ScheduleRetry(m), ~WorkerLost(m)
          PROVE crashes' = crashes /\ ApiLoad' + Carried' < ApiLoad + Carried
      <4>1. /\ Load(m)' < Load(m) /\ UNCHANGED <<api, crashes>>
            /\ \A n \in Msgs \ {m} : Load(n)' = Load(n)
        BY <3>4, StepUnloads
      <4>2. Carried' = Carried + Load(m)' - Load(m) /\ Load(m)' \in Nat /\ Load(m) \in Nat
        BY <4>1, LoadsAdd DEF Carried
      <4>3. ApiLoad' = ApiLoad
        BY <4>1 DEF ApiLoad, FullLoad
      <4> QED
        BY <2>1, <2>2, <4>1, <4>2, <4>3
    <3> QED
      BY <3>1, <3>2, <3>3, <3>4 DEF Next, ApiStep
  <2>6. \/ Spare' = Spare /\ ApiLoad' + Carried' < ApiLoad + Carried
        \/ Spare' = Spare - FullLoad /\ ApiLoad' + Carried' < ApiLoad + Carried + FullLoad
    <3>1. CASE crashes' = crashes /\ ApiLoad' + Carried' < ApiLoad + Carried
      <4>1. Spare' = Spare
        BY <3>1 DEF Spare, FullLoad
      <4> QED
        BY <3>1, <4>1
    <3>2. CASE crashes' = crashes + 1 /\ ApiLoad' = ApiLoad /\ Carried' < Carried + FullLoad
      <4>1. ApiLoad' + Carried' < ApiLoad + Carried + FullLoad
        BY <2>1, <2>2, <3>2, SumKeepsOrder
      <4>2. Spare' = Spare - FullLoad
        <5>1. \A x, y, k \in Int : (x - (y + 1)) * k = (x - y) * k - k
          OBVIOUS
        <5> QED
          BY <2>1, <3>2, <5>1, Assumptions DEF Spare, FullLoad
      <4> QED
        BY <4>1, <4>2
    <3> QED
      BY <2>5, <3>1, <3>2
  <2>7. PICK s \in Nat, a \in Nat, c \in Nat, s1 \in Nat, a1 \in Nat, c1 \in Nat, f \in Nat :
          /\ s = Spare /\ a = ApiLoad /\ c = Carried /\ f = FullLoad
          /\ s1 = Spare' /\ a1 = ApiLoad' /\ c1 = Carried'
    BY <2>1, <2>2, <2>3
  <2>8. \/ s1 = s /\ a1 + c1 < a + c
        \/ s1 = s - f /\ a1 + c1 < a + c + f
    BY <2>6, <2>7
  <2>9. /\ s1 + a1 + c1 < s + a + c
        /\ s1 + a1 + c1 \in Nat /\ s + a + c \in Nat
    BY <2>8
  <2>10. Work = s + a + c /\ Work' = s1 + a1 + c1
    BY <2>4, <2>7
  <2> QED
    BY <2>9, <2>10
<1>2. QED
  BY <1>1, TypeCorrect, PTL DEF Spec, RunsDown

-----------------------------------------------------------------------------
(* The attempts, with workers lost.                                        *)

\* The executions a message may still start: its own delivery and its retries.
Due(m) ==
  IF pc[m] \in {"unsent", "ack", "acked"} THEN 0
  ELSE MaxRetries - retries[m] + (IF pc[m] = "queued" THEN 1 ELSE 0)
Dues == [m \in Msgs |-> Due(m)]

\* The executions of the message the request has not dispatched yet.
Undispatched == IF api \in {"idle", "open"} THEN MaxRetries + 1 ELSE 0

\* Started and still to start, each lost worker may repeat the whole round.
Paid == started + Undispatched + Total(Msgs, Dues) <= (MaxRetries + 1) * (crashes + 1)

\* A message never owes more than a whole round.
LEMMA DueBounds ==
  TypeOK => \A m \in Msgs : Due(m) \in Nat /\ Due(m) <= MaxRetries + 1
<1> SUFFICES ASSUME TypeOK, NEW m \in Msgs PROVE Due(m) \in Nat /\ Due(m) <= MaxRetries + 1
  OBVIOUS
<1>1. retries[m] \in 0..MaxRetries /\ MaxRetries \in Nat
  BY Assumptions DEF TypeOK
<1> QED
  BY <1>1 DEF Due

\* The dues as a function, and the sums before and after a step.
LEMMA DuesAdd ==
  ASSUME TypeOK, TypeOK', IsFiniteSet(Msgs)
  PROVE  /\ \A m \in Msgs : Dues[m] = Due(m) /\ Due(m) \in Nat /\ Due(m) <= MaxRetries + 1
         /\ \A m \in Msgs : Dues'[m] = Due(m)' /\ Due(m)' \in Nat /\ Due(m)' <= MaxRetries + 1
         /\ Total(Msgs, Dues) \in Nat /\ Total(Msgs, Dues)' \in Nat
         /\ Total(Msgs, Dues)' = Total(Msgs, Dues')
         /\ \A m \in Msgs :
              (\A n \in Msgs \ {m} : Due(n)' = Due(n)) =>
                Total(Msgs, Dues)' = Total(Msgs, Dues) + Due(m)' - Due(m)
<1>1. \A m \in Msgs : Dues[m] = Due(m) /\ Due(m) \in Nat /\ Due(m) <= MaxRetries + 1
  BY DueBounds DEF Dues
<1>2. \A m \in Msgs : Dues'[m] = Due(m)' /\ Due(m)' \in Nat /\ Due(m)' <= MaxRetries + 1
  <2>1. (TypeOK => \A m \in Msgs : Due(m) \in Nat /\ Due(m) <= MaxRetries + 1)'
    BY DueBounds, PTL
  <2> QED
    BY <2>1 DEF Dues
<1>3. Total(Msgs, Dues)' = Total(Msgs, Dues')
  OBVIOUS
<1>4. Total(Msgs, Dues) \in Nat /\ Total(Msgs, Dues') \in Nat
  BY <1>1, <1>2, TotalIsNatural
<1>5. ASSUME NEW m \in Msgs, \A n \in Msgs \ {m} : Due(n)' = Due(n)
      PROVE  Total(Msgs, Dues') = Total(Msgs, Dues) + Due(m)' - Due(m)
  <2>1. /\ \A n \in Msgs : Dues[n] \in Int /\ Dues'[n] \in Int
        /\ \A n \in Msgs \ {m} : Dues'[n] = Dues[n]
    BY <1>1, <1>2, <1>5
  <2>2. Total(Msgs, Dues') = Total(Msgs, Dues) + Dues'[m] - Dues[m]
    BY <2>1, TotalChanges
  <2> QED
    BY <1>1, <1>2, <2>2
<1> QED
  BY <1>1, <1>2, <1>3, <1>4, <1>5

\* No step of a request or an execution starts or promises more than was due,
\* a lost worker aside.
LEMMA DuesKept ==
  ASSUME TypeOK, TypeOK', IsFiniteSet(Msgs), Next
  PROVE  \E k \in {0, 1} :
           /\ crashes' = crashes + k
           /\ started' + Undispatched' + Total(Msgs, Dues)'
                <= started + Undispatched + Total(Msgs, Dues) + k * (MaxRetries + 1)
<1>0. /\ pc \in [Msgs -> PC] /\ retries \in [Msgs -> 0..MaxRetries] /\ MaxRetries \in Nat
      /\ started \in Nat /\ crashes \in Nat /\ started' \in Nat
  BY Assumptions DEF TypeOK
<1>1. PICK s \in Nat, u \in Nat, t \in Nat, s1 \in Nat, u1 \in Nat, t1 \in Nat :
        /\ s = started /\ u = Undispatched /\ t = Total(Msgs, Dues)
        /\ s1 = started' /\ u1 = Undispatched' /\ t1 = Total(Msgs, Dues)'
  <2>1. Undispatched \in Nat /\ Undispatched' \in Nat
    BY <1>0 DEF Undispatched
  <2>2. Total(Msgs, Dues) \in Nat /\ Total(Msgs, Dues)' \in Nat
    BY DuesAdd
  <2> QED
    BY <1>0, <2>1, <2>2
<1> SUFFICES \/ crashes' = crashes /\ s1 + u1 + t1 <= s + u + t
             \/ crashes' = crashes + 1 /\ s1 + u1 + t1 <= s + u + t + MaxRetries + 1
  BY <1>0, <1>1
<1>2. ASSUME Submit \/ DispatchFails \/ CommitFails \/ Commit
      PROVE  crashes' = crashes /\ s1 + u1 + t1 <= s + u + t
  <2>1. UNCHANGED <<pc, retries, started, crashes>>
    BY <1>2 DEF Submit, DispatchFails, CommitFails, Commit, local
  <2>2. Dues' = Dues
    BY <2>1 DEF Dues, Due
  <2>3. u1 = u \/ (u1 = 0 /\ u = MaxRetries + 1)
    BY <1>1, <1>2 DEF Submit, DispatchFails, CommitFails, Commit, Undispatched
  <2>4. t1 = t /\ s1 = s
    BY <1>1, <2>1, <2>2
  <2> QED
    BY <1>0, <2>1, <2>3, <2>4
<1>3. ASSUME NEW m \in Msgs, Dispatch(m)
      PROVE  crashes' = crashes /\ s1 + u1 + t1 <= s + u + t
  <2>1. /\ pc[m] = "unsent" /\ pc' = [pc EXCEPT ![m] = "queued"]
        /\ UNCHANGED <<retries, started, crashes>>
        /\ api = "open" /\ api' = "dispatched"
    BY <1>3 DEF Dispatch, Goto, local
  <2>2. \A n \in Msgs \ {m} : Due(n)' = Due(n)
    BY <1>0, <2>1 DEF Due
  <2>3. Due(m) = 0 /\ Due(m)' \in Nat /\ Due(m)' <= MaxRetries + 1
    BY <2>1, DuesAdd DEF Due
  <2>4. t1 = t + Due(m)' - Due(m)
    BY <1>1, <2>2, DuesAdd
  <2>5. u = MaxRetries + 1 /\ u1 = 0 /\ s1 = s
    BY <1>1, <2>1 DEF Undispatched
  <2> QED
    BY <1>0, <2>1, <2>3, <2>4, <2>5
<1>4. ASSUME NEW m \in Msgs, ScheduleRetry(m)
      PROVE  crashes' = crashes /\ s1 + u1 + t1 <= s + u + t
  <2>1. PICK n \in Msgs :
           /\ n # m /\ pc[n] = "unsent" /\ pc[m] = "raised"
           /\ pc' = [pc EXCEPT ![m] = "ack", ![n] = "queued"]
           /\ retries' = [retries EXCEPT ![n] = retries[m] + 1]
           /\ UNCHANGED <<api, started, crashes>>
    BY <1>4, RetryStep
  <2>2. /\ pc'[m] = "ack" /\ pc'[n] = "queued" /\ retries'[n] = retries[m] + 1
        /\ \A k \in Msgs \ {m, n} : pc'[k] = pc[k] /\ retries'[k] = retries[k]
    BY <1>0, <2>1
  <2>3. /\ Due(m)' = 0 /\ Due(m) = MaxRetries - retries[m] /\ Due(n) = 0
        /\ Due(n)' = MaxRetries - (retries[m] + 1) + 1
    BY <1>0, <2>1, <2>2 DEF Due
  <2>4. ASSUME NEW k \in Msgs \ {m, n} PROVE Due(k)' = Due(k)
    BY <2>2, <2>4 DEF Due
  <2>5. t1 = t + (Due(m)' - Due(m)) + (Due(n)' - Due(n))
    <3>1. /\ \A k \in Msgs : /\ Dues[k] = Due(k) /\ Dues[k] \in Int
                             /\ Dues'[k] = Due(k)' /\ Dues'[k] \in Int
          /\ Total(Msgs, Dues)' = Total(Msgs, Dues')
      BY DuesAdd
    <3>2. /\ \A k \in Msgs : Dues[k] \in Int /\ Dues'[k] \in Int
          /\ \A k \in Msgs \ {m, n} : Dues'[k] = Dues[k]
      BY <2>4, <3>1
    <3>3. Total(Msgs, Dues')
            = Total(Msgs, Dues) + (Dues'[m] - Dues[m]) + (Dues'[n] - Dues[n])
      <4>1. PICK f, h : f = Dues /\ h = Dues'
        OBVIOUS
      <4>2. /\ \A k \in Msgs : f[k] \in Int /\ h[k] \in Int
            /\ \A k \in Msgs \ {m, n} : h[k] = f[k]
            /\ m # n /\ n \in Msgs
        BY <2>1, <3>2, <4>1
      <4>3. Total(Msgs, h) = Total(Msgs, f) + (h[m] - f[m]) + (h[n] - f[n])
        BY <4>2, TotalChangesTwice
      <4> QED
        BY <4>1, <4>3
    <3> QED
      BY <1>1, <3>1, <3>3
  <2>6. u1 = u /\ s1 = s
    BY <1>1, <2>1 DEF Undispatched
  <2>7. retries[m] \in Int
    BY <1>0
  <2> QED
    BY <1>0, <2>1, <2>3, <2>5, <2>6, <2>7
<1>5. ASSUME NEW m \in Msgs, Execute(m) \/ Fault(m), ~ScheduleRetry(m)
      PROVE  \/ crashes' = crashes /\ s1 + u1 + t1 <= s + u + t
             \/ crashes' = crashes + 1 /\ s1 + u1 + t1 <= s + u + t + MaxRetries + 1
  <2>1. /\ api' = api /\ retries' = retries
        /\ \A n \in Msgs : n # m => pc'[n] = pc[n]
    BY <1>5, WorkerStep
  <2>2. \A n \in Msgs \ {m} : Due(n)' = Due(n)
    BY <2>1 DEF Due
  <2>3. /\ t1 = t + Due(m)' - Due(m) /\ u1 = u
        /\ Due(m) \in Nat /\ Due(m)' \in Nat /\ Due(m)' <= MaxRetries + 1
    BY <1>1, <2>1, <2>2, DuesAdd DEF Undispatched
  <2>4. CASE Deliver(m)
    <3>1. pc[m] = "queued" /\ pc'[m] = "select" /\ s1 = s + 1 /\ crashes' = crashes
      BY <1>0, <1>1, <2>4 DEF Deliver, Goto
    <3>2. Due(m)' = Due(m) - 1
      BY <1>0, <2>1, <3>1 DEF Due
    <3> QED
      BY <2>3, <3>1, <3>2
  <2>5. CASE WorkerLost(m)
    <3>1. s1 = s /\ crashes' = crashes + 1
      BY <1>1, <2>5 DEF WorkerLost
    <3> QED
      BY <1>0, <2>3, <3>1
  <2>6. CASE ~Deliver(m) /\ ~WorkerLost(m)
    <3>1. /\ pc'[m] \in {"ack", "acked"} \/ (pc'[m] # "queued" /\ pc[m] \notin {"unsent", "ack", "acked"})
          /\ started' = started /\ crashes' = crashes
      BY <1>0, <1>5, <2>6
         DEF Execute, SelectRun, EnterRunning, CreateRun, GraphReturns,
             ReadForCompleted, WriteCompleted, PublishResult, PublishError, ReadForFailed,
             FailureHasNoRow, WriteFailed, Ack, Fault, EnterFails, GraphRaises,
             CompletedNotPersisted, RetryNotPublished, FailureNotPersisted, SoftLimit,
             SoftLimitLate, SoftLimitAtEnd, ErrorEventEaten, SoftLimitFires, HardLimit, Executing,
             Pipeline, Handlers, Goto, local
    <3>2. Due(m)' <= Due(m)
      <4>1. retries[m] \in Int /\ MaxRetries \in Int
        BY <1>0
      <4>2. CASE pc'[m] \in {"ack", "acked"}
        <5>1. Due(m)' = 0
          BY <4>2 DEF Due
        <5> QED
          BY <2>3, <5>1
      <4>3. CASE pc'[m] # "queued" /\ pc'[m] \notin {"ack", "acked"}
                 /\ pc[m] \notin {"unsent", "ack", "acked"}
        BY <2>1, <2>3, <4>1, <4>3 DEF Due
      <4> QED
        BY <3>1, <4>2, <4>3
    <3> QED
      BY <1>1, <2>3, <3>1, <3>2
  <2> QED
    BY <2>4, <2>5, <2>6
<1> QED
  BY <1>2, <1>3, <1>4, <1>5 DEF Next, ApiStep

\* What the retry limit still promises when worker processes are lost: the
\* message of a lost worker is delivered again, with the retries it carried,
\* even after its own retry was published, and each loss may so cost a whole
\* round of attempts, but no more.
AttemptsPaid == started <= (MaxRetries + 1) * (crashes + 1)

\* The executions of a run are bounded by the retries and the workers lost.
THEOREM LossesCostARound ==
  ASSUME IsFiniteSet(Msgs)
  PROVE  Spec => []AttemptsPaid
<1>1. Init => Paid
  <2> SUFFICES ASSUME Init PROVE Paid
    OBVIOUS
  <2>1. \A m \in Msgs : Dues[m] = 0
    BY DEF Init, Dues, Due
  <2>2. Total(Msgs, Dues) = 0
    <3>1. \A m \in Msgs : Dues[m] \in Int /\ Dues[m] = 0 * Dues[m] + 0
      BY <2>1
    <3>2. Total(Msgs, Dues) = 0 * Total(Msgs, Dues) + 0 * Cardinality(Msgs)
      BY <3>1, TotalIsLinear
    <3>3. Total(Msgs, Dues) \in Int /\ Cardinality(Msgs) \in Nat
      BY <3>1, TotalType, FS_CardinalityType
    <3> QED
      BY <3>2, <3>3
  <2> QED
    BY <2>2, Assumptions DEF Init, Paid, Undispatched
<1>2. TypeOK /\ TypeOK' /\ Paid /\ [Next]_vars => Paid'
  <2> SUFFICES ASSUME TypeOK, TypeOK', Paid, [Next]_vars PROVE Paid'
    OBVIOUS
  <2>1. CASE UNCHANGED vars
    BY <2>1 DEF vars, local, Paid, Undispatched, Dues, Due
  <2>2. CASE Next
    <3>1. PICK k \in {0, 1} :
             /\ crashes' = crashes + k
             /\ started' + Undispatched' + Total(Msgs, Dues)'
                  <= started + Undispatched + Total(Msgs, Dues) + k * (MaxRetries + 1)
      BY <2>2, DuesKept
    <3>2. PICK s, u, t, s1, u1, t1, c \in Nat :
             /\ s = started /\ u = Undispatched /\ t = Total(Msgs, Dues) /\ c = crashes
             /\ s1 = started' /\ u1 = Undispatched' /\ t1 = Total(Msgs, Dues)'
      <4>1. Total(Msgs, Dues) \in Nat /\ Total(Msgs, Dues)' \in Nat
        BY DuesAdd
      <4>2. Undispatched \in Nat /\ Undispatched' \in Nat
        BY Assumptions DEF Undispatched
      <4>3. started \in Nat /\ started' \in Nat /\ crashes \in Nat
        BY Assumptions DEF TypeOK
      <4> QED
        BY <4>1, <4>2, <4>3
    <3>3. /\ s + u + t <= (MaxRetries + 1) * (c + 1)
          /\ s1 + u1 + t1 <= s + u + t + k * (MaxRetries + 1)
      BY <3>1, <3>2 DEF Paid
    <3>4. (MaxRetries + 1) * (c + k + 1) = (MaxRetries + 1) * (c + 1) + k * (MaxRetries + 1)
      BY Assumptions
    <3>5. s1 + u1 + t1 <= (MaxRetries + 1) * (c + k + 1)
      BY <3>3, <3>4, Assumptions
    <3>6. crashes' + 1 = c + k + 1
      BY <3>1, <3>2
    <3> QED
      BY <3>2, <3>5, <3>6 DEF Paid
  <2> QED
    BY <2>1, <2>2
<1>3. TypeOK /\ Paid => AttemptsPaid
  <2> SUFFICES ASSUME TypeOK, Paid PROVE AttemptsPaid
    OBVIOUS
  <2>1. Total(Msgs, Dues) \in Nat
    <3>1. \A m \in Msgs : Dues[m] \in Nat
      BY DueBounds DEF Dues
    <3> QED
      BY <3>1, TotalIsNatural
  <2>2. Undispatched \in Nat /\ started \in Nat /\ (MaxRetries + 1) * (crashes + 1) \in Int
    BY Assumptions DEF TypeOK, Undispatched
  <2> QED
    BY <2>1, <2>2 DEF Paid, AttemptsPaid
<1> QED
  BY <1>1, <1>2, <1>3, TypeCorrect, PTL DEF Spec

=============================================================================
