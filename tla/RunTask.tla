------------------------------ MODULE RunTask -------------------------------
(***************************************************************************)
(* One optimization run from POST /optimize to its last acknowledgement:   *)
(* the API transaction that creates the row and dispatches the task, the   *)
(* Celery messages that carry it, and every execution of                   *)
(* run_optimization_task with the sessions it opens and the events it      *)
(* publishes on run:{run_id}:progress. Rows, messages and channels of      *)
(* different runs share nothing, so one run is the whole story.            *)
(*                                                                         *)
(* A message is delivered to one worker process at a time and back to the  *)
(* queue when that process is lost, so the program counter of an execution *)
(* is kept with the message that caused it:                                *)
(*   unsent -> queued -> select -> enter -> graph -> read -> write         *)
(*          -> publish -> ack -> acked                                     *)
(* with "raised" and "timeout" for the two except clauses and "failread",  *)
(* "failwrite" for _persist_failure.                                       *)
(***************************************************************************)
EXTENDS RunRow, FiniteSets

CONSTANTS Msgs,        \* messages the broker can carry for this run (bound)
          MaxRetries,  \* max_retries of the task
          MaxCrashes,  \* worker processes lost (bound)
          Outcomes,    \* what the agent graph may return
          Faults       \* what may go wrong besides the run itself

FaultKinds == {"graph",    \* run_agent_graph raises
               "db",       \* a database session fails, or the API commit does
               "broker",   \* apply_async or the retry's publication fails
               "crash",    \* the worker process is lost before the ack
               "soft",     \* SoftTimeLimitExceeded while the pipeline runs
               "softlate", \* ... in a handler, or where a try block eats it
               "hard",     \* the hard limit kills the process
               "stall"}    \* the request's commit outlasts the soft limit

ASSUME Assumptions == /\ MaxRetries \in Nat
                      /\ MaxCrashes \in Nat
                      /\ Outcomes \subseteq Detail
                      /\ Faults \subseteq FaultKinds

VARIABLES
  api,      \* the transaction of the request that submits the run
  row,      \* the committed row
  pc,       \* pc[m]: where message m, or the execution it causes, is
  retries,  \* retries[m]: request.retries carried by m
  seen,     \* seen[m]: the row the open session of m's execution SELECTed
  detail,   \* detail[m]: what run_agent_graph returned
  soft,     \* soft[m]: the soft limit has fired in this execution
  att,      \* att[m]: number of m's current execution
  started,  \* executions started so far
  events,   \* events published, each with the execution that published it
  crashes

vars == <<api, row, pc, retries, seen, detail, soft, att, started, events, crashes>>
local == <<retries, seen, detail, soft, att, started>>

Api == {"idle", "open", "dispatched", "accepted", "rejected"}
Pipeline == {"select", "enter", "graph", "read", "write", "publish"}
Handlers == {"raised", "timeout", "failread", "failwrite"}
PC == {"unsent", "queued", "ack", "acked"} \cup Pipeline \cup Handlers
NoDetail == [status |-> "none"]
Event == [kind : {"progress", "retrying", "result", "error"}, att : Nat]

Executing(m) == pc[m] \in Pipeline \cup Handlers
Live(m) == pc[m] \notin {"unsent", "ack", "acked"}   \* still has work to do

TypeOK ==
  /\ api \in Api
  /\ row \in Row
  /\ pc \in [Msgs -> PC]
  /\ retries \in [Msgs -> 0..MaxRetries]
  /\ seen \in [Msgs -> Row]
  /\ detail \in [Msgs -> Detail \cup {NoDetail}]
  /\ soft \in [Msgs -> BOOLEAN]
  /\ att \in [Msgs -> Nat]
  /\ started \in Nat
  /\ events \in SUBSET Event
  /\ crashes \in 0..MaxCrashes

Init ==
  /\ api = "idle"
  /\ row = NoRow
  /\ pc = [m \in Msgs |-> "unsent"]
  /\ retries = [m \in Msgs |-> 0]
  /\ seen = [m \in Msgs |-> NoRow]
  /\ detail = [m \in Msgs |-> NoDetail]
  /\ soft = [m \in Msgs |-> FALSE]
  /\ att = [m \in Msgs |-> 0]
  /\ started = 0
  /\ events = {}
  /\ crashes = 0

Goto(m, to) == pc' = [pc EXCEPT ![m] = to]

\* The session closes, the returned detail is used up, the execution ends:
\* what it held in memory is gone.
CloseSession(m) == seen' = [seen EXCEPT ![m] = NoRow]
DropDetail(m) == detail' = [detail EXCEPT ![m] = NoDetail]
EndExecution(m) == /\ CloseSession(m)
                   /\ DropDetail(m)
                   /\ soft' = [soft EXCEPT ![m] = FALSE]
                   /\ att' = [att EXCEPT ![m] = 0]

Publish(m, kind) == events' = events \cup {[kind |-> kind, att |-> att[m]]}

-----------------------------------------------------------------------------
(* Actions with a plausible mistake in each. The model does not use them:  *)
(* substituted for the action named in front, each breaks a property.      *)

\* ScheduleRetry: compares with <=, and request.retries outgrows max_retries.
RetryOnceTooOften(m) ==
  /\ pc[m] = "raised"
  /\ retries[m] <= MaxRetries
  /\ Publish(m, "retrying")
  /\ \E n \in Msgs : /\ pc[n] = "unsent"
                     /\ pc' = [pc EXCEPT ![m] = "ack", ![n] = "queued"]
                     /\ retries' = [retries EXCEPT ![n] = retries[m] + 1]
  /\ EndExecution(m)
  /\ UNCHANGED <<api, row, started, crashes>>

\* ScheduleRetry: self.retry(throw=False) returns, and the handler goes on to
\* what it does when no retries are left, from the step named by `to`.
RetryAndGoOn(m, to) ==
  /\ pc[m] = "raised"
  /\ retries[m] < MaxRetries
  /\ Publish(m, "retrying")
  /\ \E n \in Msgs : /\ pc[n] = "unsent"
                     /\ pc' = [pc EXCEPT ![m] = to, ![n] = "queued"]
                     /\ retries' = [retries EXCEPT ![n] = retries[m] + 1]
  /\ UNCHANGED <<api, row, seen, detail, soft, att, started, crashes>>
RetryAndPersist(m) == RetryAndGoOn(m, "failread")
RetryAndReport(m) == RetryAndGoOn(m, "timeout")

\* ScheduleRetry: republishes the message as it is.
RetryUncounted(m) ==
  /\ pc[m] = "raised"
  /\ retries[m] < MaxRetries
  /\ Publish(m, "retrying")
  /\ \E n \in Msgs : /\ pc[n] = "unsent"
                     /\ pc' = [pc EXCEPT ![m] = "ack", ![n] = "queued"]
                     /\ retries' = [retries EXCEPT ![n] = retries[m]]
  /\ EndExecution(m)
  /\ UNCHANGED <<api, row, started, crashes>>

\* PublishError: persists without telling the subscribers.
FailSilently(m) ==
  /\ \/ pc[m] = "timeout"
     \/ pc[m] = "raised" /\ retries[m] = MaxRetries
  /\ Goto(m, "failread")
  /\ UNCHANGED <<api, row, local, events, crashes>>

\* PublishError: gives up at the first exception.
FailAtOnce(m) ==
  /\ pc[m] \in {"timeout", "raised"}
  /\ Publish(m, "error")
  /\ Goto(m, "failread")
  /\ UNCHANGED <<api, row, local, crashes>>

\* PublishResult: _publish lets a Redis error through to the retry clause.
PublishResultOrRaise(m) ==
  /\ pc[m] = "publish"
  /\ \/ Publish(m, "result") /\ Goto(m, "ack") /\ EndExecution(m)
     \/ Goto(m, "raised") /\ UNCHANGED <<events, seen, detail, soft, att>>
  /\ UNCHANGED <<api, row, retries, started, crashes>>

\* CreateRun: does not wait for the request's transaction.
CreateAtOnce(m) ==
  /\ pc[m] = "enter"
  /\ seen[m].status = "absent"
  /\ row.status = "absent"
  /\ row' = NewRow("running")
  /\ Goto(m, "graph")
  /\ Publish(m, "progress")
  /\ UNCHANGED <<api, local, crashes>>

\* CreateRun: takes the IntegrityError for "already being executed".
CreateOrLeave(m) ==
  /\ pc[m] = "enter"
  /\ seen[m].status = "absent"
  /\ api \notin {"open", "dispatched"}
  /\ \/ /\ row.status = "absent"
        /\ row' = NewRow("running")
        /\ Goto(m, "graph")
        /\ Publish(m, "progress")
     \/ /\ row.status # "absent"
        /\ Goto(m, "ack")
        /\ UNCHANGED <<row, events>>
  /\ UNCHANGED <<api, local, crashes>>

\* GraphReturns: publishes the result before storing it.
PublishFirst(m) ==
  /\ pc[m] = "graph"
  /\ \E d \in Outcomes : detail' = [detail EXCEPT ![m] = d]
  /\ Publish(m, "result")
  /\ Goto(m, "read")
  /\ UNCHANGED <<api, row, retries, seen, soft, att, started, crashes>>

\* WorkerLost: the message was acknowledged on receipt (no acks_late).
WorkerLostAfterAck(m) ==
  /\ "crash" \in Faults
  /\ crashes < MaxCrashes
  /\ Executing(m) \/ pc[m] = "ack"
  /\ Goto(m, "acked")
  /\ EndExecution(m)
  /\ crashes' = crashes + 1
  /\ UNCHANGED <<api, row, retries, started, events>>

-----------------------------------------------------------------------------
(* The request: INSERT and flush, dispatch, and only then the commit.      *)

Submit ==
  /\ api = "idle"
  /\ api' = "open"
  /\ UNCHANGED <<row, pc, local, events, crashes>>

Dispatch(m) ==
  /\ api = "open"
  /\ pc[m] = "unsent"
  /\ api' = "dispatched"
  /\ Goto(m, "queued")
  /\ UNCHANGED <<row, local, events, crashes>>

DispatchFails ==
  /\ "broker" \in Faults
  /\ api = "open"
  /\ api' = "rejected"
  /\ UNCHANGED <<row, pc, local, events, crashes>>

Commit ==
  /\ api = "dispatched"
  /\ api' = "accepted"
  /\ row' = NewRow("pending")
  /\ UNCHANGED <<pc, local, events, crashes>>

CommitFails ==
  /\ "db" \in Faults
  /\ api = "dispatched"
  /\ api' = "rejected"
  /\ UNCHANGED <<row, pc, local, events, crashes>>

-----------------------------------------------------------------------------
(* An execution: _execute_optimization under run_optimization_task.        *)

Deliver(m) ==
  /\ pc[m] = "queued"
  /\ Goto(m, "select")
  /\ started' = started + 1
  /\ att' = [att EXCEPT ![m] = started + 1]
  /\ UNCHANGED <<api, row, retries, seen, detail, soft, events, crashes>>

SelectRun(m) ==
  /\ pc[m] = "select"
  /\ Goto(m, "enter")
  /\ seen' = [seen EXCEPT ![m] = row]
  /\ UNCHANGED <<api, row, retries, detail, soft, att, started, events, crashes>>

EnterRunning(m) ==
  /\ pc[m] = "enter"
  /\ seen[m].status # "absent"
  /\ row' = Flush(seen[m], MarkRunning(seen[m]), row)
  /\ Goto(m, "graph")
  /\ CloseSession(m)
  /\ Publish(m, "progress")
  /\ UNCHANGED <<api, retries, detail, soft, att, started, crashes>>

\* The safety net: INSERT of a row the SELECT did not find. The unique index
\* makes it wait for the API's own uncommitted INSERT, and fail if that, or
\* another execution's, was committed meanwhile.
CreateRun(m) ==
  /\ pc[m] = "enter"
  /\ seen[m].status = "absent"
  /\ api \notin {"open", "dispatched"}
  /\ \/ /\ row.status = "absent"
        /\ row' = NewRow("running")
        /\ Goto(m, "graph")
        /\ Publish(m, "progress")
     \/ /\ row.status # "absent"
        /\ Goto(m, "raised")
        /\ UNCHANGED <<row, events>>
  /\ UNCHANGED <<api, local, crashes>>

EnterFails(m) ==
  /\ "db" \in Faults
  /\ pc[m] \in {"select", "enter"}
  /\ Goto(m, "raised")
  /\ CloseSession(m)
  /\ UNCHANGED <<api, row, retries, detail, soft, att, started, events, crashes>>

GraphReturns(m) ==
  /\ pc[m] = "graph"
  /\ \E d \in Outcomes : detail' = [detail EXCEPT ![m] = d]
  /\ Goto(m, "read")
  /\ UNCHANGED <<api, row, retries, seen, soft, att, started, events, crashes>>

GraphRaises(m) ==
  /\ "graph" \in Faults
  /\ pc[m] = "graph"
  /\ Goto(m, "raised")
  /\ UNCHANGED <<api, row, local, events, crashes>>

ReadForCompleted(m) ==
  /\ pc[m] = "read"
  /\ Goto(m, "write")
  /\ seen' = [seen EXCEPT ![m] = row]
  /\ UNCHANGED <<api, row, retries, detail, soft, att, started, events, crashes>>

WriteCompleted(m) ==
  /\ pc[m] = "write"
  /\ row' = Flush(seen[m], MarkCompleted(seen[m], detail[m], att[m]), row)
  /\ Goto(m, "publish")
  /\ CloseSession(m)
  /\ DropDetail(m)
  /\ UNCHANGED <<api, retries, soft, att, started, events, crashes>>

\* except Exception in _persist_completed_run: logged, not re-raised.
CompletedNotPersisted(m) ==
  /\ "db" \in Faults
  /\ pc[m] \in {"read", "write"}
  /\ Goto(m, "publish")
  /\ CloseSession(m)
  /\ DropDetail(m)
  /\ UNCHANGED <<api, row, retries, soft, att, started, events, crashes>>

PublishResult(m) ==
  /\ pc[m] = "publish"
  /\ Publish(m, "result")
  /\ Goto(m, "ack")
  /\ EndExecution(m)
  /\ UNCHANGED <<api, row, retries, started, crashes>>

-----------------------------------------------------------------------------
(* The except clauses.                                                     *)

\* The progress event of a retry. A soft limit that fires inside publish_progress
\* is eaten there, with the event, and the handler goes on.
TellOfRetry(m) ==
  \/ Publish(m, "retrying")
  \/ "softlate" \in Faults /\ ~soft[m] /\ UNCHANGED events

\* except Exception with retries left: the progress event, then self.retry()
\* publishes a copy of the message with request.retries + 1.
ScheduleRetry(m) ==
  /\ pc[m] = "raised"
  /\ retries[m] < MaxRetries
  /\ TellOfRetry(m)
  /\ \E n \in Msgs : /\ pc[n] = "unsent"
                     /\ pc' = [pc EXCEPT ![m] = "ack", ![n] = "queued"]
                     /\ retries' = [retries EXCEPT ![n] = retries[m] + 1]
  /\ EndExecution(m)
  /\ UNCHANGED <<api, row, started, crashes>>

\* self.retry() cannot publish: Celery raises Reject and drops the message.
RetryNotPublished(m) ==
  /\ "broker" \in Faults
  /\ pc[m] = "raised"
  /\ retries[m] < MaxRetries
  /\ TellOfRetry(m)
  /\ Goto(m, "acked")
  /\ EndExecution(m)
  /\ UNCHANGED <<api, row, retries, started, crashes>>

\* except SoftTimeLimitExceeded, or except Exception with no retries left:
\* the error event first, then _persist_failure.
PublishError(m) ==
  /\ \/ pc[m] = "timeout"
     \/ pc[m] = "raised" /\ retries[m] = MaxRetries
  /\ Publish(m, "error")
  /\ Goto(m, "failread")
  /\ UNCHANGED <<api, row, local, crashes>>

ReadForFailed(m) ==
  /\ pc[m] = "failread"
  /\ row.status # "absent"
  /\ seen' = [seen EXCEPT ![m] = row]
  /\ Goto(m, "failwrite")
  /\ UNCHANGED <<api, row, retries, detail, soft, att, started, events, crashes>>

\* "Cannot persist failure ...: record not found", and the failure is lost.
FailureHasNoRow(m) ==
  /\ pc[m] = "failread"
  /\ row.status = "absent"
  /\ Goto(m, "ack")
  /\ EndExecution(m)
  /\ UNCHANGED <<api, row, retries, started, events, crashes>>

WriteFailed(m) ==
  /\ pc[m] = "failwrite"
  /\ row' = Flush(seen[m], MarkFailed(seen[m]), row)
  /\ Goto(m, "ack")
  /\ EndExecution(m)
  /\ UNCHANGED <<api, retries, started, events, crashes>>

FailureNotPersisted(m) ==
  /\ "db" \in Faults
  /\ pc[m] \in {"failread", "failwrite"}
  /\ Goto(m, "ack")
  /\ EndExecution(m)
  /\ UNCHANGED <<api, row, retries, started, events, crashes>>

-----------------------------------------------------------------------------
(* Celery: time limits, acknowledgement, lost processes.                   *)

SoftLimitFires(m, to) == /\ ~soft[m]
                         /\ soft' = [soft EXCEPT ![m] = TRUE]
                         /\ Goto(m, to)

\* The signal interrupts the pipeline and leaves asyncio.run: the except
\* SoftTimeLimitExceeded clause runs.
SoftLimit(m) ==
  /\ "soft" \in Faults
  /\ "stall" \in Faults \/ api \notin {"open", "dispatched"}
  /\ pc[m] \in {"select", "enter", "graph"}
  /\ SoftLimitFires(m, "timeout")
  /\ CloseSession(m)
  /\ UNCHANGED <<api, row, retries, detail, att, started, events, crashes>>

\* The signal lands while the outcome is being stored or reported: it still
\* reaches the clause, or the except Exception around the persist, or around
\* the first progress event, eats it.
SoftLimitLate(m) ==
  /\ "softlate" \in Faults
  /\ \/ pc[m] \in {"read", "write", "publish"} /\ SoftLimitFires(m, "timeout")
     \/ pc[m] \in {"read", "write"} /\ SoftLimitFires(m, "publish")
     \/ pc[m] = "graph" /\ SoftLimitFires(m, "graph")
  /\ CloseSession(m)
  /\ DropDetail(m)
  /\ UNCHANGED <<api, row, retries, att, started, events, crashes>>

\* It leaves a handler, whose clauses do not cover it, or is eaten by the last
\* publish or by _persist_failure: the task is over with whatever was written.
SoftLimitAtEnd(m) ==
  /\ "softlate" \in Faults
  /\ ~soft[m]
  /\ pc[m] \in Handlers \cup {"publish"}
  /\ Goto(m, "ack")
  /\ EndExecution(m)
  /\ UNCHANGED <<api, row, retries, started, events, crashes>>

\* publish_error eats it the same way, with or after the event, and the handler
\* goes on to _persist_failure. (The time-out's handler comes after it.)
ErrorEventEaten(m) ==
  /\ "softlate" \in Faults
  /\ pc[m] = "raised"
  /\ retries[m] = MaxRetries
  /\ SoftLimitFires(m, "failread")
  /\ Publish(m, "error") \/ UNCHANGED events
  /\ UNCHANGED <<api, row, retries, seen, detail, att, started, crashes>>

\* The process is killed and the message acknowledged all the same.
HardLimit(m) ==
  /\ "hard" \in Faults
  /\ Executing(m)
  /\ soft[m]
  /\ Goto(m, "acked")
  /\ EndExecution(m)
  /\ UNCHANGED <<api, row, retries, started, events, crashes>>

Ack(m) ==
  /\ pc[m] = "ack"
  /\ Goto(m, "acked")
  /\ UNCHANGED <<api, row, local, events, crashes>>

\* task_acks_late and task_reject_on_worker_lost: back to the queue.
WorkerLost(m) ==
  /\ "crash" \in Faults
  /\ crashes < MaxCrashes
  /\ Executing(m) \/ pc[m] = "ack"
  /\ Goto(m, "queued")
  /\ EndExecution(m)
  /\ crashes' = crashes + 1
  /\ UNCHANGED <<api, row, retries, started, events>>

-----------------------------------------------------------------------------
ApiStep == \/ \E m \in Msgs : Dispatch(m)
           \/ Commit

\* What an execution does unless a fault interrupts it.
Execute(m) ==
  \/ Deliver(m) \/ SelectRun(m) \/ EnterRunning(m) \/ CreateRun(m)
  \/ GraphReturns(m) \/ ReadForCompleted(m) \/ WriteCompleted(m) \/ PublishResult(m)
  \/ ScheduleRetry(m) \/ PublishError(m) \/ ReadForFailed(m) \/ FailureHasNoRow(m)
  \/ WriteFailed(m) \/ Ack(m)

Fault(m) ==
  \/ EnterFails(m) \/ GraphRaises(m) \/ CompletedNotPersisted(m)
  \/ RetryNotPublished(m) \/ FailureNotPersisted(m)
  \/ SoftLimit(m) \/ SoftLimitLate(m) \/ SoftLimitAtEnd(m)
  \/ ErrorEventEaten(m)
  \/ HardLimit(m) \/ WorkerLost(m)

Next ==
  \/ Submit \/ ApiStep \/ DispatchFails \/ CommitFails
  \/ \E m \in Msgs : Execute(m) \/ Fault(m)

Spec == Init /\ [][Next]_vars

\* A request that is being served is finished, workers consume their queues
\* and an execution that is not interrupted goes on. No fault is fair.
Fairness == /\ WF_vars(ApiStep)
            /\ \A m \in Msgs : WF_vars(Execute(m))

FairSpec == Spec /\ Fairness
-----------------------------------------------------------------------------
(* Properties.                                                             *)

TerminalEvents == {e \in events : e.kind \in {"result", "error"}}

\* Unless a worker process is lost, a run is never executed twice at the same
\* time: the retry's message exists only once the failed execution has no
\* work left (tasks.py, self.retry as the last act of the handler).
SingleExecution ==
  crashes = 0 => \A m, n \in Msgs : Live(m) /\ Live(n) => m = n

\* Unless a worker process is lost, the first execution and max_retries more
\* are all there is.
AttemptBudget == crashes = 0 => started <= MaxRetries + 1

\* A run is declared failed only after its subscribers have been sent the
\* error: publish_error comes before _persist_failure on both paths. A soft
\* limit that fires inside publish_error may eat the event.
FailureWasAnnounced ==
  "softlate" \notin Faults /\ row.status = "failed" => \E e \in events : e.kind = "error"

\* A failure that is not a time-out is final only when the retries are spent:
\* before the execution that tells of it, max_retries others have ended with
\* a retry and told the subscribers so.
FailureNeedsExhaustion ==
  Faults \cap {"soft", "softlate"} = {} =>
    \A e \in events : e.kind = "error" =>
      Cardinality({f \in events : f.kind = "retrying" /\ f.att < e.att}) >= MaxRetries

\* With late acknowledgement, losing workers, exceptions of the graph and
\* time-outs while it runs never strand a run: as long as its row is not
\* terminal some message still has work to do.
Recoverable == Faults \subseteq {"graph", "crash", "soft"}
NoStrandedRun ==
  Recoverable /\ row.status \in {"pending", "running"} => \E m \in Msgs : Live(m)

\* A client that received the result and fetches the run finds it completed,
\* when no database write was swallowed, no time limit fired while it was
\* stored and no worker was lost: persist comes before publish.
ResultIsDurable ==
  /\ crashes = 0
  /\ Faults \cap {"db", "softlate"} = {}
  => ((\E e \in events : e.kind = "result") => row.status = "completed" /\ row.ended)

\* Subscribers are told one outcome, once, unless a worker was lost or a time
\* limit fired between the result and the end of the task.
OneVerdict ==
  crashes = 0 /\ "softlate" \notin Faults =>
    \A e, f \in TerminalEvents : e = f

\* The result columns of a completed run come from one execution, unless a
\* worker was lost.
OneSource ==
  crashes = 0 /\ row.status = "completed" =>
    \A c \in {row.classical, row.quantum, row.explanation} :
      \A d \in {row.classical, row.quantum, row.explanation} :
        c # 0 /\ d # 0 => c = d

\* Whatever happens, a run that left pending is not pending again and its row
\* does not disappear: the worker's safety-net INSERT and the API's commit
\* cannot overwrite each other.
NeverBackToPending ==
  [][/\ row'.status = "pending" => row.status \in {"absent", "pending"}
     /\ row'.status = "absent" => row.status = "absent"]_vars

\* Without lost workers and time limits the status column follows the
\* documented lifecycle, whatever else fails.
RL == INSTANCE RunLifecycle WITH status <- row.status
Lifecycle == RL!Spec

\* A dispatched run settles, if nothing worse happens than Recoverable says.
RunSettles == api = "dispatched" ~> [](row.status \in Terminal)

=============================================================================
