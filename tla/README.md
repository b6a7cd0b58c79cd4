# A TLA+ verification of the portfolio optimization service

The repository is a web service that optimizes portfolios: a React dashboard, a
FastAPI application, Celery workers that run an agent graph (LangGraph), a
PostgreSQL row per run and per chat session, and Redis as broker, cache and
channel of progress events. These modules model what happens between those
parts: who writes which row when, which message reaches whom, and what is left
when a process, the database, the broker or the network fails. They also model
what is decided inside them: what a conversation is turned into, what a request
may ask, which portfolios answer it, which assets the quantum solvers select,
what the frontier reports and what the user is told of it. The arithmetic is
exact there, on small integers; floating point is left out.

## Contents

1. The system and its components
2. The modules and the code
3. The runs: what is checked
4. Bounds
5. Fairness
6. What is proved
7. What is only model-checked
8. Where the code and its documentation disagree
9. What is not modelled
10. Plan

## 1. The system and its components

    browser                 API process                 worker process
    -------                 -----------                 --------------
    form / chat --POST----> optimize, chat --apply_async--> run_optimization_task
    useRunDetail --GET----> runs  <--row--  PostgreSQL  <--row--  sessions of the task
                                                                    |  agent graph
    useWebSocket <--frames- websocket gateway <--Redis channel------+  events
    uiStore

| Component | State | Operations | Interacts with |
|---|---|---|---|
| Submission, `api/v1/optimize.py` | the request's transaction | INSERT + flush, `apply_async`, commit at the end of the request (`get_db`) | the row, the broker |
| Run row, `db/models.py` `OptimizationRun` | status, error, end, result columns | `mark_running`, `mark_completed`, `mark_failed`, SQLAlchemy's UPDATE of changed columns | API, worker, GET |
| Celery task, `workers/tasks.py`, `celery_app.py` | message (retries), execution, session, detail, time limits | start, graph, persist, publish, retry, fail, acknowledge | row, broker, Redis, agent graph |
| Agent graph, `agents/` | `AgentState` | seven nodes, wrapper, routing, state to detail, recommendation, explanation | market data, solvers, language model |
| Gateway, `api/websocket.py` | subscription, deadline | authenticate, accept, subscribe, forward, time out | Redis, browser |
| Dashboard connection, `useWebSocket.ts`, `uiStore.ts` | socket, retry counter, timer, store | connect, handle frames, retry, give up | gateway |
| Chat sessions, `chat/service.py`, `api/v1/chat.py` | `chat_sessions` row | create, send, confirm, get | language model, submission |
| Chat assistant (browser), `useChatSession.ts` | messages, session id, polling | optimistic send, confirm, reset | chat sessions |
| Intake, `chat/llm.py`, `chat/schemas.py`, `schemas/requests.py` | slots, conversation | extract, merge, summarise, override, validate | chat sessions, submission |
| Market data, `data/fetcher.py`, `data/cache.py` | Redis keys with TTL, a connection pool | look up, download, retry, filter, write; get, set, delete, flush | agent graph, Redis, Yahoo Finance |
| Optimizers, `classical/`, `quantum/` | one request and its universe | pre-check, solve, sweep, select, repair | agent graph |
| Rate limit, run queries, health, configuration, asset search, pages, deployment | see `PROJECT.json` | | |

What makes each of them hard, and what correct means for it:

- **Submission.** The task is dispatched *before* the transaction commits, so a
  worker may look for a row that is not there yet, or never will be. Correct:
  whoever inserts first, the run ends as one row with one outcome.
- **Row.** `mark_*` guard nothing, and an UPDATE writes only the columns that
  differ from what the session read. Correct: the status walks the documented
  lifecycle, and the result columns belong together.
- **Task.** Retries publish a new message while the old one is not yet
  acknowledged; late acknowledgement redelivers on a lost worker; the soft limit
  is an exception that may surface in any clause; several clauses swallow what
  they catch. Correct: one execution at a time, a bounded number of them, a
  failure announced before it is stored, a result stored before it is announced,
  and no run left behind.
- **Agent graph.** Failures of optional nodes become warnings; failures of fatal
  ones must stop the walk; an exception the author did not expect is caught by
  the wrapper. Correct: nothing runs after a failure, the events agree with the
  outcome, and whatever is missing is explained.
- **Gateway and dashboard.** Redis pub/sub keeps nothing, sending errors are
  swallowed, connections drop, and the hook handles events without looking at
  their run. Correct: shown is only what belongs to the current run, in an order
  it went through, with one verdict, and the form does not stay locked.
- **Chat.** A row is read, the language model is awaited for seconds, and the
  row is written back without a lock. Correct: the session and its run are
  committed together, time and message limits hold, and a client that waits for
  its answers sees the documented lifecycle.
- **Intake.** The local extractor reads the whole conversation again in every
  exchange, the model may answer anything its schema lets through, and two
  processes may be configured differently. Correct: a filled slot is not emptied,
  nothing is heard that the user did not say, what is confirmed was shown, and the
  request that comes out is one the solvers can work on.
- **Market data.** Workers share entries under a key made of the request, threads
  share a pool that is created on demand, a flush walks through keys that change
  under it, and Yahoo answers partly or not at all. Correct: nobody gets the data
  of another request or data older than the TTL, every call ends, a flush leaves
  nothing behind.
- **Optimizers.** The pre-check and the solver work out feasibility in different
  ways; the objective of the quantum solvers is written down three times (matrix,
  quadratic program, Hamiltonian); a bit string may have any size; levels of a
  sweep may fail or coincide. Correct: refused means impossible, answered means
  everything asked for is met, selected means the size asked for, and the report
  is the Pareto set of what was found.

The hazards behind this, each at its line, are the `hazards` of `PROJECT.json`.

## 2. The modules and the code

| Module | Models | Size |
|---|---|---|
| `RunRow` | the row, the detail a graph may return, `mark_*` and the UPDATE | operators |
| `RunLifecycle` | *abstract*: the lifecycle documented on `OptimizationRun` | 1 variable |
| `RunTask` | submission, delivery, every execution of `run_optimization_task`, its failures | 11 variables |
| `RunTaskProofs` | the theorems about `RunTask` | 13 theorems |
| `AgentGraph` | one call of `run_agent_graph` | 4 variables |
| `Explanation` | recommendation and explanation, as the set of what they speak of | operators |
| `AgentGraphProofs` | the theorems about `AgentGraph` and `Explanation` | 4 theorems |
| `ProgressStream` | channel, gateway, wire, `useWebSocket` and the store | 7 variables |
| `ProgressStreamProofs` | the theorems about `ProgressStream` | 7 theorems |
| `ChatLifecycle` | *abstract*: the lifecycle documented on `ChatSession` | 2 variables |
| `ChatSession` | the requests on one chat session | 7 variables |
| `ChatSessionProofs` | the theorems about `ChatSession` | 7 theorems |
| `SlotFilling` | slots, local extractor, merge, `OptimizationRequest` | operators |
| `Intake` | one session from the first message to the run's request | 8 variables |
| `IntakeProofs` | the theorems about `SlotFilling` and `Intake` | 3 theorems |
| `Portfolio` | the measures of a portfolio | operators |
| `ClassicalSolve` | `validate_constraints` and `run_markowitz_mvo` | operators |
| `FrontierSweep` | anchors, levels, dominance, knee of `compute_frontier` | operators |
| `QuantumSelection` | matrix, Hamiltonian, greedy choice, repair, the better of two | operators |
| `Solvers` | one request through pre-check, solvers, threads and sweep | 12 variables |
| `FiniteSums` | *library*: sums over finite sets, without recursion | lemmas |
| `SolversProofs` | the theorems about `Solvers` and the operators it uses | 7 theorems |
| `RedisStore` | *external*: keys with TTL, the clock | 3 variables |
| `MarketData` | the calls of `fetch_market_data` | 5 variables |
| `CacheManager` | the methods of `CacheManager` and the pool | 9 variables |
| `DataLayer` | *composition* of the two over one `RedisStore` | |
| `DataLayerProofs` | the theorems about `DataLayer` | 4 theorems |
| `MCRunTask`, `MCProgressStream`, `MCChatSession`, `MCSolvers`, `MCDataLayer`, `MCIntake` | symmetry, outcomes and inputs for TLC | |

`PROJECT.json` names the lines behind every definition. Each module also holds
*mutants*: a few definitions, in front of the one they would replace, that carry
a plausible mistake. The specifications do not use them; put in its place each
makes TLC find a property violated, which shows that the property can fail.

### RunTask

One run, because the rows, messages and channels of different runs share
nothing. `api` is the request's transaction: `Submit` (INSERT, flush),
`Dispatch` or `DispatchFails` (`apply_async`), then `Commit` or `CommitFails`.
The program counter of an execution is kept with the Celery message that caused
it, because redelivery sends exactly that message back to the queue:

    unsent -> queued -> select -> enter -> graph -> read -> write -> publish -> ack -> acked

`select`/`enter` are the first session of `_execute_optimization` (SELECT, then
`mark_running` and commit, or the safety-net INSERT, which waits on the unique
index for the API's own uncommitted INSERT); `graph` is `run_agent_graph`;
`read`/`write` are `_persist_completed_run`, SELECT and commit; `publish` is
`publish_result`. `raised` and `timeout` are the two `except` clauses of
`run_optimization_task`, `failread`/`failwrite` are `_persist_failure`. SELECT
and commit are separate steps wherever another process can get between them.
`seen[m]` is the row the session read; `Flush` in `RunRow` writes the changed
columns only. A result column holds the number of the execution that wrote it,
which is all `OneSource` needs to know of it.

The constant `Faults` turns on, one by one: exceptions of the graph, failing
sessions, a broker that refuses, lost workers, the soft limit (in the pipeline,
or late: in a handler, or where a `try` eats it, the one in `publish_error` included,
after which the failure is stored and nobody was told: `ErrorEventEaten`), the hard limit, and a commit
that outlasts the soft limit. Publications to Redis that fail are logged and
swallowed in `_publish` and therefore add an event nobody needs to have received:
`events` is what was handed to Redis, and losing it on the way is
`ProgressStream`'s subject. The graph's progress events between the first and the
last are left out here.

### AgentGraph

A function of nondeterministic inputs: which request, which node fails and how.
`Enters`, `Skip`, `Return` and `Escape` are the wrapper `wrap_node`; `Route` is
the conditional edges; each node is one action with its `except` clauses.
`state.error` is the text of `str(exc)` — present, missing, or *empty*, because
the routing tests it for truth. `RunDetail` is `_state_to_run_detail`.
`AnsweredUnlessFatal` ties the module to `RunTask`: whatever the graph returns is
in the `Detail` of `RunRow`, the set from which `RunTask` lets it return.
`TypeOK` is there for the reader; the runs list `EventsTellTheOutcome` and the
others instead, which need every part of it.

### Explanation

A quantum result keeps, per solver, only by how many times
`_SIGNIFICANT_SHARPE_DELTA` its Sharpe ratio differs from the classical one: that is
all `comparison.py` looks at. A text is the set of the things it speaks of, so that
`ExplanationFits` can say what it must and must not contain. The model's text is a
single value `model`.

### ProgressStream

`published[r]` is the channel; `handler[c]` the coroutine
`run_progress_websocket` of connection `c`; `wire[c]` the frames and close codes
the browser has yet to handle; `hook` the refs of `useWebSocket`; `tab` the part of
the store they fill. A callback of the browser, and a turn of the handler between
two awaits, is one action. Frames already received are handled after the
*server* closed the socket, but not after the hook did: a browser delivers nothing
to a socket that is closing, and the hook clears
`onclose`. `published` takes messages in any order: a run delivered twice
repeats steps and verdicts. `shown` and `cut` are history variables that count
the verdicts handed to the hook and note dropped connections.

### ChatSession

A request reads the row (`seen`), sets attributes on its `object`, and `Commit`
writes the columns that differ (`Written`). Between the two lies an await: the
language model for a message, the dispatch for a confirmation. A message is the
request that brought it, so `answered` can record what the clients were told.
`overdue` is the clock passing `expires_at`. Slots are none, partial or full.
`mishaps` is a history variable: it notes the first time two requests were under way at
once, and a confirmation whose commit failed. `Alone` says that the former has not
happened, so one specification has both kinds of clients, and the properties about a
client that waits hold until it stops waiting.

### SlotFilling and Intake

`SlotFilling` has the validators of `ExtractedSlots` and `OptimizationRequest` in
the order Pydantic runs them, and `_fallback_response` pattern by pattern. A
text is the sequence of phrases those patterns know, each with its value. Symbols
are kept once, at the place where they are first named: `FirstNamed` is the set of
these places and `At` the list of what stands there, which says of a list without
repetitions what a loop over it computes. A percentage is a natural number of
percent, and a merge of dictionaries a function on the union of their fields.
`NormalAssumption` says that a symbol in upper case stays as it is; `Intake`'s
`UtteranceAssumption` what the patterns match: capitals, and "skip" for no.
`Intake` is the session around it, one request at a time: `Say` is
`_process_message`, with the model (any of `Outputs` that parses) or the extractor
behind it, `Handover` a process with another configuration, `Confirm` the
overrides and the request. An exchange that raises is rolled back and is no
step. `shown` and `overrides` are history variables.

### Portfolio, ClassicalSolve, FrontierSweep, QuantumSelection, Solvers

A portfolio divides the budget into `Grid` parts; returns and covariances are small
integers, and every comparison is multiplied out, so nothing is rounded. A solver call
is "any best portfolio on the grid". Volatility is represented by its square, which
orders portfolios in the same way. There are two of them, as in the code: `Variance` is
w'Σw, which the pre-check, the legacy limit `max_volatility`, the proxy of the Sharpe
ratio and the reported points use; `SolverVariance` is the square of
`cp.norm(np.linalg.cholesky(cov) @ w, 2)`, ‖L w‖² with the lower triangular L of
LL' = Σ, which the matrix objectives, their thresholds and the sweep use
(`optimizer.py:156`, `frontier.py:99`). They agree where the assets are uncorrelated and
not otherwise (section 8). A universe brings its factor along (`root`, `IsRoot`), so
that everything stays an integer. Several weighted objectives cannot be compared
exactly with scales taken from floating point, so `ScalarBest` lets the solver return
any portfolio that no other one is better than in each of the rows; this is more than
the code can return. A bit string is a set of assets. Sorting is by positions: a
point's place is one more than the number of points before it, so that the order is
defined without recursion and ties stay in the order of the levels.
`ProblemAssumption` is what the proofs need of the inputs: integers, a symmetric
covariance with an integer Cholesky factor (a restriction of these theorems, not of the
code, whose roots are floating point), and of a request what its schema lets through (limits and thresholds are
numbers, a sector's limit is not negative, the axes are the four a sweep can be
evaluated on, it has two levels or more). `MCSolvers` satisfies it. `Solvers` puts the
calls in order: `Validate`, `SolveClassical`, `Dispatch` and the two threads with
their time-outs and fallbacks, `Collect`, then `Anchors`, one `SweepLevel` per level
and `Report`. VQE takes the best of a sample of bit strings; QAOA may return any. (The device
`vqe_solver.py:144` names has no shots, so that in such a build `qml.sample` may raise
and the greedy fallback is all VQE does; `VqeReturns` is the path the code is written
for, `FallsBack` the other one.)

### RedisStore, MarketData, CacheManager, DataLayer

`RedisStore` is Redis as both clients use it: GET, SETEX, DEL, expiry by a clock.
`MarketData` has the steps of a call between which another process can get: look-up,
discarding of a foreign entry, each attempt at a download, each ticker of the
fallback, quality filter, metadata and write. The columns that pass the quality
filter are a set (`Usable`); the order of columns in a frame is left out, as
nothing depends on it. A column of prices is present or
sparse, a result keeps whose it is and when it was fetched. `CacheManager` has one
step per Redis command and per access to `_pool`, so that double-checked locking,
`reset_pool` and SCAN interleave. SCAN returns any keys, and by the end at least
those that were there all the time, as Redis documents. `CacheManager` is the
public API of `app.data`; the application itself only calls `fetch_market_data`.

## 3. The runs: what is checked

| Run | Instance | Asks |
|---|---|---|
| `runtask_faults` | every fault, one lost worker | does anything in `RunTask` depend on a fault not happening that it should survive? `TypeOK`, `SingleExecution`, `AttemptBudget`, `OneSource`, `NeverBackToPending` |
| `runtask_lifecycle` | exceptions, database and broker failures, the real retry limit of 3, all outcomes | is the documented lifecycle implemented (`Lifecycle`, by `INSTANCE RunLifecycle`), and has every error event `max_retries` earlier executions that told of a retry (`FailureNeedsExhaustion`)? |
| `runtask_recovery` | exceptions, lost workers, time-outs, fair | does every dispatched run settle (`RunSettles`), is it ever left without a message (`NoStrandedRun`), is a failure announced before it is stored (`FailureWasAnnounced`), are subscribers told one outcome that GET agrees with (`OneVerdict`, `ResultIsDurable`)? |
| `graph_outcomes` | all requests, failures and quantum results, two nodes from which exceptions escape | does the walk stop at a failure and say so (`NothingAfterFailure`, `EventsTellTheOutcome`), is a run answered unless it must fail (`AnsweredUnlessFatal`), and is what the user reads true of what happened (`ExplanationFits`)? |
| `stream_order` | one run, three messages, two connections | `InOrder`, `LosesNothing`, `OneVerdictShown` |
| `stream_switch` | two runs of one tab, fair | `OnlyCurrentRun`, `LinkBelongsToTab`, and the spinner ends (`SpinnerStops`) |
| `chat_requests` | five requests, up to three at a time, all faults | what holds however requests overlap: `LinkedRunExists`, `LinkStays`, `NothingAfterExpiry`, the message limit in `TypeOK`; and what a client may rely on as long as it has waited for its answers: `ConversationIsKept`, `OneRunPerSession`, the documented `Lifecycle` |
| `solver_answers` | eight universes of one to five assets, 365 requests, 2,150 pairs of them | is a refused request impossible and an answered one met (`VerdictIsRight`), is the report the Pareto set of its points and, where the solver's volatility is the reported one, of all portfolios (`FrontierIsPareto`), do matrix and Hamiltonian say what their documentation does (`QuboIsTheObjective`), and has a selection the size asked for, the best of it when all bit strings were seen (`SelectionIsRight`)? |
| `data_layer` | two workers, two threads, two calls at a time, expiry, failures, leftovers of earlier versions, fair workers | does a caller get its own data, and fresh (`FitsTheRequest`), does every call end (`FetchEnds`), does a flush clear (`FlushClears`), is one pool made (`OnePool`)? |
| `intake` | three exchanges, one handover, model and extractor | is the request sound whatever was said and overridden (`RequestIsSound`), was it on the screen (`ConfirmedWasShown`), are slots kept and filled with the user's own words (`HeardAndKept`)? |
| `graph_doc_frontier` | one request | a sentence of the documentation the code does not keep; TLC returns the trace (section 8) |
| `solver_doc_volatility` | the problems of `solver_answers` | the comment in `optimizer.py` that the solver's volatility is the true one (`VolatilityIsTrue`); TLC returns an answer that is over its threshold (section 8) |

Some properties carry a premise on the faults of the instance (`crashes = 0`, no
`softlate`, ...). It says exactly where the code stops promising the property:
with a lost worker two executions may overlap, so the result columns may mix two
executions; with the soft limit firing between `publish_result` and the return,
an error follows the result; with it firing inside `publish_error`, a failure is stored
and no error was published. A client that *waits* is one that sends nothing before the
transaction of its last request is over. `pyproject.toml` does not pin FastAPI: from 0.118
on, `get_db` commits after the response was sent, and then the answer alone does not say so.

`CHECK_DEADLOCK FALSE` is set where the system may stop: a run that is
acknowledged, a graph at its end, an idle tab, a session without further
requests. That a run does not stop *early* is what `RunSettles` and `SpinnerStops`
check.

## 4. Bounds

| Bound | Value | Why it is enough |
|---|---|---|
| `Msgs` | 3, 4 | messages of a run: the first and one per retry. an execution that is repeated after it published its retry publishes another one, so a lost worker adds a chain of retries: 1 + `MaxRetries` * (1 + `MaxCrashes`) in all. The supply never runs out in these instances |
| `MaxRetries` | 1; 3 in `runtask_lifecycle` | the handler compares with the limit only: 1 has a retry, a last attempt and nothing in between, 3 is the real value. The proofs hold for every value |
| `MaxCrashes` | 1 | one redelivery already overlaps two executions at every pair of steps |
| `FewOutcomes` | 3 of 12 | everything, some, and a late failure without an explanation: which columns are set is all that a second execution can mix. `runtask_lifecycle` uses all |
| `SweepSizes` | 7, 25 | below the parallel threshold of 8, and the default |
| `MaxAssets`, `MaxQuantumAssets` | 3, 2 | the largest universe sent to the quantum solvers, and one more |
| `Surprises` | 2 nodes | a fatal and an optional one; each of the other five takes the same path of the wrapper |
| `Conns` | 2 | the current connection and an abandoned one whose handler still runs; a slot is free again when its handler is gone |
| `MaxPublished` | 3; 1 | two distinct steps and a verdict, or a verdict and what follows it; one message suffices to tell runs apart |
| hook `MaxRetries` | 1 (code: 3) | a retry, and the limit |
| `MaxWarnings`, `MaxGain` | 3, 2 | one more warning than the template quotes besides the quantum one; beyond, at and below each threshold of the recommendation, on both sides |
| `Grid`, universes | 4; 1 to 5 assets | quarters make every limit of the requests bind, be met exactly or be missed; correlated, uncorrelated, riskless and singular covariances, negative returns, assets with and without a sector |
| `MaxQuantumAssets`, `Parallel` | 4, 8 | all 16 bit strings of the largest universe that is sent, and one that is not; sweeps of 5 and 9 points are on both sides of the threshold |
| `Samples` | one, two or all bit strings | VQE compares pairs only, so a sample's winner is decided by two of its members |
| `TTL`, `MaxTime` | 1, 1 | an entry is live, and then expired, at every pair of steps |
| `MaxCalls`, `Workers`, `Clients` | 2, 2, 2 | two calls of any kind overlap at every pair of steps; `DataLayerProofs` has any number |
| `Lists`, `Lookbacks` | an empty list and one with a repetition in two spellings; 20, 30, 60 | refused, least and another window; two tickers, so that answers are partial, and a key that differs between the spellings |
| `MaxTries` | 2 (code: 3) | a retry, and the last attempt |
| `MaxMessages`, `Utterances`, `Outputs` | 6; 6 texts, 7 objects | three exchanges fill the two required slots one by one and replace one of them; amounts below, within and above each limit, a question, nothing, contradicting limits |
| `MaxBudget`, `MaxParsed` | 100, 200 (code: 1e9, 1e12) | an amount the slots accept and the request refuses |
| `MaxHandovers` | 1 | the model continues what the extractor began, or the reverse |
| `Requests`, `MaxInFlight` | 5, 3 | three overlapping requests make every pair overlap with a third in between; five let a session be created, filled, confirmed twice and read |
| `MaxMessages` | 5 | greeting, two exchanges, and then the limit |

## 5. Fairness

- `RunTask`: weak fairness of the request that is under way and of every step an
  undisturbed execution takes (`Execute`). A worker consumes its queue, a
  coroutine that is not interrupted goes on. No fault is fair, and crashes are
  bounded, as a worker that is lost on every delivery never ends anything.
- `ProgressStream`: weak fairness of the gateway's and the browser's callbacks
  (two event loops), of the 300 second deadline of a connection and of a token
  (time passes), and of the retry timer. Nothing is assumed of the run: it may
  publish nothing at all. `SpinnerStops` then rests on the deadline alone.
- `DataLayer`: weak fairness of every step of a call that has begun (`Step`):
  a worker's thread goes on between two commands, and requests to Yahoo and
  Redis return or time out. Neither the next call nor the users of `CacheManager` are
  fair, and nothing is assumed of what Yahoo answers. `FetchEnds` then rests on the
  counted attempts.
- `AgentGraph`, `ChatSession`, `Solvers` and `Intake` state no liveness.

## 6. What is proved

Every theorem holds for all values of the constants that satisfy the named
assumptions of the modules; the numbers of messages, requests, connections,
retries, assets or levels of the runs play no part. Where a property's premise
names a fault, so does the theorem.

### RunTask

In `RunTaskProofs`, for every set of messages, every retry limit, every
number of lost workers, every set of faults and every set of outcomes; the only
assumption is `Assumptions` of `RunTask` on the constants' types.

| Theorem | Says | Inductive invariant |
|---|---|---|
| `TypeCorrect` | `Spec => []TypeOK` | `TypeOK /\ HoldsDetail`: a detail is read only where the graph returned one; without it `MarkCompleted` could be applied to no detail |
| `NeverTwoExecutions` | `Spec => []SingleExecution` | with `NothingSent`: as long as the request has not dispatched, all messages are unsent. `ScheduleRetry` is the critical step: it makes one message live and, in the same step, the failed one idle |
| `RowNeverReset` | `Spec => NeverBackToPending` | `RowBehind`: wherever an execution counts on the row, the row exists, and before the request's commit it does not. `RowStepHolds` then leaves only `Commit` as a step that could write pending, and it finds no row |
| `FailuresAreAnnounced` | `Spec => []FailureWasAnnounced` | where no soft limit fires behind the pipeline: `FailureWasAnnounced`, and a message at `failread` or `failwrite` has an error event behind it too (`ErrorSent`); events are never removed |
| `RunsAreNotStranded` | `Spec => []NoStrandedRun` | `Finishable`: if the row exists and is not terminal there is a `Finisher`, a live message whose remaining path ends in a terminal status that its session did not already read (the UPDATE would leave it out). Live alone is not inductive: a message at `publish` is live but writes nothing more |
| `LifecycleImplemented` | in an instance without lost workers and time limits (`Quiet`), `Spec => Lifecycle` | `AllCalm`: the status an execution has read is still the row's when it writes, and the row's status fits its program counter; so each step maps to a step of `RunLifecycle` or a stutter |
| `AttemptsAreBounded` | `Spec => []AttemptBudget` | `Counted`: a live message carries as many retries as executions were begun before it, so the retry limit bounds them. With a second live message both could count on from the same number: `NeverTwoExecutions` is a lemma here |
| `FailureTakesEveryRetry` | `Spec => []FailureNeedsExhaustion` | `Handled`: without time limits nobody is in the soft limit's handler, so an error event comes only from a message whose retries are spent; `Spent`: a message carries no more retries than were told of before its execution (`RetriesTold`), because a retry is published and counted in one step. A redelivered message keeps its count, and the events before it |
| `VerdictIsUnique` | `Spec => []OneVerdict` | `Told`: there is one verdict at most, and once there is one, whatever is still live only stores the failure |
| `ResultsAreDurable` | `Spec => []ResultIsDurable` | `Stored` (a published result is in the row, and no live message is where it could still write) on top of `Fresh`: without a lost worker, what a session has read is the row as it is when the session writes |
| `RunsEnd` | for finitely many messages, every step leaves less `Work`, a natural number, under every fault: no schedule of retries, redeliveries and time limits keeps a run going for ever | `TypeOK`. `Work` adds up what each message may still do at worst, its retries and the lost workers that could deliver it again included |
| `LossesCostARound` | for finitely many messages, `Spec => []AttemptsPaid`: at most `(MaxRetries + 1) * (crashes + 1)` executions begin. It extends `AttemptBudget`, which speaks of runs without a lost worker | `Paid`: executions begun and those still due (`Dues`) stay within the budget; a loss may add a whole round, as the message of a lost worker comes back even after its retry was published |
| `ResultsHaveOneSource` | `Spec => []OneSource` | `Sourced`: the result columns (`Results`) of *every* row, terminal or not, name one execution at most, and once they name one nobody is live who would store others. Saying so of completed rows only is not inductive: a failed attempt could leave columns that the next one completes |

The lemmas are about the operators of `RunRow` (`FlushType` gives the type and the
status a flush leaves) and about the steps (`RowStepHolds`: what any step may do
to the status; `OthersKeepFinishing`, `CalmKept`: a step of one message does not
disturb another).

### ChatSession

In `ChatSessionProofs`, for every set of requests, every number of them in flight,
every set of faults and every message limit that `Settings` accepts (at least 4,
`ChatAssumptions`). The theorems about overlapping requests rest on one inductive
invariant, `IInv`:

| Theorem | Says | The part of `IInv` it needs |
|---|---|---|
| `ChatTypeCorrect` | `Spec => []TypeOK`, the message limit included | `Fits`: an exchange that waits for the model has room for its two messages. The limit is checked against the row that was *read*, and the whole list is written back, so overlapping exchanges lose messages but never add up |
| `LinkedRunsExist` | `Spec => []LinkedRunExists` | `Links`: the object names the run its SELECT found, or the request's own, dispatched run, whose row the same commit writes. With the former the UPDATE does not name the column |
| `LinksStay` | `Spec => LinkStays` | `Links` |
| `NothingStartsAfterExpiry` | `Spec => []NothingAfterExpiry` | `InTime`: a request that dispatches, or did, read the session in time |

The theorems about a client that has waited for its answers so far (`Alone`) rest on
`IInv` and `Alone => Serial` (`SerialHolds`): at most one request is between its SELECT and its commit, what it
read is still the row, and its object differs from the row by what it has done itself
(`Owns`), which is a step of the lifecycle (`Advances`); and the run dispatched is
that of the confirmed session, or of the confirmation about to commit (`StartedOnce`).

| Theorem | Says |
|---|---|
| `ConversationsAreKept` | `Spec => []ConversationIsKept`, whatever commit fails |
| `OneRunEach` | `Spec => []OneRunPerSession`, unless the commit of a confirmation failed |
| `ChatLifecycleImplemented` | `Spec => Lifecycle`, up to the first overlap: only a commit changes what the row says, and it takes one step of `ChatLifecycle` or none |

### AgentGraph and Explanation

In `AgentGraphProofs`, for every request, every combination of failures and every
set of nodes exceptions may escape from. `GraphInv`: either nothing
has failed (`Untouched`), or exactly one node has, its event is the last one, and
the walk has left it for good (`Over`). The latter needs `Place`, the order of the
nodes in which every edge leads forward (`RouteMovesOn`): without it a node that
failed could be entered again, and the wrapper's `Enters` would be of no use.
`OutcomeInv` says on top of it what the slots of the state hold once their node is
behind the walk: filled, or empty with the warning that belongs to it (`Filled`),
and that a failure names the node to blame, which is behind the walk (`Blamed`).

| Theorem | Says | From |
|---|---|---|
| `FailureIsLast` | `Spec => []NothingAfterFailure` | `GraphInv` |
| `OutcomeIsTold` | `Spec => []EventsTellTheOutcome` | `GraphInv` |
| `RunsAreAnswered` | `Spec => []AnsweredUnlessFatal` | `OutcomeInv`, `WorkFills`: what each node leaves behind |
| `ExplanationsFit` | `Spec => []ExplanationFits` | `OutcomeInv`: the explanation is one of the three texts (`Texts`) made of the state as it is at the end, because after `explain` nothing changes it (`KeepsAll`) |

### ProgressStream

In `ProgressStreamProofs`, for any runs, connections, messages and retry limit.
`StreamAssumptions` keeps the values apart: a step is no verdict and no code.

| Theorem | Says | Inductive invariant |
|---|---|---|
| `StreamKeepsTypes` | `Spec => []TypeOK` | `TypeOK`; a summary of each step (`ServesOnly`, `HandledOnly`, `Dials`, `Leaves`, `Visits`, `Breaks`) is proved once and used by all that follows |
| `LinkIsTheTabs` | `Spec => []LinkBelongsToTab` | `LinkInv`: only the socket of the hook is alive or has frames left, a reconnection is pending only when it is over and all of it handled (`Linked`), and a close code is the last thing a connection brings (`Final`). Without the latter a frame behind a close code would be handled for a tab that has gone on |
| `DisplayIsOfTheRun` | `Spec => []OnlyCurrentRun` | `LinkInv` |
| `UserIsToldOnce` | `Spec => []OneVerdictShown` | `OneAnswer`: while nothing was cut, the verdicts shown and what may still end the connection (`Endings`, on the wire or by its handler) add up to one |
| `HandlersLoseNothing` | `Spec => []LosesNothing` | `StreamInv`: what a live handler has queued is the end of the channel, and everything it took since it subscribed is on the wire or on the display (`Complete`) |
| `SpinnerIsNeverStranded` | `Spec => []SpinnerIsOwed`: while the spinner of a mounted tab turns, its run was submitted, and a reconnection is pending or the tab's connection is about that run and will still bring an end (`Bringing`: its handler lives, or a verdict or a close code is on the wire) | `SpinnerIsOwed` on top of `LinkInv`; it holds although nothing is assumed of what the run publishes, because every way a connection ends leaves a verdict, a close code or a timer |
| `DisplayIsInOrder` | `Spec => []InOrder` | `Traced`: there is an increasing map from the display, followed by the wire, into the channel, up to what the handler has taken (`Reach`). The map of the display alone is not inductive: a step on the wire needs its place already |

### Market data

In `DataLayerProofs`, for any workers, threads, keys, failures and clock, from
`NamespaceAssumption` (no manager has the prefix of `fetch_market_data` as its
namespace; otherwise a fetch could delete keys of a flush, and nothing would
follow about them):

| Theorem | Says | Inductive invariant |
|---|---|---|
| `OnePoolAtATime` | `Spec => []OnePool` | `PoolCount`: pools created are resets, plus one if there is a pool now |
| `FlushIsThorough` | `Spec => []FlushClears` | `FlushInv`: a key that stood all the time exists, is of the namespace, and is ahead of the cursor or on the page just returned |
| `FetchesEnd` | `Spec => FetchesGoDown`: every step of a call takes it nearer to its end (`Left`, a natural number) and what others do leaves it where it is, whatever Yahoo and Redis answer | `AttemptInv`: counted attempts, then the tickers that are missing one by one. From `MarketAssumptions` and `ListsAssumption` (a list names finitely many tickers) |
| `AnswersFitTheRequest` | `Spec => []FitsTheRequest` | `FetchInv`: what is stored as market data was fetched for the tickers and the window of its key and expires the TTL after the fetch was complete, when the code stamps it (`StoreFits`), and what a call returns is for the tickers and the window it was asked (`AnswerFits`) |

### Intake

In `IntakeProofs`, for any texts, model outputs, overrides, limits and process
configurations, from `NormalAssumption` and `UtteranceAssumption`:

| Theorem | Says | Along |
|---|---|---|
| `RequestsAreSound` | `Spec => []RequestIsSound` | `IntakeInv`: stored tickers are in upper case and named once (`SlotsSettled`), so that the request's own normalisation leaves them alone. `EveryRank` shows that the places of a set of numbers are exactly its ranks, which makes `At` a list of what was picked |
| `OnlyTheShownIsConfirmed` | `Spec => []ConfirmedWasShown` | `IntakeInv`: a session that can be confirmed has its present slots in its last reply, through every change of the configuration |
| `SlotsAreHeardAndKept` | `Spec => HeardAndKept` | `PartialKeeps` and `FoundIsHeard`: the extractor's values stand in a phrase of the user, of this exchange or of an earlier one (`TextIsOfTheUser`), and merging never empties a field |

### Solvers

In `SolversProofs`, for every universe, request, size and sample that
`UniverseAssumption` (at least one asset) and `ProblemAssumption` allow:

| Theorem | Says | Along |
|---|---|---|
| `RepairGivesSize` | a member of `EnforceCardinality(u, S, k)` has exactly `k` elements, whatever `S` is | the three cases of the repair, cardinalities of differences and unions |
| `SelectionsHaveTheSize` | `Spec => []RightSize`, the first part of `SelectionIsRight` | `SizeInRange`: the clamped target lies in `1..n`, the precondition of the former; every way a thread can end passes through the repair |
| `AnswersMeetTheRequest` | `Spec => []AnswerMeetsRequest`, the second part of `VerdictIsRight` | the solver leaves out a limit on a sector without assets; the weight of such a sector is 0 (`EmptySector`). A threshold on volatility is met where the assets are uncorrelated: the factor is then diagonal (`RootIsDiagonal`, by the zeros of LL' from the left) and the solver's expression the variance (`ExpressionIsTrue`) |
| `SelectionsAreRight` | `Spec => [](Tame(u) => SelectionIsRight)`: when VQE has seen every bit string, no selection of the size asked for has less energy than its own | the least energy is at the right size (so the repair does nothing): with the wrong number of assets the energy is higher: one asset more or less changes it by its row of the matrix (`RowIsAdded`, `QuadraticGains`, `QuadraticLoses`), and rows add up to twice the pairs (`TotalByRows`), so some asset is below the average. `PairsAreTame`: up to five assets the second half of `Tame` says nothing |
| `VerdictsAreRight` | `Spec => [](Bounded => VerdictIsRight)`, where `Bounded` asks of rejections that name the volatility that sigma is a `Covariance`. The property itself leaves out what the code does not decide by the request's own measure: infeasible by a threshold on `sharpe`, or on the volatility of correlated assets | `FeasibleHasAnswer`: among finitely many feasible portfolios one is not beaten (`FirstExists`), so no answer means none is feasible; `RejectedIsImpossible`: a sum is at most the bounds of its parts (`TotalMonotone`), and equal weights have the least concentration (`HhiIsBounded`, from the square of n w - 1 in each asset). For the volatility, `VolatilityFallsShort`: the variance of the difference between the portfolio and the one of least variance, brought to one denominator, is what the portfolio has above the minimum (`FormAtDifference`), and it is not negative |
| `MatrixIsTheObjective` | `Spec => []QuboIsTheObjective` | `EnergyIsPromised`: matrix and promised cost agree up to a constant, by adding one asset at a time; `IsingIsTheMatrix`: so do matrix and Hamiltonian, as a turned spin changes the one by what a chosen asset changes the other. Needs the symmetry of the covariance, as the matrix keeps one triangle only |
| `FrontiersArePareto` | `Spec => []FrontierIsPareto` | `SweepInv`: the points so far come from the levels behind the sweep, one from each that has a solution. The single pass over the sorted points (`DominantIsPareto`) leaves every other point a dominant one as good, and can be wrong only about points with the same x, as it never compares them. Where the sweep is `Exact` (`ExactIsRaw`) it is not: `WithinIsMonotone`, a level allows what a stricter one does, so a point of a level has the best y of all portfolios that are as good in x (`LevelIsBest`), and points with the same x have the same y (`SampledTies`) |

Sums over portfolios are folds in the model, which no prover expands. `FiniteSums`
therefore characterises them by their equations: a sum is the value at the whole set of
*some* function on its subsets that adds one element at a time. That such a
function exists and that its value is unique is shown by a counterexample of least
size (`LeastNumber`), as the induction theorems of the library are not
available to the provers; linearity, additivity and the change of one element follow
(`TotalIsLinear`, `TotalAdds`, `TotalChanges`, `QuadraticAdds`), so does a sum with one term
that is not 0 (`TotalOfOne`), and so do double sums
by rows (`TotalOfRows`) and what is above the minimum of a quadratic form
(`FormAtDifference`).

The two premises of these theorems are conditions on the data:

- `Tame(u)`: no selection has a negative risk, and from six assets on no two of them have a
  covariance of three quarters of the scale or more, if three are selected (half of it, if four
  are). The second is tight: for six assets with returns of -1 and variances of 4 the least
  energy is at three assets if the covariances are 2, at two as well as three if they are 3,
  and at two if they are 4.
- `Covariance(u)`: sigma gives no position, long or short, a negative variance, and where it
  has an inverse, the determinants `MinVarNum` and `MinVarDen` belong to a position, as
  Cramer's rule has it for `inv(cov) @ ones` in `constraints.py`. The rule itself speaks of
  sums over permutations, is not proved here, and holds of every universe of `MCSolvers`.

## 7. What is only model-checked

- `RunSettles`, `SpinnerStops` and `FetchEnds`: liveness under fairness is beyond the prover.
  Their safety halves are proved: `RunsEnd` with `RunsAreNotStranded`, `SpinnerIsNeverStranded`
  and `FetchesEnd` leave that a step is enabled and taken.
- What `Bounded` leaves out of `VerdictIsRight`: that the position of least variance is
  the quotient of determinants is Cramer's rule (section 6). `solver_answers` checks it
  for its universes.
- Universes whose Cholesky factor is not of integers are in neither: the runs need numbers
  that TLC can compute with, and the theorems assume `ProblemAssumption`.
- `SelectionIsRight` where the universe is not `Tame`: it is false of some of them
  (section 8), and the run has none.

## 8. Where the code and its documentation disagree

Shown by a run (`findings` in `PROJECT.json` quotes the sentence):

- A sweep of 8 points or more, the default of 25 among them, comes back without a
  frontier: `frontier.py` uses `os.cpu_count()` and does not import `os`
  (`graph_doc_frontier`).
- The volatility of a solve is `norm(cholesky(cov) @ w)` (`optimizer.py:156`,
  `frontier.py:99`). NumPy's factor is lower triangular with LL' = Σ, so the square is
  w'L'Lw and not w'Σw; `L.T @ w` would be right. The comment above it and
  `multi-objective.md:221` call it the true standard deviation. With variances 1 and 2 and
  a covariance of -1, all in the second asset is answered for "volatility at most 1": the
  solver sees 1 where the standard deviation is the root of 2 (`solver_doc_volatility`).
  The order of the assets therefore matters, thresholds that could be met are found
  infeasible, and the end of a sweep that should have the least volatility need not have
  it. `VerdictIsRight` and `FrontierIsPareto` say exactly how much is left of what they
  promise: everything for uncorrelated assets, and for correlated ones what does not
  pass through this expression. If the factorisation fails, the code falls back to a
  symmetric root, for which the expression is right.

Behaviour the models have, and no property excludes:

- A graph that *returns* a failed detail is stored as `completed`:
  `_persist_completed_run` (`tasks.py:402`) never looks at the detail's status;
  `models.py:57` says "completed" means the graph finished successfully.
- A terminal status changes again when a message is redelivered: the task
  marks every row running (`tasks.py:333`); `request-lifecycle.md:240` says the
  status never changes.
- A chat session can be confirmed twice by overlapping requests: nothing is locked
  between the guard (`service.py:345`) and the commit; `exceptions.py:295` and
  `api/v1/chat.py:467` say once. `OneRunPerSession` is about a client
  that has waited for each answer so far, and whose confirmations were committed.
- With the retries spent, a soft limit that fires inside the `try` of `publish_error`
  (`tasks.py:168-174`) is swallowed there with the event, and `_persist_failure` stores
  the failure: polling clients see a failed run, subscribers wait for the deadline.
  `FailureWasAnnounced` excludes late soft limits, and `runtask_faults` has them.
- `CacheManager.get` deletes a foreign entry in a second command, and with it
  what another thread wrote in between.
- A manager whose pool is reset between the lock and the return of `_get_pool`
  connects to redis-py's default server (`Stray`).

Read in the code while modelling, without a run of their own:

- An exception with an empty message in a fatal node leaves `error = ""`, and
  the routing (`graph.py:246`) takes that for no failure; `docs/05-agent-layer/error-routing.md` says
  every fatal failure ends the graph. `blank_errors` is in the model, and the
  properties that need a message say so.
- `run_agent_graph`'s docstring says it raises `AgentExecutionError`; it never
  does, so a failing graph is not retried.
- `request-lifecycle.md` draws an arrow from running back to pending on a crash;
  nothing writes pending (`RowNeverReset`).
- The hard time limit leaves the row `running` for ever: Celery acknowledges the
  message of a killed process. `NoStrandedRun` and `RunSettles` exclude it.
- `progress-events.md` promises result or error after all progress; a redelivered
  task publishes progress again. `state-management.md` speaks of reconnections
  replaying messages; nothing is replayed.
- Messages published between `accept` and `subscribe`, or while the hook
  reconnects, are lost. A dashboard that is opened after the run ended waits for
  the deadline and then shows an error.
- `close(4001)` before `accept` refuses the handshake, which a browser may report
  as 1006; the hook then retries. Both codes are in the model.
- In chat, `mark_expired` before a raise is rolled back; of two overlapping
  messages one is lost; a message under way during a confirmation puts the session
  back to `pending_confirmation`; a commit that fails after the dispatch lets the
  session start a second run.

Intake:

- Slots accept a budget between 1e9 and 1e12, which the confirmation refuses; the
  first amount in the conversation that is out of range is found again in every
  exchange, so the local extractor never gets a budget for that session.
- The local extractor never changes a slot it has; "1% return" is read as 100%,
  because only numbers above 1 are divided.
- The summary shows neither objectives nor the frontier.
- A confirmation whose body does not validate answers 500; `api/v1/chat.py`
  documents 422. A reply whose merged slots contradict each other fails and is rolled
  back.
- `tickers: ["AAPL", "aapl"]` passes `min_length=2` and becomes one ticker.

Market data:

- `invalidate_cache` makes its key of the list as it is passed, `fetch_market_data`
  of the normalised one: with another spelling nothing is invalidated.
- A partial answer, or metadata that failed ("Unknown"), is cached for the TTL.
- The stamp of market data is taken at the end of the fetch (`fetcher.py:228`), after the
  retries, the fallback and the metadata: prices may be older than the TTL by as long as
  these took. `FitsTheRequest` counts from the stamp.

Optimizers:

- A threshold on `sharpe` is applied to the proxy return - lambda * variance
  (`optimizer.py:158`, `249`), not to the ratio the field describes. `VerdictIsRight`
  leaves such thresholds out.
- `min_weight_per_asset`, a constraint by the docstring of `optimizer.py:9`, is validated and
  never applied, so `WithinLimits` cannot ask for it; `num_assets_to_select` is not
  forwarded to the quantum dispatcher, and equal weights ignore `max_weight_per_asset`.
- Limits that leave too little room across sectors are only warned of; the solver then
  finds the request infeasible. A limit on a sector without assets is skipped.
- In the fast pass of `_flag_dominance` (`frontier.py:256-279`) two points with the same x
  are told apart by their order only: the one the pass meets first stays dominant even when the
  other is better in y, which the docstring's definition rules out. Where a sweep is `Exact`,
  exact arithmetic produces no such pair, as `FrontiersArePareto` proves for every universe;
  with a volatility axis and correlated assets, and with the tolerances of a floating-point
  solver, it may.
- `qubo.py:81-84` says that the penalty must be large enough to dominate the objective, names
  5 * max|Q| and defaults to 5.0. That dominates for up to five assets; for six to eight (the
  default limit) it does unless assets that lose are strongly correlated (`Tame`, section 6). Then
  the least energy is at fewer assets than asked for, and only the repair brings the size back,
  by returns and not by risk. With six assets, returns of -1, variances of 20 and covariances of
  18, except 16 between the first two and 17 among the next three, the least energy is at {1, 2}, and
  the repair may add any asset to it, although the next three have the least energy of all
  three. `SelectionsAreRight` states the exact premise, and the universes
  of `MCSolvers` meet it.
- A lost worker may cost a whole round of attempts: its message is delivered again with the
  retries it carried, also when its own retry was already published (`LossesCostARound`), so
  `max_retries` (`tasks.py:181`) bounds a run's executions only as long as no worker is lost.

Explanation:

- When the quantum solvers *failed*, the template says that they were not run and can
  be enabled (`explainer.py:337`), and filters the warning that says otherwise;
  `nodes.py:363` promises that the explanation can mention it.

## 9. What is not modelled

The chat assistant of the browser and the rate limit (section 10). An effect of
`ChatAssistant.tsx:96-103` starts the confirmed run again whenever the component is
mounted with the run still in the store; `ProgressStream` has only the submission by the
form. There, a POST that resolves after the dashboard was left is dropped by the guard of
`StartRun`, which starts runs on a mounted tab only. Publications to Redis that fail are
not told apart from those nobody received. Of the solvers,
what is floating point: tolerances, the interior-point method, the variational loops
and circuits, and the frontier axis `sharpe`, which the sweep solves by its proxy and
evaluates as a ratio. `metrics.py` (returns, covariances, repair to a positive
semidefinite matrix) is arithmetic on prices. `decode_bitstring`,
`validate_qubo_solution`, `qubo_to_dict` and `data/schemas.py` are used by nothing.
`Intake` leaves out sector limits and the number of frontier points: no property
depends on them; `Solvers` has sector limits. Prompts, texts, logs and metrics have no
property here. Run queries, health, configuration, asset search, pages, migrations
and infrastructure hold no state that steps of two actors could disturb. Keepalive
pings of the gateway are dropped by the client and left out.

## 10. Plan

In this order:

1. `ChatClient`: the browser's chat assistant composed with `ChatSession` --
   optimistic messages, polling of the started run, its restart on a remount.
2. A composition of `RunTask` with `ProgressStream`, so that what the dashboard
   shows is compared with the row GET returns.
3. `RateLimit`: fixed windows shared by API processes.

Theorems next: every safety invariant and action property of the runs has a row in the
tables of section 6. Missing are the fairness halves of the three liveness properties and
Cramer's rule, both beyond the prover; new theorems come with the modules above.
