---------------------------- MODULE ChatSession -----------------------------
(***************************************************************************)
(* One chat session and the HTTP requests that work on it. Every request   *)
(* has a database transaction of its own: ChatService SELECTs the session, *)
(* waits for the language model or for the run's INSERT, sets attributes   *)
(* on the object, and the commit at the end of the request writes the      *)
(* columns whose value differs from the SELECTed one. Nothing locks the    *)
(* row in between. A request that raises is rolled back.                   *)
(*                                                                         *)
(* A message stands for the request that brought it about, the run of a    *)
(* session for the request that confirmed it.                              *)
(***************************************************************************)
EXTENDS Naturals, Sequences, FiniteSets

CONSTANTS Requests,     \* requests made (bound)
          NoRequest,
          MaxMessages,  \* CHAT_MAX_MESSAGES_PER_SESSION
          MaxInFlight,  \* requests served at the same time (bound)
          Faults        \* what may fail: the model, the broker, the database

ASSUME ChatAssumptions == /\ NoRequest \notin Requests
                          /\ MaxMessages \in Nat /\ MaxMessages >= 4   \* Settings: ge=4
                          /\ MaxInFlight \in Nat
                          /\ Faults \subseteq {"llm", "broker", "db"}

VARIABLES
  row,         \* the committed chat_sessions row
  req,         \* req[q]: the request q, with the row it SELECTed and the object
  overdue,     \* expires_at has passed
  dispatched,  \* requests whose run was given to Celery
  runs,        \* requests whose optimization_runs row was committed
  answered,    \* what the committed requests added to the conversation (history)
  mishaps      \* what a client that waits for each answer does not meet (history):
               \* two requests under way at a time, a confirmation lost at the commit

vars == <<row, req, overdue, dispatched, runs, answered, mishaps>>

Status == {"absent", "collecting", "pending_confirmation", "confirmed", "expired"}
Slots == {"none", "partial", "full"}   \* full: has_required_slots

\* No more messages than MaxMessages, however the requests overlap.
TypeOK ==
  /\ row \in [status : Status, messages : Seq(Requests), slots : Slots,
              run : Requests \cup {NoRequest}]
  /\ Len(row.messages) <= MaxMessages
  /\ \A q \in Requests :
       /\ req[q].pc \in {"new", "llm", "dispatch", "commit", "done"}
       /\ req[q].kind \in {"none", "greet", "create", "send", "confirm", "get"}
       /\ req[q].late \in BOOLEAN
  /\ overdue \in BOOLEAN
  /\ runs \subseteq dispatched /\ dispatched \subseteq Requests
  /\ answered \in Seq(Requests)
  /\ mishaps \subseteq {"overlap", "lost"}

NoRow == [status |-> "absent", messages |-> <<>>, slots |-> "none", run |-> NoRequest]
NewRequest == [pc |-> "new", kind |-> "none", late |-> FALSE, seen |-> NoRow, object |-> NoRow]

Init ==
  /\ row = NoRow
  /\ req = [q \in Requests |-> NewRequest]
  /\ overdue = FALSE
  /\ dispatched = {}
  /\ runs = {}
  /\ answered = <<>>
  /\ mishaps = {}

Terminal == {"confirmed", "expired"}
InFlight == {q \in Requests : req[q].pc \in {"llm", "dispatch", "commit"}}
Idle(q) == req[q].pc = "new" /\ Cardinality(InFlight) < MaxInFlight

\* The request's SELECT found `row`; it goes on from pc with the object `o`.
Goes(q, kind, pc, o) ==
  /\ req' = [req EXCEPT ![q] = [pc |-> pc, kind |-> kind, late |-> overdue,
                                seen |-> row, object |-> o]]
  /\ mishaps' = IF InFlight = {} THEN mishaps ELSE mishaps \cup {"overlap"}
Ends(q) == req' = [req EXCEPT ![q] = [@ EXCEPT !.pc = "done", !.seen = NoRow, !.object = NoRow]]

\* get_db: rollback.
Raises(q) == Ends(q) /\ UNCHANGED <<row, dispatched, runs, answered>>

Append2(s, q) == s \o <<q, q>>

-----------------------------------------------------------------------------
(* create_session.                                                         *)

\* INSERT and flush; the welcome message, or the first exchange.
Create(q) ==
  /\ Idle(q)
  /\ row.status = "absent"
  /\ InFlight = {}
  /\ LET new == [NoRow EXCEPT !.status = "collecting"]
     IN  \/ Goes(q, "greet", "commit", [new EXCEPT !.messages = <<q>>])
         \/ Goes(q, "create", "llm", new)
  /\ UNCHANGED <<row, overdue, dispatched, runs, answered>>

-----------------------------------------------------------------------------
(* send_message.                                                           *)

\* is_expired and is_terminal of the row that was read.
AcceptsMessages == row.status \in Status \ (Terminal \cup {"absent"}) /\ ~overdue

\* Mutant of BelowLimit: counts the user's message and not the reply.
BelowLimitOffByOne == Len(row.messages) + 1 <= MaxMessages

BelowLimit == Len(row.messages) + 2 <= MaxMessages

SendReads(q) ==
  /\ Idle(q)
  /\ AcceptsMessages
  /\ BelowLimit
  /\ Goes(q, "send", "llm", row)
  /\ UNCHANGED <<row, overdue, dispatched, runs, answered>>

\* mark_expired before raising is rolled back with the rest.
SendRefused(q) ==
  /\ Idle(q)
  /\ row.status # "absent"
  /\ ~AcceptsMessages \/ ~BelowLimit
  /\ Raises(q)
  /\ UNCHANGED <<overdue, mishaps>>

\* New values overwrite, missing ones are kept: nothing makes slots go away, but
\* a new list of tickers may be too short.
Merged(slots) == IF slots = "none" THEN Slots ELSE Slots \ {"none"}

\* Mutant of Answered: appends in place, which the ORM does not notice.
AppendedInPlace(q, o, s) ==
  [o EXCEPT !.slots = s, !.status = IF s = "full" THEN "pending_confirmation" ELSE @]

\* Mutant of Answered: the status follows the slots both ways.
StatusFollowsSlots(q, o, s) ==
  [o EXCEPT !.slots = s, !.messages = Append2(@, q),
            !.status = IF s = "full" THEN "pending_confirmation" ELSE "collecting"]

\* Mutant of Answered: a session that is talked to again forgets its run.
UnlinkedByAnswer(q, o, s) ==
  [o EXCEPT !.slots = s, !.messages = Append2(@, q), !.run = NoRequest,
            !.status = IF s = "full" THEN "pending_confirmation" ELSE @]

\* The object after an exchange that left the slots s. A session that waits for
\* confirmation goes on waiting whatever its slots have become.
Answered(q, o, s) ==
  [o EXCEPT !.slots = s, !.messages = Append2(@, q),
            !.status = IF s = "full" THEN "pending_confirmation" ELSE @]

\* The rest of _process_message.
ModelAnswers(q) ==
  /\ req[q].pc = "llm"
  /\ \E s \in Merged(req[q].object.slots) :
       req' = [req EXCEPT ![q].pc = "commit", ![q].object = Answered(q, @, s)]
  /\ UNCHANGED <<row, overdue, dispatched, runs, answered, mishaps>>

\* ChatSlotExtractionError: the user's message is lost too.
ModelFails(q) ==
  /\ "llm" \in Faults
  /\ req[q].pc = "llm"
  /\ Raises(q)
  /\ UNCHANGED <<overdue, mishaps>>

-----------------------------------------------------------------------------
(* confirm_session.                                                        *)

\* Mutant of Confirmable: trusts the status, which a refused request never gets
\* to set.
ConfirmableByStatus == row.status = "pending_confirmation" /\ row.slots # "none"

\* The three guards, and slots to build a request from.
Confirmable == row.status = "pending_confirmation" /\ ~overdue /\ row.slots # "none"

\* OptimizationRequest accepted the slots with the overrides.
ConfirmReads(q) ==
  /\ Idle(q)
  /\ Confirmable
  /\ Goes(q, "confirm", "dispatch", row)
  /\ UNCHANGED <<row, overdue, dispatched, runs, answered>>

\* Not confirmable, or the request is not valid.
ConfirmRefused(q) ==
  /\ Idle(q)
  /\ row.status # "absent"
  /\ Raises(q)
  /\ UNCHANGED <<overdue, mishaps>>

MarkConfirmed(q, o) == [o EXCEPT !.status = "confirmed", !.run = q]

Confirmed(q) ==
  req' = [req EXCEPT ![q].pc = "commit", ![q].object = MarkConfirmed(q, @)]

\* Mutant of Dispatch: forgets mark_confirmed.
DispatchUnmarked(q) ==
  /\ req[q].pc = "dispatch"
  /\ dispatched' = dispatched \cup {q}
  /\ req' = [req EXCEPT ![q].pc = "commit"]
  /\ UNCHANGED <<row, overdue, runs, answered, mishaps>>

\* The run's INSERT is flushed, apply_async, mark_confirmed.
Dispatch(q) ==
  /\ req[q].pc = "dispatch"
  /\ dispatched' = dispatched \cup {q}
  /\ Confirmed(q)
  /\ UNCHANGED <<row, overdue, runs, answered, mishaps>>

\* Mutant of DispatchFails: logs the error and goes on.
ConfirmAnyway(q) ==
  /\ "broker" \in Faults
  /\ req[q].pc = "dispatch"
  /\ Confirmed(q)
  /\ UNCHANGED <<row, overdue, dispatched, runs, answered, mishaps>>

DispatchFails(q) ==
  /\ "broker" \in Faults
  /\ req[q].pc = "dispatch"
  /\ Raises(q)
  /\ UNCHANGED <<overdue, mishaps>>

-----------------------------------------------------------------------------
(* get_session, and the end of every request.                              *)

Get(q) ==
  /\ Idle(q)
  /\ row.status # "absent"
  /\ Goes(q, "get", "commit",
          IF overdue /\ row.status \notin Terminal THEN [row EXCEPT !.status = "expired"] ELSE row)
  /\ UNCHANGED <<row, overdue, dispatched, runs, answered>>

\* The UPDATE names the columns whose value is not the SELECTed one.
Written(seen, object) == [c \in DOMAIN row |-> IF object[c] = seen[c] THEN row[c] ELSE object[c]]

\* What a client that got the answer to q has seen of the conversation.
Exchanged(q) == CASE req[q].kind \in {"create", "send"} -> <<q, q>>
                  [] req[q].kind = "greet"              -> <<q>>
                  [] OTHER                              -> <<>>

Commit(q) ==
  /\ req[q].pc = "commit"
  /\ row' = Written(req[q].seen, req[q].object)
  /\ runs' = IF req[q].kind = "confirm" THEN runs \cup {q} ELSE runs
  /\ answered' = answered \o Exchanged(q)
  /\ Ends(q)
  /\ UNCHANGED <<overdue, dispatched, mishaps>>

CommitFails(q) ==
  /\ "db" \in Faults
  /\ req[q].pc = "commit"
  /\ Raises(q)
  /\ mishaps' = IF req[q].kind = "confirm" THEN mishaps \cup {"lost"} ELSE mishaps
  /\ UNCHANGED overdue

\* CHAT_SESSION_TTL_HOURS are over.
TimePasses ==
  /\ row.status # "absent"
  /\ ~overdue
  /\ overdue' = TRUE
  /\ UNCHANGED <<row, req, dispatched, runs, answered, mishaps>>

Serve(q) == \/ Create(q) \/ SendReads(q) \/ SendRefused(q) \/ ModelAnswers(q) \/ ModelFails(q)
            \/ ConfirmReads(q) \/ ConfirmRefused(q) \/ Dispatch(q) \/ DispatchFails(q)
            \/ Get(q) \/ Commit(q) \/ CommitFails(q)

Next == TimePasses \/ \E q \in Requests : Serve(q)

Spec == Init /\ [][Next]_vars
-----------------------------------------------------------------------------
(* Properties.                                                             *)

\* The run a session names was dispatched, and its row is there to be polled:
\* one transaction writes both, also when several confirmations overlap.
LinkedRunExists == row.run # NoRequest => row.run \in runs \cap dispatched

\* Once linked, a session stays linked to some run, even if an exchange that
\* was under way puts the session back to pending_confirmation.
LinkStays == [][row.run # NoRequest => row'.run # NoRequest]_row

\* No confirmation that arrives after the session's time dispatches a run,
\* although expiry is written to the row by GET only.
NothingAfterExpiry == \A q \in dispatched : ~req[q].late

\* So far the client has waited for each answer.
Alone == "overlap" \notin mishaps

\* Such a client finds the whole conversation in the session, in order, whatever
\* failed in between.
ConversationIsKept == Alone => row.messages = answered

\* And starts one run per session, unless a confirmation's commit fails after the
\* dispatch.
OneRunPerSession == mishaps = {} => Cardinality(dispatched) <= 1

\* And sees the documented lifecycle.
CL == INSTANCE ChatLifecycle WITH Run <- Requests, NoRun <- NoRequest,
                                  status <- row.status, run <- row.run
Lifecycle == CL!Init /\ [][Alone' => CL!Next]_<<row.status, row.run>>

=============================================================================
