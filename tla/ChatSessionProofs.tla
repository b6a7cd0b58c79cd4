------------------------- MODULE ChatSessionProofs -------------------------
(***************************************************************************)
(* Proofs about ChatSession for every set of requests, message limit,      *)
(* number of overlapping requests and set of faults.                       *)
(***************************************************************************)
EXTENDS ChatSession, FiniteSetTheorems, TLAPS

-----------------------------------------------------------------------------
(* What a request holds.                                                   *)

RowType == [status : Status, messages : Seq(Requests), slots : Slots,
            run : Requests \cup {NoRequest}]
ReqType == [pc : {"new", "llm", "dispatch", "commit", "done"},
            kind : {"none", "greet", "create", "send", "confirm", "get"},
            late : BOOLEAN, seen : RowType, object : RowType]

\* An exchange that waits for the model still has room for its two messages.
Fits(r) == /\ r.pc = "llm" => Len(r.object.messages) + 2 <= MaxMessages
           /\ r.pc \in {"dispatch", "commit"} => Len(r.object.messages) <= MaxMessages

\* The object names the run the SELECT found, or the request's own one, which
\* was dispatched and whose row the same commit writes. Only a session that is
\* there is confirmed, and no request takes one away.
Links(q) ==
  LET r == req[q]
  IN  r.pc \in {"llm", "dispatch", "commit"} =>
        /\ r.object.status # "absent"
        /\ r.kind = "confirm" => row.status # "absent"
        /\ \/ r.object.run = r.seen.run
           \/ r.object.run = q /\ r.kind = "confirm" /\ r.pc = "commit" /\ q \in dispatched

\* A request that dispatches, or did, came in time.
InTime(q) == /\ q \in dispatched => req[q].pc \in {"commit", "done"}
             /\ q \in dispatched \/ req[q].pc = "dispatch" => ~req[q].late
             /\ req[q].pc = "dispatch" => req[q].kind = "confirm"
             /\ req[q].pc = "llm" => req[q].kind # "confirm"
             /\ req[q].kind = "confirm" /\ req[q].pc = "commit" => q \in dispatched

IInv ==
  /\ row \in RowType
  /\ Len(row.messages) <= MaxMessages
  /\ req \in [Requests -> ReqType]
  /\ overdue \in BOOLEAN
  /\ runs \subseteq dispatched /\ dispatched \subseteq Requests
  /\ answered \in Seq(Requests)
  /\ mishaps \subseteq {"overlap", "lost"}
  /\ row.status = "absent" => row.run = NoRequest
  /\ row.run # NoRequest => row.run \in runs
  /\ \A q \in Requests : Fits(req[q]) /\ Links(q) /\ InTime(q)

LEMMA NoRowType ==
  /\ NoRow \in RowType /\ Len(NoRow.messages) = 0
  /\ NoRow.run = NoRequest /\ NoRow.status = "absent"
  BY DEF NoRow, RowType, Status, Slots

LEMMA RowShape ==
  ASSUME NEW r \in RowType
  PROVE  /\ r.status \in Status /\ r.messages \in Seq(Requests) /\ r.slots \in Slots
         /\ r.run \in Requests \cup {NoRequest}
         /\ Len(r.messages) \in Nat
  BY DEF RowType

LEMMA Append2Type ==
  ASSUME NEW s \in Seq(Requests), NEW q \in Requests
  PROVE  Append2(s, q) \in Seq(Requests) /\ Len(Append2(s, q)) = Len(s) + 2
<1>1. <<q, q>> \in Seq(Requests) /\ Len(<<q, q>>) = 2
  OBVIOUS
<1> QED
  BY <1>1 DEF Append2

LEMMA WrittenType ==
  ASSUME row \in RowType, NEW s \in RowType, NEW o \in RowType
  PROVE  /\ Written(s, o) \in RowType
         /\ Written(s, o).messages \in {row.messages, o.messages}
         /\ Written(s, o).status = IF o.status = s.status THEN row.status ELSE o.status
         /\ Written(s, o).run = IF o.run = s.run THEN row.run ELSE o.run
<1>1. DOMAIN row = {"status", "messages", "slots", "run"}
  BY DEF RowType
<1>2. Written(s, o) = [c \in {"status", "messages", "slots", "run"} |->
                         IF o[c] = s[c] THEN row[c] ELSE o[c]]
  BY <1>1 DEF Written
<1> QED
  BY <1>2 DEF RowType

-----------------------------------------------------------------------------
(* One step.                                                               *)

\* A request is served alone: what the others hold stays as it is.
LEMMA OthersKept ==
  ASSUME IInv, NEW q \in Requests, NEW n \in Requests, n # q,
         req' \in [Requests -> ReqType], req'[n] = req[n],
         dispatched' = dispatched \/ dispatched' = dispatched \cup {q},
         row.status # "absent" => row'.status # "absent"
  PROVE  (Fits(req[n]) /\ Links(n) /\ InTime(n))'
  BY DEF IInv, Fits, Links, InTime

LEMMA GoKeeps ==
  ASSUME IInv, NEW q \in Requests, NEW k \in {"greet", "create", "send", "confirm", "get"},
         NEW pc \in {"llm", "dispatch", "commit"}, NEW o \in RowType, Goes(q, k, pc, o)
  PROVE  /\ req' \in [Requests -> ReqType]
         /\ req'[q] = [pc |-> pc, kind |-> k, late |-> overdue, seen |-> row, object |-> o]
         /\ \A n \in Requests : n # q => req'[n] = req[n]
         /\ mishaps' \subseteq {"overlap", "lost"}
  BY DEF IInv, Goes, ReqType

LEMMA RaiseKeeps ==
  ASSUME IInv, NEW q \in Requests, Raises(q), UNCHANGED overdue,
         mishaps' \subseteq {"overlap", "lost"}
  PROVE  IInv'
<1>1. /\ req' \in [Requests -> ReqType]
      /\ req'[q].pc = "done" /\ req'[q].late = req[q].late
      /\ \A n \in Requests : n # q => req'[n] = req[n]
  BY NoRowType DEF IInv, Raises, Ends, ReqType
<1>2. (Fits(req[q]) /\ Links(q) /\ InTime(q))'
  BY <1>1 DEF IInv, Raises, Fits, Links, InTime
<1> QED
  BY <1>1, <1>2, OthersKept DEF IInv, Raises

LEMMA AnsweredType ==
  ASSUME NEW q \in Requests, NEW o \in RowType, NEW s \in Slots
  PROVE  /\ Answered(q, o, s) \in RowType
         /\ Answered(q, o, s).run = o.run
         /\ o.status # "absent" => Answered(q, o, s).status # "absent"
         /\ Len(Answered(q, o, s).messages) = Len(o.messages) + 2
  BY Append2Type DEF Answered, RowType, Status

LEMMA GoesOn ==
  ASSUME req \in [Requests -> ReqType], NEW q \in Requests, NEW o \in RowType,
         req' = [req EXCEPT ![q].pc = "commit", ![q].object = o]
  PROVE  /\ req' \in [Requests -> ReqType]
         /\ req'[q].pc = "commit" /\ req'[q].object = o /\ req'[q].seen = req[q].seen
         /\ req'[q].late = req[q].late /\ req'[q].kind = req[q].kind
         /\ \A n \in Requests : n # q => req'[n] = req[n]
<1>1. req[q] \in ReqType
  OBVIOUS
<1>2. req' = [req EXCEPT ![q] = [req[q] EXCEPT !.pc = "commit", !.object = o]]
  BY <1>1 DEF ReqType
<1>3. [req[q] EXCEPT !.pc = "commit", !.object = o] \in ReqType
  BY <1>1 DEF ReqType
<1> QED
  BY <1>1, <1>2, <1>3 DEF ReqType

LEMMA AnswerKeeps ==
  ASSUME IInv, NEW q \in Requests, ModelAnswers(q)
  PROVE  IInv'
<1> PICK s \in Merged(req[q].object.slots) :
       req' = [req EXCEPT ![q].pc = "commit", ![q].object = Answered(q, @, s)]
  BY DEF ModelAnswers
<1> DEFINE o == Answered(q, req[q].object, s)
<1>1. /\ req[q] \in ReqType /\ req[q].object \in RowType /\ req[q].pc = "llm"
      /\ Fits(req[q]) /\ Links(q) /\ InTime(q)
  BY DEF IInv, ModelAnswers, ReqType
<1>2. s \in Slots
  BY DEF Merged, Slots
<1>3. /\ o \in RowType /\ o.run = req[q].object.run
      /\ req[q].object.status # "absent" => o.status # "absent"
      /\ Len(o.messages) = Len(req[q].object.messages) + 2
  BY <1>1, <1>2, AnsweredType
<1>4. req' = [req EXCEPT ![q].pc = "commit", ![q].object = o]
  OBVIOUS
<1> HIDE DEF o
<1>5. /\ req' \in [Requests -> ReqType]
      /\ req'[q].pc = "commit" /\ req'[q].object = o /\ req'[q].seen = req[q].seen
      /\ req'[q].late = req[q].late /\ req'[q].kind = req[q].kind
      /\ \A n \in Requests : n # q => req'[n] = req[n]
  BY <1>3, <1>4, GoesOn DEF IInv
<1>6. Fits(req[q])'
  BY <1>1, <1>3, <1>5, RowShape DEF IInv, Fits
<1>7. Links(q)' /\ InTime(q)'
  BY <1>1, <1>3, <1>5 DEF ModelAnswers, Links, InTime
<1> QED
  BY <1>5, <1>6, <1>7, OthersKept DEF IInv, ModelAnswers

LEMMA DispatchKeeps ==
  ASSUME IInv, NEW q \in Requests, Dispatch(q)
  PROVE  IInv'
<1> DEFINE o == MarkConfirmed(q, req[q].object)
<1>1. /\ req[q] \in ReqType /\ req[q].object \in RowType /\ req[q].pc = "dispatch"
      /\ Fits(req[q]) /\ Links(q) /\ InTime(q)
  BY DEF IInv, Dispatch, ReqType
<1>2. /\ o \in RowType /\ o.run = q /\ o.status = "confirmed"
      /\ o.messages = req[q].object.messages
  BY <1>1 DEF MarkConfirmed, RowType, Status
<1>3. req' = [req EXCEPT ![q].pc = "commit", ![q].object = o]
  BY DEF Dispatch, Confirmed
<1> HIDE DEF o
<1>4. /\ req' \in [Requests -> ReqType]
      /\ req'[q].pc = "commit" /\ req'[q].object = o /\ req'[q].seen = req[q].seen
      /\ req'[q].late = req[q].late /\ req'[q].kind = req[q].kind
      /\ \A n \in Requests : n # q => req'[n] = req[n]
  BY <1>2, <1>3, GoesOn DEF IInv
<1>5. Fits(req[q])' /\ Links(q)' /\ InTime(q)'
  BY <1>1, <1>2, <1>4 DEF Dispatch, Fits, Links, InTime
<1> QED
  BY <1>4, <1>5, OthersKept DEF IInv, Dispatch

LEMMA BeginKeeps ==
  ASSUME IInv, NEW q \in Requests, Idle(q), UNCHANGED <<row, overdue, dispatched, runs, answered>>,
         NEW k \in {"greet", "create", "send", "confirm", "get"},
         NEW pc \in {"llm", "dispatch", "commit"}, NEW o \in RowType, Goes(q, k, pc, o),
         o.run = row.run, o.status # "absent",
         pc = "llm" => Len(o.messages) + 2 <= MaxMessages /\ k # "confirm",
         pc # "llm" => Len(o.messages) <= MaxMessages,
         pc = "dispatch" <=> k = "confirm",
         k = "confirm" => ~overdue /\ row.status # "absent"
  PROVE  IInv'
<1>1. /\ req' \in [Requests -> ReqType]
      /\ req'[q] = [pc |-> pc, kind |-> k, late |-> overdue, seen |-> row, object |-> o]
      /\ \A n \in Requests : n # q => req'[n] = req[n]
      /\ mishaps' \subseteq {"overlap", "lost"}
  BY GoKeeps
<1>2. req[q].pc = "new" /\ InTime(q)
  BY DEF Idle, IInv
<1>3. Fits(req[q])' /\ Links(q)' /\ InTime(q)'
  BY <1>1, <1>2 DEF Fits, Links, InTime
<1> QED
  BY <1>1, <1>3, OthersKept DEF IInv

LEMMA ReadKeeps ==
  ASSUME IInv, NEW q \in Requests,
         Create(q) \/ SendReads(q) \/ ConfirmReads(q) \/ Get(q)
  PROVE  IInv'
<1>1. row \in RowType /\ Len(row.messages) <= MaxMessages
  BY DEF IInv
<1>2. CASE Create(q)
  <2> DEFINE new == [NoRow EXCEPT !.status = "collecting"]
             greeted == [new EXCEPT !.messages = <<q>>]
  <2>1. /\ new = [status |-> "collecting", messages |-> <<>>, slots |-> "none",
                  run |-> NoRequest]
        /\ greeted = [status |-> "collecting", messages |-> <<q>>, slots |-> "none",
                      run |-> NoRequest]
    <3>1. new = [status |-> "collecting", messages |-> <<>>, slots |-> "none",
                 run |-> NoRequest]
      BY DEF NoRow
    <3> HIDE DEF new
    <3> QED
      BY <3>1
  <2>2. /\ Goes(q, "greet", "commit", greeted) \/ Goes(q, "create", "llm", new)
        /\ Idle(q) /\ UNCHANGED <<row, overdue, dispatched, runs, answered>>
    BY <1>2 DEF Create
  <2> HIDE DEF new, greeted
  <2>3. <<q>> \in Seq(Requests) /\ Len(<<q>>) = 1 /\ row.run = NoRequest
    BY <1>2 DEF Create, IInv
  <2>4. CASE Goes(q, "greet", "commit", greeted)
    <3>1. greeted \in RowType /\ greeted.run = row.run /\ greeted.status # "absent"
      BY <2>1, <2>3 DEF RowType, Status, Slots
    <3>2. Len(greeted.messages) <= MaxMessages
      BY <2>1, <2>3, ChatAssumptions
    <3> QED
      BY <2>2, <2>4, <3>1, <3>2, BeginKeeps
  <2>5. CASE Goes(q, "create", "llm", new)
    <3>1. new \in RowType /\ new.run = row.run /\ new.status # "absent"
      BY <2>1, <2>3 DEF RowType, Status, Slots
    <3>2. Len(new.messages) + 2 <= MaxMessages
      BY <2>1, ChatAssumptions
    <3> QED
      BY <2>2, <2>5, <3>1, <3>2, BeginKeeps
  <2> QED
    BY <2>2, <2>4, <2>5
<1>3. CASE SendReads(q)
  <2>1. /\ Goes(q, "send", "llm", row)
        /\ Idle(q) /\ UNCHANGED <<row, overdue, dispatched, runs, answered>>
        /\ row.status # "absent" /\ Len(row.messages) + 2 <= MaxMessages
    BY <1>3 DEF SendReads, BelowLimit, AcceptsMessages
  <2> QED
    BY <1>1, <2>1, BeginKeeps
<1>4. CASE ConfirmReads(q)
  <2>1. /\ Goes(q, "confirm", "dispatch", row)
        /\ Idle(q) /\ UNCHANGED <<row, overdue, dispatched, runs, answered>>
        /\ row.status # "absent" /\ ~overdue
    BY <1>4 DEF ConfirmReads, Confirmable
  <2> QED
    BY <1>1, <2>1, BeginKeeps
<1>5. CASE Get(q)
  <2> DEFINE o == IF overdue /\ row.status \notin Terminal
                  THEN [row EXCEPT !.status = "expired"] ELSE row
  <2>1. /\ o \in RowType /\ o.run = row.run /\ o.messages = row.messages
        /\ o.status # "absent"
    BY <1>1, <1>5 DEF Get, RowType, Status
  <2>2. /\ Goes(q, "get", "commit", o)
        /\ Idle(q) /\ UNCHANGED <<row, overdue, dispatched, runs, answered>>
    BY <1>5 DEF Get
  <2> HIDE DEF o
  <2> QED
    BY <1>1, <2>1, <2>2, BeginKeeps
<1> QED
  BY <1>2, <1>3, <1>4, <1>5

LEMMA CommitKeeps ==
  ASSUME IInv, NEW q \in Requests, Commit(q)
  PROVE  IInv' /\ (row.run # NoRequest => row'.run # NoRequest)
<1> DEFINE r == req[q]
<1>1. /\ r \in ReqType /\ r.seen \in RowType /\ r.object \in RowType /\ r.pc = "commit"
      /\ Fits(r) /\ Links(q) /\ InTime(q)
  BY DEF IInv, Commit, ReqType
<1>2. /\ row' \in RowType
      /\ row'.messages \in {row.messages, r.object.messages}
      /\ row'.status = IF r.object.status = r.seen.status THEN row.status ELSE r.object.status
      /\ row'.run = IF r.object.run = r.seen.run THEN row.run ELSE r.object.run
  BY <1>1, WrittenType DEF IInv, Commit
<1>3. Len(row'.messages) <= MaxMessages
  BY <1>1, <1>2 DEF IInv, Fits
<1>4. /\ req' \in [Requests -> ReqType]
      /\ req'[q].pc = "done" /\ req'[q].late = r.late
      /\ \A n \in Requests : n # q => req'[n] = req[n]
  BY NoRowType DEF IInv, Commit, Ends, ReqType
<1>5. Fits(req[q])' /\ Links(q)' /\ InTime(q)'
  BY <1>1, <1>4 DEF IInv, Commit, Fits, Links, InTime
<1>0. row'.status = "absent" => row.status = "absent"
  BY <1>1, <1>2 DEF Links
<1>6. \A n \in Requests : (Fits(req[n]) /\ Links(n) /\ InTime(n))'
  BY <1>0, <1>4, <1>5, OthersKept DEF Commit
<1>7. runs' \subseteq dispatched' /\ dispatched' \subseteq Requests
  BY <1>1 DEF IInv, Commit, InTime
<1>8. row'.run # NoRequest => row'.run \in runs'
  BY <1>1, <1>2 DEF IInv, Commit, Links
<1>9. row.run # NoRequest => row'.run # NoRequest
  BY <1>1, <1>2, ChatAssumptions DEF Links
<1>10. answered' \in Seq(Requests)
  <2>1. <<q, q>> \in Seq(Requests) /\ <<q>> \in Seq(Requests) /\ <<>> \in Seq(Requests)
    OBVIOUS
  <2>2. Exchanged(q) \in Seq(Requests)
    BY <2>1 DEF Exchanged
  <2> QED
    BY <2>2 DEF IInv, Commit
<1>11. row'.status = "absent" => row'.run = NoRequest
  BY <1>0, <1>1, <1>2 DEF IInv, Links
<1> QED
  BY <1>2, <1>3, <1>4, <1>6, <1>7, <1>8, <1>9, <1>10, <1>11 DEF IInv, Commit

-----------------------------------------------------------------------------
(* The theorems.                                                           *)

LEMMA StepKeeps ==
  ASSUME IInv, [Next]_vars
  PROVE  IInv' /\ (row.run # NoRequest => row'.run # NoRequest)
<1>1. CASE TimePasses
  BY <1>1 DEF TimePasses, IInv, Fits, Links, InTime
<1>2. CASE UNCHANGED vars
  BY <1>2 DEF vars, IInv, Fits, Links, InTime
<1>3. ASSUME NEW q \in Requests, Serve(q)
      PROVE  IInv' /\ (row.run # NoRequest => row'.run # NoRequest)
  <2>1. CASE Create(q) \/ SendReads(q) \/ ConfirmReads(q) \/ Get(q)
    BY <2>1, ReadKeeps DEF Create, SendReads, ConfirmReads, Get
  <2>2. CASE SendRefused(q) \/ ModelFails(q) \/ ConfirmRefused(q) \/ DispatchFails(q)
             \/ CommitFails(q)
    <3>1. /\ Raises(q) /\ UNCHANGED overdue /\ row' = row
          /\ mishaps' \subseteq {"overlap", "lost"}
      BY <2>2
         DEF IInv, SendRefused, ModelFails, ConfirmRefused, DispatchFails, CommitFails, Raises
    <3> QED
      BY <3>1, RaiseKeeps
  <2>3. CASE ModelAnswers(q)
    BY <2>3, AnswerKeeps DEF ModelAnswers
  <2>4. CASE Dispatch(q)
    BY <2>4, DispatchKeeps DEF Dispatch
  <2>5. CASE Commit(q)
    BY <2>5, CommitKeeps
  <2> QED
    BY <1>3, <2>1, <2>2, <2>3, <2>4, <2>5 DEF Serve
<1> QED
  BY <1>1, <1>2, <1>3 DEF Next

LEMMA Invariant == Spec => []IInv
<1>1. Init => IInv
  <2> SUFFICES ASSUME Init PROVE IInv
    OBVIOUS
  <2>1. NewRequest \in ReqType /\ NewRequest.pc = "new"
    BY NoRowType DEF NewRequest, ReqType
  <2>2. req \in [Requests -> ReqType] /\ \A q \in Requests : req[q].pc = "new"
    BY <2>1 DEF Init
  <2>3. row \in RowType /\ Len(row.messages) <= MaxMessages /\ row.run = NoRequest
    BY NoRowType, ChatAssumptions DEF Init
  <2>4. \A q \in Requests : Fits(req[q]) /\ Links(q) /\ InTime(q)
    BY <2>2 DEF Init, Fits, Links, InTime
  <2>5. answered \in Seq(Requests)
    BY DEF Init
  <2>6. runs \subseteq dispatched /\ dispatched \subseteq Requests
    BY DEF Init
  <2>7. overdue \in BOOLEAN /\ mishaps \subseteq {"overlap", "lost"}
    BY DEF Init
  <2> QED
    BY <2>2, <2>3, <2>4, <2>5, <2>6, <2>7 DEF IInv
<1> QED
  BY <1>1, StepKeeps, PTL DEF Spec

\* No session holds more messages than the limit, and everything has its type,
\* however requests overlap and fail.
THEOREM ChatTypeCorrect == Spec => []TypeOK
<1>1. IInv => TypeOK
  BY DEF IInv, TypeOK, RowType, ReqType
<1> QED
  BY <1>1, Invariant, PTL

\* A session never names a run that was not dispatched or has no row, however
\* requests overlap and fail.
THEOREM LinkedRunsExist == Spec => []LinkedRunExists
<1>1. IInv => LinkedRunExists
  BY DEF IInv, LinkedRunExists
<1> QED
  BY <1>1, Invariant, PTL

\* A session that names a run goes on naming one.
THEOREM LinksStay == Spec => LinkStays
<1>1. IInv /\ [Next]_vars => [row.run # NoRequest => row'.run # NoRequest]_row
  BY StepKeeps
<1> QED
  BY <1>1, Invariant, PTL DEF Spec, LinkStays

\* An overdue session starts no run, although its status may never say so.
THEOREM NothingStartsAfterExpiry == Spec => []NothingAfterExpiry
<1>1. IInv => NothingAfterExpiry
  BY DEF IInv, InTime, NothingAfterExpiry
<1> QED
  BY <1>1, Invariant, PTL
-----------------------------------------------------------------------------
(* A client that waits for each answer.                                    *)

InFlightNow(q) == req[q].pc \in {"llm", "dispatch", "commit"}
Talking == {"collecting", "pending_confirmation"}

\* What the commit of q will do to the status and the run, seen from the row.
Advances(q) ==
  LET r == req[q]
      o == r.object
  IN  IF r.kind = "confirm"
      THEN row.status = "pending_confirmation" /\ o.status = "confirmed" /\ o.run \in Requests
      ELSE /\ o.run = row.run
           /\ \/ o.status = row.status
              \/ row.status = "absent" /\ o.status \in Talking
              \/ row.status = "collecting" /\ o.status = "pending_confirmation"
              \/ row.status \in Talking /\ o.status = "expired"

\* Nobody else writes the row while q is served: what q SELECTed is still there
\* and its object is the row but for what q itself has done.
Owns(q) ==
  LET r == req[q]
      o == r.object
  IN  /\ r.seen = row
      /\ r.pc = "llm" => /\ r.kind \in {"create", "send"}
                         /\ o.messages = row.messages /\ o.run = row.run
                         /\ o.status \in Talking
                         /\ row.status \in {o.status, "absent"}
      /\ r.pc = "dispatch" => o = row /\ row.status = "pending_confirmation"
      /\ r.pc = "commit" => o.messages = row.messages \o Exchanged(q) /\ Advances(q)

\* A run was started by the request that has confirmed the session or is about
\* to commit that.
StartedOnce ==
  \/ dispatched = {}
  \/ \E p \in Requests :
       /\ dispatched = {p}
       /\ row.status = "confirmed" \/ (req[p].pc = "commit" /\ req[p].kind = "confirm")

Serial ==
  /\ \A p, q \in Requests : InFlightNow(p) /\ InFlightNow(q) => p = q
  /\ \A q \in Requests : InFlightNow(q) => Owns(q)
  /\ row.status = "absent" => row.messages = <<>>
  /\ row.messages = answered
  /\ "lost" \notin mishaps => StartedOnce

\* Nobody is served when a request begins that does not overlap another.
LEMMA BeginsAlone ==
  ASSUME Alone', NEW q, NEW k, NEW pc, NEW o, Goes(q, k, pc, o)
  PROVE  mishaps' = mishaps /\ \A p \in Requests : ~InFlightNow(p)
  BY DEF Alone, Goes, InFlight, InFlightNow

\* An UPDATE from a row that is still as it was SELECTed writes the object.
LEMMA WrittenOfFresh ==
  ASSUME row \in RowType, NEW o \in RowType
  PROVE  Written(row, o) = o
<1>1. DOMAIN row = {"status", "messages", "slots", "run"}
  BY DEF RowType
<1>2. Written(row, o) = [c \in {"status", "messages", "slots", "run"} |-> o[c]]
  BY <1>1 DEF Written
<1> QED
  BY <1>2 DEF RowType

LEMMA Nothing ==
  ASSUME NEW s \in Seq(Requests)
  PROVE  s \o <<>> = s /\ <<>> \o s = s
  OBVIOUS

\* A request that begins reads the row when nobody else is served.
LEMMA BeginAlone ==
  ASSUME Alone', IInv, Serial, NEW q \in Requests,
         Create(q) \/ SendReads(q) \/ ConfirmReads(q) \/ Get(q)
  PROVE  Serial'
<1>1. /\ Idle(q) /\ UNCHANGED <<row, overdue, dispatched, runs, answered>>
      /\ row \in RowType /\ row.messages \in Seq(Requests)
  BY RowShape DEF Create, SendReads, ConfirmReads, Get, IInv
<1>2. mishaps' = mishaps /\ \A p \in Requests : ~InFlightNow(p)
  BY BeginsAlone DEF Create, SendReads, ConfirmReads, Get
<1>3. ASSUME NEW k, NEW pc, NEW o, Goes(q, k, pc, o)
      PROVE  /\ \A n \in Requests : n # q => req'[n] = req[n]
             /\ req'[q].pc = pc /\ req'[q].kind = k /\ req'[q].seen = row
             /\ req'[q].object = o
  BY <1>3 DEF Goes, IInv
<1>4. (\A n \in Requests : n # q => req'[n] = req[n]) /\ Owns(q)'
  <2>1. CASE Create(q)
    <3> DEFINE new == [NoRow EXCEPT !.status = "collecting"]
               greeted == [new EXCEPT !.messages = <<q>>]
    <3>1. Goes(q, "greet", "commit", greeted) \/ Goes(q, "create", "llm", new)
      BY <2>1 DEF Create
    <3>2. /\ new.status = "collecting" /\ new.messages = <<>> /\ new.run = NoRequest
          /\ greeted.status = "collecting" /\ greeted.messages = <<q>>
          /\ greeted.run = NoRequest
      BY DEF NoRow
    <3> HIDE DEF new, greeted
    <3>3. row.status = "absent" /\ row.messages = <<>> /\ row.run = NoRequest
      BY <2>1 DEF Create, Serial, IInv
    <3>4. CASE Goes(q, "greet", "commit", greeted)
      <4>1. /\ \A n \in Requests : n # q => req'[n] = req[n]
            /\ req'[q].pc = "commit" /\ req'[q].kind = "greet" /\ req'[q].seen = row
            /\ req'[q].object = greeted
        BY <1>3, <3>4
      <4>2. greeted.messages = row.messages \o <<q>>
        BY <3>2, <3>3, Nothing
      <4>3. Exchanged(q)' = <<q>>
        BY <4>1 DEF Exchanged
      <4> QED
        BY <1>1, <3>2, <3>3, <4>1, <4>2, <4>3 DEF Owns, Advances, Talking
    <3>5. CASE Goes(q, "create", "llm", new)
      <4>1. /\ \A n \in Requests : n # q => req'[n] = req[n]
            /\ req'[q].pc = "llm" /\ req'[q].kind = "create" /\ req'[q].seen = row
            /\ req'[q].object = new
        BY <1>3, <3>5
      <4> QED
        BY <1>1, <3>2, <3>3, <4>1 DEF Owns, Talking
    <3> QED
      BY <3>1, <3>4, <3>5
  <2>2. CASE SendReads(q)
    <3>1. Goes(q, "send", "llm", row) /\ row.status \in Talking
      BY <2>2 DEF SendReads, AcceptsMessages, Status, Terminal, Talking
    <3>2. /\ \A n \in Requests : n # q => req'[n] = req[n]
          /\ req'[q].pc = "llm" /\ req'[q].kind = "send" /\ req'[q].seen = row
          /\ req'[q].object = row
      BY <1>3, <3>1
    <3> QED
      BY <1>1, <3>1, <3>2 DEF Owns
  <2>3. CASE ConfirmReads(q)
    <3>1. Goes(q, "confirm", "dispatch", row) /\ row.status = "pending_confirmation"
      BY <2>3 DEF ConfirmReads, Confirmable
    <3>2. /\ \A n \in Requests : n # q => req'[n] = req[n]
          /\ req'[q].pc = "dispatch" /\ req'[q].kind = "confirm" /\ req'[q].seen = row
          /\ req'[q].object = row
      BY <1>3, <3>1
    <3> QED
      BY <1>1, <3>1, <3>2 DEF Owns
  <2>4. CASE Get(q)
    <3> DEFINE o == IF overdue /\ row.status \notin Terminal
                    THEN [row EXCEPT !.status = "expired"] ELSE row
    <3>1. Goes(q, "get", "commit", o)
      BY <2>4 DEF Get
    <3>2. /\ o.messages = row.messages /\ o.run = row.run
          /\ o.status = row.status \/ (row.status \in Talking /\ o.status = "expired")
      BY <1>1, <2>4 DEF Get, RowType, Status, Terminal, Talking
    <3> HIDE DEF o
    <3>3. /\ \A n \in Requests : n # q => req'[n] = req[n]
          /\ req'[q].pc = "commit" /\ req'[q].kind = "get" /\ req'[q].seen = row
          /\ req'[q].object = o
      BY <1>3, <3>1
    <3>4. o.messages = row.messages \o Exchanged(q)'
      <4>1. Exchanged(q)' = <<>>
        BY <3>3 DEF Exchanged
      <4> QED
        BY <1>1, <3>2, <4>1, Nothing
    <3> QED
      BY <1>1, <3>2, <3>3, <3>4 DEF Owns, Advances
  <2> QED
    BY <1>1, <2>1, <2>2, <2>3, <2>4
       DEF Create, SendReads, ConfirmReads, Get
<1>5. \A p \in Requests : InFlightNow(p)' => p = q
  BY <1>2, <1>4 DEF InFlightNow
<1>6. StartedOnce => StartedOnce'
  BY <1>1, <1>2, <1>4 DEF StartedOnce, InFlightNow
<1> QED
  BY <1>1, <1>2, <1>4, <1>5, <1>6 DEF Serial

\* A request that ends without a commit leaves the others alone.
LEMMA RaiseAlone ==
  ASSUME IInv, Serial, NEW q \in Requests, Raises(q),
         mishaps' = IF req[q].pc = "commit" /\ req[q].kind = "confirm"
                    THEN mishaps \cup {"lost"} ELSE mishaps
  PROVE  Serial'
<1>1. /\ req'[q].pc = "done"
      /\ \A n \in Requests : n # q => req'[n] = req[n]
      /\ UNCHANGED <<row, dispatched, answered>>
  BY DEF IInv, Raises, Ends, ReqType
<1>2. \A p \in Requests : InFlightNow(p)' => InFlightNow(p) /\ p # q
  BY <1>1 DEF InFlightNow
<1>3. ASSUME NEW p \in Requests, InFlightNow(p)' PROVE Owns(p)'
  <2>1. InFlightNow(p) /\ req'[p] = req[p] /\ row' = row
    BY <1>1, <1>2, <1>3
  <2>2. Owns(p)
    BY <2>1 DEF Serial
  <2>3. Exchanged(p)' = Exchanged(p)
    BY <2>1 DEF Exchanged
  <2>4. Advances(p) => Advances(p)'
    BY <2>1 DEF Advances
  <2> QED
    BY <2>1, <2>2, <2>3, <2>4 DEF Owns
<1>4. "lost" \notin mishaps' /\ StartedOnce => StartedOnce'
  BY <1>1 DEF StartedOnce
<1> QED
  BY <1>1, <1>2, <1>3, <1>4 DEF Serial

LEMMA WorkAlone ==
  ASSUME IInv, Serial, NEW q \in Requests, ModelAnswers(q) \/ Dispatch(q)
  PROVE  Serial'
<1>1. /\ req[q] \in ReqType /\ req[q].object \in RowType /\ row \in RowType
      /\ InFlightNow(q) /\ Owns(q) /\ InTime(q)
      /\ UNCHANGED <<row, answered, mishaps>>
  BY DEF IInv, ModelAnswers, Dispatch, ReqType, InFlightNow, Serial
<1>2. \A p \in Requests : p # q => ~InFlightNow(p)
  BY <1>1 DEF Serial
<1>3. ASSUME NEW o \in RowType, req' = [req EXCEPT ![q].pc = "commit", ![q].object = o],
             o.messages = row.messages \o Exchanged(q), Advances(q)'
      PROVE  /\ \A p \in Requests : InFlightNow(p)' => p = q
             /\ Owns(q)' /\ req'[q].pc = "commit" /\ req'[q].kind = req[q].kind
  <2>1. /\ req'[q].pc = "commit" /\ req'[q].object = o /\ req'[q].seen = req[q].seen
        /\ req'[q].kind = req[q].kind
        /\ \A n \in Requests : n # q => req'[n] = req[n]
    BY <1>3, GoesOn DEF IInv
  <2> QED
    BY <1>1, <1>2, <1>3, <2>1 DEF Owns, InFlightNow, Exchanged
<1>4. CASE ModelAnswers(q)
  <2> PICK s \in Merged(req[q].object.slots) :
         req' = [req EXCEPT ![q].pc = "commit", ![q].object = Answered(q, @, s)]
    BY <1>4 DEF ModelAnswers
  <2> DEFINE o == Answered(q, req[q].object, s)
  <2>1. /\ o \in RowType /\ o.run = req[q].object.run
        /\ o.messages = Append2(req[q].object.messages, q)
        /\ o.status \in {req[q].object.status, "pending_confirmation"}
    <3>1. s \in Slots
      BY DEF Merged, Slots
    <3>2. /\ o \in RowType /\ o.run = req[q].object.run
      BY <1>1, <3>1, AnsweredType
    <3>3. /\ o.messages = Append2(req[q].object.messages, q)
          /\ o.status \in {req[q].object.status, "pending_confirmation"}
      <4> DEFINE b == req[q].object
      <4>1. b = [status |-> b.status, messages |-> b.messages, slots |-> b.slots, run |-> b.run]
        BY <1>1 DEF RowType
      <4> HIDE DEF b
      <4> QED
        BY <4>1 DEF Answered, b
    <3> QED
      BY <3>2, <3>3
  <2>2. req' = [req EXCEPT ![q].pc = "commit", ![q].object = o]
    OBVIOUS
  <2> HIDE DEF o
  <2>3. req[q].pc = "llm" /\ req[q].kind \in {"create", "send"}
    BY <1>1, <1>4 DEF ModelAnswers, Owns
  <2>4. o.messages = row.messages \o Exchanged(q)
    BY <1>1, <2>1, <2>3 DEF Owns, Exchanged, Append2
  <2>5. Advances(q)'
    <3>1. req'[q].object = o /\ req'[q].kind = req[q].kind
      BY <2>1, <2>2, GoesOn DEF IInv
    <3> QED
      BY <1>1, <2>1, <2>3, <3>1 DEF Owns, Advances, Talking
  <2>6. dispatched' = dispatched /\ ~(req[q].pc = "commit")
    BY <1>4, <2>3 DEF ModelAnswers
  <2>7. StartedOnce => StartedOnce'
    <3>1. \A n \in Requests : n # q => req'[n] = req[n]
      BY <2>1, <2>2, GoesOn DEF IInv
    <3> QED
      BY <1>1, <2>6, <3>1 DEF StartedOnce
  <2> QED
    BY <1>1, <1>3, <2>1, <2>2, <2>4, <2>5, <2>7 DEF Serial
<1>5. CASE Dispatch(q)
  <2> DEFINE o == MarkConfirmed(q, req[q].object)
  <2>1. /\ o \in RowType /\ o.run = q /\ o.status = "confirmed"
        /\ o.messages = req[q].object.messages
    BY <1>1 DEF MarkConfirmed, RowType, Status
  <2>2. req' = [req EXCEPT ![q].pc = "commit", ![q].object = o]
    BY <1>5 DEF Dispatch, Confirmed
  <2> HIDE DEF o
  <2>3. req[q].pc = "dispatch" /\ req[q].kind = "confirm"
    BY <1>1, <1>5 DEF Dispatch, InTime
  <2>4. o.messages = row.messages \o Exchanged(q)
    BY <1>1, <2>1, <2>3, Nothing, RowShape DEF Owns, Exchanged
  <2>5. Advances(q)'
    <3>1. req'[q].object = o /\ req'[q].kind = req[q].kind
      BY <2>1, <2>2, GoesOn DEF IInv
    <3> QED
      BY <1>1, <2>1, <2>3, <3>1 DEF Owns, Advances
  <2>6. StartedOnce => StartedOnce'
    <3>1. ASSUME StartedOnce PROVE dispatched = {}
      BY <1>1, <1>2, <2>3, <3>1 DEF StartedOnce, Owns, InFlightNow
    <3>2. dispatched' = dispatched \cup {q}
      BY <1>5 DEF Dispatch
    <3>3. req'[q].pc = "commit" /\ req'[q].kind = "confirm"
      BY <2>1, <2>2, <2>3, GoesOn DEF IInv
    <3> QED
      BY <3>1, <3>2, <3>3 DEF StartedOnce
  <2> QED
    BY <1>1, <1>3, <2>1, <2>2, <2>4, <2>5, <2>6 DEF Serial
<1> QED
  BY <1>4, <1>5

\* What a commit writes is the object it holds.
LEMMA CommitWrites ==
  ASSUME IInv, Serial, NEW q \in Requests, Commit(q)
  PROVE  /\ row' = req[q].object /\ Advances(q) /\ row' \in RowType
         /\ row'.messages = row.messages \o Exchanged(q)
<1>1. req[q] \in ReqType /\ InFlightNow(q) /\ req[q].pc = "commit" /\ row \in RowType
  BY DEF IInv, Commit, InFlightNow
<1>2. req[q].object \in RowType /\ Owns(q)
  BY <1>1 DEF ReqType, Serial
<1> QED
  BY <1>1, <1>2, WrittenOfFresh DEF Owns, Commit

LEMMA CommitAlone ==
  ASSUME IInv, Serial, NEW q \in Requests, Commit(q)
  PROVE  Serial'
<1>1. /\ row' = req[q].object /\ Advances(q)
      /\ row'.messages = row.messages \o Exchanged(q)
  BY CommitWrites
<1>2. /\ req'[q].pc = "done"
      /\ \A n \in Requests : n # q => req'[n] = req[n]
      /\ answered' = answered \o Exchanged(q) /\ UNCHANGED <<dispatched, mishaps>>
      /\ InFlightNow(q) /\ req[q].pc = "commit"
  BY DEF IInv, Commit, Ends, ReqType, InFlightNow
<1>3. \A p \in Requests : ~InFlightNow(p)'
  BY <1>2 DEF Serial, InFlightNow
<1>4. row'.status # "absent"
  BY <1>1, <1>2 DEF IInv, Links
<1>5. StartedOnce => StartedOnce'
  <2> SUFFICES ASSUME StartedOnce, dispatched # {} PROVE row'.status = "confirmed"
    BY <1>2 DEF StartedOnce
  <2>1. row.status = "confirmed" \/ req[q].kind = "confirm"
    BY <1>2 DEF StartedOnce, Serial, InFlightNow
  <2> QED
    BY <1>1, <2>1 DEF Advances, Talking
<1> QED
  BY <1>1, <1>2, <1>3, <1>4, <1>5 DEF Serial

\* An overlap is never forgotten.
LEMMA AloneBefore ==
  ASSUME [Next]_vars, Alone'
  PROVE  Alone
<1>1. CASE TimePasses \/ UNCHANGED vars
  BY <1>1 DEF Alone, TimePasses, vars
<1>2. ASSUME NEW q \in Requests, Serve(q) PROVE Alone
  BY <1>2 DEF Alone, Serve, Create, SendReads, SendRefused, ModelAnswers, ModelFails,
     ConfirmReads, ConfirmRefused, Dispatch, DispatchFails, Get, Commit, CommitFails, Goes
<1> QED
  BY <1>1, <1>2 DEF Next

LEMMA SerialHolds == Spec => [](Alone => Serial)
<1>1. Init => Serial
  <2> SUFFICES ASSUME Init PROVE Serial
    OBVIOUS
  <2>1. \A q \in Requests : req[q].pc = "new"
    BY DEF Init, NewRequest
  <2>2. row.messages = <<>> /\ row.messages = answered
    BY DEF Init, NoRow
  <2> QED
    BY <2>1, <2>2 DEF Init, Serial, InFlightNow, StartedOnce
<1>2. IInv /\ (Alone => Serial) /\ [Next]_vars => (Alone => Serial)'
  <2> SUFFICES ASSUME IInv, Alone => Serial, [Next]_vars, Alone' PROVE Serial'
    OBVIOUS
  <2>0. Serial
    BY AloneBefore
  <2>1. CASE TimePasses \/ UNCHANGED vars
    <3>1. UNCHANGED <<row, req, dispatched, answered, mishaps>>
      BY <2>1 DEF TimePasses, vars
    <3>2. ASSUME NEW q \in Requests
          PROVE  (InFlightNow(q)' <=> InFlightNow(q)) /\ (Owns(q) => Owns(q)')
      <4>1. Exchanged(q)' = Exchanged(q)
        BY <3>1 DEF Exchanged
      <4>2. Advances(q) => Advances(q)'
        BY <3>1 DEF Advances
      <4> QED
        BY <3>1, <4>1, <4>2 DEF InFlightNow, Owns
    <3> QED
      BY <2>0, <3>1, <3>2 DEF Serial, StartedOnce
  <2>2. ASSUME NEW q \in Requests, Serve(q) PROVE Serial'
    <3>1. CASE Create(q) \/ SendReads(q) \/ ConfirmReads(q) \/ Get(q)
      BY <2>0, <3>1, BeginAlone
    <3>2. CASE SendRefused(q) \/ ModelFails(q) \/ ConfirmRefused(q) \/ DispatchFails(q)
               \/ CommitFails(q)
      BY <2>0, <3>2, RaiseAlone
         DEF SendRefused, ModelFails, ConfirmRefused, DispatchFails, CommitFails, Idle
    <3>3. CASE ModelAnswers(q) \/ Dispatch(q)
      BY <2>0, <3>3, WorkAlone
    <3>4. CASE Commit(q)
      BY <2>0, <3>4, CommitAlone
    <3> QED
      BY <2>2, <3>1, <3>2, <3>3, <3>4 DEF Serve
  <2> QED
    BY <2>1, <2>2 DEF Next
<1> QED
  BY <1>1, <1>2, Invariant, PTL DEF Spec

\* As long as a client waits for each answer the session is its conversation: for
\* every number of requests and whatever fails in between, also a commit after
\* the exchange was answered by the model.
THEOREM ConversationsAreKept == Spec => []ConversationIsKept
<1>1. (Alone => Serial) => ConversationIsKept
  BY DEF Serial, ConversationIsKept
<1> QED
  BY <1>1, SerialHolds, PTL

\* Such a client starts one run with a session, unless the commit of a
\* confirmation fails: two confirmations, a confirmation that was refused, an
\* exchange after the confirmation change nothing about it.
THEOREM OneRunEach == Spec => []OneRunPerSession
<1>1. (Alone => Serial) => OneRunPerSession
  <2> SUFFICES ASSUME StartedOnce PROVE Cardinality(dispatched) <= 1
    BY DEF Alone, Serial, OneRunPerSession
  <2>1. CASE dispatched = {}
    BY <2>1, FS_EmptySet
  <2>2. CASE \E p \in Requests : dispatched = {p}
    BY <2>2, FS_Singleton
  <2> QED
    BY <2>1, <2>2 DEF StartedOnce
<1> QED
  BY <1>1, SerialHolds, PTL

\* The session implements ChatLifecycle for such a client: only a commit
\* changes what the row says, and it takes one step of the lifecycle or none.
THEOREM ChatLifecycleImplemented == Spec => Lifecycle
<1>1. Init => CL!Init
  BY DEF Init, NoRow, CL!Init
<1>2. IInv /\ (Alone => Serial) /\ [Next]_vars => [Alone' => CL!Next]_<<row.status, row.run>>
  <2> SUFFICES ASSUME IInv, Alone => Serial, [Next]_vars, Alone', row' # row
               PROVE  CL!Next \/ (row'.status = row.status /\ row'.run = row.run)
    OBVIOUS
  <2>1. PICK q \in Requests : Commit(q)
    BY DEF Next, vars, TimePasses, Serve, Create, SendReads, SendRefused, ModelAnswers,
       ModelFails, ConfirmReads, ConfirmRefused, Dispatch, DispatchFails, Get, CommitFails,
       Raises
  <2>2. row' = req[q].object /\ Advances(q)
    BY <2>1, AloneBefore, CommitWrites
  <2> QED
    BY <2>2 DEF Advances, Talking, CL!Next, CL!Create, CL!Ask, CL!Confirm, CL!Expire
<1> QED
  BY <1>1, <1>2, Invariant, SerialHolds, PTL DEF Spec, Lifecycle

=============================================================================
