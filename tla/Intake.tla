--------------------------------- MODULE Intake ---------------------------------
(***************************************************************************)
(* A chat session from the first message to the run's request: each        *)
(* exchange reads the slots the user's words have filled so far, and the   *)
(* confirmation turns them into an OptimizationRequest. One request at a   *)
(* time works on the session (ChatSession has those that overlap); one     *)
(* that raises is rolled back and leaves everything as it was.             *)
(*                                                                         *)
(* The language model may answer anything. The process that serves the     *)
(* session has an API key or not, and another one may take over.           *)
(***************************************************************************)
EXTENDS SlotFilling

CONSTANTS Utterances,     \* texts a user sends (bound)
          Outputs,        \* objects the language model returns: slots and a question (bound)
          Overrides,      \* slot_overrides a client confirms with (bound)
          AssistantText,  \* per kind of question, the phrases its text holds
          MaxMessages,    \* CHAT_MAX_MESSAGES_PER_SESSION
          MaxKeys,        \* CHAT_MAX_SLOT_OVERRIDE_KEYS
          MaxHandovers    \* times another process takes over (bound)

ASSUME IntakeAssumptions == /\ MaxMessages \in Nat /\ MaxKeys \in Nat /\ MaxHandovers \in Nat
                            /\ Empty \in Overrides

\* What the patterns match: capitals are in upper case, and to skip is to say no.
ASSUME UtteranceAssumption ==
  \A text \in Utterances :
    /\ text \in Seq(ToSet(text))
    /\ \A p \in ToSet(text) :
         /\ p.is = "word" => p.value \in DOMAIN Normal /\ Normal[p.value] = p.value
         /\ p.is = "skip" => p.value = FALSE

VARIABLES
  keyed,      \* the process has an API key
  handovers,  \* times another one took over
  status,     \* chat_sessions.status
  messages,   \* chat_sessions.messages: who said which text
  slots,      \* chat_sessions.extracted_slots
  shown,      \* what the last reply showed the user to confirm (history)
  overrides,  \* what the client confirmed with (history)
  request     \* the OptimizationRequest of the run, Empty before

session == <<status, messages, slots, shown>>
vars == <<keyed, handovers, session, overrides, request>>

Init ==
  /\ keyed \in BOOLEAN
  /\ handovers = 0
  /\ status = "absent"
  /\ messages = <<>>
  /\ slots = Empty
  /\ shown = Empty
  /\ overrides = Empty
  /\ request = Empty

Turn(role, text) == [role |-> role, text |-> text]

\* Mutant of UserText: does not ask who said it.
EveryText(conversation) == FlattenSeq([i \in DOMAIN conversation |-> conversation[i].text])

\* combined_text: what the user has said so far.
UserText(conversation) ==
  LET said == At(conversation, {i \in DOMAIN conversation : conversation[i].role = "user"})
  IN  FlattenSeq([i \in DOMAIN said |-> said[i].text])

\* _build_confirmation_prompt says nothing of objectives and frontier.
Prompt(current) == Only(current, Fields \ {"objectives", "frontier"})

-----------------------------------------------------------------------------
(* Exchanges.                                                              *)

\* _parse_response: slots that are not valid raise like everything else that is
\* wrong with an answer.
Parsed == {[slots |-> Normalised(o.slots), asks |-> o.asks] :
             o \in {p \in Outputs : SlotsValid(p.slots)}}

\* extract_slots.
Extracted(conversation) ==
  IF keyed THEN Parsed ELSE {Extract(slots, UserText(conversation))}

\* Mutant of Shown: the summary is of what was stored before.
ShownBefore(stored, merged) == Prompt(stored)

\* The summary is of the merged slots.
Shown(stored, merged) == Prompt(merged)

\* The question asked when slots are missing: the model's, the extractor's, or the
\* service's own.
Question(output) == IF output.asks THEN IF keyed THEN AssistantText.model ELSE AssistantText.local
                    ELSE AssistantText.service

\* ChatSessionResponse validates the stored slots again: a request whose answer
\* cannot be built fails and is rolled back.
Presentable(merged) == SlotsValid(merged)

\* The rest of _process_message.
Answers(said, output) ==
  LET merged == Merge(slots, output.slots)
  IN  /\ Presentable(merged)
      /\ slots' = merged
      /\ IF HasRequired(merged)
         THEN /\ status' = "pending_confirmation"
              /\ shown' = Shown(slots, merged)
              /\ messages' = Append(said, Turn("assistant", AssistantText.prompt))
         ELSE /\ status' = IF status = "absent" THEN "collecting" ELSE status
              /\ shown' = Empty
              /\ messages' = Append(said, Turn("assistant", Question(output)))

\* create_session with a message, and send_message.
Say ==
  /\ status \in {"absent", "collecting", "pending_confirmation"}
  /\ Len(messages) + 2 <= MaxMessages
  /\ \E text \in Utterances :
       LET said == Append(messages, Turn("user", text))
       IN  \E output \in Extracted(said) : Answers(said, output)
  /\ UNCHANGED <<keyed, handovers, overrides, request>>

\* create_session without a message: the assistant's greeting.
Greet ==
  /\ status = "absent"
  /\ status' = "collecting"
  /\ messages' = <<Turn("assistant", AssistantText.welcome)>>
  /\ UNCHANGED <<keyed, handovers, slots, shown, overrides, request>>

\* A request is served by a process that is configured otherwise.
Handover ==
  /\ handovers < MaxHandovers
  /\ status # "confirmed"
  /\ handovers' = handovers + 1
  /\ keyed' = ~keyed
  /\ UNCHANGED <<session, overrides, request>>

-----------------------------------------------------------------------------
(* Confirmation.                                                           *)

OverridesValid(o) == Cardinality(DOMAIN o) <= MaxKeys /\ DOMAIN o \subseteq Fields

\* Overrides over slots over defaults.
Defaults == [lookback_days |-> 365, run_quantum |-> TRUE]
BodyOf(o) == Merge(Merge(Defaults, slots), o)

\* What is not confirmed is refused, and leaves no trace.
Confirm ==
  /\ status = "pending_confirmation"
  /\ slots # Empty
  /\ \E o \in Overrides : /\ OverridesValid(o)
                          /\ RequestValid(BodyOf(o))
                          /\ request' = RequestOf(BodyOf(o))
                          /\ overrides' = o
  /\ status' = "confirmed"
  /\ UNCHANGED <<keyed, handovers, messages, slots, shown>>

Next == Greet \/ Say \/ Handover \/ Confirm

Spec == Init /\ [][Next]_vars
-----------------------------------------------------------------------------
(* Properties.                                                             *)

Confirmed == status = "confirmed"

\* The run gets a request the solvers can work on, whatever the conversation and
\* the overrides were: symbols in upper case and once each, no more assets to
\* select than there are, an amount and limits in range, weights that add up, and
\* the floor and the ceiling of the conversation as thresholds of objectives.
RequestIsSound ==
  Confirmed =>
    /\ request.tickers = Symbols(request.tickers)
    /\ Len(request.tickers) <= MaxTickers
    /\ request.budget \in 1..MaxBudget
    /\ InBounds(request) /\ WeightsOrdered(request)
    /\ "num_assets_to_select" \in DOMAIN request
         => request.num_assets_to_select <= Len(request.tickers)
    /\ ObjectivesValid(request)
    /\ \A f \in {<<"min_return", 1>>, <<"max_volatility", 2>>} :
         f[1] \in DOMAIN request /\ "objectives" \notin DOMAIN slots \cup DOMAIN overrides
           => request.objectives[f[2]].threshold = {request[f[1]]}

\* Nobody confirms what was not on the screen: a run started without overrides has
\* the values of the summary in the last reply, although the slots may be replaced
\* in every exchange and a session that waits for confirmation goes on waiting
\* when they become too few.
ConfirmedWasShown ==
  Confirmed /\ overrides = Empty =>
    /\ Prompt(slots) = shown /\ HasRequired(shown)
    /\ \A f \in DOMAIN shown : request[f] = shown[f]

\* The values a user has named for a slot.
Kinds == [tickers |-> {"word"}, budget |-> {"dollars", "amount", "spelled"},
          min_return |-> {"floor", "return"}, max_volatility |-> {"ceiling"},
          run_quantum |-> {"skip", "run"}]
Named(f, conversation) ==
  LET phrases == UNION {ToSet(m.text) : m \in {n \in ToSet(conversation) : n.role = "user"}}
      values  == {p.value : p \in {q \in phrases : q.is \in Kinds[f]}}
  IN  IF f \in {"min_return", "max_volatility"} THEN Percent(values) ELSE values

\* Whatever the assistant has said and whichever process answers: a slot once
\* filled is never emptied, and the local extractor keeps its value and fills
\* others only with what the user has named, in this message or an earlier one.
HeardAndKept ==
  [][/\ DOMAIN slots \subseteq DOMAIN slots'
     /\ ~keyed => \A f \in DOMAIN slots' :
          IF f \in DOMAIN slots THEN slots'[f] = slots[f]
          ELSE (IF f = "tickers" THEN ToSet(slots'[f]) ELSE {slots'[f]})
                 \subseteq Named(f, messages')]_session
=============================================================================
