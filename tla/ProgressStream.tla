--------------------------- MODULE ProgressStream ---------------------------
(***************************************************************************)
(* How the events of a run reach the dashboard: the Redis channel of the   *)
(* run, the WebSocket handlers that subscribe to it, the frames on their   *)
(* way to the browser, and useWebSocket with the store it fills.           *)
(*                                                                         *)
(* Redis keeps nothing: a message goes to the handlers subscribed at that  *)
(* moment. A handler that lost its client does not notice, because sending *)
(* errors are swallowed, and streams on to nobody until its deadline. What *)
(* silences a socket in the browser is closing it: the message callback    *)
(* does not look at the run an event belongs to.                           *)
(***************************************************************************)
EXTENDS Naturals, Sequences, SequencesExt

CONSTANTS Runs,          \* runs the tab submits
          NoRun,
          Conns,         \* WebSocket connections that exist at a time (bound)
          NoConn,
          Steps,         \* (node, status) pairs of progress messages
          MaxPublished,  \* messages on the channel of a run (bound)
          MaxRetries     \* MAX_RETRIES of the hook

ASSUME StreamAssumptions == /\ NoRun \notin Runs
                            /\ NoConn \notin Conns
                            /\ MaxPublished \in Nat
                            /\ MaxRetries \in Nat
                            /\ Steps \cap {"open", "result", "error", "1000", "1006", "4001"} = {}

VARIABLES
  published,  \* published[r]: all that was published on the channel of r
  token,      \* token[r]: the WebSocket token of r
  handler,    \* handler[c]: the handler of connection c and its subscription
  up,         \* up[c]: neither side nor the network has ended c
  wire,       \* wire[c]: frames and close codes the browser has not handled
  tab,        \* the UI store, and whether the dashboard is mounted
  hook        \* the refs of useWebSocket

vars == <<published, token, handler, up, wire, tab, hook>>

Verdicts == {"result", "error"}
Messages == Steps \cup Verdicts
Codes == {"1000", "1006", "4001"}

\* since: how many messages the channel had seen when c subscribed.
\* shown, cut: verdicts the hook was handed since it was mounted or the run
\* was started, and whether a connection dropped meanwhile (history).
TypeOK ==
  /\ published \in [Runs -> Seq(Messages)]
  /\ token \in [Runs -> {"none", "valid", "expired"}]
  /\ handler \in [Conns -> [phase : {"gone", "opening", "accepted", "streaming"},
                            run : Runs \cup {NoRun}, queue : Seq(Messages), since : Nat]]
  /\ up \in [Conns -> BOOLEAN]
  /\ wire \in [Conns -> Seq({"open"} \cup Messages \cup Codes)]
  /\ tab \in [mounted : BOOLEAN, run : Runs \cup {NoRun}, optimizing : BOOLEAN,
              result : Runs \cup {NoRun}, progress : Seq([run : Runs, step : Steps]),
              shown : 0..2, cut : BOOLEAN]
  /\ hook \in [socket : Conns \cup {NoConn}, retries : 0..MaxRetries,
               timer : Runs \cup {NoRun}]

NoHandler == [phase |-> "gone", run |-> NoRun, queue |-> <<>>, since |-> 0]
IdleHook == [socket |-> NoConn, retries |-> 0, timer |-> NoRun]

Init ==
  /\ published = [r \in Runs |-> <<>>]
  /\ token = [r \in Runs |-> "none"]
  /\ handler = [c \in Conns |-> NoHandler]
  /\ up = [c \in Conns |-> FALSE]
  /\ wire = [c \in Conns |-> <<>>]
  /\ tab = [mounted |-> TRUE, run |-> NoRun, optimizing |-> FALSE, result |-> NoRun,
            progress |-> <<>>, shown |-> 0, cut |-> FALSE]
  /\ hook = IdleHook

-----------------------------------------------------------------------------
(* The channel.                                                            *)

Publish(r, m) ==
  /\ token[r] # "none"
  /\ Len(published[r]) < MaxPublished
  /\ published' = [published EXCEPT ![r] = Append(@, m)]
  /\ handler' = [c \in Conns |->
                   IF handler[c].phase = "streaming" /\ handler[c].run = r
                   THEN [handler[c] EXCEPT !.queue = Append(@, m)] ELSE handler[c]]
  /\ UNCHANGED <<token, up, wire, tab, hook>>

\* 300 seconds after the run was submitted.
Expire(r) ==
  /\ token[r] = "valid"
  /\ token' = [token EXCEPT ![r] = "expired"]
  /\ UNCHANGED <<published, handler, up, wire, tab, hook>>

-----------------------------------------------------------------------------
(* run_progress_websocket.                                                 *)

\* _safe_send_json: to a client that is gone, nothing and no error.
Send(c, frames) == wire' = [wire EXCEPT ![c] = IF up[c] THEN @ \o frames ELSE @]

End(c) == handler' = [handler EXCEPT ![c].phase = "gone", ![c].queue = <<>>]

Accept(c) ==
  /\ handler[c].phase = "opening"
  /\ token[handler[c].run] = "valid"
  /\ handler' = [handler EXCEPT ![c].phase = "accepted"]
  /\ Send(c, <<"open">>)
  /\ UNCHANGED <<published, token, up, tab, hook>>

\* close(code=4001) before accept(): the server refuses the handshake, and
\* the browser may see that as an abnormal closure.
Reject(c) ==
  /\ handler[c].phase = "opening"
  /\ token[handler[c].run] = "expired"
  /\ End(c)
  /\ \E code \in {"4001", "1006"} : Send(c, <<code>>)
  /\ UNCHANGED <<published, token, up, tab, hook>>

Subscribe(c) ==
  /\ handler[c].phase = "accepted"
  /\ handler' = [handler EXCEPT ![c].phase = "streaming",
                                ![c].since = Len(published[handler[c].run])]
  /\ UNCHANGED <<published, token, up, wire, tab, hook>>

\* Mutant of Forward: only a result ends the stream.
ForwardPastError(c) ==
  /\ handler[c].phase = "streaming"
  /\ handler[c].queue # <<>>
  /\ LET m == Head(handler[c].queue)
     IN  IF m = "result"
         THEN Send(c, <<m, "1000">>) /\ End(c)
         ELSE Send(c, <<m>>) /\ handler' = [handler EXCEPT ![c].queue = Tail(@)]
  /\ UNCHANGED <<published, token, up, tab, hook>>

\* Mutant of Forward: takes the newest message and drops those before it.
ForwardNewest(c) ==
  /\ handler[c].phase = "streaming"
  /\ handler[c].queue # <<>>
  /\ LET m == Last(handler[c].queue)
     IN  IF m \in Verdicts
         THEN Send(c, <<m, "1000">>) /\ End(c)
         ELSE Send(c, <<m>>) /\ handler' = [handler EXCEPT ![c].queue = <<>>]
  /\ UNCHANGED <<published, token, up, tab, hook>>

\* Mutant of Forward: takes the newest message first.
ForwardLastFirst(c) ==
  /\ handler[c].phase = "streaming"
  /\ handler[c].queue # <<>>
  /\ LET m == Last(handler[c].queue)
     IN  IF m \in Verdicts
         THEN Send(c, <<m, "1000">>) /\ End(c)
         ELSE Send(c, <<m>>) /\ handler' = [handler EXCEPT ![c].queue = Front(@)]
  /\ UNCHANGED <<published, token, up, tab, hook>>

Forward(c) ==
  /\ handler[c].phase = "streaming"
  /\ handler[c].queue # <<>>
  /\ LET m == Head(handler[c].queue)
     IN  IF m \in Verdicts
         THEN Send(c, <<m, "1000">>) /\ End(c)
         ELSE Send(c, <<m>>) /\ handler' = [handler EXCEPT ![c].queue = Tail(@)]
  /\ UNCHANGED <<published, token, up, tab, hook>>

\* The 300 seconds of a connection are over (WEBSOCKET_TIMEOUT), or Redis
\* fails the handler (WEBSOCKET_ERROR).
Timeout(c) ==
  /\ handler[c].phase = "streaming"
  /\ End(c)
  /\ Send(c, <<"error", "1000">>)
  /\ UNCHANGED <<published, token, up, tab, hook>>

RedisFails(c) ==
  /\ handler[c].phase \in {"accepted", "streaming"}
  /\ End(c)
  /\ Send(c, <<"error", "1000">>)
  /\ UNCHANGED <<published, token, up, tab, hook>>

\* The network ends a connection: what was under way is lost.
Drop(c) ==
  /\ up[c]
  /\ up' = [up EXCEPT ![c] = FALSE]
  /\ wire' = [wire EXCEPT ![c] = <<"1006">>]
  /\ tab' = [tab EXCEPT !.cut = TRUE]
  /\ UNCHANGED <<published, token, handler, hook>>

-----------------------------------------------------------------------------
(* useWebSocket.                                                           *)

Unused(c) == handler[c].phase = "gone" /\ wire[c] = <<>> /\ ~up[c] /\ c # hook.socket

\* Closing the socket the hook holds: nothing of it is handled any more.
Closed(f, none) == [c \in Conns |-> IF c = hook.socket THEN none ELSE f[c]]

\* connect(): closes what socket there is and opens one for r.
Connect(c, r) ==
  /\ Unused(c)
  /\ handler' = [handler EXCEPT ![c] = [NoHandler EXCEPT !.phase = "opening", !.run = r]]
  /\ up' = [Closed(up, FALSE) EXCEPT ![c] = TRUE]
  /\ wire' = Closed(wire, <<>>)

Fresh(r) == [tab EXCEPT !.run = r, !.optimizing = TRUE, !.result = NoRun, !.progress = <<>>,
                        !.shown = 0, !.cut = FALSE]

\* Mutant of StartRun: forgets the old socket without closing it.
StartBesides(r) ==
  /\ tab.mounted
  /\ token[r] = "none"
  /\ token' = [token EXCEPT ![r] = "valid"]
  /\ tab' = Fresh(r)
  /\ \E c \in Conns :
       /\ Unused(c)
       /\ handler' = [handler EXCEPT ![c] = [NoHandler EXCEPT !.phase = "opening", !.run = r]]
       /\ up' = [up EXCEPT ![c] = TRUE]
       /\ hook' = [IdleHook EXCEPT !.socket = c]
  /\ UNCHANGED <<published, wire>>

\* A run was submitted, by the form or by the chat: startNewRun, the render it
\* causes, the effect's cleanup and the effect are one turn of the event loop.
StartRun(r) ==
  /\ tab.mounted
  /\ token[r] = "none"
  /\ token' = [token EXCEPT ![r] = "valid"]
  /\ tab' = Fresh(r)
  /\ \E c \in Conns : Connect(c, r) /\ hook' = [IdleHook EXCEPT !.socket = c]
  /\ UNCHANGED published

\* Mutant of Unmount: the cleanup closes the socket and leaves the timer.
LeaveTimer ==
  /\ tab.mounted
  /\ tab' = [tab EXCEPT !.mounted = FALSE]
  /\ hook' = [IdleHook EXCEPT !.timer = hook.timer]
  /\ up' = Closed(up, FALSE)
  /\ wire' = Closed(wire, <<>>)
  /\ UNCHANGED <<published, token, handler>>

\* The user leaves the dashboard; the store stays.
Unmount ==
  /\ tab.mounted
  /\ tab' = [tab EXCEPT !.mounted = FALSE]
  /\ hook' = IdleHook
  /\ up' = Closed(up, FALSE)
  /\ wire' = Closed(wire, <<>>)
  /\ UNCHANGED <<published, token, handler>>

\* Back again: connects for the current run whatever has become of it.
Mount ==
  /\ ~tab.mounted
  /\ tab' = [tab EXCEPT !.mounted = TRUE, !.shown = 0, !.cut = FALSE]
  /\ \/ /\ tab.run # NoRun
        /\ \E c \in Conns : Connect(c, tab.run) /\ hook' = [IdleHook EXCEPT !.socket = c]
     \/ tab.run = NoRun /\ UNCHANGED <<handler, up, wire, hook>>
  /\ UNCHANGED <<published, token>>

RetryTimer ==
  /\ hook.timer # NoRun
  /\ hook.timer = tab.run
  /\ \E c \in Conns : Connect(c, tab.run) /\ hook' = [hook EXCEPT !.socket = c, !.timer = NoRun]
  /\ UNCHANGED <<published, token, tab>>

\* The browser hands the hook the next frame of c.
Handles(c, frames) ==
  /\ wire[c] # <<>>
  /\ Head(wire[c]) \in frames
  /\ wire' = [wire EXCEPT ![c] = Tail(@)]
  /\ UNCHANGED <<published, token, handler>>

OnOpen(c) ==
  /\ Handles(c, {"open"})
  /\ hook' = [hook EXCEPT !.retries = 0]
  /\ UNCHANGED <<up, tab>>

\* addAgentProgress skips a (node, status) it has.
OnProgress(c) ==
  /\ Handles(c, Steps)
  /\ LET p == Head(wire[c])
     IN  tab' = IF \E i \in DOMAIN tab.progress : tab.progress[i].step = p THEN tab
                ELSE [tab EXCEPT !.progress = Append(@, [run |-> handler[c].run, step |-> p])]
  /\ UNCHANGED <<up, hook>>

Show(t) == [t EXCEPT !.optimizing = FALSE, !.shown = IF @ < 2 THEN @ + 1 ELSE @]

OnResult(c) ==
  /\ Handles(c, {"result"})
  /\ tab' = Show([tab EXCEPT !.result = handler[c].run])
  /\ UNCHANGED <<up, hook>>

OnError(c) ==
  /\ Handles(c, {"error"})
  /\ tab' = Show(tab)
  /\ UNCHANGED <<up, hook>>

Expected(c, code) == code = "1000" \/ handler[c].run # tab.run

MayRetry(code) == code # "4001" /\ hook.retries < MaxRetries

\* Mutant of OnClose: gives up without telling the store.
GiveUpSilently(c) ==
  /\ Handles(c, Codes)
  /\ up' = [up EXCEPT ![c] = FALSE]
  /\ LET code == Head(wire[c])
     IN  IF MayRetry(code) /\ ~Expected(c, code)
         THEN hook' = [hook EXCEPT !.retries = @ + 1, !.timer = tab.run]
         ELSE UNCHANGED hook
  /\ UNCHANGED tab

OnClose(c) ==
  /\ Handles(c, Codes)
  /\ up' = [up EXCEPT ![c] = FALSE]
  /\ LET code == Head(wire[c])
     IN  CASE Expected(c, code) -> UNCHANGED <<hook, tab>>
           [] ~Expected(c, code) /\ MayRetry(code) ->
                /\ hook' = [hook EXCEPT !.retries = @ + 1, !.timer = tab.run]
                /\ UNCHANGED tab
           [] ~Expected(c, code) /\ ~MayRetry(code) ->
                /\ tab' = [tab EXCEPT !.optimizing = FALSE]
                /\ UNCHANGED hook

-----------------------------------------------------------------------------
Gateway(c) == Accept(c) \/ Reject(c) \/ Subscribe(c) \/ Forward(c)
Browser(c) == OnOpen(c) \/ OnProgress(c) \/ OnResult(c) \/ OnError(c) \/ OnClose(c)

Next ==
  \/ \E r \in Runs : StartRun(r) \/ Expire(r) \/ \E m \in Messages : Publish(r, m)
  \/ \E c \in Conns : Gateway(c) \/ Timeout(c) \/ RedisFails(c) \/ Drop(c) \/ Browser(c)
  \/ RetryTimer \/ Unmount \/ Mount

Spec == Init /\ [][Next]_vars

\* Event loops serve their callbacks, timers fire and 300 seconds pass. Nothing
\* is assumed of the run, the network or Redis.
Fairness == /\ \A c \in Conns : /\ WF_vars(Gateway(c))
                                /\ WF_vars(Timeout(c))
                                /\ WF_vars(Browser(c))
            /\ \A r \in Runs : WF_vars(Expire(r))
            /\ WF_vars(RetryTimer)

FairSpec == Spec /\ Fairness
-----------------------------------------------------------------------------
(* Properties.                                                             *)

StepsShown == [i \in DOMAIN tab.progress |-> tab.progress[i].step]

\* s is t with some of its elements left out.
EmbedsIn(s, t) ==
  \E f \in [DOMAIN s -> DOMAIN t] :
    \A i, j \in DOMAIN s : s[i] = t[f[i]] /\ (i < j => f[i] < f[j])

\* Whatever the dashboard shows belongs to the run it is about, also when a
\* second run is started while the first one's events are on their way.
OnlyCurrentRun ==
  /\ tab.result \in {NoRun, tab.run}
  /\ \A i \in DOMAIN tab.progress : tab.progress[i].run = tab.run

\* The progress list never shows the steps in an order the run did not go
\* through, over reconnections and repeated events.
InOrder ==
  tab.run # NoRun => EmbedsIn(StepsShown, published[tab.run])

\* The tab holds at most one connection, only while the dashboard is there,
\* and a reconnection is pending only when that connection is over.
LinkBelongsToTab ==
  /\ \A c \in Conns : up[c] => c = hook.socket
  /\ hook.timer # NoRun => tab.mounted /\ \A c \in Conns : ~up[c]
  /\ ~tab.mounted => hook.socket = NoConn

\* From its subscription on, a handler whose client is connected loses nothing:
\* what was published is still queued, on the wire or on the display, and a
\* verdict is not passed over.
LosesNothing ==
  \A c \in Conns : handler[c].phase = "streaming" /\ up[c] =>
    LET all  == SubSeq(published[handler[c].run], handler[c].since + 1,
                       Len(published[handler[c].run]))
        done == SubSeq(all, 1, Len(all) - Len(handler[c].queue))
    IN  /\ IsSuffix(handler[c].queue, all)
        /\ \A i \in DOMAIN done :
             /\ done[i] \in Steps
             /\ done[i] \in ToSet(wire[c]) \cup ToSet(StepsShown)

\* Unless a connection drops, the user is told one verdict per submission or
\* visit, though a run delivered twice may publish several.
OneVerdictShown == ~tab.cut => tab.shown <= 1

\* The form does not stay locked: as long as the user stays, the spinner of a
\* run ends, whatever becomes of the run, the network and Redis.
SpinnerStops == tab.optimizing ~> ~tab.optimizing \/ ~tab.mounted
=============================================================================
