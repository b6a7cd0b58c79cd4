------------------------- MODULE ProgressStreamProofs -------------------------
(***************************************************************************)
(* Proofs about ProgressStream for every set of runs, connections and      *)
(* progress steps, any number of messages and of retries.                  *)
(***************************************************************************)
EXTENDS ProgressStream, TLAPS

-----------------------------------------------------------------------------
(* Types.                                                                  *)

Frames == {"open"} \cup Messages \cup Codes
Handler == [phase : {"gone", "opening", "accepted", "streaming"},
            run : Runs \cup {NoRun}, queue : Seq(Messages), since : Nat]
Tab == [mounted : BOOLEAN, run : Runs \cup {NoRun}, optimizing : BOOLEAN,
        result : Runs \cup {NoRun}, progress : Seq([run : Runs, step : Steps]),
        shown : 0..2, cut : BOOLEAN]
Hook == [socket : Conns \cup {NoConn}, retries : 0..MaxRetries, timer : Runs \cup {NoRun}]

\* A frame can be told from every other kind of frame.
LEMMA FrameKinds ==
  /\ \A s \in Steps : s \notin Verdicts /\ s \notin Codes /\ s # "open"
  /\ Verdicts \cap Codes = {} /\ "open" \notin Verdicts /\ "open" \notin Codes
BY StreamAssumptions DEF Verdicts, Codes

\* The tab holds at most one connection, which is about its run; a message
\* callback of another one cannot run. A reconnection is pending only when that
\* connection is over and all of it was handled.
Linked ==
  /\ \A c \in Conns : up[c] \/ wire[c] # <<>> => c = hook.socket
  /\ hook.timer # NoRun => /\ hook.socket # NoConn /\ hook.timer = tab.run
                           /\ ~up[hook.socket] /\ wire[hook.socket] = <<>>
  /\ hook.socket # NoConn => /\ tab.mounted /\ tab.run # NoRun
                             /\ handler[hook.socket].run = tab.run
  /\ \A c \in Conns : handler[c].phase # "gone" => handler[c].run # NoRun
  /\ \A c \in Conns : handler[c].phase # "streaming" => handler[c].queue = <<>>

\* A close code is the last a connection brings, and its handler has ended.
Final(c) ==
  \A i \in DOMAIN wire[c] : wire[c][i] \in Codes =>
    i = Len(wire[c]) /\ (up[c] => handler[c].phase = "gone")

\* What ends a connection for its user: a verdict, or a close without one.
Endings(c) == {i \in DOMAIN wire[c] : wire[c][i] \in Verdicts \cup {"1006", "4001"}}

\* As long as no connection drops there is one of these for a submission or a
\* visit, and none before the handler has ended.
OneAnswer ==
  ~tab.cut =>
    /\ tab.shown <= 1
    /\ hook.timer # NoRun => tab.shown = 0
    /\ \A c \in Conns :
         /\ up[c] /\ handler[c].phase # "gone" => tab.shown = 0 /\ Endings(c) = {}
         /\ \A i, j \in Endings(c) : tab.shown = 0 /\ i = j

\* What a live handler still has in its queue is the end of the channel, and what
\* it took out of it are steps that are on the wire or on the display.
Displayed == ToSet(StepsShown)
Taken(c) == Len(published[handler[c].run]) - Len(handler[c].queue)
Complete(c) ==
  handler[c].phase = "streaming" /\ up[c] =>
    LET p == published[handler[c].run]
    IN  /\ handler[c].since <= Taken(c)
        /\ \A i \in 1..Len(handler[c].queue) : handler[c].queue[i] = p[Taken(c) + i]
        /\ \A k \in (handler[c].since + 1)..Taken(c) :
             p[k] \in Steps /\ p[k] \in ToSet(wire[c]) \cup Displayed

\* Every step displayed, and then every step on the wire, has a place in the
\* channel, and these places go up: f and g are those places, up to n.
Traces(f, g, s, w, p, n) ==
  /\ f \in [DOMAIN s -> 1..n] /\ g \in [DOMAIN w -> 0..n]
  /\ \A i \in DOMAIN s : s[i] = p[f[i]]
  /\ \A i, j \in DOMAIN s : i < j => f[i] < f[j]
  /\ \A k \in DOMAIN w : w[k] \in Steps => g[k] # 0 /\ w[k] = p[g[k]]
  /\ \A i \in DOMAIN s, k \in DOMAIN w : w[k] \in Steps => f[i] < g[k]
  /\ \A j, k \in DOMAIN w : w[j] \in Steps /\ w[k] \in Steps /\ j < k => g[j] < g[k]

Coming == IF hook.socket = NoConn THEN <<>> ELSE wire[hook.socket]
Reach == IF hook.socket # NoConn /\ up[hook.socket] /\ handler[hook.socket].phase = "streaming"
         THEN Taken(hook.socket) ELSE Len(published[tab.run])
Trace(s, w, p, n) == \E f, g : Traces(f, g, s, w, p, n)
Traced == tab.run # NoRun => Trace(StepsShown, Coming, published[tab.run], Reach)

-----------------------------------------------------------------------------
(* Types are kept.                                                         *)

LEMMA Shapes ==
  ASSUME TypeOK
  PROVE  /\ tab \in Tab /\ hook \in Hook
         /\ handler \in [Conns -> Handler]
         /\ wire \in [Conns -> Seq(Frames)]
BY DEF TypeOK, Tab, Hook, Handler, Frames

LEMMA HandlerShape ==
  ASSUME NEW h \in Handler
  PROVE  /\ h.phase \in {"gone", "opening", "accepted", "streaming"}
         /\ h.run \in Runs \cup {NoRun} /\ h.queue \in Seq(Messages) /\ h.since \in Nat
BY DEF Handler

LEMMA TabShape ==
  ASSUME NEW t \in Tab
  PROVE  /\ t.mounted \in BOOLEAN /\ t.run \in Runs \cup {NoRun} /\ t.optimizing \in BOOLEAN
         /\ t.result \in Runs \cup {NoRun} /\ t.progress \in Seq([run : Runs, step : Steps])
         /\ t.shown \in 0..2 /\ t.cut \in BOOLEAN
BY DEF Tab

LEMMA HookShape ==
  ASSUME NEW h \in Hook
  PROVE  /\ h.socket \in Conns \cup {NoConn} /\ h.retries \in 0..MaxRetries
         /\ h.timer \in Runs \cup {NoRun}
BY DEF Hook

LEMMA PublishTypes ==
  ASSUME TypeOK, NEW r \in Runs, NEW m \in Messages, Publish(r, m)
  PROVE  TypeOK'
<1>1. published' \in [Runs -> Seq(Messages)]
  BY DEF TypeOK, Publish
<1>2. ASSUME NEW c \in Conns PROVE [handler[c] EXCEPT !.queue = Append(@, m)] \in Handler
  <2>1. handler[c] \in Handler
    BY Shapes
  <2>2. Append(handler[c].queue, m) \in Seq(Messages)
    BY <2>1, HandlerShape
  <2> QED
    BY <2>1, <2>2 DEF Handler
<1>3. handler' \in [Conns -> Handler]
  BY <1>2, Shapes DEF Publish
<1> QED
  BY <1>1, <1>3 DEF TypeOK, Publish, Handler

LEMMA EndTypes ==
  ASSUME TypeOK, NEW c \in Conns, End(c)
  PROVE  /\ handler' \in [Conns -> Handler]
         /\ handler'[c].phase = "gone" /\ handler'[c].run = handler[c].run
         /\ \A d \in Conns \ {c} : handler'[d] = handler[d]
<1> DEFINE h == [handler[c] EXCEPT !.phase = "gone", !.queue = <<>>]
<1>0. handler[c] \in Handler /\ <<>> \in Seq(Messages)
  BY Shapes
<1>1. h \in Handler /\ h.phase = "gone" /\ h.run = handler[c].run
  BY <1>0 DEF Handler
<1>2. handler' = [handler EXCEPT ![c] = h]
  BY Shapes DEF End, Handler
<1> HIDE DEF h
<1> QED
  BY <1>1, <1>2, Shapes

LEMMA SendTypes ==
  ASSUME TypeOK, NEW c \in Conns, NEW frames \in Seq(Frames), Send(c, frames)
  PROVE  /\ wire' \in [Conns -> Seq(Frames)]
         /\ wire'[c] = IF up[c] THEN wire[c] \o frames ELSE wire[c]
         /\ \A d \in Conns \ {c} : wire'[d] = wire[d]
<1>1. wire[c] \o frames \in Seq(Frames)
  BY Shapes
<1> QED
  BY <1>1, Shapes DEF Send

LEMMA ClosedTypes ==
  ASSUME TypeOK
  PROVE  /\ Closed(up, FALSE) \in [Conns -> BOOLEAN]
         /\ Closed(wire, <<>>) \in [Conns -> Seq(Frames)]
         /\ \A c \in Conns : c # hook.socket => /\ Closed(up, FALSE)[c] = up[c]
                                                /\ Closed(wire, <<>>)[c] = wire[c]
         /\ hook.socket \in Conns => /\ Closed(up, FALSE)[hook.socket] = FALSE
                                     /\ Closed(wire, <<>>)[hook.socket] = <<>>
<1>1. up \in [Conns -> BOOLEAN] /\ wire \in [Conns -> Seq(Frames)] /\ <<>> \in Seq(Frames)
  BY Shapes DEF TypeOK
<1>2. \A f, none : Closed(f, none) = [c \in Conns |-> IF c = hook.socket THEN none ELSE f[c]]
  BY DEF Closed
<1> QED
  BY <1>1, <1>2

LEMMA ConnectTypes ==
  ASSUME TypeOK, NEW c \in Conns, NEW r \in Runs, Connect(c, r)
  PROVE  /\ handler' \in [Conns -> Handler]
         /\ up' \in [Conns -> BOOLEAN]
         /\ wire' \in [Conns -> Seq(Frames)]
         /\ handler'[c] = [phase |-> "opening", run |-> r, queue |-> <<>>, since |-> 0]
         /\ \A d \in Conns \ {c} : handler'[d] = handler[d]
         /\ up'[c] /\ wire'[c] = <<>> /\ c # hook.socket
         /\ \A d \in Conns \ {c, hook.socket} : up'[d] = up[d] /\ wire'[d] = wire[d]
         /\ hook.socket \in Conns => ~up'[hook.socket] /\ wire'[hook.socket] = <<>>
<1> DEFINE h == [phase |-> "opening", run |-> r, queue |-> <<>>, since |-> 0]
<1>1. h \in Handler
  BY DEF Handler
<1>2. handler' = [handler EXCEPT ![c] = h]
  <2>1. [NoHandler EXCEPT !.phase = "opening", !.run = r] = h
    <3>1. NoHandler \in [{"phase", "run", "queue", "since"} -> {"gone", NoRun, <<>>, 0}]
      BY DEF NoHandler
    <3>2. h \in [{"phase", "run", "queue", "since"} -> {"opening", r, <<>>, 0}]
      OBVIOUS
    <3> QED
      BY <3>1, <3>2 DEF NoHandler
  <2> QED
    BY <2>1 DEF Connect
<1>3. wire[c] = <<>> /\ c # hook.socket
  BY DEF Connect, Unused
<1>4. up' = [Closed(up, FALSE) EXCEPT ![c] = TRUE] /\ wire' = Closed(wire, <<>>)
  BY DEF Connect
<1>5. handler \in [Conns -> Handler]
  BY Shapes
<1> HIDE DEF h
<1>6. handler'[c] = h /\ handler' \in [Conns -> Handler] /\ \A d \in Conns \ {c} : handler'[d] = handler[d]
  BY <1>1, <1>2, <1>5
<1>7. /\ up' \in [Conns -> BOOLEAN]
      /\ wire' \in [Conns -> Seq(Frames)]
      /\ up'[c] /\ wire'[c] = <<>> /\ c # hook.socket
      /\ \A d \in Conns \ {c, hook.socket} : up'[d] = up[d] /\ wire'[d] = wire[d]
      /\ hook.socket \in Conns => ~up'[hook.socket] /\ wire'[hook.socket] = <<>>
  BY <1>3, <1>4, ClosedTypes
<1> QED
  BY <1>6, <1>7 DEF h


-----------------------------------------------------------------------------
(* What a step does to the connection it is about.                         *)

\* What the handler of c sends reaches a client that is there.
Sent(c, frames) == wire'[c] = IF up[c] THEN wire[c] \o frames ELSE wire[c]

\* What every step of the handler of c has in common.
ServesOnly(c) ==
  /\ handler[c].phase # "gone"
  /\ handler' \in [Conns -> Handler] /\ wire' \in [Conns -> Seq(Frames)]
  /\ handler'[c].run = handler[c].run
  /\ \A d \in Conns \ {c} : handler'[d] = handler[d] /\ wire'[d] = wire[d]
  /\ UNCHANGED <<published, token, up, tab, hook>>

\* It opens the connection, subscribes, forwards a step, or ends: with a refusal or
\* with a verdict.
Opens(c) == /\ handler[c].phase # "streaming" /\ handler'[c].phase = "accepted"
            /\ handler'[c].queue = handler[c].queue /\ Sent(c, <<"open">>)
Subscribes(c) == /\ handler[c].phase # "streaming" /\ handler'[c].phase = "streaming"
                 /\ handler'[c].queue = handler[c].queue
                 /\ handler'[c].since = Len(published[handler[c].run]) /\ wire'[c] = wire[c]
Forwards(c) == /\ handler[c].phase = "streaming" /\ handler'[c].phase = "streaming"
               /\ handler[c].queue # <<>> /\ handler'[c].queue = Tail(handler[c].queue)
               /\ handler'[c].since = handler[c].since
               /\ Head(handler[c].queue) \in Steps /\ Sent(c, <<Head(handler[c].queue)>>)
Refuses(c) == /\ handler'[c].phase = "gone" /\ handler'[c].queue = <<>>
              /\ \E code \in {"4001", "1006"} : Sent(c, <<code>>)
Concludes(c) == /\ handler'[c].phase = "gone" /\ handler'[c].queue = <<>>
                /\ \E m \in Verdicts : Sent(c, <<m, "1000">>)

Serving(c) == Gateway(c) \/ Timeout(c) \/ RedisFails(c)

LEMMA EndQueue ==
  ASSUME TypeOK, NEW c \in Conns, End(c)
  PROVE  handler'[c].queue = <<>>
<1> DEFINE h == [handler[c] EXCEPT !.phase = "gone", !.queue = <<>>]
<1>0. handler[c] \in Handler
  BY Shapes
<1>1. h.queue = <<>>
  BY <1>0 DEF Handler
<1>2. handler' = [handler EXCEPT ![c] = h]
  BY Shapes DEF End, Handler
<1> HIDE DEF h
<1> QED
  BY <1>1, <1>2, Shapes

LEMMA ConcludeServes ==
  ASSUME TypeOK, NEW c \in Conns, NEW m \in Verdicts, handler[c].phase # "gone",
         End(c), Send(c, <<m, "1000">>), UNCHANGED <<published, token, up, tab, hook>>
  PROVE  ServesOnly(c) /\ Concludes(c)
<1>1. <<m, "1000">> \in Seq(Frames)
  BY DEF Frames, Messages, Codes
<1> QED
  BY <1>1, EndTypes, EndQueue, SendTypes DEF ServesOnly, Concludes, Sent

LEMMA RejectServes ==
  ASSUME TypeOK, NEW c \in Conns, Reject(c)
  PROVE  ServesOnly(c) /\ Refuses(c)
<1>1. PICK code \in {"4001", "1006"} : Send(c, <<code>>)
  BY DEF Reject
<1>2. <<code>> \in Seq(Frames)
  BY DEF Frames, Codes
<1>3. End(c) /\ handler[c].phase # "gone" /\ UNCHANGED <<published, token, up, tab, hook>>
  BY DEF Reject
<1> QED
  BY <1>1, <1>2, <1>3, EndTypes, EndQueue, SendTypes DEF ServesOnly, Refuses, Sent

LEMMA AcceptServes ==
  ASSUME TypeOK, NEW c \in Conns, Accept(c)
  PROVE  ServesOnly(c) /\ Opens(c)
<1> DEFINE h == [handler[c] EXCEPT !.phase = "accepted"]
<1>1. handler[c] \in Handler /\ <<"open">> \in Seq(Frames)
  BY Shapes DEF Frames
<1>2. h \in Handler /\ h.phase = "accepted" /\ h.run = handler[c].run /\ h.queue = handler[c].queue
  BY <1>1 DEF Handler
<1>3. handler' = [handler EXCEPT ![c] = h]
  BY Shapes DEF Accept
<1> HIDE DEF h
<1>4. handler' \in [Conns -> Handler] /\ handler'[c] = h /\ \A d \in Conns \ {c} : handler'[d] = handler[d]
  BY <1>2, <1>3, Shapes
<1>5. /\ wire' \in [Conns -> Seq(Frames)] /\ Sent(c, <<"open">>)
      /\ \A d \in Conns \ {c} : wire'[d] = wire[d]
  BY <1>1, SendTypes DEF Accept, Sent
<1> QED
  BY <1>2, <1>4, <1>5 DEF ServesOnly, Opens, Accept

LEMMA SubscribeServes ==
  ASSUME TypeOK, Linked, NEW c \in Conns, Subscribe(c)
  PROVE  ServesOnly(c) /\ Subscribes(c)
<1> DEFINE n == Len(published[handler[c].run])
           h == [handler[c] EXCEPT !.phase = "streaming", !.since = n]
<1>1. handler[c] \in Handler /\ handler[c].phase = "accepted"
  BY Shapes DEF Subscribe
<1>2. handler[c].run \in Runs
  BY <1>1, HandlerShape DEF Linked
<1>3. n \in Nat
  BY <1>2 DEF TypeOK
<1>4. handler' = [handler EXCEPT ![c] = h]
  BY Shapes DEF Subscribe, Handler
<1> HIDE DEF n
<1>5. /\ h \in Handler /\ h.phase = "streaming" /\ h.run = handler[c].run
      /\ h.queue = handler[c].queue /\ h.since = n
  BY <1>1, <1>3 DEF Handler
<1> HIDE DEF h
<1>6. handler' \in [Conns -> Handler] /\ handler'[c] = h /\ \A d \in Conns \ {c} : handler'[d] = handler[d]
  BY <1>4, <1>5, Shapes
<1> QED
  BY <1>1, <1>5, <1>6, Shapes DEF ServesOnly, Subscribes, Subscribe, n

LEMMA ForwardServes ==
  ASSUME TypeOK, NEW c \in Conns, Forward(c)
  PROVE  ServesOnly(c) /\ (Forwards(c) \/ Concludes(c))
<1> DEFINE m == Head(handler[c].queue)
           h == [handler[c] EXCEPT !.queue = Tail(@)]
<1>1. handler[c] \in Handler /\ handler[c].phase = "streaming" /\ handler[c].queue # <<>>
  BY Shapes DEF Forward
<1>2. handler[c].queue \in Seq(Messages)
  BY <1>1, HandlerShape
<1>3. m \in Messages /\ Tail(handler[c].queue) \in Seq(Messages)
  BY <1>1, <1>2
<1>4. CASE m \in Verdicts
  BY <1>1, <1>4, ConcludeServes DEF Forward
<1>5. CASE m \notin Verdicts
  <2>1. m \in Steps /\ <<m>> \in Seq(Frames)
    BY <1>3, <1>5 DEF Messages, Frames
  <2>2. Send(c, <<m>>) /\ handler' = [handler EXCEPT ![c] = h]
    BY <1>5 DEF Forward
  <2>3. /\ h \in Handler /\ h.phase = "streaming" /\ h.run = handler[c].run
        /\ h.queue = Tail(handler[c].queue) /\ h.since = handler[c].since
    BY <1>1, <1>3 DEF Handler
  <2>4. UNCHANGED <<published, token, up, tab, hook>>
    BY DEF Forward
  <2> HIDE DEF h, m
  <2>5. handler' \in [Conns -> Handler] /\ handler'[c] = h /\ \A d \in Conns \ {c} : handler'[d] = handler[d]
    BY <2>2, <2>3, Shapes
  <2>6. /\ wire' \in [Conns -> Seq(Frames)] /\ Sent(c, <<m>>)
        /\ \A d \in Conns \ {c} : wire'[d] = wire[d]
    BY <2>1, <2>2, SendTypes DEF Sent
  <2> QED
    BY <1>1, <2>1, <2>3, <2>4, <2>5, <2>6 DEF ServesOnly, Forwards, m
<1> QED
  BY <1>4, <1>5

LEMMA HandlerServes ==
  ASSUME TypeOK, Linked, NEW c \in Conns, Serving(c)
  PROVE  /\ ServesOnly(c)
         /\ Opens(c) \/ Subscribes(c) \/ Forwards(c) \/ Refuses(c) \/ Concludes(c)
<1>1. CASE Timeout(c) \/ RedisFails(c)
  BY <1>1, ConcludeServes DEF Timeout, RedisFails, Verdicts
<1> QED
  BY <1>1, AcceptServes, RejectServes, SubscribeServes, ForwardServes DEF Serving, Gateway


\* The browser takes a frame of c, and what it makes of it.
HandledOnly(c) ==
  /\ wire[c] # <<>> /\ wire'[c] = Tail(wire[c])
  /\ wire' \in [Conns -> Seq(Frames)]
  /\ \A d \in Conns \ {c} : wire'[d] = wire[d]
  /\ UNCHANGED <<published, token, handler>>

\* The store is the same in all but the named respects.
SameVisit(t, u) == u.mounted = t.mounted /\ u.run = t.run /\ u.cut = t.cut
SameList(t, u) == u.progress = t.progress
SameShown(t, u) == u.shown = t.shown /\ u.result = t.result

Listed(c) == /\ tab' \in Tab /\ SameVisit(tab, tab') /\ SameShown(tab, tab')
             /\ \/ tab' = tab /\ Head(wire[c]) \in Displayed
                \/ tab'.progress = Append(tab.progress, [run |-> handler[c].run, step |-> Head(wire[c])])
             /\ Head(wire[c]) \in Steps
             /\ UNCHANGED <<up, hook>>
Shown(c) == /\ tab' \in Tab /\ SameVisit(tab, tab') /\ SameList(tab, tab')
            /\ tab'.shown = (IF tab.shown < 2 THEN tab.shown + 1 ELSE tab.shown)
            /\ tab'.result \in {tab.result, handler[c].run}
            /\ Head(wire[c]) \in Verdicts
            /\ UNCHANGED <<up, hook>>
Connected(c) == /\ hook' \in Hook /\ hook'.socket = hook.socket /\ hook'.timer = hook.timer
                /\ Head(wire[c]) = "open"
                /\ UNCHANGED <<up, tab>>
Dismissed(c) == /\ tab' \in Tab /\ SameVisit(tab, tab') /\ SameList(tab, tab') /\ SameShown(tab, tab')
                /\ UNCHANGED hook
Rescheduled(c) == /\ hook' \in Hook /\ hook'.socket = hook.socket /\ hook'.timer = tab.run
                  /\ Head(wire[c]) \in {"1006", "4001"}
                  /\ UNCHANGED tab
Hangs(c) == /\ up' \in [Conns -> BOOLEAN] /\ ~up'[c] /\ \A d \in Conns \ {c} : up'[d] = up[d]
            /\ Head(wire[c]) \in Codes
            /\ Dismissed(c) \/ Rescheduled(c)

LEMMA WireShape ==
  ASSUME TypeOK, NEW c \in Conns, wire[c] # <<>>
  PROVE  /\ wire[c] \in Seq(Frames) /\ Head(wire[c]) \in Frames /\ Tail(wire[c]) \in Seq(Frames)
         /\ Len(wire[c]) \in Nat \ {0} /\ Head(wire[c]) = wire[c][1]
         /\ Len(Tail(wire[c])) = Len(wire[c]) - 1
         /\ \A i \in 1..(Len(wire[c]) - 1) : Tail(wire[c])[i] = wire[c][i + 1]
<1>1. wire[c] \in Seq(Frames)
  BY Shapes
<1> QED
  BY <1>1

LEMMA HandlesOne ==
  ASSUME TypeOK, NEW c \in Conns, NEW K, Handles(c, K)
  PROVE  HandledOnly(c) /\ Head(wire[c]) \in K
<1>1. wire[c] # <<>> /\ Tail(wire[c]) \in Seq(Frames)
  BY WireShape DEF Handles
<1>2. wire' = [wire EXCEPT ![c] = Tail(wire[c])]
  BY DEF Handles
<1> QED
  BY <1>1, <1>2, Shapes DEF HandledOnly, Handles

LEMMA OpenHandled ==
  ASSUME TypeOK, NEW c \in Conns, OnOpen(c)
  PROVE  HandledOnly(c) /\ Connected(c)
<1>1. HandledOnly(c) /\ Head(wire[c]) \in {"open"}
  BY HandlesOne DEF OnOpen
<1>2. hook' = [hook EXCEPT !.retries = 0] /\ hook \in Hook /\ MaxRetries \in Nat
  BY Shapes, StreamAssumptions DEF OnOpen
<1>3. hook' \in Hook /\ hook'.socket = hook.socket /\ hook'.timer = hook.timer
  BY <1>2 DEF Hook
<1> QED
  BY <1>1, <1>3 DEF Connected, OnOpen

LEMMA ProgressHandled ==
  ASSUME TypeOK, NEW c \in Conns, handler[c].run \in Runs, OnProgress(c)
  PROVE  HandledOnly(c) /\ Listed(c)
<1>1. HandledOnly(c) /\ Head(wire[c]) \in Steps
  BY HandlesOne DEF OnProgress
<1> DEFINE p == Head(wire[c])
           e == [run |-> handler[c].run, step |-> p]
<1>2. tab \in Tab
  BY Shapes
<1>3. UNCHANGED <<up, hook>>
  BY DEF OnProgress
<1>4. CASE \E i \in DOMAIN tab.progress : tab.progress[i].step = p
  <2>1. tab' = tab
    BY <1>4 DEF OnProgress
  <2>2. p \in Displayed
    BY <1>4 DEF Displayed, StepsShown, ToSet
  <2> QED
    BY <1>1, <1>2, <1>3, <2>1, <2>2 DEF Listed, SameVisit, SameShown
<1>5. CASE ~\E i \in DOMAIN tab.progress : tab.progress[i].step = p
  <2>1. tab' = [tab EXCEPT !.progress = Append(tab.progress, e)]
    BY <1>5 DEF OnProgress
  <2>2. e \in [run : Runs, step : Steps]
    BY <1>1
  <2>3. Append(tab.progress, e) \in Seq([run : Runs, step : Steps])
    <3> DEFINE S == [run : Runs, step : Steps]
    <3>1. tab.progress \in Seq(S) /\ e \in S
      BY <1>2, <2>2, TabShape
    <3> HIDE DEF S, e
    <3>2. Append(tab.progress, e) \in Seq(S)
      BY <3>1
    <3> QED
      BY <3>2 DEF S
  <2> HIDE DEF e, p
  <2>4. tab' \in Tab /\ SameVisit(tab, tab') /\ SameShown(tab, tab')
        /\ tab'.progress = Append(tab.progress, e)
    BY <1>2, <2>1, <2>3 DEF Tab, SameVisit, SameShown
  <2> QED
    BY <1>1, <1>3, <2>4 DEF Listed, e, p
<1> QED
  BY <1>4, <1>5

LEMMA ShowTypes ==
  ASSUME NEW t \in Tab
  PROVE  /\ Show(t) \in Tab /\ SameVisit(t, Show(t)) /\ SameList(t, Show(t))
         /\ Show(t).shown = (IF t.shown < 2 THEN t.shown + 1 ELSE t.shown)
         /\ Show(t).result = t.result
<1> DEFINE n == IF t.shown < 2 THEN t.shown + 1 ELSE t.shown
<1>1. n \in 0..2
  BY TabShape
<1>2. Show(t) = [t EXCEPT !.optimizing = FALSE, !.shown = n]
  BY DEF Show, Tab
<1> HIDE DEF n
<1>3. /\ Show(t) \in Tab /\ SameVisit(t, Show(t)) /\ SameList(t, Show(t))
      /\ Show(t).shown = n /\ Show(t).result = t.result
  BY <1>1, <1>2 DEF Tab, SameVisit, SameList
<1> QED
  BY <1>3 DEF n

LEMMA VerdictHandled ==
  ASSUME TypeOK, NEW c \in Conns, handler[c].run \in Runs, OnResult(c) \/ OnError(c)
  PROVE  HandledOnly(c) /\ Shown(c)
<1> DEFINE t == [tab EXCEPT !.result = handler[c].run]
<1>1. HandledOnly(c) /\ Head(wire[c]) \in Verdicts
  BY HandlesOne DEF OnResult, OnError, Verdicts
<1>2. tab \in Tab
  BY Shapes
<1>3. /\ t \in Tab /\ SameVisit(tab, t) /\ SameList(tab, t) /\ t.shown = tab.shown
      /\ t.result = handler[c].run
  BY <1>2 DEF Tab, SameVisit, SameList
<1>4. tab' = Show(t) \/ tab' = Show(tab)
  BY DEF OnResult, OnError
<1>5. UNCHANGED <<up, hook>>
  BY DEF OnResult, OnError
<1> HIDE DEF t
<1>6. /\ tab' \in Tab /\ SameVisit(tab, tab') /\ SameList(tab, tab')
      /\ tab'.shown = (IF tab.shown < 2 THEN tab.shown + 1 ELSE tab.shown)
      /\ tab'.result \in {tab.result, handler[c].run}
  <2>1. CASE tab' = Show(tab)
    BY <1>2, <2>1, ShowTypes
  <2>2. CASE tab' = Show(t)
    BY <1>3, <2>2, ShowTypes DEF SameVisit, SameList
  <2> QED
    BY <1>4, <2>1, <2>2
<1> QED
  BY <1>1, <1>5, <1>6 DEF Shown

LEMMA CloseHandled ==
  ASSUME TypeOK, NEW c \in Conns, OnClose(c)
  PROVE  HandledOnly(c) /\ Hangs(c)
<1> DEFINE code == Head(wire[c])
<1>1. HandledOnly(c) /\ code \in Codes
  BY HandlesOne DEF OnClose
<1>2. tab \in Tab /\ hook \in Hook
  BY Shapes
<1>3. up' \in [Conns -> BOOLEAN] /\ ~up'[c] /\ \A d \in Conns \ {c} : up'[d] = up[d]
  BY DEF OnClose, TypeOK
<1>4. CASE Expected(c, code)
  BY <1>1, <1>2, <1>3, <1>4 DEF OnClose, Hangs, Dismissed, SameVisit, SameList, SameShown
<1>5. CASE ~Expected(c, code) /\ MayRetry(code)
  <2>1. /\ hook' = [hook EXCEPT !.retries = hook.retries + 1, !.timer = tab.run]
        /\ UNCHANGED tab
    BY <1>5 DEF OnClose
  <2>2. code \in {"1006", "4001"}
    BY <1>1, <1>5 DEF Expected, Codes
  <2>3. hook.retries + 1 \in 0..MaxRetries /\ tab.run \in Runs \cup {NoRun}
    BY <1>2, <1>5, HookShape, TabShape, StreamAssumptions DEF MayRetry
  <2>4. hook' \in Hook /\ hook'.socket = hook.socket /\ hook'.timer = tab.run
    BY <1>2, <2>1, <2>3 DEF Hook
  <2> QED
    BY <1>1, <1>3, <2>1, <2>2, <2>4 DEF Hangs, Rescheduled
<1>6. CASE ~Expected(c, code) /\ ~MayRetry(code)
  <2>1. tab' = [tab EXCEPT !.optimizing = FALSE] /\ UNCHANGED hook
    BY <1>6 DEF OnClose
  <2>2. tab' \in Tab /\ SameVisit(tab, tab') /\ SameList(tab, tab') /\ SameShown(tab, tab')
    BY <1>2, <2>1 DEF Tab, SameVisit, SameList, SameShown
  <2> QED
    BY <1>1, <1>3, <2>1, <2>2 DEF Hangs, Dismissed
<1> QED
  BY <1>4, <1>5, <1>6

LEMMA FrameHandled ==
  ASSUME TypeOK, Linked, NEW c \in Conns, Browser(c)
  PROVE  /\ HandledOnly(c)
         /\ Connected(c) \/ Listed(c) \/ Shown(c) \/ Hangs(c)
<1>1. wire[c] # <<>>
  BY DEF Browser, OnOpen, OnProgress, OnResult, OnError, OnClose, Handles
<1>2. hook.socket = c /\ c # NoConn
  BY <1>1, StreamAssumptions DEF Linked
<1>3. handler[c].run \in Runs
  BY <1>2, Shapes, HandlerShape DEF Linked
<1> QED
  BY <1>3, OpenHandled, ProgressHandled, VerdictHandled, CloseHandled DEF Browser


\* A connection for the run of the tab: the new one for a submission or a visit,
\* which starts the verdicts anew, or one more after a pause.
Dials(c) == /\ handler' \in [Conns -> Handler] /\ up' \in [Conns -> BOOLEAN]
            /\ wire' \in [Conns -> Seq(Frames)]
            /\ handler'[c] = [phase |-> "opening", run |-> tab'.run, queue |-> <<>>, since |-> 0]
            /\ \A d \in Conns \ {c} : handler'[d] = handler[d]
            /\ up'[c] /\ wire'[c] = <<>>
            /\ \A d \in Conns \ {c, hook.socket} : up'[d] = up[d] /\ wire'[d] = wire[d]
            /\ hook.socket \in Conns => ~up'[hook.socket] /\ wire'[hook.socket] = <<>>
            /\ c # hook.socket
            /\ tab' \in Tab /\ tab'.mounted /\ tab'.run \in Runs
            /\ hook' \in Hook /\ hook'.socket = c /\ hook'.timer = NoRun
            /\ UNCHANGED published
Starts == tab'.result = NoRun /\ tab'.progress = <<>> /\ tab'.shown = 0
Returns == tab'.run = tab.run /\ tab'.result = tab.result /\ SameList(tab, tab') /\ tab'.shown = 0
Redials == UNCHANGED tab /\ hook.timer # NoRun

LEMMA IdleTypes ==
  /\ IdleHook \in Hook /\ IdleHook.socket = NoConn /\ IdleHook.timer = NoRun
  /\ \A c \in Conns : LET h == [IdleHook EXCEPT !.socket = c]
                      IN  h \in Hook /\ h.socket = c /\ h.timer = NoRun
BY StreamAssumptions DEF IdleHook, Hook

LEMMA StartDials ==
  ASSUME TypeOK, NEW r \in Runs, StartRun(r)
  PROVE  (\E c \in Conns : Dials(c)) /\ Starts /\ token' \in [Runs -> {"none", "valid", "expired"}]
<1>1. PICK c \in Conns : Connect(c, r) /\ hook' = [IdleHook EXCEPT !.socket = c]
  BY DEF StartRun
<1>2. tab' = Fresh(r) /\ tab \in Tab /\ tab.mounted
  BY Shapes DEF StartRun
<1>3. tab' \in Tab /\ tab'.mounted /\ tab'.run = r /\ Starts
  <2>1. <<>> \in Seq([run : Runs, step : Steps]) /\ 0 \in 0..2
    OBVIOUS
  <2> QED
    BY <1>2, <2>1 DEF Fresh, Tab, Starts
<1>4. hook' \in Hook /\ hook'.socket = c /\ hook'.timer = NoRun
  BY <1>1, IdleTypes
<1>5. UNCHANGED published /\ token' \in [Runs -> {"none", "valid", "expired"}]
  BY DEF StartRun, TypeOK
<1>6. Dials(c)
  BY <1>1, <1>3, <1>4, <1>5, ConnectTypes DEF Dials
<1> QED
  BY <1>3, <1>5, <1>6

LEMMA MountDials ==
  ASSUME TypeOK, Mount, tab.run # NoRun
  PROVE  (\E c \in Conns : Dials(c)) /\ Returns /\ UNCHANGED token
<1>1. PICK c \in Conns : Connect(c, tab.run) /\ hook' = [IdleHook EXCEPT !.socket = c]
  BY DEF Mount
<1>2. tab' = [tab EXCEPT !.mounted = TRUE, !.shown = 0, !.cut = FALSE] /\ tab \in Tab
  BY Shapes DEF Mount
<1>3. tab' \in Tab /\ tab'.mounted /\ Returns
  <2>1. 0 \in 0..2
    OBVIOUS
  <2> QED
    BY <1>2, <2>1 DEF Tab, Returns, SameList
<1>4. hook' \in Hook /\ hook'.socket = c /\ hook'.timer = NoRun
  BY <1>1, IdleTypes
<1>5. UNCHANGED <<published, token>> /\ tab.run \in Runs
  BY <1>2, TabShape DEF Mount
<1>6. Dials(c)
  BY <1>1, <1>3, <1>4, <1>5, ConnectTypes DEF Dials, Returns
<1> QED
  BY <1>3, <1>5, <1>6

LEMMA RetryDials ==
  ASSUME TypeOK, Linked, RetryTimer
  PROVE  (\E c \in Conns : Dials(c)) /\ Redials /\ UNCHANGED token
<1>1. PICK c \in Conns : Connect(c, tab.run) /\ hook' = [hook EXCEPT !.socket = c, !.timer = NoRun]
  BY DEF RetryTimer
<1>2. tab \in Tab /\ hook \in Hook /\ hook.timer # NoRun /\ hook.timer = tab.run
  BY Shapes DEF RetryTimer
<1>3. tab.run \in Runs /\ tab.mounted
  BY <1>2, HookShape DEF Linked
<1>4. hook' \in Hook /\ hook'.socket = c /\ hook'.timer = NoRun
  BY <1>1, <1>2 DEF Hook
<1>5. UNCHANGED <<published, token, tab>>
  BY DEF RetryTimer
<1>6. Dials(c)
  BY <1>1, <1>2, <1>3, <1>4, <1>5, ConnectTypes DEF Dials
<1> QED
  BY <1>2, <1>5, <1>6 DEF Redials

\* The user leaves, or returns to a page without a run.
Leaves == /\ tab' \in Tab /\ tab'.run = tab.run /\ tab'.result = tab.result /\ SameList(tab, tab')
          /\ tab'.shown = tab.shown /\ tab'.cut = tab.cut
          /\ hook' \in Hook /\ hook'.socket = NoConn /\ hook'.timer = NoRun
          /\ up' \in [Conns -> BOOLEAN] /\ wire' \in [Conns -> Seq(Frames)]
          /\ \A c \in Conns : IF c = hook.socket THEN ~up'[c] /\ wire'[c] = <<>>
                              ELSE up'[c] = up[c] /\ wire'[c] = wire[c]
          /\ UNCHANGED <<published, token, handler>>
Visits == /\ tab' \in Tab /\ tab'.run = tab.run /\ tab.run = NoRun /\ tab'.result = tab.result
          /\ SameList(tab, tab') /\ tab'.shown = 0 /\ tab'.mounted
          /\ UNCHANGED <<published, token, handler, up, wire, hook>>
\* The network ends a connection.
Breaks(c) == /\ tab' \in Tab /\ tab'.run = tab.run /\ tab'.mounted = tab.mounted
             /\ tab'.result = tab.result /\ SameList(tab, tab') /\ tab'.cut
             /\ up[c] /\ up' = [up EXCEPT ![c] = FALSE] /\ wire' = [wire EXCEPT ![c] = <<"1006">>]
             /\ wire' \in [Conns -> Seq(Frames)]
             /\ UNCHANGED <<published, token, handler, hook>>

LEMMA UnmountLeaves ==
  ASSUME TypeOK, Unmount
  PROVE  Leaves
<1>1. tab' = [tab EXCEPT !.mounted = FALSE] /\ tab \in Tab
  BY Shapes DEF Unmount
<1>2. /\ tab' \in Tab /\ tab'.run = tab.run /\ tab'.result = tab.result /\ SameList(tab, tab')
      /\ tab'.shown = tab.shown /\ tab'.cut = tab.cut
  BY <1>1 DEF Tab, SameList
<1> QED
  BY <1>2, IdleTypes, ClosedTypes DEF Unmount, Leaves

LEMMA MountVisits ==
  ASSUME TypeOK, Mount, tab.run = NoRun
  PROVE  Visits
<1>1. /\ tab' = [tab EXCEPT !.mounted = TRUE, !.shown = 0, !.cut = FALSE] /\ tab \in Tab
      /\ UNCHANGED <<published, token, handler, up, wire, hook>>
  BY Shapes DEF Mount
<1>2. /\ tab' \in Tab /\ tab'.run = tab.run /\ tab'.result = tab.result
      /\ SameList(tab, tab') /\ tab'.shown = 0 /\ tab'.mounted
  <2>1. 0 \in 0..2
    OBVIOUS
  <2> QED
    BY <1>1, <2>1 DEF Tab, SameList
<1> QED
  BY <1>1, <1>2 DEF Visits

LEMMA DropBreaks ==
  ASSUME TypeOK, NEW c \in Conns, Drop(c)
  PROVE  Breaks(c)
<1>1. tab' = [tab EXCEPT !.cut = TRUE] /\ tab \in Tab
  BY Shapes DEF Drop
<1>2. /\ tab' \in Tab /\ tab'.run = tab.run /\ tab'.mounted = tab.mounted
      /\ tab'.result = tab.result /\ SameList(tab, tab') /\ tab'.cut
  BY <1>1 DEF Tab, SameList
<1>3. <<"1006">> \in Seq(Frames) /\ wire \in [Conns -> Seq(Frames)]
  BY Shapes DEF Frames, Codes
<1> QED
  BY <1>2, <1>3 DEF Drop, Breaks

-----------------------------------------------------------------------------
(* Type correctness and the link between the tab and its connection.       *)

LEMMA TypesAgain ==
  ASSUME published' \in [Runs -> Seq(Messages)], token' \in [Runs -> {"none", "valid", "expired"}],
         handler' \in [Conns -> Handler], up' \in [Conns -> BOOLEAN],
         wire' \in [Conns -> Seq(Frames)], tab' \in Tab, hook' \in Hook
  PROVE  TypeOK'
BY DEF TypeOK, Handler, Frames, Tab, Hook

LEMMA TypesKept ==
  ASSUME TypeOK, Linked, [Next]_vars
  PROVE  TypeOK'
<1> USE Shapes, TypesAgain
<1>0. /\ published \in [Runs -> Seq(Messages)] /\ token \in [Runs -> {"none", "valid", "expired"}]
      /\ up \in [Conns -> BOOLEAN]
  BY DEF TypeOK
<1>1. ASSUME NEW r \in Runs, StartRun(r) PROVE TypeOK'
  BY <1>0, <1>1, StartDials DEF Dials
<1>2. ASSUME NEW r \in Runs, Expire(r) PROVE TypeOK'
  <2>1. token' \in [Runs -> {"none", "valid", "expired"}]
    BY <1>0, <1>2 DEF Expire
  <2> QED
    BY <1>0, <1>2, <2>1 DEF Expire
<1>3. ASSUME NEW r \in Runs, NEW m \in Messages, Publish(r, m) PROVE TypeOK'
  BY <1>3, PublishTypes
<1>4. ASSUME NEW c \in Conns, Serving(c) PROVE TypeOK'
  BY <1>0, <1>4, HandlerServes DEF ServesOnly
<1>5. ASSUME NEW c \in Conns, Drop(c) PROVE TypeOK'
  BY <1>0, <1>5, DropBreaks DEF Breaks
<1>6. ASSUME NEW c \in Conns, Browser(c) PROVE TypeOK'
  <2>1. HandledOnly(c) /\ (Connected(c) \/ Listed(c) \/ Shown(c) \/ Hangs(c))
    BY <1>6, FrameHandled
  <2>2. tab' \in Tab /\ hook' \in Hook /\ up' \in [Conns -> BOOLEAN]
    BY <1>0, <2>1 DEF Connected, Listed, Shown, Hangs, Dismissed, Rescheduled
  <2> QED
    BY <1>0, <2>1, <2>2 DEF HandledOnly
<1>7. CASE RetryTimer
  BY <1>0, <1>7, RetryDials DEF Dials
<1>8. CASE Unmount
  BY <1>0, <1>8, UnmountLeaves DEF Leaves
<1>9. CASE Mount
  BY <1>0, <1>9, MountDials, MountVisits DEF Dials, Visits
<1>10. CASE UNCHANGED vars
  BY <1>10 DEF vars, TypeOK
<1> QED
  BY <1>1, <1>2, <1>3, <1>4, <1>5, <1>6, <1>7, <1>8, <1>9, <1>10 DEF Next, Serving


\* A message reaches the queues of the handlers that are subscribed.
LEMMA PublishQueues ==
  ASSUME TypeOK, NEW r \in Runs, NEW m \in Messages, Publish(r, m)
  PROVE  /\ \A c \in Conns :
              /\ handler'[c].phase = handler[c].phase /\ handler'[c].run = handler[c].run
              /\ handler'[c].since = handler[c].since
              /\ handler'[c].queue = IF handler[c].phase = "streaming" /\ handler[c].run = r
                                     THEN Append(handler[c].queue, m) ELSE handler[c].queue
         /\ published'[r] = Append(published[r], m)
         /\ \A q \in Runs \ {r} : published'[q] = published[q]
<1>1. ASSUME NEW c \in Conns
      PROVE  LET h == [handler[c] EXCEPT !.queue = Append(@, m)]
             IN  /\ h.phase = handler[c].phase /\ h.run = handler[c].run
                 /\ h.since = handler[c].since /\ h.queue = Append(handler[c].queue, m)
  <2>1. handler[c] \in Handler
    BY Shapes
  <2> QED
    BY <2>1 DEF Handler
<1>2. \A c \in Conns : handler'[c] = IF handler[c].phase = "streaming" /\ handler[c].run = r
                                     THEN [handler[c] EXCEPT !.queue = Append(@, m)] ELSE handler[c]
  BY DEF Publish
<1>3. /\ published'[r] = Append(published[r], m)
      /\ \A q \in Runs \ {r} : published'[q] = published[q]
  BY DEF Publish, TypeOK
<1>4. ASSUME NEW c \in Conns
      PROVE  /\ handler'[c].phase = handler[c].phase /\ handler'[c].run = handler[c].run
             /\ handler'[c].since = handler[c].since
             /\ handler'[c].queue = IF handler[c].phase = "streaming" /\ handler[c].run = r
                                    THEN Append(handler[c].queue, m) ELSE handler[c].queue
  BY <1>1, <1>2
<1> QED
  BY <1>3, <1>4

\* The frame that was handled was the first.
LEMMA TailWire ==
  ASSUME TypeOK, NEW c \in Conns, HandledOnly(c)
  PROVE  /\ Len(wire[c]) \in Nat \ {0} /\ Len(wire'[c]) = Len(wire[c]) - 1
         /\ DOMAIN wire'[c] = 1..(Len(wire[c]) - 1) /\ DOMAIN wire[c] = 1..Len(wire[c])
         /\ \A i \in DOMAIN wire'[c] : i + 1 \in DOMAIN wire[c] /\ wire'[c][i] = wire[c][i + 1]
         /\ Head(wire[c]) = wire[c][1] /\ 1 \in DOMAIN wire[c]
<1>1. /\ Tail(wire[c]) \in Seq(Frames) /\ wire[c] \in Seq(Frames)
      /\ Len(wire[c]) \in Nat \ {0} /\ Len(Tail(wire[c])) = Len(wire[c]) - 1
      /\ \A i \in 1..(Len(wire[c]) - 1) : Tail(wire[c])[i] = wire[c][i + 1]
      /\ Head(wire[c]) = wire[c][1]
  BY WireShape DEF HandledOnly
<1>2. wire'[c] = Tail(wire[c])
  BY DEF HandledOnly
<1> QED
  BY <1>1, <1>2

\* One frame, or two, behind what is on the wire.
LEMMA SentOne ==
  ASSUME TypeOK, NEW c \in Conns, NEW m \in Frames, up[c], Sent(c, <<m>>)
  PROVE  /\ DOMAIN wire'[c] = 1..(Len(wire[c]) + 1) /\ DOMAIN wire[c] = 1..Len(wire[c])
         /\ Len(wire[c]) \in Nat /\ Len(wire'[c]) = Len(wire[c]) + 1
         /\ \A i \in DOMAIN wire[c] : wire'[c][i] = wire[c][i]
         /\ wire'[c][Len(wire[c]) + 1] = m
<1>1. wire[c] \in Seq(Frames) /\ wire'[c] = wire[c] \o <<m>>
  BY Shapes DEF Sent
<1> QED
  BY <1>1

LEMMA SentTwo ==
  ASSUME TypeOK, NEW c \in Conns, NEW m \in Frames, NEW n \in Frames, up[c], Sent(c, <<m, n>>)
  PROVE  /\ DOMAIN wire'[c] = 1..(Len(wire[c]) + 2) /\ DOMAIN wire[c] = 1..Len(wire[c])
         /\ Len(wire[c]) \in Nat /\ Len(wire'[c]) = Len(wire[c]) + 2
         /\ \A i \in DOMAIN wire[c] : wire'[c][i] = wire[c][i]
         /\ wire'[c][Len(wire[c]) + 1] = m /\ wire'[c][Len(wire[c]) + 2] = n
<1>1. wire[c] \in Seq(Frames) /\ wire'[c] = wire[c] \o <<m, n>>
  BY Shapes DEF Sent
<1> QED
  BY <1>1

LEMMA HangsLast ==
  ASSUME TypeOK, NEW c \in Conns, Final(c), HandledOnly(c), Hangs(c)
  PROVE  wire'[c] = <<>>
<1>1. Len(wire[c]) = 1
  BY TailWire DEF Final, Hangs
<1>2. Len(wire'[c]) = Len(wire[c]) - 1
  BY Zenon, TailWire
<1>3. wire'[c] \in Seq(Frames)
  BY DEF HandledOnly
<1>4. Len(wire'[c]) = 0
  BY <1>1, <1>2
<1> QED
  BY <1>3, <1>4

LinkInv == TypeOK /\ Linked /\ \A c \in Conns : Final(c)

LEMMA LinkedKept ==
  ASSUME LinkInv, [Next]_vars
  PROVE  Linked'
<1> USE StreamAssumptions DEF LinkInv
<1>0. tab \in Tab /\ hook \in Hook /\ hook.socket \in Conns \cup {NoConn}
  BY Shapes, HookShape
<1>1. ASSUME NEW c \in Conns, Dials(c) PROVE Linked'
  <2>1. /\ handler'[c].run = tab'.run /\ handler'[c].phase = "opening" /\ handler'[c].queue = <<>>
        /\ tab'.run # NoRun /\ tab'.mounted /\ hook'.socket = c /\ hook'.timer = NoRun
    BY <1>1 DEF Dials
  <2>2. \A d \in Conns \ {c} : ~up'[d] /\ wire'[d] = <<>>
    BY <1>0, <1>1 DEF Dials, Linked
  <2>3. \A d \in Conns \ {c} : handler'[d] = handler[d]
    BY <1>1 DEF Dials
  <2> QED
    BY <2>1, <2>2, <2>3 DEF Linked
<1>2. ASSUME NEW r \in Runs, Expire(r) PROVE Linked'
  BY <1>2 DEF Expire, Linked
<1>3. ASSUME NEW r \in Runs, NEW m \in Messages, Publish(r, m) PROVE Linked'
  <2>1. UNCHANGED <<up, wire, tab, hook>>
    BY <1>3 DEF Publish
  <2> QED
    BY <1>0, <1>3, <2>1, PublishQueues DEF Linked
<1>4. ASSUME NEW c \in Conns, Serving(c) PROVE Linked'
  <2>1. ServesOnly(c) /\ (Opens(c) \/ Subscribes(c) \/ Forwards(c) \/ Refuses(c) \/ Concludes(c))
    BY <1>4, HandlerServes
  <2>2. \A d \in Conns : handler'[d].run = handler[d].run
    BY <2>1 DEF ServesOnly
  <2>3. handler[c].phase # "gone" /\ UNCHANGED <<up, tab, hook>>
        /\ \A d \in Conns \ {c} : handler'[d] = handler[d] /\ wire'[d] = wire[d]
    BY <2>1 DEF ServesOnly
  <2>4. handler'[c].phase # "streaming" => handler'[c].queue = <<>>
    BY <2>1 DEF Linked, Opens, Subscribes, Forwards, Refuses, Concludes
  <2>5. up[c] \/ wire'[c] = wire[c]
    BY <2>1 DEF Opens, Subscribes, Forwards, Refuses, Concludes, Sent
  <2> QED
    BY <1>0, <2>2, <2>3, <2>4, <2>5 DEF Linked
<1>5. ASSUME NEW c \in Conns, Drop(c) PROVE Linked'
  <2>1. Breaks(c)
    BY <1>5, DropBreaks
  <2>2. /\ c = hook.socket /\ hook.timer = NoRun
    BY <1>0, <2>1, HookShape DEF Breaks, Linked
  <2> QED
    BY <2>1, <2>2 DEF Breaks, Linked, TypeOK
<1>6. ASSUME NEW c \in Conns, Browser(c) PROVE Linked'
  <2>1. HandledOnly(c) /\ (Connected(c) \/ Listed(c) \/ Shown(c) \/ Hangs(c))
    BY <1>6, FrameHandled
  <2>2. /\ c = hook.socket /\ hook.timer = NoRun /\ hook.socket # NoConn
    BY <1>0, <2>1, HookShape DEF HandledOnly, Linked
  <2>3. /\ tab'.mounted = tab.mounted /\ tab'.run = tab.run /\ hook'.socket = hook.socket
    BY <2>1 DEF Connected, Listed, Shown, Hangs, Dismissed, Rescheduled, SameVisit
  <2>4. \A d \in Conns \ {c} : up'[d] = up[d] /\ wire'[d] = wire[d]
    BY <2>1 DEF HandledOnly, Connected, Listed, Shown, Hangs
  <2>5. UNCHANGED handler
    BY <2>1 DEF HandledOnly
  <2>6. hook'.timer # NoRun => hook'.timer = tab.run /\ ~up'[c] /\ wire'[c] = <<>>
    <3>1. CASE Hangs(c)
      BY <2>1, <2>2, <3>1, HangsLast DEF Hangs, Dismissed, Rescheduled
    <3>2. CASE ~Hangs(c)
      BY <2>1, <2>2, <3>2 DEF Connected, Listed, Shown
    <3> QED
      BY <3>1, <3>2
  <2> QED
    BY <2>2, <2>3, <2>4, <2>5, <2>6 DEF Linked
<1>7. CASE Leaves
  BY <1>0, <1>7 DEF Leaves, Linked
<1>8. CASE Visits
  <2>1. hook.socket = NoConn /\ hook'.timer = NoRun
    BY <1>8 DEF Visits, Linked
  <2> QED
    BY <1>8, <2>1 DEF Visits, Linked
<1>9. CASE UNCHANGED vars
  BY <1>9 DEF vars, Linked
<1> QED
  BY <1>1, <1>2, <1>3, <1>4, <1>5, <1>6, <1>7, <1>8, <1>9,
     StartDials, MountDials, RetryDials, UnmountLeaves, MountVisits DEF Next, Serving

LEMMA FinalKept ==
  ASSUME LinkInv, [Next]_vars, NEW c \in Conns
  PROVE  Final(c)'
<1> USE DEF LinkInv
<1>0. hook.socket \in Conns \cup {NoConn}
  BY Shapes, HookShape
<1>1. CASE wire'[c] = <<>>
  BY <1>1 DEF Final
<1>2. CASE /\ wire'[c] = wire[c] /\ (up'[c] => up[c])
           /\ handler[c].phase = "gone" => handler'[c].phase = "gone"
  BY <1>2 DEF Final
<1>3. ASSUME NEW d \in Conns, Dials(d) PROVE Final(c)'
  <2>1. CASE c \in {d, hook.socket}
    BY <1>1, <1>3, <2>1 DEF Dials
  <2>2. CASE c \notin {d, hook.socket}
    BY <1>2, <1>3, <2>2 DEF Dials
  <2> QED
    BY <2>1, <2>2
<1>4. ASSUME NEW r \in Runs, Expire(r) PROVE Final(c)'
  BY <1>2, <1>4 DEF Expire
<1>5. ASSUME NEW r \in Runs, NEW m \in Messages, Publish(r, m) PROVE Final(c)'
  <2>1. UNCHANGED <<up, wire>>
    BY <1>5 DEF Publish
  <2> QED
    BY <1>2, <1>5, <2>1, PublishQueues
<1>6. ASSUME NEW d \in Conns, Serving(d) PROVE Final(c)'
  <2>1. ServesOnly(d) /\ (Opens(d) \/ Subscribes(d) \/ Forwards(d) \/ Refuses(d) \/ Concludes(d))
    BY <1>6, HandlerServes
  <2>2. CASE d # c
    BY <1>2, <2>1, <2>2 DEF ServesOnly
  <2>3. CASE d = c /\ ~up[c]
    <3>1. wire'[c] = wire[c] /\ ~up'[c]
      BY <2>1, <2>3 DEF ServesOnly, Opens, Subscribes, Forwards, Refuses, Concludes, Sent
    <3> QED
      BY <3>1 DEF Final
  <2>4. CASE d = c /\ up[c]
    <3>1. handler[c].phase # "gone"
      BY <2>1, <2>4 DEF ServesOnly
    <3>2. \A i \in DOMAIN wire[c] : wire[c][i] \notin Codes
      BY <2>4, <3>1 DEF Final
    <3>3. CASE wire'[c] = wire[c]
      BY <3>2, <3>3 DEF Final
    <3>4. ASSUME NEW m \in Frames \ Codes, Sent(c, <<m>>) PROVE Final(c)'
      <4>1. /\ DOMAIN wire'[c] = 1..(Len(wire[c]) + 1) /\ DOMAIN wire[c] = 1..Len(wire[c])
            /\ Len(wire[c]) \in Nat /\ wire'[c][Len(wire[c]) + 1] = m
            /\ \A i \in DOMAIN wire[c] : wire'[c][i] = wire[c][i]
        BY Zenon, <2>4, <3>4, SentOne
      <4>2. \A i \in DOMAIN wire'[c] : wire'[c][i] \notin Codes
        BY <3>2, <3>4, <4>1
      <4> QED
        BY <4>2 DEF Final
    <3>5. ASSUME NEW m \in Codes, Sent(c, <<m>>), handler'[c].phase = "gone" PROVE Final(c)'
      <4>1. m \in Frames
        BY DEF Frames
      <4>2. /\ DOMAIN wire'[c] = 1..(Len(wire[c]) + 1) /\ DOMAIN wire[c] = 1..Len(wire[c])
            /\ Len(wire[c]) \in Nat /\ Len(wire'[c]) = Len(wire[c]) + 1
            /\ \A i \in DOMAIN wire[c] : wire'[c][i] = wire[c][i]
        BY Zenon, <2>4, <3>5, <4>1, SentOne
      <4>3. \A i \in DOMAIN wire'[c] : wire'[c][i] \in Codes => i = Len(wire'[c])
        BY <3>2, <4>2
      <4> QED
        BY <3>5, <4>3 DEF Final
    <3>6. ASSUME NEW m \in Verdicts, Sent(c, <<m, "1000">>), handler'[c].phase = "gone"
          PROVE  Final(c)'
      <4>1. m \in Frames /\ "1000" \in Frames /\ m \notin Codes
        BY FrameKinds DEF Frames, Messages, Codes
      <4>2. /\ DOMAIN wire'[c] = 1..(Len(wire[c]) + 2) /\ DOMAIN wire[c] = 1..Len(wire[c])
            /\ Len(wire[c]) \in Nat /\ Len(wire'[c]) = Len(wire[c]) + 2
            /\ \A i \in DOMAIN wire[c] : wire'[c][i] = wire[c][i]
            /\ wire'[c][Len(wire[c]) + 1] = m
        BY Zenon, <2>4, <3>6, <4>1, SentTwo
      <4>3. \A i \in DOMAIN wire'[c] : wire'[c][i] \in Codes => i = Len(wire'[c])
        BY <3>2, <4>1, <4>2
      <4> QED
        BY <3>6, <4>3 DEF Final
    <3>7. "open" \in Frames \ Codes /\ Steps \subseteq Frames \ Codes /\ {"4001", "1006"} \subseteq Codes
      BY FrameKinds DEF Frames, Messages, Codes
    <3> QED
      BY <2>1, <2>4, <3>3, <3>4, <3>5, <3>6, <3>7 DEF Opens, Subscribes, Forwards, Refuses, Concludes
  <2> QED
    BY <2>2, <2>3, <2>4
<1>7. ASSUME NEW d \in Conns, Drop(d) PROVE Final(c)'
  <2>1. Breaks(d)
    BY <1>7, DropBreaks
  <2>2. CASE d # c
    BY <1>2, <2>1, <2>2 DEF Breaks, TypeOK
  <2>3. CASE d = c
    <3>1. wire'[c] = <<"1006">> /\ ~up'[c]
      BY <2>1, <2>3 DEF Breaks, TypeOK
    <3> QED
      BY <3>1 DEF Final
  <2> QED
    BY <2>2, <2>3
<1>8. ASSUME NEW d \in Conns, Browser(d) PROVE Final(c)'
  <2>1. HandledOnly(d) /\ (Connected(d) \/ Listed(d) \/ Shown(d) \/ Hangs(d))
    BY <1>8, FrameHandled
  <2>2. CASE d # c
    <3>1. up'[c] = up[c] /\ wire'[c] = wire[c] /\ handler'[c] = handler[c]
      BY <2>1, <2>2 DEF HandledOnly, Connected, Listed, Shown, Hangs
    <3> QED
      BY <1>2, <3>1
  <2>3. CASE d = c
    <3>1. handler'[c] = handler[c] /\ (up'[c] => up[c])
      BY <2>1, <2>3 DEF HandledOnly, Connected, Listed, Shown, Hangs
    <3> QED
      BY <2>1, <2>3, <3>1, TailWire DEF Final
  <2> QED
    BY <2>2, <2>3
<1>9. CASE Leaves
  BY <1>0, <1>1, <1>2, <1>9 DEF Leaves
<1>10. CASE Visits \/ UNCHANGED vars
  BY <1>2, <1>10 DEF Visits, vars
<1> QED
  BY <1>3, <1>4, <1>5, <1>6, <1>7, <1>8, <1>9, <1>10,
     StartDials, MountDials, RetryDials, UnmountLeaves, MountVisits DEF Next, Serving

LEMMA LinkInvHolds == Spec => []LinkInv
<1>1. Init => LinkInv
  BY IdleTypes, StreamAssumptions DEF Init, LinkInv, TypeOK, Linked, Final, NoHandler, IdleHook
<1>2. LinkInv /\ [Next]_vars => LinkInv'
  BY TypesKept, LinkedKept, FinalKept DEF LinkInv
<1> QED
  BY <1>1, <1>2, PTL DEF Spec


\* Every variable keeps to its type, whatever comes in which order.
THEOREM StreamKeepsTypes == Spec => []TypeOK
<1>1. LinkInv => TypeOK
  BY DEF LinkInv
<1> QED
  BY <1>1, LinkInvHolds, PTL

\* The tab holds at most one connection, only while the dashboard is there, and a
\* reconnection is pending only when that connection is over: connect() closes the
\* socket it replaces and the effect's cleanup clears the timer.
THEOREM LinkIsTheTabs == Spec => []LinkBelongsToTab
<1>1. LinkInv => LinkBelongsToTab
  <2> SUFFICES ASSUME LinkInv PROVE LinkBelongsToTab
    OBVIOUS
  <2>1. hook.socket \in Conns \cup {NoConn}
    BY Shapes, HookShape DEF LinkInv
  <2> QED
    BY <2>1, StreamAssumptions DEF LinkInv, Linked, LinkBelongsToTab
<1> QED
  BY <1>1, LinkInvHolds, PTL

\* Whatever the dashboard shows belongs to the run it is about, though no callback
\* looks at the run an event belongs to: the only connection that can bring one is
\* the tab's.
THEOREM DisplayIsOfTheRun == Spec => []OnlyCurrentRun
<1>1. Init => OnlyCurrentRun
  BY DEF Init, OnlyCurrentRun
<1>2. ASSUME LinkInv, OnlyCurrentRun, [Next]_vars PROVE OnlyCurrentRun'
  <2> USE DEF LinkInv
  <2>0. tab \in Tab /\ hook.socket \in Conns \cup {NoConn}
    BY <1>2, Shapes, HookShape
  <2>1. CASE tab'.result \in {NoRun, tab.result} /\ tab'.run = tab.run /\ SameList(tab, tab')
    BY <1>2, <2>1 DEF OnlyCurrentRun, SameList
  <2>2. ASSUME NEW c \in Conns, Dials(c), Starts PROVE OnlyCurrentRun'
    BY <2>2 DEF Dials, Starts, OnlyCurrentRun
  <2>3. ASSUME NEW c \in Conns, Dials(c), Returns \/ Redials PROVE OnlyCurrentRun'
    BY <2>1, <2>3 DEF Returns, Redials, SameList
  <2>4. ASSUME NEW c \in Conns, Browser(c) PROVE OnlyCurrentRun'
    <3>1. HandledOnly(c) /\ (Connected(c) \/ Listed(c) \/ Shown(c) \/ Hangs(c))
      BY <1>2, <2>4, FrameHandled
    <3>2. handler[c].run = tab.run
      BY <1>2, <2>0, <3>1, StreamAssumptions DEF HandledOnly, Linked
    <3>3. CASE Connected(c) \/ Hangs(c)
      BY <2>1, <3>3 DEF Connected, Hangs, Dismissed, Rescheduled, SameVisit, SameList, SameShown
    <3>4. CASE Shown(c)
      BY <1>2, <3>2, <3>4 DEF Shown, SameVisit, SameList, OnlyCurrentRun
    <3>5. CASE Listed(c)
      <4>1. tab'.run = tab.run /\ tab'.result = tab.result
        BY <3>5 DEF Listed, SameVisit, SameShown
      <4>2. CASE tab' = tab
        BY <2>1, <4>2 DEF SameList
      <4>3. CASE tab'.progress = Append(tab.progress, [run |-> handler[c].run, step |-> Head(wire[c])])
        <5> DEFINE e == [run |-> handler[c].run, step |-> Head(wire[c])]
                   S == [run : Runs, step : Steps]
        <5>1. tab.progress \in Seq(S) /\ e.run = tab.run
          BY <2>0, <3>2, TabShape
        <5> HIDE DEF e, S
        <5>2. \A i \in DOMAIN Append(tab.progress, e) :
                \/ Append(tab.progress, e)[i] = e
                \/ (i \in DOMAIN tab.progress /\ Append(tab.progress, e)[i] = tab.progress[i])
          BY <5>1
        <5>3. tab'.progress = Append(tab.progress, e)
          BY <4>3 DEF e
        <5> QED
          BY <1>2, <4>1, <5>1, <5>2, <5>3 DEF OnlyCurrentRun
      <4> QED
        BY <3>5, <4>2, <4>3 DEF Listed
    <3> QED
      BY <3>1, <3>3, <3>4, <3>5
  <2>5. ASSUME NEW c \in Conns, Drop(c) PROVE OnlyCurrentRun'
    BY <1>2, <2>1, <2>5, DropBreaks DEF Breaks
  <2>6. CASE UNCHANGED tab
    BY <2>1, <2>6 DEF SameList
  <2>7. CASE Leaves \/ Visits
    BY <2>1, <2>7 DEF Leaves, Visits
  <2>8. ASSUME NEW c \in Conns, Serving(c) PROVE OnlyCurrentRun'
    BY <1>2, <2>6, <2>8, HandlerServes DEF ServesOnly
  <2> QED
    BY <1>2, <2>2, <2>3, <2>4, <2>5, <2>6, <2>7, <2>8,
       StartDials, MountDials, RetryDials, UnmountLeaves, MountVisits
       DEF Next, Serving, Publish, Expire, vars
<1> QED
  BY <1>1, <1>2, LinkInvHolds, PTL DEF Spec

-----------------------------------------------------------------------------
(* One verdict.                                                            *)

\* The part of OneAnswer that is about a connection.
Answers(c) == /\ up[c] /\ handler[c].phase # "gone" => tab.shown = 0 /\ Endings(c) = {}
              /\ \A i, j \in Endings(c) : tab.shown = 0 /\ i = j

\* Nothing is lost on the wire of a connection, or added, that could end it.
LEMMA SameAnswers ==
  ASSUME NEW c \in Conns, Answers(c), wire'[c] = wire[c], tab'.shown = tab.shown,
         up'[c] => up[c], handler'[c].phase # "gone" => handler[c].phase # "gone"
  PROVE  Answers(c)'
BY DEF Answers, Endings

LEMMA SilentAnswers ==
  ASSUME NEW c \in Conns, wire'[c] = <<>>, up'[c] => tab'.shown = 0
  PROVE  Answers(c)'
BY DEF Answers, Endings

LEMMA DialAnswers ==
  ASSUME LinkInv, NEW c \in Conns, Dials(c), tab'.shown = 0
  PROVE  OneAnswer'
<1>1. hook'.timer = NoRun
  BY DEF Dials
<1>2. ASSUME NEW d \in Conns PROVE wire'[d] = <<>>
  <2>1. hook.socket \in Conns \cup {NoConn}
    BY Shapes, HookShape DEF LinkInv
  <2> QED
    BY <2>1 DEF Dials, LinkInv, Linked
<1>3. ASSUME NEW d \in Conns PROVE Answers(d)'
  BY <1>2, <1>3, SilentAnswers
<1> QED
  BY <1>1, <1>3 DEF OneAnswer, Answers

LEMMA ServingAnswers ==
  ASSUME LinkInv, OneAnswer, NEW c \in Conns, Serving(c)
  PROVE  OneAnswer'
<1> USE DEF LinkInv
<1>1. ServesOnly(c) /\ (Opens(c) \/ Subscribes(c) \/ Forwards(c) \/ Refuses(c) \/ Concludes(c))
  BY HandlerServes
<1>2. UNCHANGED <<up, tab, hook>> /\ \A d \in Conns \ {c} : handler'[d] = handler[d] /\ wire'[d] = wire[d]
  BY <1>1 DEF ServesOnly
<1> SUFFICES ASSUME ~tab.cut, NEW d \in Conns PROVE Answers(d)'
  BY <1>2 DEF OneAnswer, Answers
<1>3. Answers(d)
  BY DEF OneAnswer, Answers
<1>4. CASE d # c
  BY <1>2, <1>3, <1>4, SameAnswers
<1>5. CASE d = c /\ ~up[c]
  <2>1. wire'[c] = wire[c]
    BY <1>1, <1>5 DEF Opens, Subscribes, Forwards, Refuses, Concludes, Sent
  <2> QED
    BY <1>2, <1>3, <1>5, <2>1 DEF Answers, Endings
<1>6. CASE d = c /\ up[c]
  <2>1. tab.shown = 0 /\ \A i \in DOMAIN wire[c] : wire[c][i] \notin Verdicts \cup {"1006", "4001"}
    BY <1>1, <1>3, <1>6 DEF ServesOnly, Answers, Endings
  <2>2. CASE wire'[c] = wire[c]
    BY <1>2, <1>6, <2>1, <2>2 DEF Answers, Endings
  <2>3. ASSUME NEW m \in Frames \ (Verdicts \cup {"1006", "4001"}), Sent(c, <<m>>) PROVE Answers(c)'
    <3>1. /\ DOMAIN wire'[c] = 1..(Len(wire[c]) + 1) /\ DOMAIN wire[c] = 1..Len(wire[c])
          /\ Len(wire[c]) \in Nat /\ wire'[c][Len(wire[c]) + 1] = m
          /\ \A i \in DOMAIN wire[c] : wire'[c][i] = wire[c][i]
      BY Zenon, <1>6, <2>3, SentOne
    <3>2. \A i \in DOMAIN wire'[c] : wire'[c][i] \notin Verdicts \cup {"1006", "4001"}
      BY <2>1, <2>3, <3>1
    <3> QED
      BY <1>2, <2>1, <3>2 DEF Answers, Endings
  <2>4. ASSUME NEW code \in {"4001", "1006"}, Sent(c, <<code>>), handler'[c].phase = "gone"
        PROVE  Answers(c)'
    <3>0. code \in Frames
      BY DEF Frames, Codes
    <3>1. /\ DOMAIN wire'[c] = 1..(Len(wire[c]) + 1) /\ DOMAIN wire[c] = 1..Len(wire[c])
          /\ Len(wire[c]) \in Nat /\ \A i \in DOMAIN wire[c] : wire'[c][i] = wire[c][i]
      BY Zenon, <1>6, <2>4, <3>0, SentOne
    <3>2. \A i \in DOMAIN wire'[c] :
            wire'[c][i] \in Verdicts \cup {"1006", "4001"} => i = Len(wire[c]) + 1
      BY <2>1, <3>1
    <3> QED
      BY <1>2, <2>1, <2>4, <3>2 DEF Answers, Endings
  <2>5. ASSUME NEW m \in Verdicts, Sent(c, <<m, "1000">>), handler'[c].phase = "gone"
        PROVE  Answers(c)'
    <3>1. m \in Frames /\ "1000" \in Frames /\ "1000" \notin Verdicts \cup {"1006", "4001"}
      BY FrameKinds DEF Frames, Messages, Codes, Verdicts
    <3>2. /\ DOMAIN wire'[c] = 1..(Len(wire[c]) + 2) /\ DOMAIN wire[c] = 1..Len(wire[c])
          /\ Len(wire[c]) \in Nat /\ \A i \in DOMAIN wire[c] : wire'[c][i] = wire[c][i]
          /\ wire'[c][Len(wire[c]) + 2] = "1000"
      BY Zenon, <1>6, <2>5, <3>1, SentTwo
    <3>3. \A i \in DOMAIN wire'[c] :
            wire'[c][i] \in Verdicts \cup {"1006", "4001"} => i = Len(wire[c]) + 1
      BY <2>1, <3>1, <3>2
    <3> QED
      BY <1>2, <2>1, <2>5, <3>3 DEF Answers, Endings
  <2>6. /\ "open" \in Frames \ (Verdicts \cup {"1006", "4001"})
        /\ Steps \subseteq Frames \ (Verdicts \cup {"1006", "4001"})
    BY FrameKinds DEF Frames, Messages, Codes, Verdicts
  <2> QED
    BY <1>1, <1>6, <2>2, <2>3, <2>4, <2>5, <2>6 DEF Opens, Subscribes, Forwards, Refuses, Concludes
<1> QED
  BY <1>4, <1>5, <1>6

LEMMA BrowserAnswers ==
  ASSUME LinkInv, OneAnswer, NEW c \in Conns, Browser(c)
  PROVE  OneAnswer'
<1> USE DEF LinkInv
<1>0. tab.shown \in 0..2 /\ hook.socket \in Conns \cup {NoConn}
  BY Shapes, TabShape, HookShape
<1>1. HandledOnly(c) /\ (Connected(c) \/ Listed(c) \/ Shown(c) \/ Hangs(c))
  BY FrameHandled
<1>2. /\ \A d \in Conns \ {c} : wire[d] = <<>> /\ wire'[d] = <<>> /\ ~up[d] /\ ~up'[d]
      /\ hook.timer = NoRun
  <2>1. c = hook.socket
    BY <1>0, <1>1 DEF HandledOnly, Linked
  <2> QED
    BY <1>1, <2>1 DEF HandledOnly, Linked, Connected, Listed, Shown, Hangs
<1>3. tab'.cut = tab.cut /\ handler' = handler /\ (up'[c] => up[c])
  BY <1>1 DEF HandledOnly, Connected, Listed, Shown, Hangs, Dismissed, Rescheduled, SameVisit
<1> SUFFICES ASSUME ~tab.cut
             PROVE  tab'.shown <= 1 /\ (hook'.timer # NoRun => tab'.shown = 0) /\ Answers(c)'
  <2>1. ASSUME NEW d \in Conns \ {c} PROVE Answers(d)'
    BY <1>2, SilentAnswers
  <2> QED
    BY <1>3, <2>1 DEF OneAnswer, Answers
<1>4. /\ tab.shown <= 1
      /\ up[c] /\ handler[c].phase # "gone" => tab.shown = 0 /\ Endings(c) = {}
      /\ \A i, j \in Endings(c) : tab.shown = 0 /\ i = j
  BY DEF OneAnswer
<1>5. /\ Len(wire[c]) \in Nat \ {0}
      /\ DOMAIN wire'[c] = 1..(Len(wire[c]) - 1) /\ DOMAIN wire[c] = 1..Len(wire[c])
      /\ \A i \in DOMAIN wire'[c] : i + 1 \in DOMAIN wire[c] /\ wire'[c][i] = wire[c][i + 1]
      /\ Head(wire[c]) = wire[c][1] /\ 1 \in DOMAIN wire[c]
  BY Zenon, <1>1, TailWire
<1>6. \A i \in DOMAIN wire'[c] : i \in Endings(c)' => i + 1 \in Endings(c)
  BY <1>5 DEF Endings
<1>7. CASE tab'.shown = tab.shown
  <2>1. \A i, j \in Endings(c)' : i \in Nat /\ j \in Nat /\ i = j
    <3> SUFFICES ASSUME NEW i \in Endings(c)', NEW j \in Endings(c)' PROVE i \in Nat /\ j \in Nat /\ i = j
      OBVIOUS
    <3>1. i \in DOMAIN wire'[c] /\ j \in DOMAIN wire'[c]
      BY DEF Endings
    <3>2. i + 1 = j + 1
      BY <1>4, <1>6, <3>1
    <3> QED
      BY <1>5, <3>1, <3>2
  <2>2. Endings(c)' # {} => Endings(c) # {}
    BY <1>6 DEF Endings
  <2>3. Answers(c)'
    BY <1>3, <1>4, <1>7, <2>1, <2>2 DEF Answers
  <2>4. hook'.timer # NoRun => tab'.shown = 0
    <3>1. CASE hook'.timer = NoRun
      BY <3>1
    <3>2. CASE hook'.timer # NoRun
      <4>1. Hangs(c) /\ Rescheduled(c)
        BY <1>1, <1>2, <3>2 DEF Connected, Listed, Shown, Hangs, Dismissed
      <4>2. 1 \in Endings(c)
        BY <1>5, <4>1 DEF Rescheduled, Endings
      <4> QED
        BY <1>4, <1>7, <4>2
    <3> QED
      BY <3>1, <3>2
  <2> QED
    BY <1>4, <1>7, <2>3, <2>4
<1>8. CASE Shown(c)
  <2>1. 1 \in Endings(c)
    BY <1>5, <1>8 DEF Shown, Endings
  <2>2. tab.shown = 0 /\ ~(up[c] /\ handler[c].phase # "gone")
    BY <1>4, <2>1
  <2>3. Endings(c)' = {}
    <3> SUFFICES ASSUME NEW i \in Endings(c)' PROVE FALSE
      OBVIOUS
    <3>1. i \in DOMAIN wire'[c] /\ i + 1 \in Endings(c)
      BY <1>6 DEF Endings
    <3>2. i + 1 = 1
      BY <1>4, <2>1, <3>1
    <3> QED
      BY <1>5, <3>1, <3>2
  <2>4. tab'.shown = 1 /\ hook'.timer = NoRun
    BY <1>2, <1>8, <2>2 DEF Shown
  <2> QED
    BY <1>3, <2>2, <2>3, <2>4 DEF Answers
<1>9. Shown(c) \/ tab'.shown = tab.shown
  BY <1>1 DEF Connected, Listed, Hangs, Dismissed, Rescheduled, SameShown
<1> QED
  BY <1>7, <1>8, <1>9

\* Unless a connection drops, the user is told one verdict per submission or visit,
\* though a run delivered twice may publish several: the handler ends with the
\* first, and a socket closed after one is not connected again.
THEOREM UserIsToldOnce == Spec => []OneVerdictShown
<1>1. Init => OneAnswer
  BY IdleTypes DEF Init, OneAnswer, Endings
<1>2. ASSUME LinkInv, OneAnswer, [Next]_vars PROVE OneAnswer'
  <2> USE DEF LinkInv
  <2>0. hook.socket \in Conns \cup {NoConn} /\ tab.shown \in 0..2
    BY <1>2, Shapes, HookShape, TabShape
  <2>1. ASSUME NEW c \in Conns, Dials(c), Starts \/ Returns PROVE OneAnswer'
    BY <1>2, <2>1, DialAnswers DEF Starts, Returns
  <2>2. ASSUME NEW c \in Conns, Dials(c), Redials PROVE OneAnswer'
    <3>1. CASE tab.cut
      BY <2>2, <3>1 DEF Redials, OneAnswer
    <3>2. CASE ~tab.cut
      BY <1>2, <2>2, <3>2, DialAnswers DEF Redials, OneAnswer
    <3> QED
      BY <3>1, <3>2
  <2>3. ASSUME NEW r \in Runs, NEW m \in Messages, Publish(r, m) PROVE OneAnswer'
    <3>1. UNCHANGED <<up, wire, tab, hook>>
      BY <2>3 DEF Publish
    <3>2. \A c \in Conns : handler'[c].phase = handler[c].phase
      BY <1>2, <2>3, PublishQueues
    <3> QED
      BY <1>2, <3>1, <3>2 DEF OneAnswer, Endings
  <2>4. ASSUME NEW c \in Conns, Drop(c) PROVE OneAnswer'
    BY <1>2, <2>4, DropBreaks DEF Breaks, OneAnswer
  <2>5. CASE Leaves
    <3> SUFFICES ASSUME ~tab'.cut PROVE OneAnswer'
      BY DEF OneAnswer
    <3>1. tab'.shown <= 1 /\ hook'.timer = NoRun
      BY <1>2, <2>5 DEF Leaves, OneAnswer
    <3>2. \A c \in Conns : ~up'[c] /\ wire'[c] = <<>>
      BY <1>2, <2>5 DEF Leaves, Linked
    <3> QED
      BY <3>1, <3>2 DEF OneAnswer, Endings
  <2>6. CASE Visits
    <3>1. hook.socket = NoConn
      BY <1>2, <2>6 DEF Visits, Linked
    <3>2. \A c \in Conns : ~up[c] /\ wire[c] = <<>>
      BY <1>2, <3>1, StreamAssumptions DEF Linked
    <3> QED
      BY <2>6, <3>2 DEF Visits, OneAnswer, Endings
  <2>7. CASE UNCHANGED <<handler, up, wire, tab, hook>>
    BY <1>2, <2>7 DEF OneAnswer, Endings
  <2> QED
    BY <1>2, <2>1, <2>2, <2>3, <2>4, <2>5, <2>6, <2>7, ServingAnswers, BrowserAnswers,
       StartDials, MountDials, RetryDials, UnmountLeaves, MountVisits
       DEF Next, Serving, Expire, vars
<1>3. OneAnswer => OneVerdictShown
  BY DEF OneAnswer, OneVerdictShown
<1> QED
  BY <1>1, <1>2, <1>3, LinkInvHolds, PTL DEF Spec


-----------------------------------------------------------------------------
(* Nothing is lost.                                                        *)

LEMMA HandlersOf ==
  ASSUME TypeOK, NEW c \in Conns
  PROVE  /\ handler[c].queue \in Seq(Messages) /\ Len(handler[c].queue) \in Nat
         /\ handler[c].since \in Nat /\ handler[c].run \in Runs \cup {NoRun}
         /\ handler[c].run \in Runs => /\ published[handler[c].run] \in Seq(Messages)
                                       /\ Len(published[handler[c].run]) \in Nat
<1>1. handler[c] \in Handler
  BY Shapes
<1>2. handler[c].queue \in Seq(Messages) /\ handler[c].since \in Nat /\ handler[c].run \in Runs \cup {NoRun}
  BY <1>1, HandlerShape
<1> QED
  BY <1>2 DEF TypeOK

\* What Complete says of a live handler, spelled out.
Whole(p, q, from, seen) ==
  /\ from <= Len(p) - Len(q)
  /\ \A i \in 1..Len(q) : q[i] = p[Len(p) - Len(q) + i]
  /\ \A k \in (from + 1)..(Len(p) - Len(q)) : p[k] \in Steps /\ p[k] \in seen

LEMMA CompleteIsWhole ==
  ASSUME NEW c \in Conns
  PROVE  Complete(c) <=> (handler[c].phase = "streaming" /\ up[c] =>
           Whole(published[handler[c].run], handler[c].queue, handler[c].since,
                 ToSet(wire[c]) \cup Displayed))
BY DEF Complete, Whole, Taken

LEMMA WholeAppend ==
  ASSUME NEW p \in Seq(Messages), NEW q \in Seq(Messages), NEW from \in Nat, NEW seen,
         NEW m \in Messages, Whole(p, q, from, seen)
  PROVE  Whole(Append(p, m), Append(q, m), from, seen)
<1> DEFINE p1 == Append(p, m)
           q1 == Append(q, m)
<1>1. /\ Len(p) \in Nat /\ Len(q) \in Nat /\ Len(p1) = Len(p) + 1 /\ Len(q1) = Len(q) + 1
      /\ \A i \in 1..Len(p) : p1[i] = p[i]
      /\ \A i \in 1..Len(q) : q1[i] = q[i]
      /\ p1[Len(p) + 1] = m /\ q1[Len(q) + 1] = m
  OBVIOUS
<1> HIDE DEF p1, q1
<1>2. /\ from <= Len(p) - Len(q) /\ Len(p1) - Len(q1) = Len(p) - Len(q)
      /\ \A i \in 1..Len(q) : q[i] = p[Len(p) - Len(q) + i]
      /\ \A k \in (from + 1)..(Len(p) - Len(q)) : p[k] \in Steps /\ p[k] \in seen
  BY <1>1 DEF Whole
<1>3. ASSUME NEW i \in 1..Len(q1) PROVE q1[i] = p1[Len(p1) - Len(q1) + i]
  <2>1. CASE i = Len(q1)
    <3>1. Len(p1) - Len(q1) + i = Len(p) + 1 /\ i = Len(q) + 1
      BY <1>1, <1>2, <2>1
    <3> QED
      BY <1>1, <3>1
  <2>2. CASE i # Len(q1)
    <3>1. i \in 1..Len(q) /\ Len(p) - Len(q) + i \in 1..Len(p)
      BY <1>1, <1>2, <2>2
    <3> QED
      BY <1>1, <1>2, <3>1
  <2> QED
    BY <2>1, <2>2
<1>4. ASSUME NEW k \in (from + 1)..(Len(p1) - Len(q1)) PROVE p1[k] \in Steps /\ p1[k] \in seen
  <2>1. k \in 1..Len(p) /\ k \in (from + 1)..(Len(p) - Len(q))
    BY <1>1, <1>2
  <2> QED
    BY <1>1, <1>2, <2>1
<1>5. Whole(p1, q1, from, seen)
  BY <1>1, <1>2, <1>3, <1>4 DEF Whole
<1> QED
  BY <1>5 DEF p1, q1

LEMMA WholeTail ==
  ASSUME NEW p \in Seq(Messages), NEW q \in Seq(Messages), NEW from \in Nat, NEW seen, NEW more,
         Whole(p, q, from, seen), q # <<>>, Head(q) \in Steps, Head(q) \in more, seen \subseteq more
  PROVE  Whole(p, Tail(q), from, more)
<1> DEFINE q1 == Tail(q)
<1>1. /\ Len(p) \in Nat /\ Len(q) \in Nat \ {0} /\ Len(q1) = Len(q) - 1
      /\ \A i \in 1..Len(q1) : q1[i] = q[i + 1]
      /\ q[1] \in Steps /\ q[1] \in more
  OBVIOUS
<1> HIDE DEF q1
<1>2. /\ from <= Len(p) - Len(q) /\ Len(p) - Len(q1) = Len(p) - Len(q) + 1
      /\ \A i \in 1..Len(q) : q[i] = p[Len(p) - Len(q) + i]
      /\ \A k \in (from + 1)..(Len(p) - Len(q)) : p[k] \in Steps /\ p[k] \in seen
  BY <1>1 DEF Whole
<1>3. ASSUME NEW i \in 1..Len(q1) PROVE q1[i] = p[Len(p) - Len(q1) + i]
  <2>1. i + 1 \in 1..Len(q) /\ Len(p) - Len(q) + (i + 1) = Len(p) - Len(q1) + i
    BY <1>1
  <2> QED
    BY <1>1, <1>2, <2>1
<1>4. ASSUME NEW k \in (from + 1)..(Len(p) - Len(q1)) PROVE p[k] \in Steps /\ p[k] \in more
  <2>1. CASE k = Len(p) - Len(q) + 1
    <3>1. p[k] = q[1]
      BY <1>1, <1>2, <2>1
    <3> QED
      BY <1>1, <3>1
  <2>2. CASE k # Len(p) - Len(q) + 1
    <3>1. k \in (from + 1)..(Len(p) - Len(q))
      BY <1>1, <1>2, <2>2
    <3> QED
      BY <1>2, <3>1
  <2> QED
    BY <2>1, <2>2
<1>5. Whole(p, q1, from, more)
  BY <1>1, <1>2, <1>3, <1>4 DEF Whole
<1> QED
  BY <1>5 DEF q1

\* Steps that stay where they are seen.
LEMMA WholeSeen ==
  ASSUME NEW p \in Seq(Messages), NEW q \in Seq(Messages), NEW from \in Nat, NEW seen, NEW more,
         Whole(p, q, from, seen), \A s \in Steps : s \in seen => s \in more
  PROVE  Whole(p, q, from, more)
BY DEF Whole

LEMMA WholeFrom ==
  ASSUME NEW p \in Seq(Messages), NEW seen
  PROVE  Whole(p, <<>>, Len(p), seen)
BY DEF Whole

\* The steps on the wire or on the display, after a frame was handled.
LEMMA HandledSeen ==
  ASSUME LinkInv, NEW c \in Conns, Browser(c), NEW s \in Steps, s \in ToSet(wire[c]) \cup Displayed
  PROVE  s \in (ToSet(wire[c]) \cup Displayed)'
<1> USE DEF LinkInv
<1>1. HandledOnly(c) /\ (Connected(c) \/ Listed(c) \/ Shown(c) \/ Hangs(c))
  BY FrameHandled
<1>2. /\ Len(wire[c]) \in Nat \ {0}
      /\ DOMAIN wire'[c] = 1..(Len(wire[c]) - 1) /\ DOMAIN wire[c] = 1..Len(wire[c])
      /\ \A i \in DOMAIN wire'[c] : i + 1 \in DOMAIN wire[c] /\ wire'[c][i] = wire[c][i + 1]
      /\ Head(wire[c]) = wire[c][1]
  BY Zenon, <1>1, TailWire
<1>3. s \in ToSet(wire[c]) => s = Head(wire[c]) \/ s \in ToSet(wire'[c])
  <2> SUFFICES ASSUME NEW i \in DOMAIN wire[c], s = wire[c][i], i # 1 PROVE s \in ToSet(wire'[c])
    BY <1>2 DEF ToSet
  <2>1. i - 1 \in DOMAIN wire'[c] /\ (i - 1) + 1 = i
    BY <1>2
  <2>2. s = wire'[c][i - 1]
    BY <1>2, <2>1
  <2> QED
    BY <2>1, <2>2 DEF ToSet
<1>4. CASE Listed(c)
  <2> DEFINE e == [run |-> handler[c].run, step |-> Head(wire[c])]
  <2>1. CASE tab' = tab /\ Head(wire[c]) \in Displayed
    BY <1>3, <2>1 DEF Displayed, StepsShown
  <2>2. CASE tab'.progress = Append(tab.progress, e)
    <3>1. tab \in Tab
      BY Shapes
    <3> DEFINE S == [run : Runs, step : Steps]
    <3>2. tab.progress \in Seq(S) /\ e.step = Head(wire[c])
      BY <3>1, TabShape
    <3> HIDE DEF e, S
    <3>3. /\ \A i \in DOMAIN tab.progress : i \in DOMAIN tab'.progress /\ tab'.progress[i] = tab.progress[i]
          /\ Len(tab.progress) + 1 \in DOMAIN tab'.progress
          /\ tab'.progress[Len(tab.progress) + 1] = e
      BY <2>2, <3>2
    <3>4. Head(wire[c]) \in Displayed' /\ \A x \in Displayed : x \in Displayed'
      BY <3>2, <3>3 DEF Displayed, StepsShown, ToSet
    <3> QED
      BY <1>3, <3>4
  <2> QED
    BY <1>4, <2>1, <2>2 DEF Listed
<1>5. CASE ~Listed(c)
  <2>1. Head(wire[c]) \notin Steps
    BY <1>1, <1>5, FrameKinds DEF Connected, Shown, Hangs
  <2>2. tab'.progress = tab.progress
    BY <1>1, <1>5 DEF Connected, Shown, Hangs, Dismissed, Rescheduled, SameList
  <2> QED
    BY <1>3, <2>1, <2>2 DEF Displayed, StepsShown
<1> QED
  BY <1>4, <1>5

LEMMA CompleteKept ==
  ASSUME LinkInv, \A d \in Conns : Complete(d), [Next]_vars, NEW c \in Conns
  PROVE  Complete(c)'
<1> USE DEF LinkInv
<1>0. /\ hook.socket \in Conns \cup {NoConn} /\ tab \in Tab
      /\ handler[c].phase # "gone" => handler[c].run \in Runs
  BY Shapes, HookShape, HandlersOf DEF Linked
<1>1. CASE ~(up'[c] /\ handler'[c].phase = "streaming")
  BY <1>1 DEF Complete
<1>2. CASE up'[c] = up[c] /\ wire'[c] = wire[c] /\ handler'[c] = handler[c] /\ UNCHANGED published
           /\ tab'.progress = tab.progress
  <2>1. Displayed' = Displayed
    BY <1>2 DEF Displayed, StepsShown
  <2>2. ToSet(wire'[c]) = ToSet(wire[c])
    BY <1>2
  <2>3. Complete(c)
    OBVIOUS
  <2> QED
    BY <1>2, <2>1, <2>2, <2>3 DEF Complete, Taken
<1>3. ASSUME NEW d \in Conns, Dials(d) PROVE Complete(c)'
  <2>1. CASE c = d
    BY <1>1, <1>3, <2>1 DEF Dials
  <2>2. CASE c # d
    <3>1. ~up'[c]
      BY <1>0, <1>3, <2>2 DEF Dials, Linked
    <3> QED
      BY <1>1, <3>1
  <2> QED
    BY <2>1, <2>2
<1>4. ASSUME NEW r \in Runs, NEW m \in Messages, Publish(r, m) PROVE Complete(c)'
  <2> SUFFICES ASSUME up'[c], handler'[c].phase = "streaming" PROVE Complete(c)'
    BY <1>1
  <2>1. UNCHANGED <<up, wire, tab, hook>>
    BY <1>4 DEF Publish
  <2>2. /\ handler'[c].phase = handler[c].phase /\ handler'[c].run = handler[c].run
        /\ handler'[c].since = handler[c].since
        /\ handler'[c].queue = IF handler[c].phase = "streaming" /\ handler[c].run = r
                               THEN Append(handler[c].queue, m) ELSE handler[c].queue
        /\ published'[r] = Append(published[r], m)
        /\ \A q \in Runs \ {r} : published'[q] = published[q]
    BY <1>4, PublishQueues
  <2>3. /\ handler[c].run \in Runs /\ published[handler[c].run] \in Seq(Messages)
        /\ handler[c].queue \in Seq(Messages) /\ handler[c].since \in Nat
    BY <1>0, <2>2, HandlersOf
  <2>4. Whole(published[handler[c].run], handler[c].queue, handler[c].since,
              ToSet(wire[c]) \cup Displayed)
    BY <2>1, <2>2, CompleteIsWhole
  <2>5. (ToSet(wire[c]) \cup Displayed)' = ToSet(wire[c]) \cup Displayed
    BY <2>1 DEF Displayed, StepsShown
  <2> DEFINE seen == ToSet(wire[c]) \cup Displayed
  <2>6. Whole(published'[handler[c].run], handler'[c].queue, handler[c].since, seen)
    <3> HIDE DEF seen
    <3>1. CASE handler[c].run = r
      <4>1. handler'[c].queue = Append(handler[c].queue, m)
        BY <2>2, <3>1
      <4>2. published'[handler[c].run] = Append(published[handler[c].run], m)
        BY <2>2, <3>1
      <4>3. Whole(published[handler[c].run], handler[c].queue, handler[c].since, seen)
        BY <2>4 DEF seen
      <4>4. Whole(Append(published[handler[c].run], m), Append(handler[c].queue, m),
                  handler[c].since, seen)
        BY <2>3, <4>3, WholeAppend
      <4> QED
        BY <4>1, <4>2, <4>4
    <3>2. CASE handler[c].run # r
      <4>1. handler'[c].queue = handler[c].queue
        BY <2>2, <3>2
      <4>2. published'[handler[c].run] = published[handler[c].run]
        BY <2>2, <2>3, <3>2
      <4> QED
        BY <2>4, <4>1, <4>2 DEF seen
    <3> QED
      BY <3>1, <3>2
  <2> QED
    BY <2>2, <2>5, <2>6 DEF Complete, Taken, Whole
<1>5. ASSUME NEW d \in Conns, Serving(d) PROVE Complete(c)'
  <2>1. ServesOnly(d) /\ (Opens(d) \/ Subscribes(d) \/ Forwards(d) \/ Refuses(d) \/ Concludes(d))
    BY <1>5, HandlerServes
  <2>2. UNCHANGED <<published, up, tab>>
    BY <2>1 DEF ServesOnly
  <2>3. CASE d # c
    BY <1>2, <2>1, <2>2, <2>3 DEF ServesOnly
  <2>4. CASE d = c
    <3> SUFFICES ASSUME up[c], handler'[c].phase = "streaming" PROVE Complete(c)'
      BY <1>1, <2>2
    <3>1. handler'[c].run = handler[c].run /\ handler[c].run \in Runs
      BY <1>0, <2>1, <2>4 DEF ServesOnly
    <3>2. /\ published[handler[c].run] \in Seq(Messages)
          /\ handler[c].queue \in Seq(Messages) /\ handler[c].since \in Nat
      BY <3>1, HandlersOf
    <3>3. CASE Subscribes(c)
      <4>1. handler'[c].queue = <<>> /\ handler'[c].since = Len(published[handler[c].run])
        BY <3>3 DEF Subscribes, Linked
      <4>2. Whole(published'[handler'[c].run], handler'[c].queue, handler'[c].since,
                  (ToSet(wire[c]) \cup Displayed)')
        BY <2>2, <3>1, <3>2, <4>1, WholeFrom
      <4> QED
        BY <4>2 DEF Complete, Taken, Whole
    <3>4. CASE Forwards(c)
      <4> DEFINE m == Head(handler[c].queue)
                 seen == ToSet(wire[c]) \cup Displayed
                 more == (ToSet(wire[c]) \cup Displayed)'
      <4>1. /\ handler[c].queue # <<>> /\ handler'[c].queue = Tail(handler[c].queue)
            /\ handler'[c].since = handler[c].since /\ m \in Steps /\ Sent(c, <<m>>)
            /\ handler[c].phase = "streaming"
        BY <3>4 DEF Forwards
      <4>2. Whole(published[handler[c].run], handler[c].queue, handler[c].since, seen)
        BY <4>1, CompleteIsWhole
      <4>3. m \in Frames
        BY <4>1 DEF Frames, Messages
      <4>4. /\ DOMAIN wire'[c] = 1..(Len(wire[c]) + 1) /\ DOMAIN wire[c] = 1..Len(wire[c])
            /\ Len(wire[c]) \in Nat /\ wire'[c][Len(wire[c]) + 1] = m
            /\ \A i \in DOMAIN wire[c] : wire'[c][i] = wire[c][i]
        BY Zenon, <4>1, <4>3, SentOne
      <4>5. m \in ToSet(wire'[c]) /\ ToSet(wire[c]) \subseteq ToSet(wire'[c])
        BY <4>4 DEF ToSet
      <4>6. Displayed' = Displayed
        BY <2>2 DEF Displayed, StepsShown
      <4>7. m \in more /\ seen \subseteq more
        BY <4>5, <4>6
      <4> HIDE DEF seen, more
      <4>8. Whole(published[handler[c].run], Tail(handler[c].queue), handler[c].since, more)
        BY <3>2, <4>1, <4>2, <4>7, WholeTail DEF m
      <4> QED
        BY <2>2, <3>1, <4>1, <4>8 DEF Complete, Taken, Whole, more
    <3> QED
      BY <2>1, <2>4, <3>3, <3>4 DEF Opens, Refuses, Concludes
  <2> QED
    BY <2>3, <2>4
<1>6. ASSUME NEW d \in Conns, Drop(d) PROVE Complete(c)'
  <2>1. Breaks(d)
    BY <1>6, DropBreaks
  <2>2. CASE d = c
    BY <1>1, <2>1, <2>2 DEF Breaks, TypeOK
  <2>3. CASE d # c
    BY <1>2, <2>1, <2>3 DEF Breaks, TypeOK, SameList
  <2> QED
    BY <2>2, <2>3
<1>7. ASSUME NEW d \in Conns, Browser(d) PROVE Complete(c)'
  <2>1. HandledOnly(d) /\ (Connected(d) \/ Listed(d) \/ Shown(d) \/ Hangs(d))
    BY <1>7, FrameHandled
  <2>2. CASE d # c
    <3>1. d = hook.socket
      BY <1>0, <2>1 DEF HandledOnly, Linked
    <3>2. ~up[c] /\ up'[c] = up[c]
      BY <2>1, <2>2, <3>1 DEF Linked, Connected, Listed, Shown, Hangs
    <3> QED
      BY <1>1, <3>2
  <2>3. CASE d = c
    <3> SUFFICES ASSUME up'[c], handler'[c].phase = "streaming" PROVE Complete(c)'
      BY <1>1
    <3>1. up[c] /\ UNCHANGED <<published, handler>>
      BY <2>1, <2>3 DEF HandledOnly, Connected, Listed, Shown, Hangs
    <3>2. /\ published[handler[c].run] \in Seq(Messages) /\ handler[c].run \in Runs
          /\ handler[c].queue \in Seq(Messages) /\ handler[c].since \in Nat
      BY <1>0, <3>1, HandlersOf
    <3> DEFINE seen == ToSet(wire[c]) \cup Displayed
               more == (ToSet(wire[c]) \cup Displayed)'
    <3>3. Whole(published[handler[c].run], handler[c].queue, handler[c].since, seen)
      BY <3>1, CompleteIsWhole
    <3>4. \A s \in Steps : s \in seen => s \in more
      BY <1>7, <2>3, HandledSeen
    <3> HIDE DEF seen, more
    <3>5. Whole(published[handler[c].run], handler[c].queue, handler[c].since, more)
      BY <3>2, <3>3, <3>4, WholeSeen
    <3> QED
      BY <3>1, <3>5 DEF Complete, Taken, Whole, more
  <2> QED
    BY <2>2, <2>3
<1>8. CASE Leaves
  <2>1. ~up'[c]
    BY <1>0, <1>8 DEF Leaves, Linked
  <2> QED
    BY <1>1, <2>1
<1>9. CASE Visits
  BY <1>2, <1>9 DEF Visits, SameList
<1>10. CASE UNCHANGED <<published, handler, up, wire, tab>>
  BY <1>2, <1>10
<1> QED
  BY <1>3, <1>4, <1>5, <1>6, <1>7, <1>8, <1>9, <1>10,
     StartDials, MountDials, RetryDials, UnmountLeaves, MountVisits
     DEF Next, Serving, Expire, vars


\* The end of the channel, as LosesNothing says it.
LEMMA SuffixByIndex ==
  ASSUME NEW S, NEW s \in Seq(S), NEW t \in Seq(S), Len(s) <= Len(t),
         \A i \in 1..Len(s) : s[i] = t[Len(t) - Len(s) + i]
  PROVE  IsSuffix(s, t)
<1> DEFINE a == Reverse(s)
           b == Reverse(t)
<1>1. /\ a \in Seq(S) /\ Len(a) = Len(s) /\ Len(s) \in Nat
      /\ \A i \in 1..Len(s) : a[i] = s[Len(s) - i + 1]
  BY DEF Reverse
<1>2. /\ b \in Seq(S) /\ Len(b) = Len(t) /\ Len(t) \in Nat
      /\ \A i \in 1..Len(t) : b[i] = t[Len(t) - i + 1]
  BY DEF Reverse
<1> HIDE DEF a, b
<1>3. ASSUME NEW i \in 1..Len(s) PROVE a[i] = b[i]
  <2>1. Len(s) - i + 1 \in 1..Len(s) /\ i \in 1..Len(t)
    BY <1>1, <1>2
  <2>2. Len(t) - Len(s) + (Len(s) - i + 1) = Len(t) - i + 1
    BY <1>1, <1>2
  <2> QED
    BY <1>1, <1>2, <2>1, <2>2
<1>4. SubSeq(a, 1, Len(a)) = SubSeq(b, 1, Len(a))
  <2> DEFINE x == SubSeq(a, 1, Len(a))
             y == SubSeq(b, 1, Len(a))
  <2>1. /\ x \in Seq(S) /\ Len(x) = Len(s) /\ \A i \in 1..Len(s) : x[i] = a[i]
        /\ y \in Seq(S) /\ Len(y) = Len(s) /\ \A i \in 1..Len(s) : y[i] = b[i]
    BY <1>1, <1>2
  <2> HIDE DEF x, y
  <2>2. x = y
    BY <1>3, <2>1
  <2> QED
    BY <2>2 DEF x, y
<1>5. IsPrefix(a, b)
  BY <1>1, <1>2, <1>4 DEF IsPrefix
<1> QED
  BY <1>5 DEF IsSuffix, a, b

LEMMA WholeLosesNothing ==
  ASSUME NEW p \in Seq(Messages), NEW q \in Seq(Messages), NEW from \in Nat, NEW seen,
         Whole(p, q, from, seen)
  PROVE  LET all  == SubSeq(p, from + 1, Len(p))
             done == SubSeq(all, 1, Len(all) - Len(q))
         IN  IsSuffix(q, all) /\ \A i \in DOMAIN done : done[i] \in Steps /\ done[i] \in seen
<1> DEFINE all == SubSeq(p, from + 1, Len(p))
           done == SubSeq(all, 1, Len(all) - Len(q))
<1>1. /\ Len(p) \in Nat /\ Len(q) \in Nat /\ from <= Len(p) - Len(q)
      /\ \A i \in 1..Len(q) : q[i] = p[Len(p) - Len(q) + i]
      /\ \A k \in (from + 1)..(Len(p) - Len(q)) : p[k] \in Steps /\ p[k] \in seen
  BY DEF Whole
<1>2. /\ all \in Seq(Messages) /\ Len(all) = Len(p) - from
      /\ \A i \in 1..(Len(p) - from) : all[i] = p[from + i]
  BY <1>1
<1> HIDE DEF all
<1>3. IsSuffix(q, all)
  <2>1. Len(q) <= Len(all)
    BY <1>1, <1>2
  <2>2. ASSUME NEW i \in 1..Len(q) PROVE q[i] = all[Len(all) - Len(q) + i]
    <3>1. /\ Len(all) - Len(q) + i \in 1..(Len(p) - from)
          /\ from + (Len(all) - Len(q) + i) = Len(p) - Len(q) + i
      BY <1>1, <1>2
    <3> QED
      BY <1>1, <1>2, <3>1
  <2> QED
    BY <1>2, <2>1, <2>2, SuffixByIndex
<1>4. ASSUME NEW i \in DOMAIN done PROVE done[i] \in Steps /\ done[i] \in seen
  <2>1. DOMAIN done = 1..(Len(all) - Len(q)) /\ \A j \in 1..(Len(all) - Len(q)) : done[j] = all[j]
    BY <1>1, <1>2
  <2>2. i \in 1..(Len(p) - from) /\ from + i \in (from + 1)..(Len(p) - Len(q)) /\ done[i] = p[from + i]
    <3>1. i \in 1..(Len(all) - Len(q)) /\ done[i] = all[i]
      BY <2>1
    <3>2. i \in 1..(Len(p) - from) /\ from + i \in (from + 1)..(Len(p) - Len(q))
      BY <1>1, <1>2, <3>1
    <3> QED
      BY <1>2, <3>1, <3>2
  <2> QED
    BY <1>1, <2>2
<1> QED
  BY <1>3, <1>4 DEF all

StreamInv == LinkInv /\ \A c \in Conns : Complete(c)

LEMMA StreamInvHolds == Spec => []StreamInv
<1>1. Init => \A c \in Conns : Complete(c)
  BY DEF Init, Complete
<1>2. LinkInv /\ (\A c \in Conns : Complete(c)) /\ [Next]_vars => (\A c \in Conns : Complete(c))'
  BY CompleteKept
<1> QED
  BY <1>1, <1>2, LinkInvHolds, PTL DEF Spec, StreamInv

\* From its subscription on, a handler whose client is connected loses nothing: what
\* was published is still queued, on the wire or on the display, and a verdict is not
\* passed over, whatever else the gateway and the browser do in between.
THEOREM HandlersLoseNothing == Spec => []LosesNothing
<1>1. StreamInv => LosesNothing
  <2> SUFFICES ASSUME StreamInv, NEW c \in Conns, handler[c].phase = "streaming", up[c]
               PROVE  LET all  == SubSeq(published[handler[c].run], handler[c].since + 1,
                                         Len(published[handler[c].run]))
                          done == SubSeq(all, 1, Len(all) - Len(handler[c].queue))
                      IN  /\ IsSuffix(handler[c].queue, all)
                          /\ \A i \in DOMAIN done :
                               /\ done[i] \in Steps
                               /\ done[i] \in ToSet(wire[c]) \cup ToSet(StepsShown)
    BY DEF LosesNothing
  <2> DEFINE seen == ToSet(wire[c]) \cup ToSet(StepsShown)
  <2>1. /\ handler[c].queue \in Seq(Messages) /\ handler[c].since \in Nat
        /\ published[handler[c].run] \in Seq(Messages)
    BY HandlersOf DEF StreamInv, LinkInv, Linked
  <2>2. Whole(published[handler[c].run], handler[c].queue, handler[c].since, seen)
    BY CompleteIsWhole DEF StreamInv, Displayed
  <2> HIDE DEF seen
  <2>3. LET all  == SubSeq(published[handler[c].run], handler[c].since + 1,
                           Len(published[handler[c].run]))
            done == SubSeq(all, 1, Len(all) - Len(handler[c].queue))
        IN  IsSuffix(handler[c].queue, all) /\ \A i \in DOMAIN done : done[i] \in Steps /\ done[i] \in seen
    BY <2>1, <2>2, WholeLosesNothing
  <2> QED
    BY <2>3 DEF seen
<1> QED
  BY <1>1, StreamInvHolds, PTL


-----------------------------------------------------------------------------
(* The order of the display.                                               *)

LEMMA TraceOfNothing ==
  ASSUME NEW p, NEW n \in Nat
  PROVE  Trace(<<>>, <<>>, p, n)
<1> DEFINE e == [i \in {} |-> 1]
<1>1. DOMAIN <<>> = {}
  OBVIOUS
<1>2. Traces(e, e, <<>>, <<>>, p, n)
  BY <1>1 DEF Traces
<1> QED
  BY <1>2 DEF Trace

\* The channel grows, or more of it has been reached.
LEMMA TraceFurther ==
  ASSUME NEW s, NEW w, NEW p, NEW p1, NEW n \in Nat, NEW n1 \in Nat, n <= n1,
         \A i \in 1..n : p1[i] = p[i], Trace(s, w, p, n)
  PROVE  Trace(s, w, p1, n1)
<1>1. PICK f, g : Traces(f, g, s, w, p, n)
  BY DEF Trace
<1>2. /\ f \in [DOMAIN s -> 1..n] /\ g \in [DOMAIN w -> 0..n]
      /\ \A i \in DOMAIN s : s[i] = p[f[i]]
      /\ \A k \in DOMAIN w : w[k] \in Steps => g[k] # 0 /\ w[k] = p[g[k]]
  BY <1>1 DEF Traces
<1>3. f \in [DOMAIN s -> 1..n1] /\ g \in [DOMAIN w -> 0..n1]
  BY <1>2
<1>4. \A i \in DOMAIN s : s[i] = p1[f[i]]
  BY <1>2
<1>5. \A k \in DOMAIN w : w[k] \in Steps => g[k] # 0 /\ w[k] = p1[g[k]]
  BY <1>2
<1>6. Traces(f, g, s, w, p1, n1)
  BY <1>1, <1>3, <1>4, <1>5 DEF Traces
<1> QED
  BY <1>6 DEF Trace

\* What is on the wire is gone.
LEMMA TraceCut ==
  ASSUME NEW s, NEW w, NEW w1, NEW p, NEW n \in Nat, \A k \in DOMAIN w1 : w1[k] \notin Steps,
         Trace(s, w, p, n)
  PROVE  Trace(s, w1, p, n)
<1>1. PICK f, g : Traces(f, g, s, w, p, n)
  BY DEF Trace
<1>2. Traces(f, [k \in DOMAIN w1 |-> 0], s, w1, p, n)
  BY <1>1 DEF Traces
<1> QED
  BY <1>2 DEF Trace

\* A frame that is no step joins the wire.
LEMMA TraceFrame ==
  ASSUME NEW s, NEW w \in Seq(Frames), NEW m \in Frames \ Steps, NEW p, NEW n \in Nat,
         Trace(s, w, p, n)
  PROVE  Trace(s, Append(w, m), p, n)
<1>1. PICK f, g : Traces(f, g, s, w, p, n)
  BY DEF Trace
<1> DEFINE w1 == Append(w, m)
           g1 == [k \in DOMAIN w1 |-> IF k \in DOMAIN w THEN g[k] ELSE 0]
<1>2. /\ \A k \in DOMAIN w : k \in DOMAIN w1 /\ w1[k] = w[k]
      /\ \A k \in DOMAIN w1 : k \in DOMAIN w \/ w1[k] = m
      /\ m \notin Steps
  OBVIOUS
<1> HIDE DEF w1
<1>3. /\ \A k \in DOMAIN w1 : w1[k] \in Steps => k \in DOMAIN w /\ w1[k] = w[k] /\ g1[k] = g[k]
      /\ g1 \in [DOMAIN w1 -> 0..n]
  BY <1>1, <1>2 DEF Traces
<1> HIDE DEF g1
<1>4. Traces(f, g1, s, w1, p, n)
  BY <1>1, <1>3 DEF Traces
<1> QED
  BY <1>4 DEF Trace, w1

\* The next step of the channel joins the wire.
LEMMA TraceStep ==
  ASSUME NEW s, NEW w \in Seq(Frames), NEW p, NEW n \in Nat, p[n + 1] \in Steps,
         Trace(s, w, p, n)
  PROVE  Trace(s, Append(w, p[n + 1]), p, n + 1)
<1>1. PICK f, g : Traces(f, g, s, w, p, n)
  BY DEF Trace
<1> DEFINE w1 == Append(w, p[n + 1])
           g1 == [k \in DOMAIN w1 |-> IF k \in DOMAIN w THEN g[k] ELSE n + 1]
<1>2. /\ \A k \in DOMAIN w : k \in DOMAIN w1 /\ w1[k] = w[k]
      /\ \A k \in DOMAIN w1 : k \in DOMAIN w \/ w1[k] = p[n + 1]
      /\ \A j, k \in DOMAIN w1 : j < k => j \in DOMAIN w
      /\ \A j, k \in DOMAIN w1 : k \notin DOMAIN w => j = k \/ j < k
  <2>1. /\ DOMAIN w = 1..Len(w) /\ DOMAIN w1 = 1..(Len(w) + 1) /\ Len(w) \in Nat
        /\ \A k \in 1..Len(w) : w1[k] = w[k]
        /\ w1[Len(w) + 1] = p[n + 1]
    OBVIOUS
  <2> HIDE DEF w1
  <2> QED
    BY <2>1
<1> HIDE DEF w1
<1>3. /\ f \in [DOMAIN s -> 1..n] /\ g \in [DOMAIN w -> 0..n]
      /\ \A i \in DOMAIN s : s[i] = p[f[i]]
      /\ \A i, j \in DOMAIN s : i < j => f[i] < f[j]
      /\ \A k \in DOMAIN w : w[k] \in Steps => g[k] # 0 /\ w[k] = p[g[k]]
      /\ \A i \in DOMAIN s, k \in DOMAIN w : w[k] \in Steps => f[i] < g[k]
      /\ \A j, k \in DOMAIN w : w[j] \in Steps /\ w[k] \in Steps /\ j < k => g[j] < g[k]
  BY <1>1 DEF Traces
<1>4. /\ \A k \in DOMAIN w : g1[k] = g[k]
      /\ \A k \in DOMAIN w1 : k \notin DOMAIN w => g1[k] = n + 1
  BY <1>2
<1>5. /\ f \in [DOMAIN s -> 1..(n + 1)]
      /\ \A k \in DOMAIN w : g[k] \in 0..(n + 1) /\ g[k] < n + 1
      /\ n + 1 \in 0..(n + 1) /\ n + 1 # 0
  BY <1>3
<1>6. g1 \in [DOMAIN w1 -> 0..(n + 1)]
  BY <1>2, <1>5
<1> HIDE DEF g1
<1>7. \A k \in DOMAIN w1 : w1[k] \in Steps => g1[k] # 0 /\ w1[k] = p[g1[k]]
  <2> SUFFICES ASSUME NEW k \in DOMAIN w1, w1[k] \in Steps PROVE g1[k] # 0 /\ w1[k] = p[g1[k]]
    OBVIOUS
  <2>1. CASE k \in DOMAIN w
    BY <1>2, <1>3, <1>4, <2>1
  <2>2. CASE k \notin DOMAIN w
    <3>1. g1[k] = n + 1 /\ w1[k] = p[n + 1]
      BY <1>2, <1>4, <2>2
    <3> QED
      BY <1>5, <3>1
  <2> QED
    BY <2>1, <2>2
<1>8. \A i \in DOMAIN s, k \in DOMAIN w1 : w1[k] \in Steps => f[i] < g1[k]
  <2> SUFFICES ASSUME NEW i \in DOMAIN s, NEW k \in DOMAIN w1, w1[k] \in Steps
               PROVE  f[i] < g1[k]
    OBVIOUS
  <2>1. CASE k \in DOMAIN w
    BY <1>2, <1>3, <1>4, <2>1
  <2>2. CASE k \notin DOMAIN w
    BY <1>3, <1>4, <2>2
  <2> QED
    BY <2>1, <2>2
<1>9. \A j, k \in DOMAIN w1 : w1[j] \in Steps /\ w1[k] \in Steps /\ j < k => g1[j] < g1[k]
  <2> SUFFICES ASSUME NEW j \in DOMAIN w1, NEW k \in DOMAIN w1,
                      w1[j] \in Steps, w1[k] \in Steps, j < k
               PROVE  g1[j] < g1[k]
    OBVIOUS
  <2>0. j \in DOMAIN w
    BY <1>2
  <2>1. CASE k \in DOMAIN w
    BY <1>2, <1>3, <1>4, <2>0, <2>1
  <2>2. CASE k \notin DOMAIN w
    <3>1. g1[k] = n + 1 /\ g1[j] = g[j]
      BY <1>4, <2>0, <2>2
    <3> QED
      BY <1>5, <2>0, <3>1
  <2> QED
    BY <2>1, <2>2
<1>10. Traces(f, g1, s, w1, p, n + 1)
  BY <1>3, <1>5, <1>6, <1>7, <1>8, <1>9 DEF Traces
<1> QED
  BY <1>10 DEF Trace, w1

\* The first frame is taken off the wire; if it is a step, it may be displayed.
LEMMA TraceTaken ==
  ASSUME NEW s, NEW w \in Seq(Frames), w # <<>>, NEW p, NEW n \in Nat, Trace(s, w, p, n)
  PROVE  Trace(s, Tail(w), p, n)
<1>1. PICK f, g : Traces(f, g, s, w, p, n)
  BY DEF Trace
<1> DEFINE w1 == Tail(w)
           g1 == [k \in DOMAIN w1 |-> g[k + 1]]
<1>2. /\ \A k \in DOMAIN w1 : k + 1 \in DOMAIN w /\ w1[k] = w[k + 1]
      /\ \A j, k \in DOMAIN w1 : j < k => j + 1 < k + 1
  <2>1. /\ DOMAIN w = 1..Len(w) /\ DOMAIN w1 = 1..(Len(w) - 1) /\ Len(w) \in Nat
        /\ \A k \in 1..(Len(w) - 1) : w1[k] = w[k + 1]
    OBVIOUS
  <2> HIDE DEF w1
  <2> QED
    BY <2>1
<1> HIDE DEF w1
<1>3. g1 \in [DOMAIN w1 -> 0..n] /\ \A k \in DOMAIN w1 : g1[k] = g[k + 1]
  BY <1>1, <1>2 DEF Traces
<1> HIDE DEF g1
<1>4. Traces(f, g1, s, w1, p, n)
  BY <1>1, <1>2, <1>3 DEF Traces
<1> QED
  BY <1>4 DEF Trace, w1

LEMMA TraceListed ==
  ASSUME NEW s \in Seq(Steps), NEW w \in Seq(Frames), w # <<>>, Head(w) \in Steps,
         NEW p, NEW n \in Nat, Trace(s, w, p, n)
  PROVE  Trace(Append(s, Head(w)), Tail(w), p, n)
<1>1. PICK f, g : Traces(f, g, s, w, p, n)
  BY DEF Trace
<1> DEFINE w1 == Tail(w)
           s1 == Append(s, Head(w))
           f1 == [i \in DOMAIN s1 |-> IF i \in DOMAIN s THEN f[i] ELSE g[1]]
           g1 == [k \in DOMAIN w1 |-> g[k + 1]]
<1>2. /\ 1 \in DOMAIN w /\ w[1] \in Steps
      /\ \A k \in DOMAIN w1 : k + 1 \in DOMAIN w /\ w1[k] = w[k + 1] /\ 1 < k + 1
      /\ \A j, k \in DOMAIN w1 : j < k => j + 1 < k + 1
  <2>1. /\ DOMAIN w = 1..Len(w) /\ DOMAIN w1 = 1..(Len(w) - 1) /\ Len(w) \in Nat \ {0}
        /\ \A k \in 1..(Len(w) - 1) : w1[k] = w[k + 1]
        /\ w[1] \in Steps
    OBVIOUS
  <2> HIDE DEF w1
  <2> QED
    BY <2>1
<1>3. /\ \A i \in DOMAIN s : s1[i] = s[i] /\ i \in DOMAIN s1
      /\ \A i \in DOMAIN s1 : i \notin DOMAIN s => s1[i] = w[1]
      /\ \A i, j \in DOMAIN s1 : i < j => i \in DOMAIN s
  <2>1. /\ DOMAIN s = 1..Len(s) /\ DOMAIN s1 = 1..(Len(s) + 1) /\ Len(s) \in Nat
        /\ \A i \in 1..Len(s) : s1[i] = s[i]
        /\ s1[Len(s) + 1] = w[1]
    OBVIOUS
  <2> HIDE DEF s1
  <2> QED
    BY <2>1
<1> HIDE DEF w1, s1
<1>4. /\ f \in [DOMAIN s -> 1..n] /\ g \in [DOMAIN w -> 0..n]
      /\ \A i \in DOMAIN s : s[i] = p[f[i]]
      /\ \A i, j \in DOMAIN s : i < j => f[i] < f[j]
      /\ \A k \in DOMAIN w : w[k] \in Steps => g[k] # 0 /\ w[k] = p[g[k]]
      /\ \A i \in DOMAIN s, k \in DOMAIN w : w[k] \in Steps => f[i] < g[k]
      /\ \A j, k \in DOMAIN w : w[j] \in Steps /\ w[k] \in Steps /\ j < k => g[j] < g[k]
  BY <1>1 DEF Traces
<1>5. g1 \in [DOMAIN w1 -> 0..n] /\ \A k \in DOMAIN w1 : g1[k] = g[k + 1]
  BY <1>2, <1>4
<1>6. /\ f1 \in [DOMAIN s1 -> 1..n]
      /\ \A i \in DOMAIN s : f1[i] = f[i]
      /\ \A i \in DOMAIN s1 : i \notin DOMAIN s => f1[i] = g[1]
  <2>1. g[1] \in 1..n
    BY <1>2, <1>4
  <2> QED
    BY <1>3, <1>4, <2>1
<1> HIDE DEF f1, g1
<1>7. \A i \in DOMAIN s1 : s1[i] = p[f1[i]]
  BY <1>2, <1>3, <1>4, <1>6
<1>8. \A i, j \in DOMAIN s1 : i < j => f1[i] < f1[j]
  <2> SUFFICES ASSUME NEW i \in DOMAIN s1, NEW j \in DOMAIN s1, i < j PROVE f1[i] < f1[j]
    OBVIOUS
  <2>1. i \in DOMAIN s
    BY <1>3
  <2>2. CASE j \in DOMAIN s
    BY <1>4, <1>6, <2>1, <2>2
  <2>3. CASE j \notin DOMAIN s
    BY <1>2, <1>4, <1>6, <2>1, <2>3
  <2> QED
    BY <2>2, <2>3
<1>9. \A k \in DOMAIN w1 : w1[k] \in Steps => g1[k] # 0 /\ w1[k] = p[g1[k]]
  BY <1>2, <1>4, <1>5
<1>10. \A i \in DOMAIN s1, k \in DOMAIN w1 : w1[k] \in Steps => f1[i] < g1[k]
  <2> SUFFICES ASSUME NEW i \in DOMAIN s1, NEW k \in DOMAIN w1, w1[k] \in Steps
               PROVE  f1[i] < g1[k]
    OBVIOUS
  <2>1. CASE i \in DOMAIN s
    BY <1>2, <1>4, <1>5, <1>6, <2>1
  <2>2. CASE i \notin DOMAIN s
    BY <1>2, <1>4, <1>5, <1>6, <2>2
  <2> QED
    BY <2>1, <2>2
<1>11. \A j, k \in DOMAIN w1 : w1[j] \in Steps /\ w1[k] \in Steps /\ j < k => g1[j] < g1[k]
  BY <1>2, <1>4, <1>5
<1>12. Traces(f1, g1, s1, w1, p, n)
  BY <1>5, <1>6, <1>7, <1>8, <1>9, <1>10, <1>11 DEF Traces
<1> QED
  BY <1>12 DEF Trace, w1, s1


LEMMA Between ==
  ASSUME NEW a \in Nat, NEW b \in Nat, NEW low \in Nat, NEW x, x = a - b, low <= x
  PROVE  x \in 0..a
OBVIOUS

LEMMA TraceTypes ==
  ASSUME StreamInv, tab.run # NoRun
  PROVE  /\ StepsShown \in Seq(Steps) /\ Coming \in Seq(Frames)
         /\ tab.run \in Runs /\ published[tab.run] \in Seq(Messages)
         /\ Len(published[tab.run]) \in Nat
         /\ Reach \in 0..Len(published[tab.run])
<1> USE DEF StreamInv, LinkInv
<1>1. tab \in Tab /\ hook.socket \in Conns \cup {NoConn} /\ wire \in [Conns -> Seq(Frames)]
  BY Shapes, HookShape
<1>2. StepsShown \in Seq(Steps)
  <2> DEFINE S == [run : Runs, step : Steps]
  <2>1. tab.progress \in Seq(S) /\ \A e \in S : e.step \in Steps
    BY <1>1, TabShape
  <2> HIDE DEF S
  <2> QED
    BY <2>1 DEF StepsShown
<1>3. /\ tab.run \in Runs /\ published[tab.run] \in Seq(Messages)
      /\ Len(published[tab.run]) \in Nat
  BY <1>1, TabShape DEF TypeOK
<1>4. Coming \in Seq(Frames)
  BY <1>1 DEF Coming
<1>5. Reach \in 0..Len(published[tab.run])
  <2>1. CASE hook.socket # NoConn /\ up[hook.socket] /\ handler[hook.socket].phase = "streaming"
    <3>1. hook.socket \in Conns /\ handler[hook.socket].run = tab.run
      BY <1>1, <2>1 DEF Linked
    <3>2. Len(handler[hook.socket].queue) \in Nat /\ handler[hook.socket].since \in Nat
      BY <3>1, HandlersOf
    <3>3. handler[hook.socket].since <= Taken(hook.socket)
      BY <2>1, <3>1 DEF Complete
    <3>4. Reach = Taken(hook.socket)
      BY <2>1 DEF Reach
    <3>5. Taken(hook.socket) = Len(published[tab.run]) - Len(handler[hook.socket].queue)
      BY <3>1 DEF Taken
    <3> QED
      BY <1>3, <3>2, <3>3, <3>4, <3>5, Between
  <2>2. CASE ~(hook.socket # NoConn /\ up[hook.socket] /\ handler[hook.socket].phase = "streaming")
    BY <1>3, <2>2 DEF Reach
  <2> QED
    BY <2>1, <2>2
<1> QED
  BY <1>2, <1>3, <1>4, <1>5

LEMMA TraceReaches == StreamInv /\ tab.run # NoRun => Reach \in Nat
BY TraceTypes

LEMMA TraceReachesNext == (StreamInv /\ tab.run # NoRun => Reach \in Nat)'
BY TraceReaches, PTL

\* A step that leaves the display and the channel alone, and cuts the wire or leaves
\* it alone as well, reaches as far.
LEMMA TracedOn ==
  ASSUME StreamInv, StreamInv', Traced, tab'.run = tab.run, SameList(tab, tab'),
         \A r \in Runs : Len(published[r]) <= Len(published'[r])
                         /\ \A i \in 1..Len(published[r]) : published'[r][i] = published[r][i],
         Coming' = Coming \/ \A k \in DOMAIN Coming' : Coming'[k] \notin Steps,
         tab.run # NoRun => Reach <= Reach'
  PROVE  Traced'
<1> SUFFICES ASSUME tab.run # NoRun
             PROVE  Trace(StepsShown', Coming', published'[tab.run], Reach')
  BY DEF Traced
<1>1. /\ tab.run \in Runs /\ Len(published[tab.run]) \in Nat
      /\ Reach \in 0..Len(published[tab.run])
  BY TraceTypes
<1>2. Reach' \in Nat
  BY TraceReachesNext
<1>3. StepsShown' = StepsShown
  BY DEF StepsShown, SameList
<1>4. Trace(StepsShown, Coming, published[tab.run], Reach)
  BY DEF Traced
<1>5. Trace(StepsShown, Coming', published[tab.run], Reach)
  BY <1>1, <1>4, TraceCut
<1>6. \A i \in 1..Reach : published'[tab.run][i] = published[tab.run][i]
  BY <1>1
<1>7. Reach \in Nat /\ Reach <= Reach'
  BY <1>1
<1>8. Trace(StepsShown, Coming', published'[tab.run], Reach')
  BY <1>2, <1>5, <1>6, <1>7, TraceFurther
<1> QED
  BY <1>3, <1>8


\* The channels only grow.
LEMMA ChannelsGrow ==
  ASSUME TypeOK, [Next]_vars
  PROVE  \A r \in Runs : Len(published[r]) <= Len(published'[r])
                         /\ \A i \in 1..Len(published[r]) : published'[r][i] = published[r][i]
<1> SUFFICES ASSUME NEW r \in Runs
             PROVE  Len(published[r]) <= Len(published'[r])
                    /\ \A i \in 1..Len(published[r]) : published'[r][i] = published[r][i]
  OBVIOUS
<1> DEFINE Grows == Len(published[r]) <= Len(published'[r])
                    /\ \A i \in 1..Len(published[r]) : published'[r][i] = published[r][i]
<1>0. published[r] \in Seq(Messages)
  BY DEF TypeOK
<1>1. CASE UNCHANGED published
  <2>1. Len(published[r]) \in Nat /\ published'[r] = published[r]
    BY <1>0, <1>1
  <2> QED
    BY <2>1
<1>2. ASSUME NEW q \in Runs, NEW m \in Messages, Publish(q, m) PROVE Grows
  <2>1. published'[r] = published[r] \/ published'[r] = Append(published[r], m)
    BY <1>2, PublishQueues
  <2> QED
    BY <1>0, <2>1
<1> HIDE DEF Grows
<1>3. ASSUME NEW c \in Conns, Serving(c) \/ Drop(c) \/ Browser(c) PROVE Grows
  BY <1>1, <1>3 DEF Serving, Gateway, Accept, Reject, Subscribe, Forward, Timeout, RedisFails, Drop,
                    Browser, OnOpen, OnProgress, OnResult, OnError, OnClose, Handles, Grows
<1>4. ASSUME NEW q \in Runs, StartRun(q) \/ Expire(q) PROVE Grows
  BY <1>1, <1>4 DEF StartRun, Expire, Grows
<1>5. ASSUME RetryTimer \/ Unmount \/ Mount \/ UNCHANGED vars PROVE Grows
  BY <1>1, <1>5 DEF RetryTimer, Unmount, Mount, vars, Grows
<1>6. Grows
  BY <1>2, <1>3, <1>4, <1>5 DEF Next, Serving
<1> QED
  BY <1>6 DEF Grows

\* Once the tab's handler has nothing to add, all of the channel is in reach.
LEMMA ReachAll ==
  ASSUME StreamInv, StreamInv', [Next]_vars, tab'.run = tab.run, tab.run # NoRun,
         \/ hook'.socket = NoConn
         \/ ~up'[hook'.socket]
         \/ handler'[hook'.socket].phase # "streaming"
         \/ handler'[hook'.socket].phase = "streaming" /\ handler'[hook'.socket].queue = <<>>
            /\ handler'[hook'.socket].run = tab.run
  PROVE  Reach <= Reach'
<1>1. Reach \in 0..Len(published[tab.run]) /\ tab.run \in Runs
  BY TraceTypes
<1>2. Len(published[tab.run]) <= Len(published'[tab.run])
  BY <1>1, ChannelsGrow DEF StreamInv, LinkInv
<1>3. published'[tab.run] \in Seq(Messages) /\ published[tab.run] \in Seq(Messages)
  BY <1>1 DEF StreamInv, LinkInv, TypeOK
<1>4. Reach' = Len(published'[tab.run])
  <2>1. Len(published'[tab.run]) \in Nat /\ Len(<<>>) = 0
    BY <1>3
  <2>2. CASE ~(hook'.socket # NoConn /\ up'[hook'.socket] /\ handler'[hook'.socket].phase = "streaming")
    BY <2>2 DEF Reach
  <2>3. CASE hook'.socket # NoConn /\ up'[hook'.socket] /\ handler'[hook'.socket].phase = "streaming"
    <3>1. Reach' = Len(published'[tab.run]) - Len(<<>>)
      BY <2>3 DEF Reach, Taken
    <3> QED
      BY <2>1, <3>1
  <2> QED
    BY <2>2, <2>3
<1> QED
  BY <1>1, <1>2, <1>3, <1>4

LEMMA ServingTraced ==
  ASSUME StreamInv, StreamInv', Traced, [Next]_vars, NEW c \in Conns, Serving(c)
  PROVE  Traced'
<1> USE DEF StreamInv, LinkInv
<1>1. ServesOnly(c) /\ (Opens(c) \/ Subscribes(c) \/ Forwards(c) \/ Refuses(c) \/ Concludes(c))
  BY HandlerServes
<1>2. /\ UNCHANGED <<published, up, tab, hook>>
      /\ \A d \in Conns \ {c} : handler'[d] = handler[d] /\ wire'[d] = wire[d]
      /\ handler'[c].run = handler[c].run
  BY <1>1 DEF ServesOnly
<1>3. hook.socket \in Conns \cup {NoConn} /\ wire \in [Conns -> Seq(Frames)]
  BY Shapes, HookShape
<1> SUFFICES ASSUME tab.run # NoRun
             PROVE  Trace(StepsShown', Coming', published'[tab'.run], Reach')
  BY <1>2 DEF Traced
<1> DEFINE s == StepsShown
           w == Coming
           p == published[tab.run]
           n == Reach
<1>4. /\ Trace(s, w, p, n) /\ w \in Seq(Frames) /\ n \in Nat /\ StepsShown' = s
      /\ published'[tab'.run] = p
  BY <1>2, TraceTypes DEF Traced, StepsShown
<1>5. Reach' \in Nat
  BY <1>2, TraceReachesNext
<1>6. CASE hook.socket # c \/ ~up[c]
  <2>1. Coming' = Coming /\ (hook.socket = c => ~up[c])
    BY <1>1, <1>2, <1>3, <1>6
       DEF Coming, Opens, Subscribes, Forwards, Refuses, Concludes, Sent
  <2>2. Reach' = Reach
    BY <1>2, <1>3, <2>1 DEF Reach, Taken
  <2> QED
    BY <1>4, <2>1, <2>2
<1>7. CASE hook.socket = c /\ up[c]
  <2>1. w = wire[c] /\ Coming' = wire'[c] /\ handler[c].run = tab.run /\ hook.socket # NoConn
    BY <1>2, <1>7, StreamAssumptions DEF Coming, Linked
  <2>2. CASE Forwards(c)
    <3> DEFINE q == handler[c].queue
    <3>1. /\ q \in Seq(Messages) /\ q # <<>> /\ p \in Seq(Messages)
          /\ handler'[c].queue = Tail(q) /\ Head(q) \in Steps
          /\ n = Len(p) - Len(q) /\ Reach' = Len(p) - Len(Tail(q))
          /\ \A i \in 1..Len(q) : q[i] = p[n + i]
      <4>1. q \in Seq(Messages) /\ p \in Seq(Messages)
        BY HandlersOf, TraceTypes
      <4>2. q # <<>> /\ handler'[c].queue = Tail(q) /\ Head(q) \in Steps
            /\ handler[c].phase = "streaming" /\ handler'[c].phase = "streaming"
        BY <2>2 DEF Forwards
      <4>3. n = Len(p) - Len(q) /\ Reach' = Len(p) - Len(Tail(q))
        BY <1>2, <1>7, <2>1, <4>2 DEF Reach, Taken
      <4>4. \A i \in 1..Len(q) : q[i] = p[n + i]
        <5>1. Taken(c) = n /\ published[handler[c].run] = p /\ Complete(c)
          BY <2>1, <4>3 DEF Taken
        <5> HIDE DEF n, p
        <5> QED
          BY <1>7, <4>2, <5>1 DEF Complete
      <4> QED
        BY <4>1, <4>2, <4>3, <4>4
    <3> HIDE DEF q, n, p, s, w
    <3>2. p[n + 1] = Head(q) /\ Reach' = n + 1
      <4>1. Len(q) \in Nat \ {0} /\ Len(p) \in Nat /\ Len(Tail(q)) = Len(q) - 1 /\ Head(q) = q[1]
        BY <3>1
      <4> QED
        BY <3>1, <4>1
    <3>3. Coming' = Append(w, p[n + 1])
      <4>1. wire'[c] = wire[c] \o <<Head(q)>> /\ wire[c] \in Seq(Frames) /\ Head(q) \in Frames
        BY <1>3, <1>7, <2>2, <3>1 DEF Forwards, Sent, q, Frames, Messages
      <4> QED
        BY <2>1, <3>2, <4>1
    <3>4. Trace(s, Append(w, p[n + 1]), p, n + 1)
      BY <1>4, <3>1, <3>2, TraceStep
    <3> QED
      BY <1>4, <3>2, <3>3, <3>4
  <2>3. CASE ~Forwards(c)
    <3>1. Reach <= Reach'
      <4>1. handler'[c].phase = "streaming" => handler'[c].queue = <<>>
        BY <1>1, <2>3 DEF Opens, Subscribes, Refuses, Concludes, Linked
      <4> QED
        BY <1>2, <1>7, <2>1, <4>1, ReachAll
    <3> HIDE DEF s, w, p, n
    <3>2. Trace(s, Coming', p, n)
      <4>0. wire[c] \in Seq(Frames)
        BY <1>3
      <4>1. ASSUME NEW m \in Frames \ Steps, Sent(c, <<m>>) PROVE Trace(s, Coming', p, n)
        <5>1. Coming' = Append(w, m)
          BY <1>7, <2>1, <4>0, <4>1 DEF Sent
        <5> QED
          BY <1>4, <5>1, TraceFrame
      <4>2. ASSUME NEW m \in Frames \ Steps, NEW k \in Frames \ Steps, Sent(c, <<m, k>>)
            PROVE  Trace(s, Coming', p, n)
        <5>1. Coming' = Append(Append(w, m), k)
          <6>1. wire'[c] = wire[c] \o <<m, k>>
            BY <1>7, <4>2 DEF Sent
          <6>2. wire[c] \o <<m, k>> = Append(Append(wire[c], m), k)
            BY <4>0
          <6> QED
            BY <2>1, <6>1, <6>2
        <5>2. Trace(s, Append(w, m), p, n) /\ Append(w, m) \in Seq(Frames)
          BY <1>4, TraceFrame
        <5>3. Trace(s, Append(Append(w, m), k), p, n)
          BY <1>4, <5>2, TraceFrame
        <5> QED
          BY <5>1, <5>3
      <4>3. CASE wire'[c] = wire[c]
        BY <1>4, <2>1, <4>3
      <4>4. /\ "open" \in Frames \ Steps /\ {"4001", "1006", "1000"} \subseteq Frames \ Steps
            /\ Verdicts \subseteq Frames \ Steps
        BY FrameKinds DEF Frames, Messages, Codes
      <4> QED
        BY <1>1, <2>3, <4>1, <4>2, <4>3, <4>4 DEF Opens, Subscribes, Refuses, Concludes
    <3>3. Trace(s, Coming', p, Reach')
      BY <1>4, <1>5, <3>1, <3>2, TraceFurther DEF n
    <3> QED
      BY <1>4, <3>3
  <2> QED
    BY <2>2, <2>3
<1> QED
  BY <1>6, <1>7

LEMMA BrowserTraced ==
  ASSUME StreamInv, StreamInv', Traced, [Next]_vars, NEW c \in Conns, Browser(c)
  PROVE  Traced'
<1> USE DEF StreamInv, LinkInv
<1>1. HandledOnly(c) /\ (Connected(c) \/ Listed(c) \/ Shown(c) \/ Hangs(c))
  BY FrameHandled
<1>2. /\ tab'.run = tab.run /\ hook'.socket = hook.socket /\ UNCHANGED <<published, handler>>
  BY <1>1 DEF HandledOnly, Connected, Listed, Shown, Hangs, Dismissed, Rescheduled, SameVisit
<1>3. c = hook.socket /\ hook.socket # NoConn /\ tab.run # NoRun
  BY <1>1, Shapes, HookShape, StreamAssumptions DEF HandledOnly, Linked
<1> DEFINE s == StepsShown
           w == Coming
           p == published[tab.run]
           n == Reach
<1>4. /\ Trace(s, w, p, n) /\ w \in Seq(Frames) /\ n \in Nat /\ s \in Seq(Steps)
      /\ published'[tab'.run] = p
  BY <1>2, <1>3, TraceTypes DEF Traced
<1>5. Reach' \in Nat
  BY <1>2, <1>3, TraceReachesNext
<1>6. w = wire[c] /\ w # <<>> /\ Coming' = Tail(w)
  BY <1>1, <1>2, <1>3 DEF Coming, HandledOnly
<1>7. Reach <= Reach'
  <2>1. CASE up' = up
    <3>1. Reach' = Reach
      BY <1>2, <2>1 DEF Reach, Taken
    <3> QED
      BY <1>4, <3>1
  <2>2. CASE Hangs(c)
    <3>1. ~up'[hook'.socket]
      BY <1>2, <1>3, <2>2 DEF Hangs
    <3> QED
      BY <1>2, <1>3, <3>1, ReachAll
  <2> QED
    BY <1>1, <2>1, <2>2 DEF Connected, Listed, Shown
<1> HIDE DEF s, w, p, n
<1>8. Trace(StepsShown', Tail(w), p, n)
  <2>1. CASE tab'.progress = tab.progress
    <3>1. StepsShown' = s
      BY <2>1 DEF StepsShown, s
    <3> QED
      BY <1>4, <1>6, <3>1, TraceTaken
  <2>2. CASE /\ Listed(c)
             /\ tab'.progress = Append(tab.progress, [run |-> handler[c].run, step |-> Head(wire[c])])
    <3>1. Head(w) \in Steps
      BY <1>6, <2>2 DEF Listed
    <3>2. StepsShown' = Append(s, Head(w))
      <4> DEFINE e == [run |-> handler[c].run, step |-> Head(wire[c])]
                 S == [run : Runs, step : Steps]
                 t == tab.progress
      <4>1. t \in Seq(S) /\ e.step = Head(w)
        BY <1>6, Shapes, TabShape
      <4>2. tab'.progress = Append(t, e)
        BY <2>2
      <4>3. /\ s = [i \in DOMAIN t |-> t[i].step]
            /\ StepsShown' = [i \in DOMAIN tab'.progress |-> tab'.progress[i].step]
        BY DEF s, StepsShown
      <4> HIDE DEF e, S, t
      <4> DEFINE u == Append(t, e)
                 a == [i \in DOMAIN u |-> u[i].step]
                 b == Append(s, Head(w))
      <4>4. /\ Len(t) \in Nat /\ DOMAIN t = 1..Len(t) /\ DOMAIN u = 1..(Len(t) + 1)
            /\ \A i \in 1..Len(t) : u[i] = t[i]
            /\ u[Len(t) + 1] = e
        BY <4>1
      <4>5. Len(s) = Len(t)
        BY <1>4, <4>3, <4>4
      <4>6. /\ DOMAIN b = 1..(Len(t) + 1) /\ b[Len(t) + 1] = Head(w)
            /\ \A i \in 1..Len(t) : b[i] = s[i]
            /\ b \in Seq(Steps)
        BY <1>4, <3>1, <4>4, <4>5
      <4> HIDE DEF u
      <4>7. ASSUME NEW i \in 1..(Len(t) + 1) PROVE u[i].step = b[i]
        <5>1. CASE i = Len(t) + 1
          BY <4>1, <4>4, <4>6, <5>1
        <5>2. CASE i # Len(t) + 1
          <6>1. i \in 1..Len(t)
            BY <4>4, <5>2
          <6> QED
            BY <4>3, <4>4, <4>6, <6>1
        <5> QED
          BY <5>1, <5>2
      <4> HIDE DEF b
      <4>8. b \in [1..(Len(t) + 1) -> Steps]
        BY <4>6
      <4>9. a = b
        BY <4>4, <4>6, <4>7, <4>8
      <4> QED
        BY <4>2, <4>3, <4>9 DEF u, b
    <3> QED
      BY <1>4, <1>6, <3>1, <3>2, TraceListed
  <2> QED
    BY <1>1, <2>1, <2>2
       DEF Connected, Listed, Shown, Hangs, Dismissed, Rescheduled, SameList
<1>9. Trace(StepsShown', Tail(w), p, Reach')
  BY <1>4, <1>5, <1>7, <1>8, TraceFurther DEF n
<1> QED
  BY <1>2, <1>4, <1>6, <1>9 DEF Traced

LEMMA PublishReach ==
  ASSUME StreamInv, NEW r \in Runs, NEW m \in Messages, Publish(r, m), tab.run # NoRun
  PROVE  Reach <= Reach'
<1> USE DEF StreamInv, LinkInv
<1>1. /\ tab.run \in Runs /\ published[tab.run] \in Seq(Messages) /\ Reach \in Nat
      /\ hook.socket \in Conns \cup {NoConn}
  BY TraceTypes, Shapes, HookShape
<1>2. UNCHANGED <<up, wire, tab, hook>>
  BY DEF Publish
<1> DEFINE d == IF tab.run = r THEN 1 ELSE 0
<1>3. /\ tab.run = r => published'[tab.run] = Append(published[tab.run], m)
      /\ tab.run # r => published'[tab.run] = published[tab.run]
  BY <1>1, PublishQueues
<1>4. Len(published'[tab.run]) = Len(published[tab.run]) + d /\ Len(published[tab.run]) \in Nat
  <2>1. CASE tab.run = r
    BY <1>1, <1>3, <2>1
  <2>2. CASE tab.run # r
    BY <1>1, <1>3, <2>2
  <2> QED
    BY <2>1, <2>2
<1>5. CASE hook.socket # NoConn /\ up[hook.socket] /\ handler[hook.socket].phase = "streaming"
  <2> DEFINE c == hook.socket
  <2>1. c \in Conns /\ handler[c].run = tab.run
    BY <1>1, <1>5 DEF Linked
  <2>2. handler[c].queue \in Seq(Messages) /\ Len(handler[c].queue) \in Nat
    BY <2>1, HandlersOf
  <2>3. /\ handler'[c].phase = handler[c].phase /\ handler'[c].run = handler[c].run
        /\ tab.run = r => handler'[c].queue = Append(handler[c].queue, m)
        /\ tab.run # r => handler'[c].queue = handler[c].queue
    <3> HIDE DEF c
    <3>1. /\ handler'[c].phase = handler[c].phase /\ handler'[c].run = handler[c].run
          /\ handler'[c].queue = IF handler[c].phase = "streaming" /\ handler[c].run = r
                                 THEN Append(handler[c].queue, m) ELSE handler[c].queue
      BY <2>1, PublishQueues
    <3> QED
      BY <1>5, <2>1, <3>1 DEF c
  <2>4. Len(handler'[c].queue) = Len(handler[c].queue) + d
    <3>1. CASE tab.run = r
      BY <2>2, <2>3, <3>1
    <3>2. CASE tab.run # r
      BY <2>2, <2>3, <3>2
    <3> QED
      BY <3>1, <3>2
  <2>5. /\ Reach = Len(published[tab.run]) - Len(handler[c].queue)
        /\ Reach' = Len(published'[tab.run]) - Len(handler'[c].queue)
    BY <1>2, <1>5, <2>1, <2>3 DEF Reach, Taken
  <2>6. d \in Nat
    OBVIOUS
  <2> HIDE DEF d
  <2> QED
    BY <1>1, <1>4, <2>2, <2>4, <2>5, <2>6
<1>6. CASE ~(hook.socket # NoConn /\ up[hook.socket] /\ handler[hook.socket].phase = "streaming")
  <2>1. hook.socket \in Conns => handler'[hook.socket].phase = handler[hook.socket].phase
    BY PublishQueues
  <2>2. Reach = Len(published[tab.run]) /\ Reach' = Len(published'[tab.run])
    BY <1>1, <1>2, <1>6, <2>1 DEF Reach
  <2>3. d \in Nat
    OBVIOUS
  <2> HIDE DEF d
  <2> QED
    BY <1>1, <1>4, <2>2, <2>3
<1> QED
  BY <1>5, <1>6

\* The progress list never shows the steps in an order the run did not go through,
\* over reconnections and repeated events: every connection starts behind what was
\* displayed before, and no handler sends an event out of its turn.
THEOREM DisplayIsInOrder == Spec => []InOrder
<1>1. Init => Traced
  BY DEF Init, Traced
<1>2. ASSUME StreamInv, StreamInv', Traced, [Next]_vars PROVE Traced'
  <2> USE DEF StreamInv, LinkInv
  <2>0. /\ hook.socket \in Conns \cup {NoConn}
        /\ \A r \in Runs : Len(published[r]) <= Len(published'[r])
                           /\ \A i \in 1..Len(published[r]) : published'[r][i] = published[r][i]
    BY <1>2, Shapes, HookShape, ChannelsGrow
  <2>1. ASSUME NEW c \in Conns, Dials(c) PROVE Coming' = <<>> /\ Reach' = Len(published'[tab'.run])
    BY <2>1, StreamAssumptions DEF Dials, Coming, Reach
  <2>2. ASSUME NEW c \in Conns, Dials(c), Starts PROVE Traced'
    <3>1. StepsShown' = <<>>
      BY <2>2 DEF Starts, StepsShown
    <3>2. tab'.run # NoRun
      BY <2>2, StreamAssumptions DEF Dials
    <3>3. Reach' \in Nat
      BY <1>2, <3>2, TraceReachesNext
    <3> QED
      BY <2>1, <2>2, <3>1, <3>3, TraceOfNothing DEF Traced
  <2>3. ASSUME NEW c \in Conns, Dials(c), Returns \/ Redials PROVE Traced'
    <3>1. tab'.run = tab.run /\ SameList(tab, tab')
      BY <2>3 DEF Returns, Redials, SameList
    <3>2. handler'[hook'.socket].phase # "streaming"
      BY <2>3 DEF Dials
    <3>3. tab.run # NoRun => Reach <= Reach'
      BY <1>2, <3>1, <3>2, ReachAll
    <3>4. \A k \in DOMAIN Coming' : Coming'[k] \notin Steps
      BY <2>1, <2>3
    <3> QED
      BY <1>2, <2>0, <3>1, <3>3, <3>4, TracedOn
  <2>4. ASSUME NEW r \in Runs, NEW m \in Messages, Publish(r, m) PROVE Traced'
    <3>1. UNCHANGED <<wire, tab, hook>>
      BY <2>4 DEF Publish
    <3>2. Coming' = Coming /\ SameList(tab, tab')
      BY <3>1 DEF Coming, SameList
    <3> QED
      BY <1>2, <2>0, <2>4, <3>1, <3>2, PublishReach, TracedOn
  <2>5. ASSUME NEW c \in Conns, Drop(c) PROVE Traced'
    <3>1. Breaks(c)
      BY <1>2, <2>5, DropBreaks
    <3>2. /\ c = hook.socket /\ hook' = hook /\ tab'.run = tab.run /\ SameList(tab, tab')
          /\ ~up'[hook'.socket] /\ wire'[c] = <<"1006">>
      BY <1>2, <3>1 DEF Breaks, Linked, TypeOK
    <3>3. tab.run # NoRun => Reach <= Reach'
      BY <1>2, <3>2, ReachAll
    <3>4. Coming' = <<"1006">>
      BY <3>2, StreamAssumptions DEF Coming
    <3>5. \A k \in DOMAIN Coming' : Coming'[k] \notin Steps
      BY <3>4, StreamAssumptions
    <3> QED
      BY <1>2, <2>0, <3>2, <3>3, <3>5, TracedOn
  <2>6. CASE Leaves
    <3>1. tab'.run = tab.run /\ SameList(tab, tab') /\ hook'.socket = NoConn
      BY <2>6 DEF Leaves
    <3>2. Coming' = <<>>
      BY <3>1 DEF Coming
    <3>3. tab.run # NoRun => Reach <= Reach'
      BY <1>2, <3>1, ReachAll
    <3> QED
      BY <1>2, <2>0, <3>1, <3>2, <3>3, TracedOn
  <2>7. CASE Visits
    BY <2>7 DEF Visits, Traced
  <2>8. CASE UNCHANGED <<published, handler, up, wire, tab, hook>>
    <3>1. UNCHANGED <<StepsShown, Coming, Reach>>
      BY <2>8 DEF StepsShown, Coming, Reach, Taken
    <3> QED
      BY <1>2, <2>8, <3>1 DEF Traced
  <2> QED
    BY <1>2, <2>2, <2>3, <2>4, <2>5, <2>6, <2>7, <2>8, ServingTraced, BrowserTraced,
       StartDials, MountDials, RetryDials, UnmountLeaves, MountVisits
       DEF Next, Serving, Expire, vars
<1>3. StreamInv /\ Traced => InOrder
  <2> SUFFICES ASSUME StreamInv, Traced, tab.run # NoRun
               PROVE  EmbedsIn(StepsShown, published[tab.run])
    BY DEF InOrder
  <2> DEFINE p == published[tab.run]
             s == StepsShown
  <2>1. PICK f, g : Traces(f, g, s, Coming, p, Reach)
    BY DEF Traced, Trace
  <2>2. p \in Seq(Messages) /\ Reach \in 0..Len(p)
    BY TraceTypes
  <2> HIDE DEF p, s
  <2>3. f \in [DOMAIN s -> DOMAIN p]
    BY <2>1, <2>2 DEF Traces
  <2>4. \A i, j \in DOMAIN s : s[i] = p[f[i]] /\ (i < j => f[i] < f[j])
    BY <2>1 DEF Traces
  <2>5. EmbedsIn(s, p)
    BY <2>3, <2>4 DEF EmbedsIn
  <2> QED
    BY <2>5 DEF s, p
<1>4. StreamInv /\ StreamInv' /\ Traced /\ [Next]_vars => Traced'
  BY <1>2
<1> QED
  BY <1>1, <1>3, <1>4, StreamInvHolds, PTL DEF Spec

-----------------------------------------------------------------------------
(* The spinner.                                                            *)

\* Over c the tab will still be told: its handler lives and has yet to say how the
\* run ended, or what it said is on the wire.
Bringing(c) == \/ up[c] /\ handler[c].phase # "gone"
               \/ Endings(c) # {}

\* A spinner that is seen is owed an end.
SpinnerIsOwed ==
  tab.optimizing =>
    /\ tab.run # NoRun /\ token[tab.run] # "none"
    /\ tab.mounted => \/ hook.timer = tab.run
                      \/ /\ hook.socket # NoConn /\ handler[hook.socket].run = tab.run
                         /\ Bringing(hook.socket)

\* A verdict stops the spinner.
LEMMA VerdictStops ==
  ASSUME tab \in Tab, NEW c \in Conns, OnResult(c) \/ OnError(c)
  PROVE  ~tab'.optimizing
<1> DEFINE t == [tab EXCEPT !.result = handler[c].run]
<1>1. tab' = Show(t) \/ tab' = Show(tab)
  BY DEF OnResult, OnError
<1>2. ASSUME NEW u, DOMAIN u = DOMAIN tab PROVE ~Show(u).optimizing
  BY <1>2 DEF Show, Tab
<1>3. DOMAIN t = DOMAIN tab
  BY DEF Tab
<1> HIDE DEF t
<1> QED
  BY <1>1, <1>2, <1>3

\* Only a submission starts the spinner, and a run once submitted stays so.
LEMMA SpinnerStarts ==
  ASSUME TypeOK, [Next]_vars
  PROVE  /\ tab'.optimizing => tab.optimizing \/ \E r \in Runs : StartRun(r)
         /\ \A r \in Runs : token[r] # "none" => token'[r] # "none"
<1>1. tab \in Tab /\ token \in [Runs -> {"none", "valid", "expired"}]
  BY Shapes DEF TypeOK
<1>2. \A r \in Runs : token[r] # "none" => token'[r] # "none"
  <2>1. ASSUME NEW r \in Runs,
               token' = [token EXCEPT ![r] = "valid"] \/ token' = [token EXCEPT ![r] = "expired"]
        PROVE  \A q \in Runs : token[q] # "none" => token'[q] # "none"
    BY <1>1, <2>1
  <2>2. ASSUME NEW r \in Runs, StartRun(r) \/ Expire(r) \/ \E m \in Messages : Publish(r, m)
        PROVE  \A q \in Runs : token[q] # "none" => token'[q] # "none"
    BY <2>1, <2>2 DEF StartRun, Expire, Publish
  <2>3. ASSUME NEW c \in Conns, Serving(c) \/ Drop(c) PROVE UNCHANGED token
    BY <2>3 DEF Serving, Gateway, Accept, Reject, Subscribe, Forward, Timeout, RedisFails, Drop
  <2>4. ASSUME NEW c \in Conns, Browser(c) PROVE UNCHANGED token
    BY <2>4 DEF Browser, OnOpen, OnProgress, OnResult, OnError, OnClose, Handles
  <2>5. ASSUME UNCHANGED vars \/ RetryTimer \/ Unmount \/ Mount PROVE UNCHANGED token
    BY <2>5 DEF vars, RetryTimer, Unmount, Mount
  <2> QED
    BY <2>2, <2>3, <2>4, <2>5 DEF Next, Serving
<1>3. ASSUME NEW c \in Conns, Browser(c) PROVE tab'.optimizing => tab.optimizing
  <2>1. CASE OnProgress(c)
    <3> DEFINE p == Append(tab.progress, [run |-> handler[c].run, step |-> Head(wire[c])])
    <3>1. tab' = tab \/ tab' = [tab EXCEPT !.progress = p]
      BY <2>1 DEF OnProgress
    <3> HIDE DEF p
    <3> QED
      BY <1>1, <3>1 DEF Tab
  <2>2. CASE OnResult(c) \/ OnError(c)
    BY <1>1, <2>2, VerdictStops
  <2>4. CASE OnClose(c)
    <3>1. tab' = tab \/ tab' = [tab EXCEPT !.optimizing = FALSE]
      BY <2>4 DEF OnClose
    <3> QED
      BY <1>1, <3>1 DEF Tab
  <2>5. CASE OnOpen(c)
    BY <2>5 DEF OnOpen
  <2> QED
    BY <1>3, <2>1, <2>2, <2>4, <2>5 DEF Browser
<1>4. ASSUME Unmount \/ Mount \/ \E c \in Conns : Drop(c) PROVE tab'.optimizing => tab.optimizing
  <2>1. \/ tab' = [tab EXCEPT !.mounted = FALSE]
        \/ tab' = [tab EXCEPT !.mounted = TRUE, !.shown = 0, !.cut = FALSE]
        \/ tab' = [tab EXCEPT !.cut = TRUE]
    BY <1>4 DEF Unmount, Mount, Drop
  <2> QED
    BY <1>1, <2>1 DEF Tab
<1>6. ASSUME NEW c \in Conns, Serving(c) PROVE UNCHANGED tab
  BY <1>6 DEF Serving, Gateway, Accept, Reject, Subscribe, Forward, Timeout, RedisFails
<1>7. ASSUME UNCHANGED vars \/ RetryTimer \/ \E r \in Runs : Expire(r) \/ \E m \in Messages : Publish(r, m)
      PROVE  UNCHANGED tab
  BY <1>7 DEF vars, RetryTimer, Expire, Publish
<1>8. tab'.optimizing => tab.optimizing \/ \E r \in Runs : StartRun(r)
  BY <1>3, <1>4, <1>6, <1>7 DEF Next, Serving
<1> QED
  BY <1>2, <1>8

\* What ends a handler puts an ending on the wire of a client that is there.
LEMMA ServingBrings ==
  ASSUME LinkInv, NEW c \in Conns, Serving(c), Bringing(c)
  PROVE  Bringing(c)'
<1> USE DEF LinkInv
<1>1. ServesOnly(c) /\ (Opens(c) \/ Subscribes(c) \/ Forwards(c) \/ Refuses(c) \/ Concludes(c))
  BY HandlerServes
<1>2. up' = up /\ handler[c].phase # "gone" /\ wire[c] \in Seq(Frames)
  BY <1>1, Shapes DEF ServesOnly
<1>3. CASE ~up[c]
  <2>1. wire'[c] = wire[c]
    BY <1>1, <1>3 DEF Opens, Subscribes, Forwards, Refuses, Concludes, Sent
  <2>2. Endings(c)' = Endings(c)
    BY <2>1 DEF Endings
  <2> QED
    BY <1>3, <2>2 DEF Bringing
<1>4. CASE up[c] /\ handler'[c].phase # "gone"
  BY <1>2, <1>4 DEF Bringing
<1>5. CASE up[c] /\ Refuses(c)
  <2>1. PICK code \in {"4001", "1006"} : Sent(c, <<code>>)
    BY <1>5 DEF Refuses
  <2>2. code \in Frames
    BY DEF Frames, Codes
  <2>3. /\ DOMAIN wire'[c] = 1..(Len(wire[c]) + 1) /\ Len(wire[c]) \in Nat
        /\ wire'[c][Len(wire[c]) + 1] = code
    BY Zenon, <1>5, <2>1, <2>2, SentOne
  <2>4. Len(wire[c]) + 1 \in Endings(c)'
    BY <2>3 DEF Endings
  <2> QED
    BY <2>4 DEF Bringing
<1>6. CASE up[c] /\ Concludes(c)
  <2>1. PICK m \in Verdicts : Sent(c, <<m, "1000">>)
    BY <1>6 DEF Concludes
  <2>2. m \in Frames /\ "1000" \in Frames
    BY DEF Frames, Messages, Codes
  <2>3. /\ DOMAIN wire'[c] = 1..(Len(wire[c]) + 2) /\ Len(wire[c]) \in Nat
        /\ wire'[c][Len(wire[c]) + 1] = m
    BY Zenon, <1>6, <2>1, <2>2, SentTwo
  <2>4. Len(wire[c]) + 1 \in Endings(c)'
    BY <2>3 DEF Endings
  <2> QED
    BY <2>4 DEF Bringing
<1> QED
  BY <1>1, <1>3, <1>4, <1>5, <1>6 DEF Opens, Subscribes, Forwards

\* A frame that is not an ending leaves the endings behind it.
LEMMA HandledBrings ==
  ASSUME LinkInv, NEW c \in Conns, HandledOnly(c), Bringing(c), up' = up,
         Head(wire[c]) \notin Verdicts \cup {"1006", "4001"}
  PROVE  Bringing(c)'
<1> USE DEF LinkInv
<1>1. handler' = handler
  BY DEF HandledOnly
<1>2. CASE up[c] /\ handler[c].phase # "gone"
  BY <1>1, <1>2 DEF Bringing
<1>3. CASE Endings(c) # {}
  <2>1. PICK i \in Endings(c) : TRUE
    BY <1>3
  <2>2. i \in DOMAIN wire[c] /\ wire[c][i] \in Verdicts \cup {"1006", "4001"}
    BY <2>1 DEF Endings
  <2>3. /\ Len(wire[c]) \in Nat \ {0} /\ DOMAIN wire[c] = 1..Len(wire[c])
        /\ DOMAIN wire'[c] = 1..(Len(wire[c]) - 1)
        /\ \A j \in DOMAIN wire'[c] : wire'[c][j] = wire[c][j + 1]
        /\ Head(wire[c]) = wire[c][1]
    BY Zenon, TailWire
  <2>4. i # 1
    BY <2>2, <2>3
  <2>5. i - 1 \in DOMAIN wire'[c] /\ (i - 1) + 1 = i
    BY <2>2, <2>3, <2>4
  <2>6. i - 1 \in Endings(c)'
    BY <2>2, <2>3, <2>5 DEF Endings
  <2> QED
    BY <2>6 DEF Bringing
<1> QED
  BY <1>2, <1>3 DEF Bringing

\* Of a connection whose close is expected nothing is owed; any other close brings a
\* reconnection or the end of the spinner.
LEMMA CloseSettles ==
  ASSUME LinkInv, NEW c \in Conns, OnClose(c), Bringing(c), handler[c].run = tab.run
  PROVE  hook'.timer = tab.run \/ ~tab'.optimizing
<1> USE DEF LinkInv
<1> DEFINE code == Head(wire[c])
<1>1. HandledOnly(c) /\ code \in Codes
  BY HandlesOne DEF OnClose
<1>2. /\ Len(wire[c]) \in Nat \ {0} /\ DOMAIN wire[c] = 1..Len(wire[c]) /\ code = wire[c][1]
  BY <1>1, Zenon, TailWire
<1>3. Len(wire[c]) = 1 /\ (up[c] => handler[c].phase = "gone")
  <2>1. wire[c][1] \in Codes /\ 1 \in DOMAIN wire[c]
    BY <1>1, <1>2
  <2>2. \A i \in DOMAIN wire[c] : wire[c][i] \in Codes =>
          i = Len(wire[c]) /\ (up[c] => handler[c].phase = "gone")
    BY DEF Final
  <2> QED
    BY <2>1, <2>2
<1>4. Endings(c) # {}
  BY <1>3 DEF Bringing
<1>5. code \in Verdicts \cup {"1006", "4001"}
  BY <1>2, <1>3, <1>4 DEF Endings
<1>6. code # "1000"
  BY <1>5 DEF Verdicts
<1>7. ~Expected(c, code)
  BY <1>6 DEF Expected
<1>8. tab \in Tab /\ hook \in Hook
  BY Shapes
<1>9. CASE MayRetry(code)
  <2>1. hook' = [hook EXCEPT !.retries = @ + 1, !.timer = tab.run]
    BY <1>7, <1>9 DEF OnClose
  <2>2. hook'.timer = tab.run
    BY <1>8, <2>1 DEF Hook
  <2> QED
    BY <2>2
<1>10. CASE ~MayRetry(code)
  <2>1. tab' = [tab EXCEPT !.optimizing = FALSE]
    BY <1>7, <1>10 DEF OnClose
  <2>2. ~tab'.optimizing
    BY <1>8, <2>1 DEF Tab
  <2> QED
    BY <2>2
<1> QED
  BY <1>9, <1>10

\* As long as the user is there and the spinner turns, something is due that will
\* end it or try again: a reconnection is pending, or the connection is about this
\* run and its handler lives or has its last word on the wire. No close, refusal,
\* dropped connection or event of another run leaves the form locked with nothing
\* to come; that what is due does come is the schedulers' part (SpinnerStops).
THEOREM SpinnerIsNeverStranded == Spec => []SpinnerIsOwed
<1>1. Init => SpinnerIsOwed
  BY DEF Init, SpinnerIsOwed
<1>2. ASSUME LinkInv, LinkInv', SpinnerIsOwed, [Next]_vars PROVE SpinnerIsOwed'
  <2> USE DEF LinkInv
  <2>0. /\ tab \in Tab /\ tab' \in Tab /\ tab.run \in Runs \cup {NoRun}
        /\ hook.socket \in Conns \cup {NoConn} /\ hook.timer \in Runs \cup {NoRun}
        /\ tab'.optimizing => tab.optimizing \/ \E r \in Runs : StartRun(r)
        /\ \A r \in Runs : token[r] # "none" => token'[r] # "none"
    <3>1. tab' \in Tab
      BY <1>2 DEF TypeOK, Tab
    <3> QED
      BY <1>2, <3>1, Shapes, TabShape, HookShape, SpinnerStarts
  <2>1. ASSUME tab'.run = tab.run, ~\E r \in Runs : StartRun(r), tab'.optimizing
        PROVE  /\ tab.optimizing /\ tab'.run # NoRun /\ token'[tab'.run] # "none"
               /\ tab.mounted => \/ hook.timer = tab.run
                                 \/ /\ hook.socket # NoConn /\ handler[hook.socket].run = tab.run
                                    /\ Bringing(hook.socket)
    BY <1>2, <2>0, <2>1 DEF SpinnerIsOwed
  <2>2. ASSUME NEW c \in Conns, Dials(c), token'[tab'.run] # "none" PROVE SpinnerIsOwed'
    <3>1. /\ handler'[c].phase = "opening" /\ handler'[c].run = tab'.run
          /\ up'[c] /\ hook'.socket = c /\ tab'.run \in Runs
      BY <2>2 DEF Dials
    <3>2. Bringing(c)'
      BY <3>1 DEF Bringing
    <3>3. Bringing(hook.socket)'
      BY <3>1, <3>2
    <3> QED
      BY <2>2, <3>1, <3>3, StreamAssumptions DEF SpinnerIsOwed
  <2>3. ASSUME NEW r \in Runs, StartRun(r) PROVE SpinnerIsOwed'
    <3>1. PICK c \in Conns : Dials(c)
      BY <1>2, <2>3, StartDials
    <3>2. token' = [token EXCEPT ![r] = "valid"] /\ tab' = Fresh(r)
      BY <2>3 DEF StartRun
    <3>3. token'[r] = "valid" /\ tab'.run = r
      BY <1>2, <2>0, <3>2 DEF TypeOK, Fresh, Tab
    <3> QED
      BY <2>2, <3>1, <3>3
  <2>4. ASSUME Redials \/ Returns, \E c \in Conns : Dials(c), ~\E r \in Runs : StartRun(r)
        PROVE  SpinnerIsOwed'
    <3>1. tab'.run = tab.run
      BY <2>4 DEF Redials, Returns
    <3>2. CASE tab'.optimizing
      BY <2>1, <2>2, <2>4, <3>1, <3>2
    <3>3. CASE ~tab'.optimizing
      BY <3>3 DEF SpinnerIsOwed
    <3> QED
      BY <3>2, <3>3
  <2>5. ASSUME tab'.run = tab.run, ~\E r \in Runs : StartRun(r),
               tab'.optimizing /\ tab'.mounted =>
                 \/ hook'.timer = tab'.run
                 \/ hook'.socket # NoConn /\ handler'[hook'.socket].run = tab'.run /\ Bringing(hook.socket)'
        PROVE  SpinnerIsOwed'
    BY <2>1, <2>5 DEF SpinnerIsOwed
  <2>6. ASSUME NEW r \in Runs, NEW m \in Messages, Publish(r, m), ~\E q \in Runs : StartRun(q)
        PROVE  SpinnerIsOwed'
    <3>1. UNCHANGED <<token, up, wire, tab, hook>>
      BY <2>6 DEF Publish
    <3>2. \A c \in Conns : handler'[c].phase = handler[c].phase /\ handler'[c].run = handler[c].run
      BY <1>2, <2>6, PublishQueues
    <3>3. \A c \in Conns : Bringing(c) => Bringing(c)'
      BY <3>1, <3>2 DEF Bringing, Endings
    <3> QED
      BY <1>2, <2>0, <3>1, <3>2, <3>3 DEF SpinnerIsOwed
  <2>7. ASSUME NEW c \in Conns, Serving(c), ~\E r \in Runs : StartRun(r) PROVE SpinnerIsOwed'
    <3>1. ServesOnly(c)
      BY <1>2, <2>7, HandlerServes
    <3>2. /\ UNCHANGED <<token, up, tab, hook>> /\ \A d \in Conns : handler'[d].run = handler[d].run
          /\ \A d \in Conns \ {c} : handler'[d] = handler[d] /\ wire'[d] = wire[d]
      BY <3>1 DEF ServesOnly
    <3>3. ASSUME NEW d \in Conns, Bringing(d) PROVE Bringing(d)'
      <4>1. CASE d = c
        BY <1>2, <2>7, <3>3, <4>1, ServingBrings
      <4>2. CASE d # c
        BY <3>2, <3>3, <4>2 DEF Bringing, Endings
      <4> QED
        BY <4>1, <4>2
    <3> QED
      BY <1>2, <2>0, <3>2, <3>3 DEF SpinnerIsOwed
  <2>8. ASSUME NEW c \in Conns, Drop(c), ~\E r \in Runs : StartRun(r) PROVE SpinnerIsOwed'
    <3>1. Breaks(c)
      BY <1>2, <2>8, DropBreaks
    <3>2. /\ c = hook.socket /\ hook' = hook /\ tab'.run = tab.run /\ tab'.mounted = tab.mounted
          /\ wire'[c] = <<"1006">> /\ handler' = handler
      BY <1>2, <3>1 DEF Breaks, Linked, TypeOK
    <3>3. handler[c].run = tab.run /\ c # NoConn
      BY <1>2, <3>2, StreamAssumptions DEF Linked
    <3>4. 1 \in Endings(c)'
      BY <3>2 DEF Endings
    <3>5. Bringing(c)'
      BY <3>4 DEF Bringing
    <3>6. Bringing(hook.socket)'
      BY <3>2, <3>5
    <3> QED
      BY <2>5, <2>8, <3>2, <3>3, <3>6
  <2>9. ASSUME NEW c \in Conns, Browser(c), ~\E r \in Runs : StartRun(r) PROVE SpinnerIsOwed'
    <3>1. HandledOnly(c) /\ (Connected(c) \/ Listed(c) \/ Shown(c) \/ Hangs(c))
      BY <1>2, <2>9, FrameHandled
    <3>2. /\ tab'.run = tab.run /\ tab'.mounted = tab.mounted /\ hook'.socket = hook.socket
          /\ handler' = handler
      BY <3>1 DEF HandledOnly, Connected, Listed, Shown, Hangs, Dismissed, Rescheduled, SameVisit
    <3>3. /\ c = hook.socket /\ hook.socket # NoConn /\ handler[c].run = tab.run /\ tab.run # NoRun
          /\ hook.timer = NoRun
      BY <1>2, <2>0, <3>1, StreamAssumptions DEF HandledOnly, Linked
    <3>4. ASSUME tab'.optimizing, tab'.mounted
          PROVE  hook'.timer = tab'.run \/ Bringing(c)'
      <4>1. Bringing(c)
        BY <2>1, <2>9, <3>2, <3>3, <3>4
      <4>2. CASE OnClose(c)
        BY <1>2, <3>2, <3>3, <3>4, <4>1, <4>2, CloseSettles
      <4>3. CASE OnOpen(c) \/ OnProgress(c)
        <5>1. up' = up /\ (Head(wire[c]) \in {"open"} \/ Head(wire[c]) \in Steps)
          BY <4>3 DEF OnOpen, OnProgress, Handles
        <5>2. Head(wire[c]) \notin Verdicts \cup {"1006", "4001"}
          BY <5>1, FrameKinds DEF Codes, Verdicts
        <5> QED
          BY <1>2, <3>1, <4>1, <5>1, <5>2, HandledBrings
      <4>4. CASE OnResult(c) \/ OnError(c)
        <5>1. ~tab'.optimizing
          BY <2>0, <4>4, VerdictStops
        <5> QED
          BY <3>4, <5>1
      <4> QED
        BY <2>9, <4>2, <4>3, <4>4 DEF Browser
    <3>5. Bringing(c)' => Bringing(hook.socket)'
      BY <3>2, <3>3
    <3> QED
      BY <2>5, <2>9, <3>2, <3>3, <3>4, <3>5
  <2>10. CASE Leaves /\ ~tab'.mounted /\ ~\E r \in Runs : StartRun(r)
    <3>1. tab'.run = tab.run
      BY <2>10 DEF Leaves
    <3>2. ~tab'.mounted /\ ~\E r \in Runs : StartRun(r)
      BY <2>10
    <3> QED
      BY <2>5, <3>1, <3>2
  <2>11. CASE Visits /\ ~\E r \in Runs : StartRun(r)
    BY <2>1, <2>11 DEF Visits, SpinnerIsOwed
  <2>12. CASE UNCHANGED vars \/ \E r \in Runs : Expire(r)
    <3>1. UNCHANGED <<handler, up, wire, tab, hook>>
      BY <2>12 DEF vars, Expire
    <3>2. \A d \in Conns : Bringing(d)' <=> Bringing(d)
      BY <3>1 DEF Bringing, Endings
    <3> QED
      BY <1>2, <2>0, <3>1, <3>2 DEF SpinnerIsOwed
  <2>13. Unmount => ~tab'.mounted
    BY <2>0 DEF Unmount, Tab
  <2>14. CASE \E r \in Runs : StartRun(r)
    BY <2>3, <2>14
  <2>15. CASE Mount /\ ~\E r \in Runs : StartRun(r)
    BY <1>2, <2>4, <2>11, <2>15, MountDials, MountVisits
  <2>16. CASE RetryTimer /\ ~\E r \in Runs : StartRun(r)
    BY <1>2, <2>4, <2>16, RetryDials
  <2>17. CASE Unmount /\ ~\E r \in Runs : StartRun(r)
    BY <1>2, <2>10, <2>13, <2>17, UnmountLeaves
  <2>18. CASE ~\E r \in Runs : StartRun(r)
    <3>1. \/ UNCHANGED vars \/ RetryTimer \/ Unmount \/ Mount
          \/ \E r \in Runs : Expire(r) \/ \E m \in Messages : Publish(r, m)
          \/ \E c \in Conns : Serving(c) \/ Drop(c) \/ Browser(c)
      BY <1>2, <2>18 DEF Next, Serving
    <3> QED
      BY <2>6, <2>7, <2>8, <2>9, <2>12, <2>15, <2>16, <2>17, <2>18, <3>1
  <2> QED
    BY <2>14, <2>18
<1>3. LinkInv /\ LinkInv' /\ SpinnerIsOwed /\ [Next]_vars => SpinnerIsOwed'
  BY <1>2
<1> QED
  BY <1>1, <1>3, LinkInvHolds, PTL DEF Spec

=============================================================================
