--------------------------- MODULE CallbackServer ---------------------------
(***************************************************************************)
(* Authorising a business: MyobOAuth's single pending OAuth state, the     *)
(* localhost server that waits for the browser's redirect, and the manual  *)
(* exchange of a code.                                                     *)
(*                                                                         *)
(* A flow is one call of myob_oauth_authorize_business.  Its server runs   *)
(* one handler per connection, and the handlers share the variables        *)
(* result_success and result_error of the flow; they interleave at their   *)
(* awaits: reading the request, exchanging the code, answering.  What a    *)
(* request says is the browser's choice; the OAuth state minted by a flow  *)
(* is the flow itself.  Which tokens an exchange stores is TokenRegistry's *)
(* subject.                                                                *)
(*                                                                         *)
(* An operator named Faulty... is a plausible mistake in the one after it; *)
(* no action uses it, the mutation runs substitute it.                     *)
(***************************************************************************)
EXTENDS Integers

CONSTANTS
    Flows,      \* how many calls of the authorize tool there may be
    Visits      \* how many connections to the servers and manual exchanges

ASSUME FlowsAndVisitsAreNumbers == Flows \in Nat /\ Visits \in Nat

VARIABLES
    waits,          \* wait_closed waits for the connections (Python 3.12 and later)
    oauth_state,    \* MyobOAuth._oauth_state: the one request that is pending
    flow,           \* flow[f]: where the call is
    success,        \* success[f]: result_success
    error,          \* error[f]: result_error
    event,          \* event[f]: the event is set
    pc,             \* pc[v]: where the handler of v is
    server,         \* server[v]: the flow that serves v
    state,          \* state[v]: the OAuth state v came with, once its code is exchanged
    stored          \* visits whose code was exchanged, and the tokens stored

vars == <<waits, oauth_state, flow, success, error, event, pc, server, state, stored>>

visits == <<pc, server, state, stored>>
results == <<success, error, event>>

-----------------------------------------------------------------------------
\* Flows and visits are numbered in the order in which they begin.
Flow == 1 .. Flows
Visit == 1 .. Visits

None == 0
Manual == -1    \* the "server" of a manual exchange

\* result_error: not set, set to an empty string (str(TimeoutError()) is one), or
\* set to a text.  Only a text is true in Python.
Error == {"none", "empty", "text"}

\* "closing" has seen the event, "expiring" has not (timed out or cancelled), and
\* both await wait_closed; "manual" returned the URL at once; the last four have
\* returned or raised: "success", "failure" with its error, "raised" (expired,
\* cancelled, port in use), and "unexplained", a failure with none.
FlowState == {"new", "listening", "closing", "expiring", "manual",
              "success", "failure", "unexplained", "raised"}

VisitState == {"new", "reading", "exchanging", "answering", "over"}

Init ==
    /\ waits \in BOOLEAN
    /\ oauth_state = None
    /\ flow = [f \in Flow |-> "new"]
    /\ success = [f \in Flow |-> FALSE]
    /\ error = [f \in Flow |-> "none"]
    /\ event = [f \in Flow |-> FALSE]
    /\ pc = [v \in Visit |-> "new"]
    /\ server = [v \in Visit |-> None]
    /\ state = [v \in Visit |-> None]
    /\ stored = {}

Started == {f \in Flow : flow[f] # "new"}

-----------------------------------------------------------------------------
(* The authorize tool.  A new request replaces the pending one before the  *)
(* server is started, and a busy port raises after that.                   *)

Start(f, to) ==
    /\ \A g \in Flow : flow[g] = "new" <=> g >= f
    /\ oauth_state' = f
    /\ flow' = [flow EXCEPT ![f] = to]
    /\ UNCHANGED <<results, visits>>

StartListening(f) == (\A g \in Flow : flow[g] # "listening") /\ Start(f, "listening")

\* Another flow, or another program, has the port.
PortInUse(f) == Start(f, "raised")

StartManual(f) == Start(f, "manual")

FlowMoves(f, from, to) ==
    /\ flow[f] = from
    /\ flow' = [flow EXCEPT ![f] = to]
    /\ UNCHANGED <<oauth_state, results, visits>>

Wakes(f) == event[f] /\ FlowMoves(f, "listening", "closing")

FaultyTimesOut(f) == FALSE

\* 180 seconds have passed.
TimesOut(f) == ~event[f] /\ FlowMoves(f, "listening", "expiring")

\* The tool call is cancelled at one of its awaits.
Cancelled(f) ==
    \/ FlowMoves(f, "listening", "expiring")
    \/ FlowMoves(f, "closing", "raised") \/ FlowMoves(f, "expiring", "raised")

\* server.wait_closed returns.
Closed(f) ==
    waits => \A v \in Visit : server[v] = f => pc[v] = "over"

Expires(f) == Closed(f) /\ FlowMoves(f, "expiring", "raised")

\* An error, of any connection, counts before a success.
Returns(f) ==
    /\ Closed(f)
    /\ FlowMoves(f, "closing",
                 IF error[f] = "text" THEN "failure"
                 ELSE IF success[f] THEN "success" ELSE "unexplained")

-----------------------------------------------------------------------------
(* The handler of one connection.                                          *)

Comes(v) == \A w \in Visit : pc[w] = "new" <=> w >= v

Opens(v, f) ==
    /\ flow[f] = "listening"
    /\ Comes(v)
    /\ pc' = [pc EXCEPT ![v] = "reading"]
    /\ server' = [server EXCEPT ![v] = f]
    /\ UNCHANGED <<oauth_state, flow, results, state, stored>>

\* result_error is assigned, and the finally clause follows.
Fails(v, text) ==
    /\ error' = [error EXCEPT ![server[v]] = text]
    /\ pc' = [pc EXCEPT ![v] = "answering"]
    /\ UNCHANGED <<flow, success, event, server, state, stored>>

\* Nothing came for 10 seconds, or no request, a refusal, or no code.
ReadsNoCode(v, text) ==
    /\ pc[v] = "reading"
    /\ Fails(v, text)
    /\ UNCHANGED oauth_state

FaultyAfterValidation == oauth_state
AfterValidation == None

\* validate_state(s) takes the pending state, whether or not it is s.
Validated(s) == oauth_state # None /\ s = oauth_state

ReadsRejectedCode(v, s) ==
    /\ pc[v] = "reading"
    /\ ~Validated(s)
    /\ oauth_state' = AfterValidation
    /\ Fails(v, "text")

\* A code without its businessId raises before the first await.
ReadsCodeWithoutBusiness(v) ==
    /\ pc[v] = "reading"
    /\ Validated(oauth_state)
    /\ oauth_state' = AfterValidation
    /\ Fails(v, "text")

FaultyReadsCode(v, s) ==
    /\ pc[v] = "reading"
    /\ Validated(s)
    /\ oauth_state' = AfterValidation
    /\ state' = [state EXCEPT ![v] = s]
    /\ pc' = [pc EXCEPT ![v] = "exchanging"]
    /\ success' = [success EXCEPT ![server[v]] = TRUE]
    /\ UNCHANGED <<flow, error, event, server, stored>>

ReadsCode(v, s) ==
    /\ pc[v] = "reading"
    /\ Validated(s)
    /\ oauth_state' = AfterValidation
    /\ state' = [state EXCEPT ![v] = s]
    /\ pc' = [pc EXCEPT ![v] = "exchanging"]
    /\ UNCHANGED <<flow, results, server, stored>>

FaultyExchangeDone(v) ==
    /\ pc[v] = "exchanging"
    /\ server[v] # Manual
    /\ stored' = stored \cup {v}
    /\ pc' = [pc EXCEPT ![v] = "answering"]
    /\ UNCHANGED <<oauth_state, flow, results, server, state>>

ExchangeDone(v) ==
    /\ pc[v] = "exchanging"
    /\ server[v] # Manual
    /\ stored' = stored \cup {v}
    /\ success' = [success EXCEPT ![server[v]] = TRUE]
    /\ pc' = [pc EXCEPT ![v] = "answering"]
    /\ UNCHANGED <<oauth_state, flow, error, event, server, state>>

ExchangeFails(v, text) ==
    /\ pc[v] = "exchanging"
    /\ server[v] # Manual
    /\ Fails(v, text)
    /\ UNCHANGED oauth_state

\* The browser has the page, and the event is set.
Answers(v) ==
    /\ pc[v] = "answering"
    /\ pc' = [pc EXCEPT ![v] = "over"]
    /\ event' = [event EXCEPT ![server[v]] = TRUE]
    /\ UNCHANGED <<oauth_state, flow, success, error, server, state, stored>>

FaultyAnswerBreaks(v) ==
    /\ pc[v] = "answering"
    /\ pc' = [pc EXCEPT ![v] = "over"]
    /\ error' = [error EXCEPT ![server[v]] = "text"]
    /\ event' = [event EXCEPT ![server[v]] = TRUE]
    /\ UNCHANGED <<oauth_state, flow, success, server, state, stored>>

\* drain or wait_closed raises, and the event is not set.
AnswerBreaks(v) ==
    /\ pc[v] = "answering"
    /\ pc' = [pc EXCEPT ![v] = "over"]
    /\ UNCHANGED <<oauth_state, flow, results, server, state, stored>>

-----------------------------------------------------------------------------
(* myob_oauth_exchange_code and _redirect_url: the state is looked at only *)
(* if one is given and one is pending.                                     *)

ManualBegins(v, s) ==
    /\ Comes(v)
    /\ server' = [server EXCEPT ![v] = Manual]
    /\ LET looked == s # None /\ oauth_state # None
           goes == looked => Validated(s)
       IN  /\ oauth_state' = IF looked THEN AfterValidation ELSE oauth_state
           /\ pc' = [pc EXCEPT ![v] = IF goes THEN "exchanging" ELSE "over"]
           /\ state' = IF goes THEN [state EXCEPT ![v] = s] ELSE state
    /\ UNCHANGED <<flow, results, stored>>

ManualEnds(v, tokens) ==
    /\ pc[v] = "exchanging"
    /\ server[v] = Manual
    /\ stored' = IF tokens THEN stored \cup {v} ELSE stored
    /\ pc' = [pc EXCEPT ![v] = "over"]
    /\ UNCHANGED <<oauth_state, flow, results, server, state>>

-----------------------------------------------------------------------------
FlowStep(f) == Wakes(f) \/ TimesOut(f) \/ Expires(f) \/ Returns(f)

Handler(v) ==
    \/ \E text \in {"empty", "text"} : ReadsNoCode(v, text) \/ ExchangeFails(v, text)
    \/ \E s \in Started \cup {None} : ReadsRejectedCode(v, s) \/ ReadsCode(v, s)
    \/ ReadsCodeWithoutBusiness(v)
    \/ ExchangeDone(v) \/ Answers(v) \/ AnswerBreaks(v)

Next ==
    /\ \/ \E f \in Flow : StartListening(f) \/ PortInUse(f) \/ StartManual(f)
                          \/ FlowStep(f) \/ Cancelled(f)
       \/ \E v \in Visit, f \in Flow : Opens(v, f)
       \/ \E v \in Visit : Handler(v)
       \/ \E v \in Visit, s \in Started \cup {None} : ManualBegins(v, s)
       \/ \E v \in Visit, tokens \in BOOLEAN : ManualEnds(v, tokens)
    /\ UNCHANGED waits

Spec == Init /\ [][Next]_vars

\* The event loop runs something as long as anything is ready, and its timers
\* fire: 180 seconds for the event, 10 for a request line, 30 for an exchange; a
\* small page is written at once, or the connection breaks.
FairSpec ==
    Spec /\ WF_vars(((\E f \in Flow : FlowStep(f)) \/ \E v \in Visit : Handler(v)) /\ UNCHANGED waits)

-----------------------------------------------------------------------------
(* Properties.                                                             *)

\* Every variable stays in its range; when the event is set a result is there.
TypeOK ==
    /\ waits \in BOOLEAN
    /\ oauth_state \in Flow \cup {None}
    /\ flow \in [Flow -> FlowState]
    /\ success \in [Flow -> BOOLEAN]
    /\ error \in [Flow -> Error]
    /\ event \in [Flow -> BOOLEAN]
    /\ pc \in [Visit -> VisitState]
    /\ server \in [Visit -> Flow \cup {None, Manual}]
    /\ state \in [Visit -> Flow \cup {None}]
    /\ stored \subseteq Visit
    /\ \A f \in Flow : event[f] => success[f] \/ error[f] # "none"

\* A redirect whose state has been used, reloaded or duplicated, is exchanged
\* again only by a manual exchange while no request is pending: the callback
\* server never does, nor does anyone while one is (validate_state; 68-70).
UsedStateRefused ==
    [][\A w \in Visit :
          ( /\ state[w] = None /\ state'[w] # None
            /\ \E v \in Visit : state[v] = state'[w] )
              => server'[w] = Manual /\ oauth_state = None]_vars

\* The tool reports success only if a redirect to its own server has had its
\* tokens stored, although several handlers share the result (47, 79-81).
SuccessMeansStored ==
    \A f \in Flow : flow[f] = "success" => \E v \in stored : server[v] = f

\* A failure without a text never hides tokens the tool has stored: when the
\* result is read its server has stored none (an exchange may be under way still,
\* where wait_closed waits for no one).
UnexplainedStoredNothing ==
    [][\A f \in Flow :
          (flow[f] # "unexplained" /\ flow'[f] = "unexplained")
              => \A v \in stored : server[v] # f]_vars

\* The tool always returns, even if the browser never comes or hangs up before
\* the answer is written, so that the event is never set (72, 65-68), and
\* whether or not it must wait for the connections that are still open (77).
FlowEnds ==
    \A f \in Flow :
        flow[f] = "listening" ~> flow[f] \notin {"listening", "closing", "expiring"}

\* If the tool reports a failure although it has stored tokens, then another
\* connection has failed before the result was read (53-55, 79).
FailureIsAnothers ==
    \A v \in stored :
        (server[v] \in Flow /\ flow[server[v]] = "failure") =>
            \E w \in Visit \ stored :
                server[w] = server[v] /\ pc[w] \in {"answering", "over"}

=============================================================================
