------------------------ MODULE CallbackServerProofs ------------------------
(***************************************************************************)
(* What CallbackServer keeps for every number of authorization flows and   *)
(* of connections.                                                         *)
(*                                                                         *)
(* The handlers of a flow share its result, and the flow reads it later.   *)
(* The invariant ties the two together through the visits: a result that   *)
(* is set has a visit that accounts for it (ResultInv), a visit that was   *)
(* answered or stored has left its result (VisitInv), and an OAuth state   *)
(* is either pending or held by visits, never both (StateInv).             *)
(* The last theorem bounds the steps of calls and of handlers.             *)
(***************************************************************************)
EXTENDS CallbackServer, TLAPS

Ranges ==
    /\ waits \in BOOLEAN
    /\ oauth_state \in Flow \cup {None}
    /\ flow \in [Flow -> FlowState]
    /\ success \in [Flow -> BOOLEAN]
    /\ error \in [Flow -> Error]
    /\ event \in [Flow -> BOOLEAN]
    /\ pc \in [Visit -> VisitState]
    /\ server \in [Visit -> Flow \cup {None, Manual}]
    /\ state \in [Visit -> Flow \cup {None}]
    /\ stored \subseteq Visit

\* A visit that ended without its code exchanged.
Failed(w) == w \notin stored /\ pc[w] \in {"answering", "over"}

\* Where a visit's handler is says who serves it and what it has left behind.
VisitInv ==
    \A v \in Visit :
        /\ pc[v] \in {"new", "reading"} => state[v] = None
        /\ pc[v] \in {"reading", "answering"} => server[v] \in Flow
        /\ pc[v] = "exchanging" => server[v] \in Flow \cup {Manual}
        /\ pc[v] \in {"new", "reading", "exchanging"} => v \notin stored
        /\ pc[v] = "answering" => success[server[v]] \/ error[server[v]] # "none"
        /\ (v \in stored /\ server[v] \in Flow) => success[server[v]]

\* What a flow's handlers report, some handler of its own accounts for; what
\* the flow returned was reported.
ResultInv ==
    \A f \in Flow :
        /\ event[f] => success[f] \/ error[f] # "none"
        /\ success[f] => \E v \in stored : server[v] = f
        /\ error[f] # "none" => \E w \in Visit : server[w] = f /\ Failed(w)
        /\ flow[f] = "success" => success[f]
        /\ flow[f] = "failure" => error[f] # "none"

\* The state of a request is pending, or with the visits that came with it.
StateInv ==
    /\ oauth_state \in Flow => flow[oauth_state] # "new"
    /\ \A v \in Visit :
          state[v] \in Flow => flow[state[v]] # "new" /\ state[v] # oauth_state

ServerInv == Ranges /\ VisitInv /\ ResultInv /\ StateInv

-----------------------------------------------------------------------------
(* The invariant is kept.                                                  *)

\* No flow has the number that stands for no flow or for a manual exchange.
LEMMA Apart == None \notin Flow /\ Manual \notin Flow /\ None # Manual
  BY FlowsAndVisitsAreNumbers DEF Flow, None, Manual

\* A call goes on, or begins with a request of its own: its number is new, so
\* that no visit holds that state.
LEMMA FlowGoes ==
  ASSUME ServerInv, UNCHANGED <<waits, results, visits>>,
         NEW f \in Flow, NEW to \in FlowState \ {"new"},
         flow' = [flow EXCEPT ![f] = to],
         oauth_state' = oauth_state \/ (flow[f] = "new" /\ oauth_state' = f),
         to = "success" => success[f],
         to = "failure" => error[f] # "none"
  PROVE  ServerInv'
<1>1. Ranges'
  BY DEF ServerInv, Ranges, results, visits
<1>2. VisitInv'
  BY DEF ServerInv, VisitInv, results, visits
<1>3. ResultInv'
  BY DEF ServerInv, Ranges, ResultInv, Failed, results, visits
<1>4. StateInv'
  <2>1. \A g \in Flow : flow[g] # "new" => flow'[g] # "new"
    BY DEF ServerInv, Ranges
  <2>2. flow'[f] # "new"
    BY DEF ServerInv, Ranges
  <2>3. UNCHANGED state
    BY DEF visits
  <2>4. /\ \A v \in Visit : state[v] \in Flow => flow[state[v]] # "new" /\ state[v] # oauth_state
        /\ oauth_state \in Flow => flow[oauth_state] # "new"
    BY DEF ServerInv, StateInv
  <2> QED
    BY <2>1, <2>2, <2>3, <2>4 DEF StateInv
<1> QED
  BY <1>1, <1>2, <1>3, <1>4 DEF ServerInv

\* Every step of a call of the authorize tool keeps the invariant: a success is
\* returned only if one was reported, a failure only if an error was (79-81).
LEMMA FlowGoesOn ==
  ASSUME ServerInv, UNCHANGED waits, NEW f \in Flow,
         StartListening(f) \/ PortInUse(f) \/ StartManual(f) \/ FlowStep(f) \/ Cancelled(f)
  PROVE  ServerInv'
<1>1. ASSUME NEW to \in {"listening", "raised", "manual"}, Start(f, to) PROVE ServerInv'
  <2>1. flow[f] = "new"
    BY <1>1, FlowsAndVisitsAreNumbers DEF Start, Flow
  <2> QED
    BY <1>1, <2>1, FlowGoes DEF Start, FlowState
<1>2. ASSUME NEW from, NEW to \in {"closing", "expiring", "raised", "unexplained"},
             FlowMoves(f, from, to)
      PROVE  ServerInv'
  BY <1>2, FlowGoes DEF FlowMoves, FlowState
<1>3. ASSUME Returns(f) PROVE ServerInv'
  <2>1. CASE error[f] = "text"
    BY <1>3, <2>1, FlowGoes DEF Returns, FlowMoves, FlowState
  <2>2. CASE error[f] # "text" /\ success[f]
    BY <1>3, <2>2, FlowGoes DEF Returns, FlowMoves, FlowState
  <2>3. CASE error[f] # "text" /\ ~success[f]
    BY <1>3, <2>3, <1>2 DEF Returns
  <2> QED
    BY <2>1, <2>2, <2>3
<1> QED
  BY <1>1, <1>2, <1>3
    DEF StartListening, PortInUse, StartManual, FlowStep, Wakes, TimesOut, Expires, Cancelled

\* A handler assigns result_error and goes on to its finally clause.
LEMMA HandlerFails ==
  ASSUME ServerInv, UNCHANGED waits, NEW v \in Visit, NEW text \in {"empty", "text"},
         pc[v] \in {"reading", "exchanging"}, server[v] \in Flow,
         Fails(v, text), oauth_state' \in {oauth_state, None}
  PROVE  ServerInv'
<1> DEFINE f == server[v]
<1>1. /\ error' = [error EXCEPT ![f] = text]
      /\ pc' = [pc EXCEPT ![v] = "answering"]
      /\ UNCHANGED <<flow, success, event, server, state, stored>>
  BY DEF Fails
<1>2. v \notin stored
  BY DEF ServerInv, VisitInv
<1>3. Ranges'
  BY <1>1 DEF ServerInv, Ranges, Error, VisitState
<1>4. /\ pc'[v] = "answering" /\ \A w \in Visit : w # v => pc'[w] = pc[w]
      /\ error'[f] # "none" /\ \A g \in Flow : error[g] # "none" => error'[g] # "none"
      /\ \A g \in Flow : error'[g] # "none" => g = f \/ error[g] # "none"
  BY <1>1 DEF ServerInv, Ranges
<1>5. VisitInv'
  BY <1>1, <1>2, <1>4 DEF ServerInv, VisitInv
<1>6. ResultInv'
  <2>1. Failed(v)' /\ \A w \in Visit : Failed(w) => Failed(w)'
    BY <1>1, <1>2, <1>4 DEF Failed
  <2> QED
    BY <1>1, <1>4, <2>1 DEF ServerInv, ResultInv
<1>7. StateInv'
  BY <1>1, Apart DEF ServerInv, StateInv
<1> QED
  BY <1>3, <1>5, <1>6, <1>7 DEF ServerInv

\* A connection or a manual exchange begins; the latter may take the pending
\* state, and comes with that or with a state that is not pending.
LEMMA VisitBegins ==
  ASSUME ServerInv, UNCHANGED <<waits, flow, results, stored>>,
         NEW v \in Visit, pc[v] = "new",
         NEW place \in {"reading", "exchanging", "over"}, pc' = [pc EXCEPT ![v] = place],
         NEW by \in Flow \cup {Manual}, server' = [server EXCEPT ![v] = by],
         place = "reading" <=> by \in Flow,
         oauth_state' \in {oauth_state, None},
         NEW s \in Started \cup {None}, s # None => place # "reading" /\ oauth_state' = None,
         state' = [state EXCEPT ![v] = s]
  PROVE  ServerInv'
<1>1. /\ v \notin stored /\ stored \subseteq Visit
      /\ pc \in [Visit -> VisitState] /\ server \in [Visit -> Flow \cup {None, Manual}]
      /\ state \in [Visit -> Flow \cup {None}]
  BY DEF ServerInv, VisitInv, Ranges
<1>2. /\ pc'[v] = place /\ server'[v] = by /\ state'[v] = s
      /\ \A w \in Visit \ {v} : pc'[w] = pc[w] /\ server'[w] = server[w] /\ state'[w] = state[w]
  BY <1>1
<1>3. Ranges'
  BY <1>1 DEF ServerInv, Ranges, VisitState, Started, results
<1>4. VisitInv'
  BY <1>1, <1>2 DEF ServerInv, VisitInv, results
<1>5. ResultInv'
  <2>1. /\ \A w \in stored : server'[w] = server[w]
        /\ \A w \in Visit : Failed(w) => Failed(w)' /\ server'[w] = server[w]
    BY <1>1, <1>2 DEF Failed
  <2> QED
    BY <2>1 DEF ServerInv, ResultInv, results
<1>6. StateInv'
  BY <1>2, Apart DEF ServerInv, StateInv, Started
<1> QED
  BY <1>3, <1>4, <1>5, <1>6 DEF ServerInv

\* A redirect with the pending state takes it.
LEMMA CodeIsRead ==
  ASSUME ServerInv, UNCHANGED waits, NEW v \in Visit, NEW s \in Started \cup {None},
         ReadsCode(v, s)
  PROVE  ServerInv'
<1>1. /\ s = oauth_state /\ s \in Flow /\ oauth_state' = None /\ pc[v] = "reading"
      /\ state' = [state EXCEPT ![v] = s]
      /\ pc' = [pc EXCEPT ![v] = "exchanging"]
      /\ UNCHANGED <<flow, success, error, event, server, stored>>
  BY DEF ReadsCode, Validated, AfterValidation, Started, results
<1>2. Ranges'
  BY <1>1 DEF ServerInv, Ranges, VisitState
<1>3. VisitInv'
  BY <1>1 DEF ServerInv, Ranges, VisitInv
<1>4. ResultInv'
  <2>1. \A w \in Visit : Failed(w) => Failed(w)'
    BY <1>1 DEF ServerInv, Ranges, Failed
  <2> QED
    BY <1>1, <2>1 DEF ServerInv, ResultInv
<1>5. StateInv'
  <2>1. /\ state'[v] = s /\ flow[s] # "new"
        /\ \A w \in Visit \ {v} : state'[w] = state[w] /\ state[w] # s
    BY <1>1, Apart DEF ServerInv, Ranges, StateInv
  <2> QED
    BY <1>1, <2>1, Apart DEF ServerInv, StateInv
<1> QED
  BY <1>2, <1>3, <1>4, <1>5 DEF ServerInv

\* An exchange ends: with tokens, or, if it was a manual one, perhaps without.
LEMMA ExchangeEnds ==
  ASSUME ServerInv, UNCHANGED waits, NEW v \in Visit,
         ExchangeDone(v) \/ \E tokens \in BOOLEAN : ManualEnds(v, tokens)
  PROVE  ServerInv'
<1>1. /\ pc[v] = "exchanging" /\ UNCHANGED <<oauth_state, flow, error, event, server, state>>
      /\ stored' = stored \cup {v} \/ (stored' = stored /\ server[v] = Manual)
      /\ IF server[v] = Manual
         THEN pc' = [pc EXCEPT ![v] = "over"] /\ success' = success
         ELSE pc' = [pc EXCEPT ![v] = "answering"] /\ success' = [success EXCEPT ![server[v]] = TRUE]
  BY DEF ExchangeDone, ManualEnds, results
<1>2. server[v] \in Flow \/ server[v] = Manual
  BY <1>1 DEF ServerInv, VisitInv
<1>3. Ranges'
  BY <1>1, <1>2 DEF ServerInv, Ranges, VisitState
<1>4. /\ \A f \in Flow : success[f] => success'[f]
      /\ \A f \in Flow : success'[f] => success[f] \/ (f = server[v] /\ v \in stored')
      /\ server[v] \in Flow => success'[server[v]] /\ pc'[v] = "answering"
      /\ server[v] \notin Flow => pc'[v] = "over"
      /\ \A w \in Visit \ {v} : pc'[w] = pc[w] /\ (w \in stored' <=> w \in stored)
      /\ stored \subseteq stored'
  BY <1>1, <1>2, Apart DEF ServerInv, Ranges
<1>5. VisitInv'
  BY <1>1, <1>2, <1>4 DEF ServerInv, VisitInv
<1>6. ResultInv'
  <2>1. \A w \in Visit : Failed(w) => Failed(w)'
    BY <1>1, <1>4 DEF Failed
  <2> QED
    BY <1>1, <1>4, <2>1 DEF ServerInv, ResultInv
<1>7. StateInv'
  BY <1>1 DEF ServerInv, StateInv
<1> QED
  BY <1>3, <1>5, <1>6, <1>7 DEF ServerInv

\* The page is sent and the event set, or the connection breaks.
LEMMA AnswerEnds ==
  ASSUME ServerInv, UNCHANGED waits, NEW v \in Visit, Answers(v) \/ AnswerBreaks(v)
  PROVE  ServerInv'
<1>1. /\ pc[v] = "answering" /\ pc' = [pc EXCEPT ![v] = "over"]
      /\ event' = event \/ event' = [event EXCEPT ![server[v]] = TRUE]
      /\ UNCHANGED <<oauth_state, flow, success, error, server, state, stored>>
  BY DEF Answers, AnswerBreaks, results
<1>2. server[v] \in Flow /\ (success[server[v]] \/ error[server[v]] # "none")
  BY <1>1 DEF ServerInv, VisitInv
<1>3. Ranges'
  BY <1>1, <1>2 DEF ServerInv, Ranges, VisitState
<1>4. VisitInv'
  BY <1>1 DEF ServerInv, Ranges, VisitInv
<1>5. ResultInv'
  <2>1. \A w \in Visit : Failed(w) => Failed(w)'
    BY <1>1 DEF ServerInv, Ranges, Failed
  <2>2. \A f \in Flow : event'[f] => event[f] \/ f = server[v]
    BY <1>1 DEF ServerInv, Ranges
  <2> QED
    BY <1>1, <1>2, <2>1, <2>2 DEF ServerInv, ResultInv
<1>6. StateInv'
  BY <1>1 DEF ServerInv, StateInv
<1> QED
  BY <1>3, <1>4, <1>5, <1>6 DEF ServerInv

\* Every step of a handler or of a manual exchange.
LEMMA VisitGoesOn ==
  ASSUME ServerInv, UNCHANGED waits, NEW v \in Visit,
         \/ \E f \in Flow : Opens(v, f)
         \/ Handler(v)
         \/ \E s \in Started \cup {None} : ManualBegins(v, s)
         \/ \E tokens \in BOOLEAN : ManualEnds(v, tokens)
  PROVE  ServerInv'
<1>1. Comes(v) => pc[v] = "new"
  BY FlowsAndVisitsAreNumbers DEF Comes, Visit
<1>2. pc[v] = "new" => state = [state EXCEPT ![v] = None]
  BY DEF ServerInv, VisitInv, Ranges
<1>3. ASSUME NEW f \in Flow, Opens(v, f) PROVE ServerInv'
  BY <1>1, <1>2, <1>3, VisitBegins DEF Opens, results
<1>4. ASSUME NEW s \in Started \cup {None}, ManualBegins(v, s) PROVE ServerInv'
  <2>1. \E place \in {"exchanging", "over"}, x \in Started \cup {None} :
            /\ pc' = [pc EXCEPT ![v] = place] /\ oauth_state' \in {oauth_state, None}
            /\ state' = [state EXCEPT ![v] = x]
            /\ x # None => oauth_state' = None
    BY <1>1, <1>2, <1>4 DEF ManualBegins, AfterValidation, Validated
  <2> QED
    BY <1>1, <1>4, <2>1, VisitBegins, Apart DEF ManualBegins
<1>5. ASSUME NEW text \in {"empty", "text"}, ReadsNoCode(v, text) \/ ExchangeFails(v, text)
      PROVE  ServerInv'
  <2>1. server[v] \in Flow /\ pc[v] \in {"reading", "exchanging"}
    BY <1>5 DEF ServerInv, VisitInv, ReadsNoCode, ExchangeFails
  <2> QED
    BY <1>5, <2>1, HandlerFails DEF ReadsNoCode, ExchangeFails
<1>6. ASSUME \/ ReadsCodeWithoutBusiness(v)
             \/ \E s \in Started \cup {None} : ReadsRejectedCode(v, s)
      PROVE  ServerInv'
  <2>1. server[v] \in Flow /\ pc[v] = "reading"
    BY <1>6 DEF ServerInv, VisitInv, ReadsCodeWithoutBusiness, ReadsRejectedCode
  <2> QED
    BY <1>6, <2>1, HandlerFails DEF ReadsCodeWithoutBusiness, ReadsRejectedCode, AfterValidation
<1> QED
  BY <1>3, <1>4, <1>5, <1>6, CodeIsRead, ExchangeEnds, AnswerEnds DEF Handler

\* The invariant is kept by every flow, connection and manual exchange.
LEMMA ServerStep == ServerInv /\ [Next]_vars => ServerInv'
<1> SUFFICES ASSUME ServerInv, [Next]_vars PROVE ServerInv'
  OBVIOUS
<1>1. CASE UNCHANGED vars
  BY <1>1 DEF vars, ServerInv, Ranges, VisitInv, ResultInv, StateInv, Failed
<1>2. CASE Next
  BY <1>2, FlowGoesOn, VisitGoesOn DEF Next
<1> QED
  BY <1>1, <1>2

-----------------------------------------------------------------------------
(* What follows from it.                                                   *)

\* Results, visits and OAuth states account for each other at all times,
\* however the handlers of a flow interleave.
THEOREM ServerInvariant == Spec => []ServerInv
<1>1. Init => ServerInv
  <2> SUFFICES ASSUME Init PROVE ServerInv
    OBVIOUS
  <2>1. Ranges
    BY DEF Init, Ranges, FlowState, VisitState, Error
  <2>2. VisitInv /\ ResultInv
    BY DEF Init, VisitInv, ResultInv
  <2>3. StateInv
    BY Apart DEF Init, StateInv
  <2> QED
    BY <2>1, <2>2, <2>3 DEF ServerInv
<1> QED
  BY <1>1, ServerStep, PTL DEF Spec

\* Every variable stays in its range, and an event that is set has a result
\* behind it (TypeOK).
THEOREM TypeCorrect == Spec => []TypeOK
<1>1. ServerInv => TypeOK
  BY DEF ServerInv, Ranges, ResultInv, TypeOK
<1> QED
  BY <1>1, ServerInvariant, PTL

\* A redirect whose state has been used is exchanged again only manually, and
\* only while no request is pending (UsedStateRefused): the pending state is held
\* by no visit.
THEOREM UsedStateIsRefused == Spec => UsedStateRefused
<1> DEFINE Step == \A w \in Visit :
                      ( /\ state[w] = None /\ state'[w] # None
                        /\ \E v \in Visit : state[v] = state'[w] )
                          => server'[w] = Manual /\ oauth_state = None
<1>1. ServerInv /\ [Next]_vars => [Step]_vars
  <2> SUFFICES ASSUME ServerInv, Next, NEW w \in Visit, NEW v \in Visit,
                      state[w] = None, state'[w] # None, state[v] = state'[w]
               PROVE  server'[w] = Manual /\ oauth_state = None
    OBVIOUS
  <2>1. state'[w] # oauth_state
    BY DEF ServerInv, Ranges, StateInv
  <2>2. \A x \in Visit : \A s : state' = [state EXCEPT ![x] = s] => x = w /\ s = state'[w]
    BY DEF ServerInv, Ranges
  <2>3. ASSUME NEW x \in Visit, NEW s \in Started \cup {None}, ReadsCode(x, s) PROVE FALSE
    BY <2>1, <2>2, <2>3 DEF ReadsCode, Validated
  <2>4. PICK x \in Visit, s \in Started \cup {None} : ManualBegins(x, s)
    BY <2>3 DEF Next, StartListening, PortInUse, StartManual, Start, FlowStep, Wakes, TimesOut,
       Expires, Returns, Cancelled, FlowMoves, Opens, Handler, ReadsNoCode, ExchangeFails,
       ReadsRejectedCode, ReadsCodeWithoutBusiness, ExchangeDone, Answers, AnswerBreaks,
       ManualEnds, Fails, visits
  <2>5. x = w /\ s = state'[w]
    BY <2>2, <2>4 DEF ManualBegins
  <2>6. server'[w] = Manual
    BY <2>4, <2>5 DEF ManualBegins, ServerInv, Ranges
  <2>7. oauth_state = None
    BY <2>1, <2>4, <2>5 DEF ManualBegins, Validated
  <2> QED
    BY <2>6, <2>7
<1> QED
  BY <1>1, ServerInvariant, PTL DEF Spec, UsedStateRefused

\* A reported success has stored tokens behind it, and they came by a redirect
\* to the flow's own server (SuccessMeansStored).
THEOREM SuccessIsStored == Spec => []SuccessMeansStored
<1>1. ServerInv => SuccessMeansStored
  BY DEF ServerInv, ResultInv, SuccessMeansStored
<1> QED
  BY <1>1, ServerInvariant, PTL

\* A failure reported although tokens were stored is another connection's
\* (FailureIsAnothers).
THEOREM FailureIsExplained == Spec => []FailureIsAnothers
<1>1. ServerInv => FailureIsAnothers
  BY DEF ServerInv, ResultInv, Failed, FailureIsAnothers
<1> QED
  BY <1>1, ServerInvariant, PTL

\* When a flow reports a failure without a text, no visit to its own server has
\* stored tokens (UnexplainedStoredNothing).
THEOREM UnexplainedIsNothing == Spec => UnexplainedStoredNothing
<1> DEFINE Step == \A f \in Flow :
                      (flow[f] # "unexplained" /\ flow'[f] = "unexplained")
                          => \A v \in stored : server[v] # f
<1>1. ServerInv /\ [Next]_vars => [Step]_vars
  <2> SUFFICES ASSUME ServerInv, Next, NEW f \in Flow,
                      flow[f] # "unexplained", flow'[f] = "unexplained"
               PROVE  \A v \in stored : server[v] # f
    OBVIOUS
  <2>1. PICK g \in Flow : StartListening(g) \/ PortInUse(g) \/ StartManual(g)
                          \/ FlowStep(g) \/ Cancelled(g)
    BY DEF Next, Opens, Handler, ReadsNoCode, ExchangeFails, ReadsRejectedCode, ReadsCode,
           ReadsCodeWithoutBusiness, ExchangeDone, Answers, AnswerBreaks, ManualBegins,
           ManualEnds, Fails
  <2>2. \A to : flow' = [flow EXCEPT ![g] = to] => g = f /\ to = "unexplained"
    BY DEF ServerInv, Ranges
  <2>3. Returns(g)
    BY <2>1, <2>2 DEF StartListening, PortInUse, StartManual, Start, FlowStep, Wakes,
       TimesOut, Expires, Cancelled, FlowMoves
  <2>4. g = f /\ ~success[f]
    BY <2>2, <2>3 DEF Returns, FlowMoves
  <2> QED
    BY <2>4 DEF ServerInv, Ranges, VisitInv
<1> QED
  BY <1>1, ServerInvariant, PTL DEF Spec, UnexplainedStoredNothing

-----------------------------------------------------------------------------
(* How long a call and its handlers can go on.                             *)

\* How many steps a call that is at this place can still make.
FlowLeft(place) ==
    IF place = "new" THEN 3
    ELSE IF place = "listening" THEN 2
    ELSE IF place \in {"closing", "expiring"} THEN 1 ELSE 0

\* And a handler.
VisitLeft(place) ==
    IF place = "new" THEN 4
    ELSE IF place = "reading" THEN 3
    ELSE IF place = "exchanging" THEN 2
    ELSE IF place = "answering" THEN 1 ELSE 0

\* Calls and handlers only go forward, and each of their own steps is one.
GoesForward ==
    /\ \A f \in Flow : FlowLeft(flow'[f]) <= FlowLeft(flow[f])
    /\ \A f \in Flow : FlowStep(f) => FlowLeft(flow'[f]) < FlowLeft(flow[f])
    /\ \A v \in Visit : VisitLeft(pc'[v]) <= VisitLeft(pc[v])
    /\ \A v \in Visit : Handler(v) => VisitLeft(pc'[v]) < VisitLeft(pc[v])

\* A call whose server is closing waits only for handlers that still have a
\* step to make: each has its connection, and none is opened meanwhile.
WaitsForHandlers ==
    \A f \in Flow :
        (flow[f] \in {"closing", "expiring"} /\ ~Closed(f)) =>
            \E v \in Visit : server[v] = f /\ VisitLeft(pc[v]) \in 1 .. 3

\* Who serves a visit is only known once it has begun.
ServedInv == \A v \in Visit : pc[v] = "new" => server[v] = None

\* One flow moves, and not back.
LEMMA FlowForward ==
  ASSUME ServerInv, NEW f \in Flow,
         StartListening(f) \/ PortInUse(f) \/ StartManual(f) \/ FlowStep(f) \/ Cancelled(f)
  PROVE  /\ \A g \in Flow : FlowLeft(flow'[g]) <= FlowLeft(flow[g])
         /\ FlowLeft(flow'[f]) < FlowLeft(flow[f])
         /\ \A g \in Flow \ {f} : flow'[g] = flow[g]
         /\ UNCHANGED visits
<1> DEFINE Moves(to) == flow' = [flow EXCEPT ![f] = to] /\ FlowLeft(to) < FlowLeft(flow[f])
<1>1. (\E to : Moves(to)) /\ UNCHANGED visits
  <2>1. ASSUME NEW to \in {"listening", "raised", "manual"}, Start(f, to)
        PROVE  Moves(to) /\ UNCHANGED visits
    <3>1. flow[f] = "new"
      BY <2>1, FlowsAndVisitsAreNumbers DEF Start, Flow
    <3> QED
      BY <2>1, <3>1 DEF Start, FlowLeft
  <2>2. ASSUME StartListening(f) \/ PortInUse(f) \/ StartManual(f)
        PROVE  (\E to : Moves(to)) /\ UNCHANGED visits
    BY <2>1, <2>2 DEF StartListening, PortInUse, StartManual
  <2>3. ASSUME FlowStep(f) \/ Cancelled(f) PROVE (\E to : Moves(to)) /\ UNCHANGED visits
    <3>1. ASSUME Wakes(f) \/ TimesOut(f) \/ FlowMoves(f, "listening", "expiring")
          PROVE  (\E to : Moves(to)) /\ UNCHANGED visits
      BY <3>1 DEF Wakes, TimesOut, FlowMoves, FlowLeft
    <3>2. ASSUME NEW from \in {"closing", "expiring"},
                 NEW to \in {"success", "failure", "unexplained", "raised"},
                 FlowMoves(f, from, to)
          PROVE  Moves(to) /\ UNCHANGED visits
      BY <3>2 DEF FlowMoves, FlowLeft
    <3>3. ASSUME Returns(f)
          PROVE  \E to \in {"success", "failure", "unexplained"} : FlowMoves(f, "closing", to)
      BY <3>3 DEF Returns
    <3> QED
      BY <2>3, <3>1, <3>2, <3>3 DEF FlowStep, Expires, Cancelled
  <2> QED
    BY <2>2, <2>3
<1>2. PICK to : Moves(to)
  BY <1>1
<1>3. /\ flow'[f] = to /\ \A g \in Flow \ {f} : flow'[g] = flow[g]
  BY <1>2 DEF ServerInv, Ranges
<1>4. \A g \in Flow : FlowLeft(flow[g]) \in Nat /\ FlowLeft(flow'[g]) \in Nat
  BY DEF FlowLeft
<1> QED
  BY <1>1, <1>2, <1>3, <1>4

\* One visit moves, and not back.
LEMMA VisitForward ==
  ASSUME ServerInv, ServedInv, NEW v \in Visit,
         \/ \E f \in Flow : Opens(v, f)
         \/ Handler(v)
         \/ \E s \in Started \cup {None} : ManualBegins(v, s)
         \/ \E tokens \in BOOLEAN : ManualEnds(v, tokens)
  PROVE  /\ \A w \in Visit : VisitLeft(pc'[w]) <= VisitLeft(pc[w])
         /\ VisitLeft(pc'[v]) < VisitLeft(pc[v])
         /\ \A w \in Visit \ {v} : pc'[w] = pc[w]
         /\ ServedInv'
         /\ UNCHANGED flow
<1> DEFINE Moves(to) == pc' = [pc EXCEPT ![v] = to] /\ VisitLeft(to) < VisitLeft(pc[v])
<1>0. /\ VisitLeft("new") = 4 /\ VisitLeft("reading") = 3 /\ VisitLeft("exchanging") = 2
      /\ VisitLeft("answering") = 1 /\ VisitLeft("over") = 0
  BY DEF VisitLeft
<1>1. Comes(v) => pc[v] = "new"
  BY FlowsAndVisitsAreNumbers DEF Comes, Visit
<1> DEFINE Reaches(to) == pc' = [pc EXCEPT ![v] = to]
<1>2. \/ pc[v] = "new" /\ (Reaches("reading") \/ Reaches("exchanging") \/ Reaches("over"))
      \/ pc[v] = "reading" /\ (Reaches("exchanging") \/ Reaches("answering"))
      \/ pc[v] = "exchanging" /\ (Reaches("answering") \/ Reaches("over"))
      \/ pc[v] = "answering" /\ Reaches("over")
  BY <1>1 DEF Opens, Handler, ReadsNoCode, ExchangeFails, ReadsRejectedCode, ReadsCode,
     ReadsCodeWithoutBusiness, ExchangeDone, Answers, AnswerBreaks, ManualBegins, ManualEnds,
     Fails
<1>3. \/ Moves("reading") \/ Moves("exchanging") \/ Moves("answering") \/ Moves("over")
  <2> USE <1>0
  <2>1. CASE pc[v] = "new"
    <3>1. VisitLeft(pc[v]) = 4
      BY <2>1
    <3> QED
      BY <1>2, <2>1, <3>1
  <2>2. CASE pc[v] = "reading"
    <3>1. VisitLeft(pc[v]) = 3
      BY <2>2
    <3> QED
      BY <1>2, <2>2, <3>1
  <2>3. CASE pc[v] = "exchanging"
    <3>1. VisitLeft(pc[v]) = 2
      BY <2>3
    <3> QED
      BY <1>2, <2>3, <3>1
  <2>4. CASE pc[v] = "answering"
    <3>1. VisitLeft(pc[v]) = 1
      BY <2>4
    <3> QED
      BY <1>2, <2>4, <3>1
  <2> QED
    BY <1>2, <2>1, <2>2, <2>3, <2>4
<1>4. PICK to : Moves(to)
  BY <1>3
<1>5. pc'[v] = to /\ \A w \in Visit \ {v} : pc'[w] = pc[w]
  BY <1>4 DEF ServerInv, Ranges
<1>6. \A w \in Visit : VisitLeft(pc[w]) \in 0 .. 4 /\ VisitLeft(pc'[w]) \in 0 .. 4
  BY DEF VisitLeft
<1>7. pc'[v] # "new"
  BY <1>4, <1>5, <1>6 DEF VisitLeft
<1>8. \A w \in Visit \ {v} : server'[w] = server[w]
  BY DEF ServerInv, Ranges, Opens, Handler, ReadsNoCode, ExchangeFails, ReadsRejectedCode,
     ReadsCode, ReadsCodeWithoutBusiness, ExchangeDone, Answers, AnswerBreaks, ManualBegins,
     ManualEnds, Fails
<1>9. UNCHANGED flow
  BY DEF Opens, Handler, ReadsNoCode, ExchangeFails, ReadsRejectedCode,
     ReadsCode, ReadsCodeWithoutBusiness, ExchangeDone, Answers, AnswerBreaks, ManualBegins,
     ManualEnds, Fails
<1> QED
  BY <1>4, <1>5, <1>6, <1>7, <1>8, <1>9 DEF ServedInv

\* A call of the authorize tool makes at most three steps and a handler at most
\* four, however they interleave, and a server that closes waits for nothing
\* but handlers that are under way (callback_server.py, 70-81).
THEOREM FlowsRunOut == Spec => []WaitsForHandlers /\ [][GoesForward]_vars
<1>1. Init => ServedInv
  BY DEF Init, ServedInv
<1>2. ServerInv /\ ServedInv /\ [Next]_vars => ServedInv' /\ [GoesForward]_vars
  <2> SUFFICES ASSUME ServerInv, ServedInv, [Next]_vars
               PROVE  ServedInv' /\ [GoesForward]_vars
    OBVIOUS
  <2>1. CASE UNCHANGED vars
    BY <2>1 DEF ServedInv, vars
  <2>2. ASSUME NEW f \in Flow,
               \/ StartListening(f) \/ PortInUse(f) \/ StartManual(f)
               \/ FlowStep(f) \/ Cancelled(f)
        PROVE  ServedInv' /\ GoesForward
    <3>1. UNCHANGED <<pc, server>>
      BY <2>2, FlowForward DEF visits
    <3>2. \A v \in Visit : ~Handler(v) /\ VisitLeft(pc'[v]) <= VisitLeft(pc[v])
      <4>1. \A v \in Visit : Handler(v) => VisitLeft(pc'[v]) < VisitLeft(pc[v])
        BY VisitForward
      <4>2. \A v \in Visit : VisitLeft(pc[v]) \in Nat
        BY DEF VisitLeft
      <4> QED
        BY <3>1, <4>1, <4>2
    <3>3. \A g \in Flow : FlowStep(g) => FlowLeft(flow'[g]) < FlowLeft(flow[g])
      BY FlowForward
    <3> QED
      BY <2>2, <3>1, <3>2, <3>3, FlowForward DEF GoesForward, ServedInv
  <2>3. ASSUME NEW v \in Visit,
               \/ \E f \in Flow : Opens(v, f)
               \/ Handler(v)
               \/ \E s \in Started \cup {None} : ManualBegins(v, s)
               \/ \E tokens \in BOOLEAN : ManualEnds(v, tokens)
        PROVE  ServedInv' /\ GoesForward
    <3>1. UNCHANGED flow /\ ServedInv' /\ \A w \in Visit : VisitLeft(pc'[w]) <= VisitLeft(pc[w])
      BY <2>3, VisitForward
    <3>2. \A f \in Flow : ~FlowStep(f) /\ FlowLeft(flow'[f]) <= FlowLeft(flow[f])
      <4>1. \A f \in Flow : FlowStep(f) => FlowLeft(flow'[f]) < FlowLeft(flow[f])
        BY FlowForward
      <4>2. \A f \in Flow : FlowLeft(flow[f]) \in Nat
        BY DEF FlowLeft
      <4> QED
        BY <3>1, <4>1, <4>2
    <3>3. \A w \in Visit : Handler(w) => VisitLeft(pc'[w]) < VisitLeft(pc[w])
      BY VisitForward
    <3> QED
      BY <3>1, <3>2, <3>3 DEF GoesForward
  <2> QED
    BY <2>1, <2>2, <2>3 DEF Next
<1>3. ServerInv /\ ServedInv => WaitsForHandlers
  <2> SUFFICES ASSUME ServerInv, ServedInv, NEW f \in Flow, ~Closed(f)
               PROVE  \E v \in Visit : server[v] = f /\ VisitLeft(pc[v]) \in 1 .. 3
    BY DEF WaitsForHandlers
  <2>1. PICK v \in Visit : server[v] = f /\ pc[v] # "over"
    BY DEF Closed
  <2>2. pc[v] \in VisitState \ {"over", "new"}
    BY <2>1, Apart DEF ServerInv, Ranges, ServedInv
  <2>3. VisitLeft(pc[v]) \in 1 .. 3
    BY <2>2 DEF VisitState, VisitLeft
  <2> QED
    BY <2>1, <2>3
<1> QED
  BY <1>1, <1>2, <1>3, ServerInvariant, PTL DEF Spec

=============================================================================
