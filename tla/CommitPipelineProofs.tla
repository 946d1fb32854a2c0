------------------------ MODULE CommitPipelineProofs ------------------------
(***************************************************************************)
(* What CommitPipeline keeps for every payload, every time to live and     *)
(* every number of retries: it is an ApprovalBroker, and a MYOB that       *)
(* honours keys applies an operation once.                                 *)
(*                                                                         *)
(* Both theorems rest on what the two requests and MYOB know together.  A  *)
(* request that returned was applied, so that its commit may save          *)
(* "committed" (ImplementsBroker).  Every copy of either request carries   *)
(* the operation's key, so that whichever MYOB receives first is the only  *)
(* one it applies.  What the broker itself keeps carries over from         *)
(* ApprovalBrokerProofs, through the first theorem.                        *)
(*                                                                         *)
(* The last theorem bounds the steps of a commit that is under way: what   *)
(* liveness needs besides the fairness of the event loop.                  *)
(***************************************************************************)
EXTENDS CommitPipeline, ApprovalBrokerProofs

\* A request with a key: every copy carries it, fresh headers included; and a
\* request that has, or is about to return, a success was applied.
RequestInv(requestPc, keyHeader, wire, answer, done) ==
    /\ requestPc \in {"sending", "waiting", "sleeping"} => keyHeader = TRUE
    /\ \A m \in wire : m.keyed = TRUE
    /\ (requestPc = "returned" \/ (requestPc = "waiting" /\ answer = A!Success)) => done = TRUE

\* MYOB has applied the operation if it did it for a call, or remembers its
\* key; if it honours keys, only once, and then it remembers.
AppliedInv ==
    /\ keyed = TRUE
    /\ applied \in Nat
    /\ keySeen = TRUE => applied >= 1
    /\ \A c \in Call : posted[c] = TRUE => applied >= 1
    /\ honoursKey => applied <= 1 /\ (applied = 1 => keySeen = TRUE)

PipelineInv ==
    /\ TypeOK
    /\ RequestInv(pcA, keyHeaderA, wireA, answerA, posted["a"])
    /\ RequestInv(pcB, keyHeaderB, wireB, answerB, posted["b"])
    /\ AppliedInv

-----------------------------------------------------------------------------
(* Every step of the pipeline is a step of the broker.                     *)

\* What a request does is no step of the broker; its end is one, and a commit
\* that succeeds is one only because the request was applied.
LEMMA StepIsBrokers == PipelineInv /\ [PipelineNext]_pipeline => [Next]_vars
<1> SUFFICES ASSUME PipelineInv, [PipelineNext]_pipeline PROVE [Next]_vars
  OBVIOUS
<1> USE TwoCalls
<1>1. CASE BrokerStep
  BY <1>1 DEF BrokerStep, Next, ToolCall, Environment
<1>2. CASE ExecutorStep
  BY <1>2 DEF ExecutorStep, vars
\* A request that returned was applied, so that the broker may save it.
<1>3. ASSUME NEW c \in Call, NEW requestPc, OutcomeOf(c, requestPc),
             requestPc = "returned" => posted[c] = TRUE
      PROVE  [Next]_vars
  BY <1>3 DEF OutcomeOf, CommitSucceeded, Next, Completion
<1>4. /\ pcA = "returned" => posted["a"] = TRUE
      /\ pcB = "returned" => posted["b"] = TRUE
  BY DEF PipelineInv, RequestInv
<1>5. CASE OutcomeOf("a", pcA) \/ OutcomeOf("b", pcB)
  BY <1>3, <1>4, <1>5
<1>6. CASE CallCancelled
  BY <1>6 DEF CallCancelled, Next, Completion
<1>7. CASE MyobStep
  BY <1>7 DEF MyobStep, AppliedFor, Next, Environment
<1>8. CASE UNCHANGED pipeline
  BY <1>8 DEF pipeline
<1> QED
  BY <1>1, <1>2, <1>5, <1>6, <1>7, <1>8 DEF PipelineNext

-----------------------------------------------------------------------------
(* One request: what its own steps and MYOB's keep.                        *)

\* The steps of call a's own request: headers, copies, retries and refreshes all
\* carry the key, and it returns only on a success.
LEMMA RequestOfA ==
  ASSUME keyed = TRUE, RequestInv(pcA, keyHeaderA, wireA, answerA, posted["a"]),
         A!ClientStep \/ A!Cancelled
  PROVE  /\ RequestInv(pcA', keyHeaderA', wireA', answerA', posted["a"])
         /\ UNCHANGED service
<1> USE DEF RequestInv, A!Success, A!service
<1>1. CASE A!Send
  <2>1. keyHeaderA = TRUE => A!ThisCopy.keyed = TRUE
    BY DEF A!ThisCopy
  <2> QED
    BY <1>1, <2>1 DEF A!Send, A!NoAnswer, service
<1>2. CASE A!Timeout \/ A!RequestError
  BY <1>2 DEF A!Timeout, A!RequestError, A!NextAttempt, A!Raise, service
<1>3. CASE A!Unauthorised \/ A!Limited \/ A!RetryServerError \/ A!ErrorAnswer \/ A!Returns
  BY <1>3 DEF A!Unauthorised, A!Limited, A!RetryServerError, A!ErrorAnswer, A!Returns,
              A!Answered, A!NextAttempt, A!Raise, service
<1>4. CASE A!HeadersReady \/ A!HeadersFail \/ A!Refreshed \/ A!RefreshFails \/ A!Wakes \/ A!Cancelled
  BY <1>4 DEF A!HeadersReady, A!HeadersFail, A!Refreshed, A!RefreshFails, A!Wakes,
              A!Cancelled, A!Raise, service
<1> QED
  BY <1>1, <1>2, <1>3, <1>4 DEF A!ClientStep

\* The same for the request of call b.
LEMMA RequestOfB ==
  ASSUME keyed = TRUE, RequestInv(pcB, keyHeaderB, wireB, answerB, posted["b"]),
         B!ClientStep \/ B!Cancelled
  PROVE  /\ RequestInv(pcB', keyHeaderB', wireB', answerB', posted["b"])
         /\ UNCHANGED service
<1> USE DEF RequestInv, A!Success, B!Success, B!service
<1>1. CASE B!Send
  <2>1. keyHeaderB = TRUE => B!ThisCopy.keyed = TRUE
    BY DEF B!ThisCopy
  <2> QED
    BY <1>1, <2>1 DEF B!Send, B!NoAnswer, service
<1>2. CASE B!Timeout \/ B!RequestError
  BY <1>2 DEF B!Timeout, B!RequestError, B!NextAttempt, B!Raise, service
<1>3. CASE B!Unauthorised \/ B!Limited \/ B!RetryServerError \/ B!ErrorAnswer \/ B!Returns
  BY <1>3 DEF B!Unauthorised, B!Limited, B!RetryServerError, B!ErrorAnswer, B!Returns,
              B!Answered, B!NextAttempt, B!Raise, service
<1>4. CASE B!HeadersReady \/ B!HeadersFail \/ B!Refreshed \/ B!RefreshFails \/ B!Wakes \/ B!Cancelled
  BY <1>4 DEF B!HeadersReady, B!HeadersFail, B!Refreshed, B!RefreshFails, B!Wakes,
              B!Cancelled, B!Raise, service
<1> QED
  BY <1>1, <1>2, <1>3, <1>4 DEF B!ClientStep

\* MYOB receives a copy with the key: it has then applied the operation if it
\* says so, and, if it honours keys, no second time.
LEMMA CopyIsApplied ==
  ASSUME AppliedInv, UNCHANGED <<keyed, honoursKey>>, NEW applies \in BOOLEAN,
         NEW m, m.keyed = TRUE,
         IF applies /\ ~(honoursKey /\ m.keyed /\ keySeen)
         THEN applied' = applied + 1 /\ keySeen' = (keySeen \/ m.keyed)
         ELSE UNCHANGED <<applied, keySeen>>,
         applies = FALSE => UNCHANGED posted
  PROVE  AppliedInv'
<1>1. CASE applies = TRUE /\ ~(honoursKey /\ m.keyed /\ keySeen)
  <2>1. applied' = applied + 1 /\ keySeen' = TRUE
    BY <1>1
  <2>2. honoursKey => keySeen # TRUE
    BY <1>1
  <2>3. honoursKey => applied = 0
    <3>1. honoursKey => applied \in Nat /\ applied <= 1 /\ applied # 1
      BY <2>2, Zenon DEF AppliedInv
    <3> QED
      BY <3>1
  <2> QED
    BY <2>1, <2>3 DEF AppliedInv
<1>2. CASE applies = TRUE /\ honoursKey /\ m.keyed /\ keySeen
  <2>1. keySeen = TRUE /\ UNCHANGED <<applied, keySeen>>
    BY <1>2
  <2> QED
    BY <2>1 DEF AppliedInv
<1>3. CASE applies = FALSE
  BY <1>3 DEF AppliedInv
<1> QED
  BY <1>1, <1>2, <1>3

\* MYOB receives a copy of call a's request; if it says that it succeeded, the
\* operation has been applied for a.
LEMMA AnswerToA ==
  ASSUME RequestInv(pcA, keyHeaderA, wireA, answerA, posted["a"]), AppliedInv, TypeOK,
         NEW m \in wireA, NEW status \in A!HttpStatus, NEW applies \in BOOLEAN,
         A!MyobReceives(m, status, applies), AppliedFor("a", applies)
  PROVE  /\ RequestInv(pcA', keyHeaderA', wireA', answerA', posted'["a"])
         /\ AppliedInv' /\ posted' = [posted EXCEPT !["a"] = posted'["a"]]
<1> USE TwoCalls
<1>1. m.keyed = TRUE
  BY DEF RequestInv
<1>2. /\ posted' = [posted EXCEPT !["a"] = posted'["a"]]
      /\ posted["a"] = TRUE => posted'["a"] = TRUE
      /\ applies = TRUE => posted'["a"] = TRUE
      /\ applies = FALSE => UNCHANGED posted
  BY DEF AppliedFor, MyobPosts, vars, TypeOK
<1>3. AppliedInv'
  BY <1>1, <1>2, CopyIsApplied DEF A!MyobReceives
<1>4. RequestInv(pcA', keyHeaderA', wireA', answerA', posted'["a"])
  BY <1>2 DEF A!MyobReceives, RequestInv
<1> QED
  BY <1>2, <1>3, <1>4

\* The same for a copy of call b's request.
LEMMA AnswerToB ==
  ASSUME RequestInv(pcB, keyHeaderB, wireB, answerB, posted["b"]), AppliedInv, TypeOK,
         NEW m \in wireB, NEW status \in A!HttpStatus, NEW applies \in BOOLEAN,
         B!MyobReceives(m, status, applies), AppliedFor("b", applies)
  PROVE  /\ RequestInv(pcB', keyHeaderB', wireB', answerB', posted'["b"])
         /\ AppliedInv' /\ posted' = [posted EXCEPT !["b"] = posted'["b"]]
<1> USE TwoCalls
<1>1. m.keyed = TRUE
  BY DEF RequestInv
<1>2. /\ posted' = [posted EXCEPT !["b"] = posted'["b"]]
      /\ posted["b"] = TRUE => posted'["b"] = TRUE
      /\ applies = TRUE => posted'["b"] = TRUE
      /\ applies = FALSE => UNCHANGED posted
  BY DEF AppliedFor, MyobPosts, vars, TypeOK
<1>3. AppliedInv'
  BY <1>1, <1>2, CopyIsApplied DEF B!MyobReceives
<1>4. RequestInv(pcB', keyHeaderB', wireB', answerB', posted'["b"])
  BY <1>2 DEF B!MyobReceives, B!Success, A!Success, RequestInv
<1> QED
  BY <1>2, <1>3, <1>4

-----------------------------------------------------------------------------
(* The invariant is kept.                                                  *)

\* The invariant is kept by every step of the broker, of the requests and of MYOB.
LEMMA PipelineStep == PipelineInv /\ [PipelineNext]_pipeline => PipelineInv'
<1> SUFFICES ASSUME PipelineInv, [PipelineNext]_pipeline PROVE PipelineInv'
  OBVIOUS
<1> USE TwoCalls
<1>1. TypeOK'
  BY StepIsBrokers, TypeStep DEF PipelineInv
<1>2. /\ TypeOK /\ AppliedInv /\ keyed = TRUE
      /\ RequestInv(pcA, keyHeaderA, wireA, answerA, posted["a"])
      /\ RequestInv(pcB, keyHeaderB, wireB, answerB, posted["b"])
  BY DEF PipelineInv, AppliedInv
\* Nothing but MYOB changes what was applied.
<1>3. ASSUME UNCHANGED <<service, posted>>,
             UNCHANGED clientA \/ RequestInv(pcA', keyHeaderA', wireA', answerA', posted["a"]),
             UNCHANGED clientB \/ RequestInv(pcB', keyHeaderB', wireB', answerB', posted["b"])
      PROVE  PipelineInv'
  <2>1. AppliedInv'
    BY <1>2, <1>3 DEF AppliedInv, service
  <2>2. RequestInv(pcA', keyHeaderA', wireA', answerA', posted'["a"])
    BY <1>2, <1>3 DEF clientA
  <2>3. RequestInv(pcB', keyHeaderB', wireB', answerB', posted'["b"])
    BY <1>2, <1>3 DEF clientB
  <2> QED
    BY <1>1, <2>1, <2>2, <2>3 DEF PipelineInv, RequestInv, A!Success
<1>4. CASE BrokerStep
  BY <1>3, <1>4 DEF BrokerStep, Prepare, Approve, Deny, CommitBegin, Restart
<1>5. CASE ExecutorStep
  BY <1>2, <1>3, <1>5, RequestOfA, RequestOfB DEF ExecutorStep, vars
<1>6. CASE OutcomeOf("a", pcA) \/ OutcomeOf("b", pcB)
  BY <1>3, <1>6 DEF OutcomeOf, Settle, CommitFailed, CommitAbandoned
<1>7. CASE CallCancelled
  BY <1>2, <1>3, <1>7, RequestOfA, RequestOfB DEF CallCancelled, CommitAbandoned
<1>8. CASE MyobStep
  <2>1. PICK status \in A!HttpStatus, applies \in BOOLEAN :
            \/ /\ \E m \in wireA : A!MyobReceives(m, status, applies)
               /\ AppliedFor("a", applies) /\ UNCHANGED clientB
            \/ /\ \E m \in wireB : B!MyobReceives(m, status, applies)
               /\ AppliedFor("b", applies) /\ UNCHANGED clientA
    BY <1>8 DEF MyobStep
  <2>2. ASSUME NEW m \in wireA, A!MyobReceives(m, status, applies),
               AppliedFor("a", applies), UNCHANGED clientB
        PROVE  PipelineInv'
    <3>1. /\ RequestInv(pcA', keyHeaderA', wireA', answerA', posted'["a"])
          /\ AppliedInv' /\ posted' = [posted EXCEPT !["a"] = posted'["a"]]
      BY <1>2, <2>2, AnswerToA
    <3>2. posted'["b"] = posted["b"]
      BY <1>2, <3>1 DEF TypeOK
    <3>3. RequestInv(pcB', keyHeaderB', wireB', answerB', posted'["b"])
      BY <1>2, <2>2, <3>2 DEF clientB
    <3> QED
      BY <1>1, <3>1, <3>3 DEF PipelineInv, RequestInv, A!Success
  <2>3. ASSUME NEW m \in wireB, B!MyobReceives(m, status, applies),
               AppliedFor("b", applies), UNCHANGED clientA
        PROVE  PipelineInv'
    <3>1. /\ RequestInv(pcB', keyHeaderB', wireB', answerB', posted'["b"])
          /\ AppliedInv' /\ posted' = [posted EXCEPT !["b"] = posted'["b"]]
      BY <1>2, <2>3, AnswerToB
    <3>2. posted'["a"] = posted["a"]
      BY <1>2, <3>1 DEF TypeOK
    <3>3. RequestInv(pcA', keyHeaderA', wireA', answerA', posted'["a"])
      BY <1>2, <2>3, <3>2 DEF clientA
    <3> QED
      BY <1>1, <3>1, <3>3 DEF PipelineInv, RequestInv, A!Success
  <2> QED
    BY <2>1, <2>2, <2>3
<1>9. CASE UNCHANGED pipeline
  BY <1>3, <1>9 DEF pipeline, vars
<1> QED
  BY <1>4, <1>5, <1>6, <1>7, <1>8, <1>9 DEF PipelineNext

\* It holds when no operation has been prepared and nothing has been sent.
LEMMA PipelineStart == PipelineInit => PipelineInv
<1> SUFFICES ASSUME PipelineInit PROVE PipelineInv
  OBVIOUS
<1>1. TypeOK
  BY InvInit DEF PipelineInit, BrokerInv
<1>2. AppliedInv
  BY DEF PipelineInit, AppliedInv, Keyed, Init
<1>3. /\ RequestInv(pcA, keyHeaderA, wireA, answerA, posted["a"])
      /\ RequestInv(pcB, keyHeaderB, wireB, answerB, posted["b"])
  BY DEF PipelineInit, RequestInv
<1> QED
  BY <1>1, <1>2, <1>3 DEF PipelineInv

-----------------------------------------------------------------------------
(* What follows from it.                                                   *)

\* Every copy carries the key and every request that returned was applied, over
\* retries, refreshes, cancellations and restarts.
THEOREM PipelineInvariant == PipelineSpec => []PipelineInv
BY PipelineStart, PipelineStep, PTL DEF PipelineSpec

\* The pipeline is an approval broker: nothing is saved as committed that the
\* request, with its retries and refreshes, has not got applied
\* (ImplementsBroker).
THEOREM PipelineImplementsBroker == PipelineSpec => ImplementsBroker
<1>1. PipelineInit => Init
  BY DEF PipelineInit
<1> QED
  BY <1>1, StepIsBrokers, PipelineInvariant, PTL DEF PipelineSpec, ImplementsBroker, Spec

\* A MYOB that honours keys applies an operation at most once, and has applied
\* it if it says committed (OperationAppliedOnce).
THEOREM AppliedOnce == PipelineSpec => []OperationAppliedOnce
<1>1. PipelineInv /\ CommittedMeansPosted => OperationAppliedOnce
  BY DEF PipelineInv, TypeOK, AppliedInv, CommittedMeansPosted, OperationAppliedOnce
<1>2. PipelineSpec => []CommittedMeansPosted
  BY PipelineImplementsBroker, CommittedPosted DEF ImplementsBroker
<1> QED
  BY <1>1, <1>2, PipelineInvariant, PTL

\* And so, by the broker's own refinement, the pipeline moves the status of an
\* operation only as OperationLifecycle allows (ImplementsLifecycle).
THEOREM PipelineImplementsLifecycle == PipelineSpec => ImplementsLifecycle
BY PipelineImplementsBroker, BrokerImplementsLifecycle DEF ImplementsBroker

-----------------------------------------------------------------------------
(* How long a commit can be under way.                                     *)

\* What is left of an iteration of request's loop (MyobClient).
LeftOfIteration(requestPc) ==
    IF requestPc \in {"new", "refreshing", "sleeping"} THEN 3
    ELSE IF requestPc = "sending" THEN 2
    ELSE IF requestPc = "waiting" THEN 1 ELSE 0

\* A bound on the steps a request can still make.
RequestLeft(attempt, requestPc) == 3 * (MaxRetries - attempt) + LeftOfIteration(requestPc)

\* Where the request of a commit is that is at this place: it has not begun
\* before the commit, and while the commit is under way it is not cancelled.
RequestOf(commitPc, attempt, requestPc) ==
    /\ attempt \in 0 .. MaxRetries /\ requestPc \in A!Place
    /\ commitPc = "new" => requestPc = "new"
    /\ commitPc = "executing" => requestPc # "cancelled"

RequestsInv == RequestOf(pc["a"], attemptA, pcA) /\ RequestOf(pc["b"], attemptB, pcB)

\* A commit that is under way has a request that goes on, within the bound, or
\* that returned or raised, so that its outcome can be saved.
CommitWaitsForRequest ==
    /\ pc["a"] = "executing" => RequestLeft(attemptA, pcA) \in 1 .. 3 * MaxRetries + 3
                                \/ pcA \in {"returned", "raised"}
    /\ pc["b"] = "executing" => RequestLeft(attemptB, pcB) \in 1 .. 3 * MaxRetries + 3
                                \/ pcB \in {"returned", "raised"}

\* A step of a request uses up some of its bound, and nothing gives it back:
\* neither the other commit, nor the user, a restart or MYOB.  A commit is
\* under way once.
CommitsRunDown ==
    /\ RequestLeft(attemptA', pcA') <= RequestLeft(attemptA, pcA)
    /\ RequestLeft(attemptB', pcB') <= RequestLeft(attemptB, pcB)
    /\ ExecutorStep => \/ RequestLeft(attemptA', pcA') < RequestLeft(attemptA, pcA)
                       \/ RequestLeft(attemptB', pcB') < RequestLeft(attemptB, pcB)
    /\ \A c \in Call : pc[c] \notin {"new", "executing"} => pc'[c] # "executing"

\* The bound drops when an iteration is used up, or a part of one.
LEMMA BoundDrops ==
  ASSUME NEW a \in 0 .. MaxRetries, NEW x \in 0 .. 3, NEW b \in 0 .. MaxRetries, NEW y \in 0 .. 3
  PROVE  /\ 3 * (MaxRetries - a) + x \in 0 .. 3 * MaxRetries + 3
         /\ (b = a /\ y < x) \/ (b = a + 1 /\ x = 1) =>
               3 * (MaxRetries - b) + y < 3 * (MaxRetries - a) + x
  BY RetriesAreNumbers

\* A step of call a's request.
LEMMA RequestOfARunsDown ==
  ASSUME attemptA \in 0 .. MaxRetries, A!ClientStep \/ A!Cancelled
  PROVE  /\ attemptA' \in 0 .. MaxRetries /\ pcA' \in A!Place
         /\ A!ClientStep => pcA' # "cancelled"
         /\ RequestLeft(attemptA', pcA') < RequestLeft(attemptA, pcA)
<1> DEFINE Drops == \/ attemptA' = attemptA /\ LeftOfIteration(pcA') < LeftOfIteration(pcA)
                    \/ attemptA' = attemptA + 1 /\ LeftOfIteration(pcA) = 1
           Moves == /\ Drops /\ attemptA' \in 0 .. MaxRetries /\ pcA' \in A!Place
                    /\ A!Cancelled \/ pcA' # "cancelled"
<1>1. Moves
  <2> USE RetriesAreNumbers DEF LeftOfIteration, A!Place, A!Ended
  <2>1. CASE A!HeadersReady \/ A!Send \/ A!Refreshed \/ A!Wakes
    BY <2>1 DEF A!HeadersReady, A!Send, A!Refreshed, A!Wakes
  <2>2. CASE A!HeadersFail \/ A!RefreshFails
    BY <2>2 DEF A!HeadersFail, A!RefreshFails, A!Raise
  <2>3. CASE A!Timeout \/ A!RequestError
    BY <2>3 DEF A!Timeout, A!RequestError, A!NextAttempt, A!Raise
  <2>4. CASE A!Unauthorised \/ A!Limited \/ A!RetryServerError \/ A!ErrorAnswer \/ A!Returns
    BY <2>4 DEF A!Unauthorised, A!Limited, A!RetryServerError, A!ErrorAnswer, A!Returns,
                A!Answered, A!NextAttempt, A!Raise
  <2>5. CASE A!Cancelled
    BY <2>5 DEF A!Cancelled
  <2> QED
    BY <2>1, <2>2, <2>3, <2>4, <2>5 DEF A!ClientStep
<1>2. LeftOfIteration(pcA) \in 0 .. 3 /\ LeftOfIteration(pcA') \in 0 .. 3
  BY DEF LeftOfIteration
<1>3. RequestLeft(attemptA', pcA') < RequestLeft(attemptA, pcA)
  BY <1>1, <1>2, BoundDrops DEF RequestLeft
<1>4. A!ClientStep => pcA' # "cancelled"
  BY DEF A!ClientStep, A!HeadersReady, A!Send, A!Refreshed, A!Wakes, A!HeadersFail, A!Raise,
     A!RefreshFails, A!Timeout, A!RequestError, A!NextAttempt, A!Unauthorised, A!Limited,
     A!RetryServerError, A!ErrorAnswer, A!Returns, A!Answered
<1> QED
  BY <1>1, <1>3, <1>4

\* A step of call b's.
LEMMA RequestOfBRunsDown ==
  ASSUME attemptB \in 0 .. MaxRetries, B!ClientStep \/ B!Cancelled
  PROVE  /\ attemptB' \in 0 .. MaxRetries /\ pcB' \in B!Place
         /\ B!ClientStep => pcB' # "cancelled"
         /\ RequestLeft(attemptB', pcB') < RequestLeft(attemptB, pcB)
<1> DEFINE Drops == \/ attemptB' = attemptB /\ LeftOfIteration(pcB') < LeftOfIteration(pcB)
                    \/ attemptB' = attemptB + 1 /\ LeftOfIteration(pcB) = 1
           Moves == /\ Drops /\ attemptB' \in 0 .. MaxRetries /\ pcB' \in B!Place
                    /\ B!Cancelled \/ pcB' # "cancelled"
<1>1. Moves
  <2> USE RetriesAreNumbers DEF LeftOfIteration, B!Place, B!Ended
  <2>1. CASE B!HeadersReady \/ B!Send \/ B!Refreshed \/ B!Wakes
    BY <2>1 DEF B!HeadersReady, B!Send, B!Refreshed, B!Wakes
  <2>2. CASE B!HeadersFail \/ B!RefreshFails
    BY <2>2 DEF B!HeadersFail, B!RefreshFails, B!Raise
  <2>3. CASE B!Timeout \/ B!RequestError
    BY <2>3 DEF B!Timeout, B!RequestError, B!NextAttempt, B!Raise
  <2>4. CASE B!Unauthorised \/ B!Limited \/ B!RetryServerError \/ B!ErrorAnswer \/ B!Returns
    BY <2>4 DEF B!Unauthorised, B!Limited, B!RetryServerError, B!ErrorAnswer, B!Returns,
                B!Answered, B!NextAttempt, B!Raise
  <2>5. CASE B!Cancelled
    BY <2>5 DEF B!Cancelled
  <2> QED
    BY <2>1, <2>2, <2>3, <2>4, <2>5 DEF B!ClientStep
<1>2. LeftOfIteration(pcB) \in 0 .. 3 /\ LeftOfIteration(pcB') \in 0 .. 3
  BY DEF LeftOfIteration
<1>3. RequestLeft(attemptB', pcB') < RequestLeft(attemptB, pcB)
  BY <1>1, <1>2, BoundDrops DEF RequestLeft
<1>4. B!ClientStep => pcB' # "cancelled"
  BY DEF B!ClientStep, B!HeadersReady, B!Send, B!Refreshed, B!Wakes, B!HeadersFail, B!Raise,
     B!RefreshFails, B!Timeout, B!RequestError, B!NextAttempt, B!Unauthorised, B!Limited,
     B!RetryServerError, B!ErrorAnswer, B!Returns, B!Answered
<1> QED
  BY <1>1, <1>3, <1>4

\* A request that does not move keeps its bound.
LEMMA RequestStays ==
  ASSUME NEW a \in 0 .. MaxRetries, NEW requestPc
  PROVE  RequestLeft(a, requestPc) \in Int
<1>1. LeftOfIteration(requestPc) \in 0 .. 3
  BY DEF LeftOfIteration
<1> QED
  BY <1>1, RetriesAreNumbers DEF RequestLeft

\* Where the requests are, and how their bounds change, in every step.
LEMMA RequestsStep ==
  ASSUME PipelineInv, RequestsInv, PipelineNext
  PROVE  RequestsInv' /\ CommitsRunDown
<1> USE TwoCalls
<1>1. /\ RequestOf(pc["a"], attemptA, pcA) /\ RequestOf(pc["b"], attemptB, pcB)
      /\ attemptA \in 0 .. MaxRetries /\ attemptB \in 0 .. MaxRetries
      /\ pcA \in A!Place /\ pcB \in A!Place
      /\ pc \in [Call -> CallState]
  BY DEF RequestsInv, RequestOf, PipelineInv, TypeOK
<1>2. RequestLeft(attemptA, pcA) \in Int /\ RequestLeft(attemptB, pcB) \in Int
  BY <1>1, RequestStays
<1>3. A!Place = B!Place
  BY DEF A!Place, B!Place, A!Ended, B!Ended
\* A step that leaves both requests alone and moves commits only forward.
<1>4. ASSUME UNCHANGED <<attemptA, pcA, attemptB, pcB>>,
             \A c \in Call : pc'[c] = "executing" => pc[c] \in {"new", "executing"},
             \A c \in Call : pc'[c] = "new" => pc[c] = "new"
      PROVE  ExecutorStep \/ (RequestsInv' /\ CommitsRunDown)
  <2>1. RequestsInv'
    BY <1>1, <1>4 DEF RequestsInv, RequestOf
  <2> QED
    BY <1>2, <1>4, <2>1 DEF CommitsRunDown
<1>5. CASE ExecutorStep
  <2>1. CASE pc["a"] = "executing" /\ A!ClientStep /\ UNCHANGED <<vars, clientB>>
    <3>1. /\ attemptA' \in 0 .. MaxRetries /\ pcA' \in A!Place /\ pcA' # "cancelled"
          /\ RequestLeft(attemptA', pcA') < RequestLeft(attemptA, pcA)
      BY <1>1, <2>1, RequestOfARunsDown
    <3>2. UNCHANGED <<pc, attemptB, pcB>>
      BY <2>1 DEF vars, clientB
    <3>3. RequestLeft(attemptA', pcA') \in Int
      BY <3>1, RequestStays
    <3>4. RequestsInv'
      BY <1>1, <2>1, <3>1, <3>2 DEF RequestsInv, RequestOf
    <3> QED
      BY <1>2, <3>1, <3>2, <3>3, <3>4 DEF CommitsRunDown
  <2>2. CASE pc["b"] = "executing" /\ B!ClientStep /\ UNCHANGED <<vars, clientA>>
    <3>1. /\ attemptB' \in 0 .. MaxRetries /\ pcB' \in A!Place /\ pcB' # "cancelled"
          /\ RequestLeft(attemptB', pcB') < RequestLeft(attemptB, pcB)
      BY <1>1, <1>3, <2>2, RequestOfBRunsDown
    <3>2. UNCHANGED <<pc, attemptA, pcA>>
      BY <2>2 DEF vars, clientA
    <3>3. RequestLeft(attemptB', pcB') \in Int
      BY <3>1, RequestStays
    <3>4. RequestsInv'
      BY <1>1, <2>2, <3>1, <3>2 DEF RequestsInv, RequestOf
    <3> QED
      BY <1>2, <3>1, <3>2, <3>3, <3>4 DEF CommitsRunDown
  <2> QED
    BY <1>5, <2>1, <2>2 DEF ExecutorStep
<1>6. CASE CallCancelled /\ ~ExecutorStep
  <2>1. CASE CommitAbandoned("a") /\ A!Cancelled /\ UNCHANGED clientB
    <3>1. /\ attemptA' \in 0 .. MaxRetries /\ pcA' \in A!Place
          /\ RequestLeft(attemptA', pcA') < RequestLeft(attemptA, pcA)
      BY <1>1, <2>1, RequestOfARunsDown
    <3>2. UNCHANGED <<attemptB, pcB>> /\ pc' = [pc EXCEPT !["a"] = "gone"]
      BY <2>1 DEF CommitAbandoned, clientB
    <3>3. RequestLeft(attemptA', pcA') \in Int
      BY <3>1, RequestStays
    <3>4. RequestsInv'
      BY <1>1, <3>1, <3>2 DEF RequestsInv, RequestOf
    <3> QED
      BY <1>1, <1>2, <1>6, <3>1, <3>2, <3>3, <3>4 DEF CommitsRunDown
  <2>2. CASE CommitAbandoned("b") /\ B!Cancelled /\ UNCHANGED clientA
    <3>1. /\ attemptB' \in 0 .. MaxRetries /\ pcB' \in A!Place
          /\ RequestLeft(attemptB', pcB') < RequestLeft(attemptB, pcB)
      BY <1>1, <1>3, <2>2, RequestOfBRunsDown
    <3>2. UNCHANGED <<attemptA, pcA>> /\ pc' = [pc EXCEPT !["b"] = "gone"]
      BY <2>2 DEF CommitAbandoned, clientA
    <3>3. RequestLeft(attemptB', pcB') \in Int
      BY <3>1, RequestStays
    <3>4. RequestsInv'
      BY <1>1, <3>1, <3>2 DEF RequestsInv, RequestOf
    <3> QED
      BY <1>1, <1>2, <1>6, <3>1, <3>2, <3>3, <3>4 DEF CommitsRunDown
  <2> QED
    BY <1>6, <2>1, <2>2 DEF CallCancelled
<1>7. CASE BrokerStep
  BY <1>1, <1>4, <1>5, <1>7
    DEF BrokerStep, Prepare, Approve, Deny, CommitBegin, Restart, clientA, clientB
<1>8. CASE OutcomeOf("a", pcA) \/ OutcomeOf("b", pcB)
  BY <1>1, <1>4, <1>5, <1>8
    DEF OutcomeOf, Settle, CommitFailed, CommitAbandoned, clientA, clientB
<1>9. CASE MyobStep
  <2>1. UNCHANGED <<attemptA, pcA, attemptB, pcB>> /\ UNCHANGED pc
    BY <1>9 DEF MyobStep, A!MyobReceives, B!MyobReceives, AppliedFor, MyobPosts, vars,
       clientA, clientB
  <2> QED
    BY <1>4, <1>5, <2>1
<1> QED
  BY <1>5, <1>6, <1>7, <1>8, <1>9 DEF PipelineNext

\* A commit that was let through waits for nothing but its own request, which
\* makes at most 3 * max_retries + 3 steps: MYOB, the network, the user and the
\* other commit cannot keep it going (broker.py and client.py together).
THEOREM CommitRunsOut ==
    PipelineSpec => []CommitWaitsForRequest /\ [][CommitsRunDown]_pipeline
<1>1. PipelineInit => RequestsInv
  BY TwoCalls, RetriesAreNumbers DEF PipelineInit, Init, RequestsInv, RequestOf, A!Place
<1>2. PipelineInv /\ RequestsInv /\ [PipelineNext]_pipeline
        => RequestsInv' /\ [CommitsRunDown]_pipeline
  <2>1. RequestsInv /\ UNCHANGED pipeline => RequestsInv'
    BY DEF RequestsInv, pipeline, vars, clientA, clientB
  <2> QED
    BY <2>1, RequestsStep
<1>3. RequestsInv => CommitWaitsForRequest
  <2> SUFFICES ASSUME NEW commitPc, NEW attempt, NEW requestPc,
                      RequestOf(commitPc, attempt, requestPc), commitPc = "executing",
                      requestPc \notin {"returned", "raised"}
               PROVE  RequestLeft(attempt, requestPc) \in 1 .. 3 * MaxRetries + 3
    BY DEF RequestsInv, CommitWaitsForRequest
  <2>1. LeftOfIteration(requestPc) \in 1 .. 3
    BY DEF RequestOf, A!Place, A!Ended, LeftOfIteration
  <2>2. attempt \in 0 .. MaxRetries
    BY DEF RequestOf
  <2> QED
    BY <2>1, <2>2, RetriesAreNumbers DEF RequestLeft
<1> QED
  BY <1>1, <1>2, <1>3, PipelineInvariant, PTL DEF PipelineSpec

=============================================================================
