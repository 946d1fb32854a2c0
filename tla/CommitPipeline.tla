--------------------------- MODULE CommitPipeline ---------------------------
(***************************************************************************)
(* Two commit calls of one operation, from the approval broker down to     *)
(* MYOB: ApprovalBroker composed with one MyobClient for each call.        *)
(*                                                                         *)
(* commit awaits its executor, and the executor is one MyobClient.request  *)
(* with the operation id as idempotency key.  So a call's client runs      *)
(* while the broker has it "executing"; what the request returns or raises *)
(* is what the broker saves; a cancellation ends both.  The two requests   *)
(* reach one MYOB, which knows them by the same key.                       *)
(*                                                                         *)
(* Edits of the stored payload, failures of the audit log, expiry and      *)
(* allow_writes are ApprovalBroker's subject: here the log can be written, *)
(* writes stay on and the clock stands still, so that nothing but the      *)
(* status stops a commit.                                                  *)
(*                                                                         *)
(* An operator named Faulty... is a plausible mistake in the one after it; *)
(* no action uses it, the mutation runs substitute it.                     *)
(***************************************************************************)
EXTENDS ApprovalBroker

CONSTANTS
    MaxRetries      \* max_retries of MyobClient.request

ASSUME OneOperation == \E o \in Op : Op = {o}
ASSUME TwoCalls == Call = {"a", "b"}
ASSUME RetriesAreNumbers == MaxRetries \in Nat

VARIABLES
    pcA, attemptA, keyHeaderA, wireA, answerA,  \* the request of call "a"
    pcB, attemptB, keyHeaderB, wireB, answerB,  \* the request of call "b"
    safe, keyed,    \* what both requests are told of the operation; fixed
    honoursKey,     \* MYOB applies at most one request per Idempotency-Key
    applied,        \* how many times MYOB applied the operation
    keySeen         \* MYOB has applied a copy that carried the operation id

clientA == <<pcA, attemptA, keyHeaderA, wireA, answerA>>
clientB == <<pcB, attemptB, keyHeaderB, wireB, answerB>>
service == <<safe, keyed, honoursKey, applied, keySeen>>
pipeline == <<vars, clientA, clientB, service>>

-----------------------------------------------------------------------------
\* _prepare admits no GET, so an approved request is never safe to repeat by
\* itself; every request of an executor carries the operation id as its key.
FaultyKeyed == FALSE
Keyed == TRUE

A == INSTANCE MyobClient WITH
    pc <- pcA, attempt <- attemptA, keyHeader <- keyHeaderA, wire <- wireA, answer <- answerA

B == INSTANCE MyobClient WITH
    pc <- pcB, attempt <- attemptB, keyHeader <- keyHeaderB, wire <- wireB, answer <- answerB

PipelineInit ==
    /\ Init /\ allow_writes
    /\ safe = FALSE /\ keyed = Keyed
    /\ honoursKey \in BOOLEAN /\ applied = 0 /\ keySeen = FALSE
    /\ pcA = "new" /\ attemptA = 0 /\ keyHeaderA = FALSE /\ wireA = {} /\ answerA = A!NoAnswer
    /\ pcB = "new" /\ attemptB = 0 /\ keyHeaderB = FALSE /\ wireB = {} /\ answerB = B!NoAnswer

-----------------------------------------------------------------------------
(* The joint steps.                                                        *)

\* A call of the broker that no client takes part in.  The server may stop
\* and start again at any moment; the clients of its calls then never go on.
BrokerStep ==
    /\ \/ \E o \in Op, q \in Payload : Prepare(o, q, TRUE)
       \/ \E o \in Op : Approve(o, TRUE) \/ Deny(o, TRUE)
       \/ \E c \in Call, o \in Op, t \in tokens : CommitBegin(c, o, t)
       \/ Restart /\ UNCHANGED allow_writes
    /\ UNCHANGED <<clientA, clientB, service>>

\* The executor of a call that is under way goes on.
ExecutorStep ==
    \/ pc["a"] = "executing" /\ A!ClientStep /\ UNCHANGED <<vars, clientB>>
    \/ pc["b"] = "executing" /\ B!ClientStep /\ UNCHANGED <<vars, clientA>>

\* What the executor's end means to the broker.  After it the store may turn
\* out not to be writable, and the call raises as it is.
OutcomeOf(c, requestPc) ==
    /\ \/ /\ requestPc = "returned"
          /\ Settle(c, AfterSuccess(held[c]), "operation_committed", "ok", TRUE)
       \/ requestPc = "raised" /\ CommitFailed(c, TRUE)
       \/ requestPc \in {"returned", "raised"} /\ CommitAbandoned(c)
    /\ UNCHANGED <<clientA, clientB, service>>

\* CancelledError passes through the request and through commit.
CallCancelled ==
    \/ CommitAbandoned("a") /\ A!Cancelled /\ UNCHANGED clientB
    \/ CommitAbandoned("b") /\ B!Cancelled /\ UNCHANGED clientA

\* MYOB did what call c asked for, now or by an earlier copy with the same key.
AppliedFor(c, applies) ==
    IF applies /\ ~posted[c] THEN MyobPosts(c) ELSE UNCHANGED vars

MyobStep ==
    \E status \in A!HttpStatus, applies \in BOOLEAN :
        \/ /\ \E m \in wireA : A!MyobReceives(m, status, applies)
           /\ AppliedFor("a", applies) /\ UNCHANGED clientB
        \/ /\ \E m \in wireB : B!MyobReceives(m, status, applies)
           /\ AppliedFor("b", applies) /\ UNCHANGED clientA

PipelineNext ==
    \/ BrokerStep \/ ExecutorStep \/ CallCancelled \/ MyobStep
    \/ OutcomeOf("a", pcA) \/ OutcomeOf("b", pcB)

PipelineSpec == PipelineInit /\ [][PipelineNext]_pipeline

\* The event loop runs a call that can go on, and its awaits end (MyobClient).
\* Nothing is assumed of MYOB, of the network or of the user.
FairPipelineSpec ==
    /\ PipelineSpec
    /\ WF_pipeline(pc["a"] = "executing" /\ A!ClientStep /\ UNCHANGED <<vars, clientB>>)
    /\ WF_pipeline(pc["b"] = "executing" /\ B!ClientStep /\ UNCHANGED <<vars, clientA>>)
    /\ WF_pipeline(OutcomeOf("a", pcA))
    /\ WF_pipeline(OutcomeOf("b", pcB))

-----------------------------------------------------------------------------
(* Properties.                                                             *)

\* "Duplicate invoice or payment creation" (docs/threat-model.md): a MYOB that
\* honours keys applies an operation at most once, and exactly once if it says
\* committed - over overlapping commits, their retries and refreshes, a restart
\* between them, and copies that arrive late (write_tools.py 55-68).
OperationAppliedOnce ==
    honoursKey =>
        /\ applied <= 1
        /\ \A o \in Op : store[o].status = "committed" => applied = 1

\* Every step of the pipeline is a step of the broker: above all, a request
\* that returned was applied, which ApprovalBroker takes for granted.
ImplementsBroker == Spec

\* A commit that was let through ends, whatever MYOB answers or does not.
CommitEnds == \A c \in Call : (pc[c] = "executing") ~> (pc[c] # "executing")

=============================================================================
