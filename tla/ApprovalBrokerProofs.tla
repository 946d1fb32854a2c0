------------------------ MODULE ApprovalBrokerProofs ------------------------
(***************************************************************************)
(* Proofs about ApprovalBroker for every set of operations, payloads and   *)
(* calls, and every choice of the two times to live.                       *)
(***************************************************************************)
EXTENDS ApprovalBroker, TLAPS

\* A stored operation is stored under its own id.
StoreKeyed == \A o \in Op : store[o] # Unknown => store[o].operation_id = o

\* The record a call read before its await was approved and intact, and the
\* store still holds its operation.
HeldApproved ==
    \A c \in Call : Begun(c) =>
        /\ held[c].status = "approved"
        /\ PayloadIntact(held[c])
        /\ store[held[c].operation_id] # Unknown

\* A call that got past the checks was shown a token for the record it read.
HeldToken ==
    \A c \in Call : Begun(c) =>
        \E t \in tokens :
            /\ t.operation_id = held[c].operation_id
            /\ t.request_hash = held[c].request_hash

\* A token is handed out only after its approval has been logged.
TokenOnRecord == \A t \in tokens : <<"operation_approved", t.operation_id>> \in audit

\* Only a call that got past the checks reaches MYOB.
PostedBegun == \A c \in Call : posted[c] => Begun(c)

\* The inductive invariant.
BrokerInv ==
    /\ TypeOK
    /\ StoreKeyed
    /\ HeldApproved
    /\ HeldToken
    /\ TokenOnRecord
    /\ PostedBegun
    /\ OutcomeSettles

-----------------------------------------------------------------------------
\* A status update keeps every other field of a stored record.
LEMMA WithStatusKeeps ==
    ASSUME NEW rec \in PendingOperation, NEW s \in Status
    PROVE  /\ WithStatus(rec, s) \in PendingOperation
           /\ WithStatus(rec, s).status = s
           /\ WithStatus(rec, s).operation_id = rec.operation_id
           /\ WithStatus(rec, s).payload = rec.payload
           /\ WithStatus(rec, s).request_hash = rec.request_hash
BY DEF WithStatus, PendingOperation

\* "Unknown" is no operation, and no operation has its status.
LEMMA UnknownApart ==
    /\ Unknown \notin PendingOperation
    /\ Unknown.status = "absent"
    /\ \A rec \in PendingOperation : rec.status \in Status /\ rec.status # "absent"
BY DEF Unknown, PendingOperation, Status

\* What Prepare stores is a pending operation.
LEMMA PreparedRecord ==
    ASSUME NEW o \in Op, NEW q \in Payload, NEW e \in Int
    PROVE  [operation_id |-> o, status |-> "pending", payload |-> q,
            request_hash |-> payload_hash(q), expires_at |-> e] \in PendingOperation
BY DEF PendingOperation, Status

-----------------------------------------------------------------------------
\* Every step keeps the ranges of the variables.
LEMMA TypeStep == TypeOK /\ [Next]_vars => TypeOK'
<1> SUFFICES ASSUME TypeOK, [Next]_vars PROVE TypeOK'
  OBVIOUS
<1> USE DEF TypeOK
<1>a. ASSUME NEW e \in Event, NEW o \in Op, NEW logged \in BOOLEAN, Log(e, o, logged)
      PROVE  audit' \subseteq Event \X Op
  BY <1>a DEF Log
<1>1. ASSUME NEW o \in Op, NEW q \in Payload, NEW logged \in BOOLEAN, Prepare(o, q, logged)
      PROVE  TypeOK'
  <2>1. audit' \subseteq Event \X Op
    BY <1>1, <1>a DEF Prepare, Event
  <2>2. now + PendingTTL \in Int
    BY TimesAreIntegers
  <2>3. store' \in [Op -> PendingOperation \cup {Unknown}]
    BY <1>1, <2>2, PreparedRecord DEF Prepare, Begun
  <2> QED
    BY <1>1, <2>1, <2>3 DEF Prepare, Begun
<1>2. ASSUME NEW o \in Op, NEW logged \in BOOLEAN, Approve(o, logged)
      PROVE  TypeOK'
  <2>1. audit' \subseteq Event \X Op
    BY <1>2, <1>a DEF Approve, Event
  <2>2. store[o] \in PendingOperation
    BY <1>2, UnknownApart DEF Approve, Begun
  <2>3. store' \in [Op -> PendingOperation \cup {Unknown}]
    BY <1>2, <2>2, WithStatusKeeps DEF Approve, Status
  <2>4. tokens' \subseteq Token
    BY <1>2, <2>2, TimesAreIntegers DEF Approve, Token, PendingOperation
  <2> QED
    BY <1>2, <2>1, <2>3, <2>4 DEF Approve, Begun
<1>3. ASSUME NEW o \in Op, NEW logged \in BOOLEAN, Deny(o, logged)
      PROVE  TypeOK'
  <2>1. audit' \subseteq Event \X Op
    BY <1>3, <1>a DEF Deny, Event
  <2>2. store[o] \in PendingOperation
    BY <1>3, UnknownApart DEF Deny, Deniable
  <2>3. store' \in [Op -> PendingOperation \cup {Unknown}]
    BY <1>3, <2>2, WithStatusKeeps DEF Deny, Status
  <2> QED
    BY <1>3, <2>1, <2>3 DEF Deny, Begun
<1>4. ASSUME NEW o \in Op, ApproveExpired(o) \/ CommitExpired(o)
      PROVE  TypeOK'
  <2>1. store[o] \in PendingOperation
    BY <1>4, UnknownApart DEF ApproveExpired, CommitExpired, Lapse
  <2>2. store' \in [Op -> PendingOperation \cup {Unknown}]
    BY <1>4, <2>1, WithStatusKeeps DEF ApproveExpired, CommitExpired, Lapse, Status
  <2> QED
    BY <1>4, <2>2 DEF ApproveExpired, CommitExpired, Lapse, Begun
<1>5. ASSUME NEW c \in Call, NEW o \in Op, NEW t \in tokens, CommitBegin(c, o, t)
      PROVE  TypeOK'
  BY <1>5, UnknownApart DEF CommitBegin, CallState, Begun
<1>6. ASSUME NEW c \in Call, NEW logged \in BOOLEAN,
             CommitSucceeded(c, logged) \/ CommitFailed(c, logged)
      PROVE  TypeOK'
  <2>1. held[c] \in PendingOperation
    BY <1>6 DEF CommitSucceeded, CommitFailed, Settle, Begun
  <2>2. audit' \subseteq Event \X Op
    BY <1>6, <1>a, <2>1, WithStatusKeeps
    DEF CommitSucceeded, CommitFailed, Settle, AfterSuccess, AfterFailure, Event,
        PendingOperation, Status
  <2>3. store' \in [Op -> PendingOperation \cup {Unknown}]
    BY <1>6, <2>1, WithStatusKeeps
    DEF CommitSucceeded, CommitFailed, Settle, AfterSuccess, AfterFailure, Status
  <2>4. pc' \in [Call -> CallState] /\ \A d \in Call : Begun(d)' => Begun(d)
    BY <1>6 DEF CommitSucceeded, CommitFailed, Settle, CallState, Begun
  <2> QED
    BY <1>6, <2>2, <2>3, <2>4 DEF CommitSucceeded, CommitFailed, Settle
<1>7. ASSUME NEW c \in Call, CommitAbandoned(c)
      PROVE  TypeOK'
  BY <1>7 DEF CommitAbandoned, CallState, Begun
<1>8. ASSUME NEW c \in Call, MyobPosts(c)
      PROVE  TypeOK'
  BY <1>8 DEF MyobPosts, Begun
<1>9. ASSUME NEW o \in Op, NEW q \in Payload, PayloadEdited(o, q)
      PROVE  TypeOK'
  <2>1. store' \in [Op -> PendingOperation \cup {Unknown}]
    BY <1>9 DEF PayloadEdited, PendingOperation
  <2> QED
    BY <1>9, <2>1 DEF PayloadEdited, Begun
<1>10. CASE Restart
  BY <1>10 DEF Restart, CallState, Begun
<1>11. CASE Tick
  BY <1>11 DEF Tick, Begun
<1>12. CASE UNCHANGED vars
  BY <1>12 DEF vars, Begun
<1> QED
  BY <1>1, <1>2, <1>3, <1>4, <1>5, <1>6, <1>7, <1>8, <1>9, <1>10, <1>11, <1>12
  DEF Next, ToolCall, Completion, Environment

\* The ranges of the variables, and the record that every begun call holds.
THEOREM TypeCorrect == Spec => []TypeOK
<1>1. Init => TypeOK
  BY DEF Init, TypeOK, CallState, Begun
<1> QED
  BY <1>1, TypeStep, PTL DEF Spec

-----------------------------------------------------------------------------
Outcome == {"committed", "failed"}

\* What a step does to the store: nothing, or it saves one record under its own
\* id, and a settled operation stays settled, stale as the record may be.
LEMMA OneRecordSaved ==
    ASSUME TypeOK, StoreKeyed, HeldApproved, [Next]_vars
    PROVE  \/ store' = store
           \/ \E o \in Op, r \in PendingOperation :
                 /\ store' = [store EXCEPT ![o] = r]
                 /\ r.operation_id = o
                 /\ store[o].status \in Outcome => r.status \in Outcome
<1> DEFINE Saves(o, r) ==
              /\ store' = [store EXCEPT ![o] = r]
              /\ r.operation_id = o
              /\ store[o].status \in Outcome => r.status \in Outcome
<1>a. ASSUME NEW o \in Op, NEW s \in Status, store[o].status \in {"pending", "approved"},
             store' = [store EXCEPT ![o] = WithStatus(store[o], s)]
      PROVE  \E r \in PendingOperation : Saves(o, r)
  <2>1. store[o] \in PendingOperation /\ store[o].operation_id = o
    BY <1>a, UnknownApart DEF TypeOK, StoreKeyed
  <2>2. Saves(o, WithStatus(store[o], s)) /\ WithStatus(store[o], s) \in PendingOperation
    BY <1>a, <2>1, WithStatusKeeps DEF Outcome
  <2> QED
    BY <2>2
<1>1. ASSUME NEW o \in Op, NEW q \in Payload, NEW logged \in BOOLEAN, Prepare(o, q, logged)
      PROVE  \E r \in PendingOperation : Saves(o, r)
  <2>1. now + PendingTTL \in Int
    BY TimesAreIntegers DEF TypeOK
  <2> QED
    BY <1>1, <2>1, PreparedRecord, UnknownApart DEF Prepare, Outcome
<1>2. ASSUME NEW o \in Op, NEW logged \in BOOLEAN, Approve(o, logged) \/ Deny(o, logged)
      PROVE  \E r \in PendingOperation : Saves(o, r)
  <2>1. PICK s \in Status : /\ store[o].status \in {"pending", "approved"}
                            /\ store' = [store EXCEPT ![o] = WithStatus(store[o], s)]
    BY <1>2, UnknownApart DEF Approve, Deny, Deniable, Status
  <2> QED
    BY <1>a, <2>1
<1>3. ASSUME NEW o \in Op, ApproveExpired(o) \/ CommitExpired(o)
      PROVE  \E r \in PendingOperation : Saves(o, r)
  <2>1. PICK s \in Status : /\ store[o].status \in {"pending", "approved"}
                            /\ store' = [store EXCEPT ![o] = WithStatus(store[o], s)]
    BY <1>3 DEF ApproveExpired, CommitExpired, Lapse, Status
  <2> QED
    BY <1>a, <2>1
<1>4. ASSUME NEW c \in Call, NEW logged \in BOOLEAN,
             CommitSucceeded(c, logged) \/ CommitFailed(c, logged)
      PROVE  \E o \in Op, r \in PendingOperation : Saves(o, r)
  <2>1. held[c] \in PendingOperation /\ held[c].operation_id \in Op
    BY <1>4 DEF CommitSucceeded, CommitFailed, Settle, TypeOK, Begun, PendingOperation
  <2>2. PICK s \in Outcome :
           store' = [store EXCEPT ![WithStatus(held[c], s).operation_id] = WithStatus(held[c], s)]
    BY <1>4 DEF CommitSucceeded, CommitFailed, Settle, AfterSuccess, AfterFailure, Outcome
  <2>3. s \in Status
    BY DEF Outcome, Status
  <2>4. /\ WithStatus(held[c], s) \in PendingOperation
        /\ WithStatus(held[c], s).operation_id = held[c].operation_id
        /\ WithStatus(held[c], s).status \in Outcome
    BY <2>1, <2>3, WithStatusKeeps
  <2>5. Saves(held[c].operation_id, WithStatus(held[c], s))
    BY <2>2, <2>4
  <2> QED
    BY <2>1, <2>4, <2>5
<1>5. ASSUME NEW o \in Op, NEW q \in Payload, PayloadEdited(o, q)
      PROVE  \E r \in PendingOperation : Saves(o, r)
  <2>1. store[o] \in PendingOperation /\ store[o].operation_id = o
    BY <1>5 DEF PayloadEdited, TypeOK, StoreKeyed
  <2>2. [store[o] EXCEPT !.payload = q] \in PendingOperation
    BY <2>1 DEF PendingOperation
  <2>3. /\ [store[o] EXCEPT !.payload = q].operation_id = o
        /\ [store[o] EXCEPT !.payload = q].status = store[o].status
    BY <2>1 DEF PendingOperation
  <2> QED
    BY <1>5, <2>2, <2>3 DEF PayloadEdited
<1>6. ASSUME \/ \E c \in Call, o \in Op, t \in tokens : CommitBegin(c, o, t)
             \/ \E c \in Call : CommitAbandoned(c) \/ MyobPosts(c)
             \/ Restart \/ Tick \/ UNCHANGED vars
      PROVE  store' = store
  BY <1>6 DEF CommitBegin, CommitAbandoned, MyobPosts, Restart, Tick, vars
<1> QED
  BY <1>1, <1>2, <1>3, <1>4, <1>5, <1>6
  DEF Next, ToolCall, Completion, Environment

\* Every step preserves the inductive invariant.
LEMMA InvStep == BrokerInv /\ [Next]_vars => BrokerInv'
<1> SUFFICES ASSUME BrokerInv, [Next]_vars PROVE BrokerInv'
  OBVIOUS
<1>1. TypeOK /\ TypeOK'
  BY TypeStep DEF BrokerInv
<1>2. \/ store' = store
      \/ \E o \in Op, r \in PendingOperation :
            /\ store' = [store EXCEPT ![o] = r]
            /\ r.operation_id = o
            /\ store[o].status \in Outcome => r.status \in Outcome
  BY OneRecordSaved DEF BrokerInv
<1>3. \A o \in Op : /\ store[o] # Unknown => store'[o] # Unknown
                    /\ store[o].status \in Outcome => store'[o].status \in Outcome
  BY <1>1, <1>2, UnknownApart DEF TypeOK
<1>4. StoreKeyed'
  BY <1>1, <1>2 DEF BrokerInv, StoreKeyed, TypeOK
<1>5. tokens \subseteq tokens' /\ audit \subseteq audit'
  BY DEF Next, ToolCall, Completion, Environment, Prepare, Approve, Deny, ApproveExpired,
         CommitExpired, Lapse, CommitBegin, CommitSucceeded, CommitFailed, Settle,
         CommitAbandoned, MyobPosts, PayloadEdited, Restart, Tick, Log, vars
<1>6. TokenOnRecord'
  <2>1. CASE \E o \in Op, logged \in BOOLEAN : Approve(o, logged)
    <3>1. PICK o \in Op, logged \in BOOLEAN : Approve(o, logged)
      BY <2>1
    <3>2. CASE logged = FALSE
      BY <3>1, <3>2, <1>5 DEF Approve, ApprovalDelivered, BrokerInv, TokenOnRecord
    <3>3. CASE logged = TRUE
      <4>1. audit' = audit \cup {<<"operation_approved", o>>}
        BY <3>1, <3>3 DEF Approve, Log
      <4>2. \A t \in tokens' : t \in tokens \/ t.operation_id = o
        BY <3>1, <3>3 DEF Approve, ApprovalDelivered
      <4> QED
        BY <4>1, <4>2 DEF BrokerInv, TokenOnRecord
    <3> QED
      BY <3>2, <3>3
  <2>2. CASE tokens' = tokens
    BY <2>2, <1>5 DEF BrokerInv, TokenOnRecord
  <2> QED
    BY <2>1, <2>2
    DEF Next, ToolCall, Completion, Environment, Prepare, Deny, ApproveExpired,
        CommitExpired, Lapse, CommitBegin, CommitSucceeded, CommitFailed, Settle,
        CommitAbandoned, MyobPosts, PayloadEdited, Restart, Tick, vars
<1>7. CASE \E c \in Call, o \in Op, t \in tokens : CommitBegin(c, o, t)
  <2> PICK c \in Call, o \in Op, t \in tokens : CommitBegin(c, o, t)
    BY <1>7
  <2>1. /\ pc[c] = "new" /\ pc' = [pc EXCEPT ![c] = "executing"]
        /\ held' = [held EXCEPT ![c] = store[o]]
        /\ store[o].status = "approved" /\ PayloadIntact(store[o])
        /\ t.operation_id = store[o].operation_id /\ t.request_hash = store[o].request_hash
        /\ UNCHANGED <<store, tokens, posted>>
    BY DEF CommitBegin, TokenAccepted
  <2>2. store[o] # Unknown /\ store[o].operation_id = o
    BY <1>1, <2>1, UnknownApart DEF BrokerInv, StoreKeyed
  <2>3. HeldApproved'
    BY <1>1, <2>1, <2>2 DEF BrokerInv, HeldApproved, Begun, TypeOK, PayloadIntact
  <2>4. HeldToken'
    BY <1>1, <2>1 DEF BrokerInv, HeldToken, Begun, TypeOK
  <2>5. PostedBegun'
    BY <1>1, <2>1 DEF BrokerInv, PostedBegun, Begun, TypeOK
  <2>6. OutcomeSettles'
    BY <1>1, <2>1 DEF BrokerInv, OutcomeSettles, TypeOK
  <2> QED
    BY <1>1, <1>4, <1>6, <2>3, <2>4, <2>5, <2>6 DEF BrokerInv
<1>8. CASE /\ held' = held
           /\ \A c \in Call : /\ Begun(c)' <=> Begun(c)
                              /\ posted'[c] => posted[c] \/ Begun(c)
                              /\ pc'[c] \in {"ok", "error"} =>
                                    \/ pc[c] \in {"ok", "error"}
                                    \/ store'[held[c].operation_id].status \in Outcome
  <2>1. \A c \in Call : Begun(c) => held[c].operation_id \in Op
    BY <1>1 DEF TypeOK, PendingOperation
  <2>2. HeldApproved'
    BY <1>3, <1>8, <2>1 DEF BrokerInv, HeldApproved, PayloadIntact
  <2>3. HeldToken'
    BY <1>5, <1>8 DEF BrokerInv, HeldToken
  <2>4. PostedBegun'
    BY <1>8 DEF BrokerInv, PostedBegun
  <2>5. OutcomeSettles'
    BY <1>3, <1>8, <2>1 DEF BrokerInv, OutcomeSettles, Begun, Outcome
  <2> QED
    BY <1>1, <1>4, <1>6, <2>2, <2>3, <2>4, <2>5 DEF BrokerInv
<1>9. ASSUME NEW c \in Call, NEW logged \in BOOLEAN,
             CommitSucceeded(c, logged) \/ CommitFailed(c, logged)
      PROVE  BrokerInv'
  <2>1. /\ held[c] \in PendingOperation /\ held[c].operation_id \in Op
        /\ pc[c] = "executing" /\ held' = held /\ posted' = posted
        /\ \E s \in {"ok", "error"} : pc' = [pc EXCEPT ![c] = s]
    BY <1>1, <1>9
    DEF CommitSucceeded, CommitFailed, Settle, TypeOK, Begun, PendingOperation
  <2>2. PICK s \in Outcome :
           store' = [store EXCEPT ![WithStatus(held[c], s).operation_id] = WithStatus(held[c], s)]
    BY <1>9 DEF CommitSucceeded, CommitFailed, Settle, AfterSuccess, AfterFailure, Outcome
  <2>3. store'[held[c].operation_id].status \in Outcome
    <3>1. s \in Status
      BY DEF Outcome, Status
    <3> QED
      BY <1>1, <2>1, <2>2, <3>1, WithStatusKeeps DEF TypeOK
  <2> QED
    BY <1>1, <1>8, <2>1, <2>3 DEF TypeOK, Begun
<1>10. ASSUME NEW c \in Call, CommitAbandoned(c) \/ MyobPosts(c)
       PROVE  BrokerInv'
  BY <1>1, <1>8, <1>10 DEF CommitAbandoned, MyobPosts, TypeOK, Begun
<1>11. ASSUME Restart PROVE BrokerInv'
  BY <1>1, <1>8, <1>11 DEF Restart, TypeOK, Begun
<1>12. ASSUME held' = held, pc' = pc, posted' = posted PROVE BrokerInv'
  BY <1>8, <1>12 DEF Begun
<1> QED
  BY <1>7, <1>9, <1>10, <1>11, <1>12
  DEF Next, ToolCall, Completion, Environment, Prepare, Approve, Deny, ApproveExpired,
      CommitExpired, Lapse, PayloadEdited, Tick, vars

\* The broker starts with an empty store and no calls: every part of BrokerInv
\* holds of that.
LEMMA InvInit == Init => BrokerInv
BY DEF Init, BrokerInv, TypeOK, StoreKeyed, HeldApproved, HeldToken, TokenOnRecord,
       PostedBegun, OutcomeSettles, Begun, CallState

-----------------------------------------------------------------------------
\* The inductive invariant holds throughout.
THEOREM BrokerCorrect == Spec => []BrokerInv
BY InvInit, InvStep, PTL DEF Spec

\* No call past the checks of ApprovalBroker.commit carries a payload that was
\* not approved, whatever is edited, cancelled or restarted meanwhile.
THEOREM ApprovedPayload == Spec => []ApprovedPayloadOnly
<1>1. BrokerInv => ApprovedPayloadOnly
  BY DEF BrokerInv, HeldApproved, HeldToken, ApprovedPayloadOnly, PayloadIntact
<1> QED
  BY <1>1, BrokerCorrect, PTL

\* Whatever MYOB is asked to apply has its approval in the audit log.
THEOREM OnRecord == Spec => []PostedOnRecord
<1>1. BrokerInv => PostedOnRecord
  BY DEF BrokerInv, HeldToken, TokenOnRecord, PostedBegun, PostedOnRecord
<1> QED
  BY <1>1, BrokerCorrect, PTL

\* A call that returned has settled its operation.
THEOREM Settled == Spec => []OutcomeSettles
BY BrokerCorrect, PTL DEF BrokerInv

\* No commit of an operation begins after another commit of it has returned.
THEOREM NoLaterCommit == Spec => NoCommitAfterOutcome
<1> DEFINE Late ==
      \E c, d \in Call : /\ ~Begun(c) /\ Begun(c)'
                         /\ pc[d] \in {"ok", "error"}
                         /\ held'[c].operation_id = held[d].operation_id
<1>1. BrokerInv /\ [Next]_vars => ~Late
  <2> SUFFICES ASSUME BrokerInv, [Next]_vars,
                      NEW c \in Call, NEW d \in Call, ~Begun(c), Begun(c)',
                      pc[d] \in {"ok", "error"},
                      held'[c].operation_id = held[d].operation_id
               PROVE  FALSE
    OBVIOUS
  <2>1. PICK o \in Op, t \in tokens : CommitBegin(c, o, t)
    BY DEF Next, ToolCall, Completion, Environment, Prepare, Approve, Deny, ApproveExpired,
           CommitExpired, Lapse, CommitBegin, CommitSucceeded, CommitFailed, Settle,
           CommitAbandoned, MyobPosts, PayloadEdited, Restart, Tick, Begun, vars,
           BrokerInv, TypeOK
  <2>2. store[o].status = "approved" /\ held'[c] = store[o]
    BY <2>1 DEF CommitBegin, BrokerInv, TypeOK
  <2>3. held[d].operation_id = o
    BY <2>2, UnknownApart DEF BrokerInv, TypeOK, StoreKeyed
  <2> QED
    BY <2>2, <2>3 DEF BrokerInv, OutcomeSettles
<1>2. BrokerInv /\ [Next]_vars =>
        [\A c, d \in Call :
            /\ ~Begun(c) /\ Begun(c)'
            /\ pc[d] \in {"ok", "error"}
            => held'[c].operation_id # held[d].operation_id]_vars
  BY <1>1
<1> QED
  BY <1>2, BrokerCorrect, PTL DEF Spec, NoCommitAfterOutcome

\* "committed" appears in the store only where MYOB has applied a call.
LEMMA CommittedStep ==
    BrokerInv /\ CommittedMeansPosted /\ [Next]_vars => CommittedMeansPosted'
<1> SUFFICES ASSUME BrokerInv, CommittedMeansPosted, [Next]_vars
             PROVE  CommittedMeansPosted'
  OBVIOUS
<1>a. TypeOK
  BY DEF BrokerInv
<1>1. \A c \in Call : posted[c] => posted'[c] /\ held'[c] = held[c]
  <2>1. CASE \E c \in Call, o \in Op, t \in tokens : CommitBegin(c, o, t)
    BY <1>a, <2>1 DEF CommitBegin, BrokerInv, PostedBegun, Begun, TypeOK
  <2>2. CASE \E c \in Call : MyobPosts(c)
    BY <1>a, <2>2 DEF MyobPosts, TypeOK
  <2>3. CASE posted' = posted /\ held' = held
    BY <2>3
  <2> QED
    BY <2>1, <2>2, <2>3
    DEF Next, ToolCall, Completion, Environment, Prepare, Approve, Deny, ApproveExpired,
        CommitExpired, Lapse, CommitSucceeded, CommitFailed, Settle, CommitAbandoned,
        PayloadEdited, Restart, Tick, vars
<1>2. ASSUME NEW p \in Op, store'[p].status = "committed"
      PROVE  \/ store[p].status = "committed"
             \/ \E c \in Call : posted[c] /\ held[c].operation_id = p
  <2>1. ASSUME NEW o \in Op, NEW s \in Status, s # "committed",
               store[o].status \in Status,
               store' = [store EXCEPT ![o] = WithStatus(store[o], s)]
        PROVE  store[p].status = "committed"
    <3>1. store[o] \in PendingOperation
      BY <1>a, <2>1, UnknownApart DEF TypeOK, Status
    <3>2. WithStatus(store[o], s).status # "committed"
      BY <2>1, <3>1, WithStatusKeeps
    <3> QED
      BY <1>a, <1>2, <2>1, <3>2 DEF TypeOK
  <2>2. ASSUME NEW o \in Op, NEW q \in Payload, NEW logged \in BOOLEAN, Prepare(o, q, logged)
        PROVE  store[p].status = "committed"
    BY <1>a, <1>2, <2>2 DEF Prepare, TypeOK
  <2>3. ASSUME NEW o \in Op, NEW logged \in BOOLEAN, Approve(o, logged) \/ Deny(o, logged)
        PROVE  store[p].status = "committed"
    <3>1. PICK s \in Status : /\ s # "committed" /\ store[o].status \in Status
                              /\ store' = [store EXCEPT ![o] = WithStatus(store[o], s)]
      BY <2>3 DEF Approve, Deny, Deniable, Status
    <3> QED
      BY <2>1, <3>1
  <2>4. ASSUME NEW o \in Op, ApproveExpired(o) \/ CommitExpired(o)
        PROVE  store[p].status = "committed"
    <3>1. PICK s \in Status : /\ s # "committed" /\ store[o].status \in Status
                              /\ store' = [store EXCEPT ![o] = WithStatus(store[o], s)]
      BY <2>4 DEF ApproveExpired, CommitExpired, Lapse, Status
    <3> QED
      BY <2>1, <3>1
  <2>5. ASSUME NEW c \in Call, NEW logged \in BOOLEAN, CommitFailed(c, logged)
        PROVE  store[p].status = "committed"
    <3>1. held[c] \in PendingOperation
      BY <1>a, <2>5 DEF CommitFailed, Settle, TypeOK, Begun
    <3>2. WithStatus(held[c], "failed").status = "failed"
      BY <3>1, WithStatusKeeps DEF Status
    <3> QED
      BY <1>a, <1>2, <2>5, <3>2 DEF CommitFailed, Settle, AfterFailure, TypeOK
  <2>6. ASSUME NEW c \in Call, NEW logged \in BOOLEAN, CommitSucceeded(c, logged)
        PROVE  store[p].status = "committed" \/ (posted[c] /\ held[c].operation_id = p)
    <3>1. held[c] \in PendingOperation
      BY <1>a, <2>6 DEF CommitSucceeded, Settle, TypeOK, Begun
    <3>2. WithStatus(held[c], "committed").operation_id = held[c].operation_id
      BY <3>1, WithStatusKeeps DEF Status
    <3> QED
      BY <1>a, <1>2, <2>6, <3>2 DEF CommitSucceeded, Settle, AfterSuccess, TypeOK
  <2>7. ASSUME NEW o \in Op, NEW q \in Payload, PayloadEdited(o, q)
        PROVE  store[p].status = "committed"
    <3>1. store[o] \in PendingOperation
      BY <1>a, <2>7 DEF PayloadEdited, TypeOK
    <3>2. [store[o] EXCEPT !.payload = q].status = store[o].status
      BY <3>1 DEF PendingOperation
    <3> QED
      BY <1>a, <1>2, <2>7, <3>2 DEF PayloadEdited, TypeOK
  <2>8. ASSUME store' = store
        PROVE  store[p].status = "committed"
    BY <1>2, <2>8
  <2> QED
    BY <2>2, <2>3, <2>4, <2>5, <2>6, <2>7, <2>8
    DEF Next, ToolCall, Completion, Environment, CommitBegin, CommitAbandoned, MyobPosts,
        Restart, Tick, vars
<1> QED
  BY <1>1, <1>2 DEF CommittedMeansPosted

\* The status "committed" is never ahead of MYOB, stale write-backs included.
THEOREM CommittedPosted == Spec => []CommittedMeansPosted
<1>1. Init => CommittedMeansPosted
  BY UnknownApart DEF Init, CommittedMeansPosted
<1> QED
  BY <1>1, CommittedStep, BrokerCorrect, PTL DEF Spec

-----------------------------------------------------------------------------
(* The broker implements OperationLifecycle.                               *)

StatusView == [o \in Op |-> store[o].status]

InFlightView ==
    [o \in Op |-> {c \in Call : pc[c] = "executing" /\ held[c].operation_id = o}]

\* Saving a record under its id changes the status of that operation only.
LEMMA SaveStatus ==
    ASSUME TypeOK, NEW o \in Op, NEW rec, NEW s, rec.status = s,
           store' = [store EXCEPT ![o] = rec]
    PROVE  StatusView' = [StatusView EXCEPT ![o] = s]
BY DEF TypeOK, StatusView

\* A step of the store that leaves the calls alone moves one operation.
LEMMA SaveMoves ==
    ASSUME TypeOK, NEW o \in Op, NEW s \in Status,
           NEW from, store[o].status \in from \cap Status,
           store' = [store EXCEPT ![o] = WithStatus(store[o], s)],
           pc' = pc, held' = held
    PROVE  Lifecycle!Move(o, from, s)
<1>1. store[o] \in PendingOperation
  BY UnknownApart DEF TypeOK, Status
<1>2. WithStatus(store[o], s).status = s
  BY <1>1, WithStatusKeeps
<1>3. StatusView' = [StatusView EXCEPT ![o] = s]
  BY <1>2, SaveStatus
<1>4. InFlightView' = InFlightView
  BY DEF InFlightView
<1> QED
  BY <1>3, <1>4 DEF Lifecycle!Move, StatusView, InFlightView

\* Each step of the broker is, seen through the status and the calls in flight,
\* the step of OperationLifecycle of its name, or none.
LEMMA LifecycleStep == BrokerInv /\ [Next]_vars => [Lifecycle!Next]_(Lifecycle!lifecycleVars)
<1> SUFFICES ASSUME BrokerInv, [Next]_vars
             PROVE  Lifecycle!Next \/ (StatusView' = StatusView /\ InFlightView' = InFlightView)
  BY DEF Lifecycle!lifecycleVars, StatusView, InFlightView
<1>a. TypeOK /\ StoreKeyed
  BY DEF BrokerInv
<1>1. ASSUME NEW o \in Op, NEW q \in Payload, NEW logged \in BOOLEAN, Prepare(o, q, logged)
      PROVE  Lifecycle!Prepare(o)
  <2> DEFINE rec == [operation_id |-> o, status |-> "pending", payload |-> q,
                     request_hash |-> payload_hash(q), expires_at |-> now + PendingTTL]
  <2>0. store' = [store EXCEPT ![o] = rec] /\ rec.status = "pending"
    BY <1>1 DEF Prepare
  <2>1. StatusView' = [StatusView EXCEPT ![o] = "pending"]
    <3> HIDE DEF rec
    <3> QED
      BY <1>a, <2>0, SaveStatus
  <2>2. InFlightView' = InFlightView
    BY <1>1 DEF Prepare, InFlightView
  <2>3. StatusView[o] = "absent"
    BY <1>1, UnknownApart DEF Prepare, StatusView
  <2> QED
    BY <2>1, <2>2, <2>3 DEF Lifecycle!Prepare, Lifecycle!Move, StatusView, InFlightView
<1>2. ASSUME NEW o \in Op, NEW logged \in BOOLEAN, Approve(o, logged)
      PROVE  Lifecycle!Approve(o)
  BY <1>a, <1>2, SaveMoves DEF Approve, Lifecycle!Approve, Status
<1>3. ASSUME NEW o \in Op, NEW logged \in BOOLEAN, Deny(o, logged)
      PROVE  Lifecycle!Deny(o)
  BY <1>a, <1>3, SaveMoves DEF Deny, Deniable, Lifecycle!Deny, Status
<1>4. ASSUME NEW o \in Op, ApproveExpired(o) \/ CommitExpired(o)
      PROVE  Lifecycle!Expire(o)
  BY <1>a, <1>4, SaveMoves
  DEF ApproveExpired, CommitExpired, Lapse, Lifecycle!Expire, Status
<1>5. ASSUME NEW c \in Call, NEW o \in Op, NEW t \in tokens, CommitBegin(c, o, t)
      PROVE  Lifecycle!Begin(o, c)
  <2>1. /\ pc' = [pc EXCEPT ![c] = "executing"] /\ held' = [held EXCEPT ![c] = store[o]]
        /\ store' = store /\ store[o].status = "approved" /\ pc[c] = "new"
    BY <1>5 DEF CommitBegin
  <2>2. store[o].operation_id = o
    BY <1>a, <2>1, UnknownApart DEF StoreKeyed
  <2>3. InFlightView' = [InFlightView EXCEPT ![o] = @ \cup {c}]
    BY <1>a, <2>1, <2>2 DEF InFlightView, TypeOK
  <2>4. StatusView' = StatusView /\ StatusView[o] = "approved"
    BY <2>1 DEF StatusView
  <2> QED
    BY <2>3, <2>4 DEF Lifecycle!Begin, StatusView, InFlightView
<1>6. ASSUME NEW c \in Call, NEW logged \in BOOLEAN,
             CommitSucceeded(c, logged) \/ CommitFailed(c, logged)
      PROVE  \E o \in Op : Lifecycle!Settle(o, c)
  <2> DEFINE o == held[c].operation_id
  <2>1. /\ held[c] \in PendingOperation /\ o \in Op
        /\ pc[c] = "executing" /\ held' = held
    BY <1>a, <1>6
    DEF CommitSucceeded, CommitFailed, Settle, TypeOK, Begun, PendingOperation
  <2>2. PICK place \in {"ok", "error"} : pc' = [pc EXCEPT ![c] = place]
    BY <1>6 DEF CommitSucceeded, CommitFailed, Settle
  <2>3. PICK s \in Outcome :
           store' = [store EXCEPT ![WithStatus(held[c], s).operation_id] = WithStatus(held[c], s)]
    BY <1>6 DEF CommitSucceeded, CommitFailed, Settle, AfterSuccess, AfterFailure, Outcome
  <2>4. /\ WithStatus(held[c], s).operation_id = o
        /\ WithStatus(held[c], s).status = s
    BY <2>1, WithStatusKeeps DEF Outcome, Status
  <2>5. StatusView' = [StatusView EXCEPT ![o] = s]
    <3>1. store' = [store EXCEPT ![o] = WithStatus(held[c], s)]
      BY <2>3, <2>4
    <3> HIDE DEF o
    <3> QED
      BY <1>a, <2>1, <2>4, <3>1, SaveStatus
  <2>6. c \in InFlightView[o]
    BY <2>1 DEF InFlightView
  <2>7. InFlightView' = [InFlightView EXCEPT ![o] = @ \ {c}]
    BY <1>a, <2>1, <2>2 DEF InFlightView, TypeOK
  <2> QED
    BY <2>1, <2>5, <2>6, <2>7
    DEF Lifecycle!Settle, Lifecycle!Outcomes, Outcome, StatusView, InFlightView
<1>7. ASSUME (\E c \in Call : CommitAbandoned(c)) \/ Restart
      PROVE  Lifecycle!Abandon
  <2>1. held' = held /\ store' = store /\ \A c \in Call : pc'[c] = "executing" => pc[c] = "executing"
    BY <1>a, <1>7 DEF CommitAbandoned, Restart, TypeOK
  <2>2. /\ StatusView' = StatusView
        /\ InFlightView' \in [Op -> SUBSET Call]
        /\ \A o \in Op : InFlightView'[o] \subseteq InFlightView[o]
    BY <2>1 DEF StatusView, InFlightView
  <2> QED
    BY <2>2 DEF Lifecycle!Abandon, StatusView, InFlightView
<1>8. ASSUME \/ \E o \in Op, q \in Payload : PayloadEdited(o, q)
             \/ \E c \in Call : MyobPosts(c)
             \/ Tick \/ UNCHANGED vars
      PROVE  StatusView' = StatusView /\ InFlightView' = InFlightView
  <2>1. pc' = pc /\ held' = held
    BY <1>8 DEF PayloadEdited, MyobPosts, Tick, vars
  <2>2. \A o \in Op : store'[o].status = store[o].status
    <3>1. ASSUME NEW o \in Op, NEW q \in Payload, PayloadEdited(o, q)
          PROVE  \A p \in Op : store'[p].status = store[p].status
      <4>1. store[o] \in PendingOperation
        BY <1>a, <3>1 DEF PayloadEdited, TypeOK
      <4>2. [store[o] EXCEPT !.payload = q].status = store[o].status
        BY <4>1 DEF PendingOperation
      <4> QED
        BY <1>a, <3>1, <4>2 DEF PayloadEdited, TypeOK
    <3> QED
      BY <1>8, <3>1 DEF MyobPosts, Tick, vars
  <2> QED
    BY <2>1, <2>2 DEF StatusView, InFlightView
<1> QED
  BY <1>1, <1>2, <1>3, <1>4, <1>5, <1>6, <1>7, <1>8
  DEF Next, ToolCall, Completion, Environment, Lifecycle!Next

\* Every behaviour of the broker is a behaviour of the lifecycle of its
\* operations.
THEOREM BrokerImplementsLifecycle == Spec => ImplementsLifecycle
<1>1. Init => Lifecycle!Init
  BY UnknownApart DEF Init, Lifecycle!Init
<1> QED
  BY <1>1, LifecycleStep, BrokerCorrect, PTL DEF Spec, ImplementsLifecycle, Lifecycle!Spec

=============================================================================
