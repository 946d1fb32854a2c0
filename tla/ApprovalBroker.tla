--------------------------- MODULE ApprovalBroker ---------------------------
(***************************************************************************)
(* The approval broker of one server process: ApprovalBroker with its      *)
(* PendingStore, ApprovalSigner and AuditLog, driven by the MCP tools.     *)
(*                                                                         *)
(* The server is one asyncio event loop.  Every tool call but commit runs  *)
(* without an await, so it is one step here; commit awaits the executor    *)
(* (the HTTP exchange with MYOB), so it is two steps, and any other call   *)
(* runs in between.  What happens when a second process shares the files   *)
(* is the subject of SharedBroker.                                         *)
(***************************************************************************)
EXTENDS Integers

CONSTANTS
    Op,             \* operation ids minted by uuid4
    Payload,        \* request payloads: method, path, params, body, business
    Call,           \* commit calls, each used once
    PendingTTL,     \* permissions.pending_ttl_seconds
    ApprovalTTL,    \* permissions.approval_ttl_seconds
    MaxTime         \* bound: the clock stops here

ASSUME TimesAreIntegers ==
    PendingTTL \in Int /\ ApprovalTTL \in Int /\ MaxTime \in Int

VARIABLES
    now,            \* time.time()
    allow_writes,   \* permissions.allow_writes, read when the process starts
    store,          \* pending-operations.json, by operation id
    tokens,         \* approval tokens handed out
    audit,          \* audit.jsonl, as the set of its (event, operation) pairs
    pc,             \* pc[c]: how far commit call c is
    held,           \* held[c]: the record commit call c read before its await
    posted          \* posted[c]: MYOB applied the mutation c asked for

vars == <<now, allow_writes, store, tokens, audit, pc, held, posted>>

-----------------------------------------------------------------------------
(* Data.                                                                   *)

Status == {"pending", "approved", "denied", "expired", "committed", "failed"}

\* SHA-256 over canonical JSON: equal exactly when the payloads are.
payload_hash(q) == [sha256 |-> q]

PendingOperation ==
    [operation_id : Op, status : Status, payload : Payload,
     request_hash : {payload_hash(q) : q \in Payload}, expires_at : Int]

\* What the store holds under an id that was never saved.
Unknown == [status |-> "absent"]

Token ==
    [operation_id : Op, request_hash : {payload_hash(q) : q \in Payload},
     expires_at : Int]

Event == {"operation_prepared", "operation_approved", "operation_denied",
          "operation_committed", "operation_failed"}

\* "new", then "executing" until the executor returns, then "ok" (the result
\* was returned) or "error" (the call raised); "gone" is a call that was
\* cancelled, lost its process, or could not write the store.
CallState == {"new", "executing", "ok", "error", "gone"}

-----------------------------------------------------------------------------
(* The checks and the record updates of the broker.  An operator named     *)
(* Faulty... is a plausible mistake in the one that follows it; no action  *)
(* uses it, the mutation runs substitute it.                               *)

FaultyDeniable(rec) == rec.status # "absent"
Deniable(rec) == rec.status \in {"pending", "approved"}

Expired(rec) == now > rec.expires_at

\* signer.verify accepts exactly the tokens it issued, until they expire.
TokenAccepted(t, rec) ==
    /\ now <= t.expires_at
    /\ t.operation_id = rec.operation_id
    /\ t.request_hash = rec.request_hash

FaultyPayloadIntact(rec) == TRUE
PayloadIntact(rec) == payload_hash(rec.payload) = rec.request_hash

FaultyWithStatus(rec, s) == [rec EXCEPT !.status = IF s = "denied" THEN "rejected" ELSE s]
WithStatus(rec, s) == [rec EXCEPT !.status = s]

FaultyAfterFailure(rec) == rec
FaultyFinally(rec) == WithStatus(rec, "committed")
AfterFailure(rec) == WithStatus(rec, "failed")

FaultyAfterSuccess(rec) == rec
AfterSuccess(rec) == WithStatus(rec, "committed")

FaultyApprovalDelivered(logged) == TRUE
ApprovalDelivered(logged) == logged

\* AuditLog.write raises when the file cannot be appended to.
Log(event, o, logged) ==
    audit' = IF logged THEN audit \cup {<<event, o>>} ELSE audit

-----------------------------------------------------------------------------
Init ==
    /\ now = 0
    /\ allow_writes \in BOOLEAN
    /\ store = [o \in Op |-> Unknown]
    /\ tokens = {}
    /\ audit = {}
    /\ pc = [c \in Call |-> "new"]
    /\ held = [c \in Call |-> Unknown]
    /\ posted = [c \in Call |-> FALSE]

-----------------------------------------------------------------------------
(* The calls that run without an await.  "logged" says whether the audit   *)
(* line could be appended; when it could not the call raises, with the     *)
(* store already written.                                                  *)

Prepare(o, q, logged) ==
    /\ allow_writes
    /\ store[o] = Unknown
    /\ store' = [store EXCEPT ![o] =
            [operation_id |-> o, status |-> "pending", payload |-> q,
             request_hash |-> payload_hash(q), expires_at |-> now + PendingTTL]]
    /\ Log("operation_prepared", o, logged)
    /\ UNCHANGED <<now, allow_writes, tokens, pc, held, posted>>

\* The status is saved before the token is issued, and the token is returned
\* after the audit line.
Approve(o, logged) ==
    /\ store[o].status = "pending"
    /\ ~Expired(store[o])
    /\ store' = [store EXCEPT ![o] = WithStatus(@, "approved")]
    /\ tokens' = IF ApprovalDelivered(logged)
                 THEN tokens \cup {[operation_id |-> o,
                                    request_hash |-> store[o].request_hash,
                                    expires_at |-> now + ApprovalTTL]}
                 ELSE tokens
    /\ Log("operation_approved", o, logged)
    /\ UNCHANGED <<now, allow_writes, pc, held, posted>>

\* approve, and commit below, notice that the operation has lapsed.
Lapse(o, status) ==
    /\ store[o].status = status
    /\ Expired(store[o])
    /\ store' = [store EXCEPT ![o] = WithStatus(@, "expired")]
    /\ UNCHANGED <<now, allow_writes, tokens, audit, pc, held, posted>>

ApproveExpired(o) == Lapse(o, "pending")

Deny(o, logged) ==
    /\ Deniable(store[o])
    /\ store' = [store EXCEPT ![o] = WithStatus(@, "denied")]
    /\ Log("operation_denied", o, logged)
    /\ UNCHANGED <<now, allow_writes, tokens, pc, held, posted>>

-----------------------------------------------------------------------------
(* Commit: the checks up to the await, and what follows it.                *)

CommitExpired(o) == Lapse(o, "approved")

CommitBegin(c, o, t) ==
    /\ pc[c] = "new"
    /\ store[o].status = "approved"
    /\ ~Expired(store[o])
    /\ TokenAccepted(t, store[o])
    /\ PayloadIntact(store[o])
    /\ pc' = [pc EXCEPT ![c] = "executing"]
    /\ held' = [held EXCEPT ![c] = store[o]]
    /\ UNCHANGED <<now, allow_writes, store, tokens, audit, posted>>

\* The record written back is the one read before the await.
Settle(c, rec, event, pcIfLogged, logged) ==
    /\ pc[c] = "executing"
    /\ store' = [store EXCEPT ![rec.operation_id] = rec]
    /\ Log(event, rec.operation_id, logged)
    /\ pc' = [pc EXCEPT ![c] = IF logged THEN pcIfLogged ELSE "error"]
    /\ UNCHANGED <<now, allow_writes, tokens, held, posted>>

\* The executor returned: MYOB answered that it did what was asked.
CommitSucceeded(c, logged) ==
    /\ posted[c]
    /\ Settle(c, AfterSuccess(held[c]), "operation_committed", "ok", logged)

\* The executor raised; MYOB may have done what was asked, or do it yet.
CommitFailed(c, logged) ==
    Settle(c, AfterFailure(held[c]), "operation_failed", "error", logged)

\* Cancelled at the await (CancelledError is no Exception), or the store
\* could not be written after it: the operation stays as it is.
CommitAbandoned(c) ==
    /\ pc[c] = "executing"
    /\ pc' = [pc EXCEPT ![c] = "gone"]
    /\ UNCHANGED <<now, allow_writes, store, tokens, audit, held, posted>>

-----------------------------------------------------------------------------
(* The environment.                                                        *)

\* MYOB receives the request of call c, in time or after c gave it up.
MyobPosts(c) ==
    /\ pc[c] \in {"executing", "error", "gone"}
    /\ ~posted[c]
    /\ posted' = [posted EXCEPT ![c] = TRUE]
    /\ UNCHANGED <<now, allow_writes, store, tokens, audit, pc, held>>

\* The payload of a stored operation is changed behind the broker's back.
PayloadEdited(o, q) ==
    /\ store[o] # Unknown
    /\ store' = [store EXCEPT ![o] = [@ EXCEPT !.payload = q]]
    /\ UNCHANGED <<now, allow_writes, tokens, audit, pc, held, posted>>

\* The server stops and is started again, perhaps with another configuration.
Restart ==
    /\ pc' = [c \in Call |-> IF pc[c] = "executing" THEN "gone" ELSE pc[c]]
    /\ allow_writes' \in BOOLEAN
    /\ UNCHANGED <<now, store, tokens, audit, held, posted>>

Tick ==
    /\ now < MaxTime
    /\ now' = now + 1
    /\ UNCHANGED <<allow_writes, store, tokens, audit, pc, held, posted>>

-----------------------------------------------------------------------------
ToolCall ==
    \/ \E o \in Op, q \in Payload, logged \in BOOLEAN : Prepare(o, q, logged)
    \/ \E o \in Op, logged \in BOOLEAN : Approve(o, logged) \/ Deny(o, logged)
    \/ \E o \in Op : ApproveExpired(o) \/ CommitExpired(o)
    \/ \E c \in Call, o \in Op, t \in tokens : CommitBegin(c, o, t)

Completion ==
    \E c \in Call :
        \/ \E logged \in BOOLEAN : CommitSucceeded(c, logged) \/ CommitFailed(c, logged)
        \/ CommitAbandoned(c)

Environment ==
    \/ \E c \in Call : MyobPosts(c)
    \/ \E o \in Op, q \in Payload : PayloadEdited(o, q)
    \/ Restart
    \/ Tick

Next == ToolCall \/ Completion \/ Environment

Spec == Init /\ [][Next]_vars

-----------------------------------------------------------------------------
(* Properties.                                                             *)

Begun(c) == pc[c] # "new"

\* Every variable stays in its range; a call that has begun holds a record.
TypeOK ==
    /\ now \in Int
    /\ allow_writes \in BOOLEAN
    /\ store \in [Op -> PendingOperation \cup {Unknown}]
    /\ tokens \subseteq Token
    /\ audit \subseteq Event \X Op
    /\ pc \in [Call -> CallState]
    /\ held \in [Call -> PendingOperation \cup {Unknown}]
    /\ posted \in [Call -> BOOLEAN]
    /\ \A c \in Call : Begun(c) => held[c] \in PendingOperation

\* What is sent to MYOB is what a person approved: a call that got past the
\* checks carries a payload whose hash is in a token issued for its operation,
\* although the stored payload may be edited at any moment (commit, 126-136).
ApprovedPayloadOnly ==
    \A c \in Call : Begun(c) =>
        \E t \in tokens :
            /\ t.operation_id = held[c].operation_id
            /\ t.request_hash = payload_hash(held[c].payload)

\* Nothing reaches MYOB unless its approval is in the audit log, although the
\* status says "approved" before the line is appended (approve, 91-103).
PostedOnRecord ==
    \A c \in Call : posted[c] => <<"operation_approved", held[c].operation_id>> \in audit

\* "committed" is only ever the status of an operation MYOB has applied, in
\* whatever order overlapping commits, denials and restarts write the store.
CommittedMeansPosted ==
    \A o \in Op : store[o].status = "committed" =>
        \E c \in Call : posted[c] /\ held[c].operation_id = o

\* A call that returned, with a result or an error, has settled the operation.
OutcomeSettles ==
    \A c \in Call : pc[c] \in {"ok", "error"} =>
        store[held[c].operation_id].status \in {"committed", "failed"}

\* Once any commit of an operation has returned, no further commit of it is let
\* through, although overlapping calls write back stale records (commit, 119-121).
NoCommitAfterOutcome ==
    [][\A c, d \in Call :
          /\ ~Begun(c) /\ Begun(c)'
          /\ pc[d] \in {"ok", "error"}
          => held'[c].operation_id # held[d].operation_id]_vars

\* The broker implements the lifecycle of operations: a status moves as in
\* the diagram of docs/approval-model.md, but for a call let through while the
\* operation was approved, whose outcome overwrites what was saved since.
Lifecycle == INSTANCE OperationLifecycle WITH
    status <- [o \in Op |-> store[o].status],
    inFlight <- [o \in Op |->
        {c \in Call : pc[c] = "executing" /\ held[c].operation_id = o}]

ImplementsLifecycle == Lifecycle!Spec

\* "The commit fails if ... the operation was already committed" (README.md):
\* at most one commit call of an operation returns its result.
CommitFailsOnceCommitted ==
    \A c, d \in Call :
        (c # d /\ pc[c] = "ok" /\ pc[d] = "ok")
            => held[c].operation_id # held[d].operation_id

=============================================================================
