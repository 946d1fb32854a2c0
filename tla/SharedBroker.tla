---------------------------- MODULE SharedBroker ----------------------------
(***************************************************************************)
(* Several processes on one pending-operations.json: MCP servers, one per  *)
(* Codex session, and the myob-codex-mcp-admin command line.               *)
(*                                                                         *)
(* PendingStore takes no lock.  save reads the whole file, changes one     *)
(* entry and writes the file again, with write_text: the file is emptied   *)
(* first and filled by a second system call.  Each of these is a step      *)
(* here, so the steps of two processes interleave, and a process may die   *)
(* between any two, or one of them fail, for want of space say, and raise. *)
(* Within one process a call without an await runs from its first step to  *)
(* its last, as in ApprovalBroker.                                         *)
(*                                                                         *)
(* Payloads, hashes and clocks are ApprovalBroker's subject; of a record   *)
(* only the status is kept, and "lapsed" stands for time.time() >          *)
(* expires_at.                                                             *)
(*                                                                         *)
(* An operator named Faulty... is a plausible mistake in the one after it; *)
(* no action uses it, the mutation runs substitute it.                     *)
(***************************************************************************)
EXTENDS FiniteSets

CONSTANTS
    Op,         \* operation ids
    Session,    \* calls that may be under way at once, in whatever process
    Partition   \* the ways to part the sessions into processes

ASSUME PartitionsOfSessions ==
    \A parts \in Partition :
        /\ parts \subseteq SUBSET Session
        /\ \A s \in Session : \E p \in parts : s \in p
        /\ \A p, q \in parts : p # q => p \cap q = {}

VARIABLES
    processes,  \* the processes, each the set of its sessions; fixed
    file,       \* pending-operations.json: a status for every id
    form,       \* whether the file can be parsed: "whole", "empty" or "garbled"
    minted,     \* ids that prepare has drawn; uuid4 draws none of them again
    lapsed,     \* operations past their expires_at
    tokens,     \* operations whose approval token was returned
    posted,     \* operations MYOB has applied
    settled,    \* operations of which a commit call saved its outcome and returned
    pc,         \* pc[s]: the next step of session s
    op,         \* op[s]: the operation its call is about
    next,       \* next[s]: the status it is about to save
    image       \* image[s]: the file as its save read it

vars == <<processes, file, form, minted, lapsed, tokens, posted, settled, pc, op, next, image>>

-----------------------------------------------------------------------------
Status == {"absent", "pending", "approved", "denied", "expired", "committed", "failed"}

NoFile == [o \in Op |-> "absent"]   \* the file does not exist: no operation is known

\* "empty": truncated and not yet written; "garbled": a part of an image, or the
\* tail of a longer one that another process wrote behind a shorter one.  In pc,
\* "torn" is a call that ended between emptying the file and filling it.
Form == {"whole", "empty", "garbled"}

Readable == form = "whole"

Step == {"idle", "executing", "saving", "truncating", "writing", "finishing", "torn"}

None == "none"

Init ==
    /\ processes \in Partition
    /\ file = NoFile
    /\ form = "whole"
    /\ minted = {} /\ lapsed = {} /\ tokens = {} /\ posted = {} /\ settled = {}
    /\ pc = [s \in Session |-> "idle"]
    /\ op = [s \in Session |-> None]
    /\ next = [s \in Session |-> None]
    /\ image = [s \in Session |-> NoFile]

-----------------------------------------------------------------------------
(* The first step of a call: get, and the checks.                          *)

Saving == {"saving", "truncating", "writing", "finishing"}

FaultyFree(s) == TRUE

\* The event loop of the process is free: none of its calls is between two awaits.
Free(s) == \A p \in processes : s \in p => \A r \in p : pc[r] \notin Saving

Starts(s) == pc[s] = "idle" /\ Free(s) /\ Readable

FaultySave(s, o, status) ==
    /\ pc' = [pc EXCEPT ![s] = "saving"]
    /\ op' = [op EXCEPT ![s] = o]
    /\ next' = [next EXCEPT ![s] = IF status = "denied" THEN "rejected" ELSE status]

\* The call goes on to save its operation with a new status.
Save(s, o, status) ==
    /\ pc' = [pc EXCEPT ![s] = "saving"]
    /\ op' = [op EXCEPT ![s] = o]
    /\ next' = [next EXCEPT ![s] = status]

Prepare(s, o) ==
    /\ Starts(s)
    /\ o \notin minted
    /\ minted' = minted \cup {o}
    /\ Save(s, o, "pending")
    /\ UNCHANGED <<file, form, lapsed, tokens, posted, settled, image>>

Approve(s, o) ==
    /\ Starts(s)
    /\ file[o] = "pending"
    /\ Save(s, o, IF o \in lapsed THEN "expired" ELSE "approved")
    /\ UNCHANGED <<file, form, minted, lapsed, tokens, posted, settled, image>>

Deny(s, o) ==
    /\ Starts(s)
    /\ file[o] \in {"pending", "approved"}
    /\ Save(s, o, "denied")
    /\ UNCHANGED <<file, form, minted, lapsed, tokens, posted, settled, image>>

CommitExpired(s, o) ==
    /\ Starts(s)
    /\ file[o] = "approved"
    /\ o \in lapsed
    /\ Save(s, o, "expired")
    /\ UNCHANGED <<file, form, minted, lapsed, tokens, posted, settled, image>>

CommitBegin(s, o) ==
    /\ Starts(s)
    /\ file[o] = "approved"
    /\ o \notin lapsed
    /\ o \in tokens
    /\ pc' = [pc EXCEPT ![s] = "executing"]
    /\ op' = [op EXCEPT ![s] = o]
    /\ UNCHANGED <<file, form, minted, lapsed, tokens, posted, settled, next, image>>

\* json.loads raises before anything else happens.
CallRaises(s) ==
    /\ pc[s] = "idle" /\ Free(s) /\ ~Readable
    /\ UNCHANGED <<file, form, minted, lapsed, tokens, posted, settled, pc, op, next, image>>

FaultyCommitReturns(s, outcome) ==
    /\ pc[s] = "executing"
    /\ Free(s)
    /\ Save(s, op[s], outcome)
    /\ UNCHANGED <<file, form, minted, lapsed, tokens, posted, settled, image>>

\* The executor returned or raised: commit runs on, to save the outcome.
CommitReturns(s, outcome) ==
    /\ pc[s] = "executing"
    /\ Free(s)
    /\ outcome = "committed" => op[s] \in posted
    /\ Save(s, op[s], outcome)
    /\ UNCHANGED <<file, form, minted, lapsed, tokens, posted, settled, image>>

\* The call returns, raises or dies, and its local variables with it.
Ends(s) ==
    /\ pc' = [pc EXCEPT ![s] = "idle"]
    /\ op' = [op EXCEPT ![s] = None]
    /\ next' = [next EXCEPT ![s] = None]
    /\ image' = [image EXCEPT ![s] = NoFile]

\* Cancelled at the await: nothing is saved.
CommitAbandoned(s) ==
    /\ pc[s] = "executing"
    /\ Ends(s)
    /\ UNCHANGED <<file, form, minted, lapsed, tokens, posted, settled>>

-----------------------------------------------------------------------------
(* PendingStore.save, and what the broker does after it.                   *)

\* _read_all: the entries of the other operations are those of this moment.
SaveReads(s) ==
    /\ pc[s] = "saving"
    /\ Readable
    /\ pc' = [pc EXCEPT ![s] = "truncating"]
    /\ image' = [image EXCEPT ![s] = [file EXCEPT ![op[s]] = next[s]]]
    /\ UNCHANGED <<file, form, minted, lapsed, tokens, posted, settled, op, next>>

\* _read_all raises on a file that was emptied or garbled; or write_text raises
\* before it has changed the file.
SaveRaises(s) ==
    /\ \/ pc[s] = "saving" /\ ~Readable
       \/ pc[s] = "truncating"
    /\ Ends(s)
    /\ UNCHANGED <<file, form, minted, lapsed, tokens, posted, settled>>

Truncates(s) ==
    /\ pc[s] = "truncating"
    /\ pc' = [pc EXCEPT ![s] = "writing"]
    /\ file' = NoFile
    /\ form' = "empty"
    /\ UNCHANGED <<minted, lapsed, tokens, posted, settled, op, next, image>>

\* The image replaces what another process wrote in between only if it is as
\* long as that.
Writes(s) ==
    /\ pc[s] = "writing"
    /\ pc' = [pc EXCEPT ![s] = "finishing"]
    /\ \/ file' = image[s] /\ form' = "whole"
       \/ form # "empty" /\ file' = NoFile /\ form' = "garbled"
    /\ UNCHANGED <<minted, lapsed, tokens, posted, settled, op, next, image>>

\* write_text raises when it has emptied the file, with a part of the image
\* written or nothing of it; the call raises, and the process lives on.
WriteFails(s) ==
    /\ pc[s] = "writing"
    /\ pc' = [pc EXCEPT ![s] = "torn"]
    /\ \/ UNCHANGED <<file, form>>
       \/ file' = NoFile /\ form' = "garbled"
    /\ UNCHANGED <<minted, lapsed, tokens, posted, settled, op, next, image>>

\* Another process has written the whole file again: nothing is left of a torn
\* write, and calls can be made once more where it happened.
Mended(s) ==
    /\ pc[s] = "torn"
    /\ Readable
    /\ Ends(s)
    /\ UNCHANGED <<file, form, minted, lapsed, tokens, posted, settled>>

\* The token of an approval and the result of a commit reach the caller.
Finishes(s) ==
    /\ pc[s] = "finishing"
    /\ tokens' = IF next[s] = "approved" THEN tokens \cup {op[s]} ELSE tokens
    /\ settled' = IF next[s] \in {"committed", "failed"} THEN settled \cup {op[s]} ELSE settled
    /\ Ends(s)
    /\ UNCHANGED <<file, form, minted, lapsed, posted>>

-----------------------------------------------------------------------------
(* The environment.                                                        *)

MyobPosts(s) ==
    /\ pc[s] = "executing"
    /\ posted' = posted \cup {op[s]}
    /\ UNCHANGED <<file, form, minted, lapsed, tokens, settled, pc, op, next, image>>

Lapse(o) ==
    /\ o \in minted
    /\ lapsed' = lapsed \cup {o}
    /\ UNCHANGED <<file, form, minted, tokens, posted, settled, pc, op, next, image>>

\* A process dies, and is started again.  A write it had begun stays torn.
Crash(p) ==
    LET ends == {s \in p : pc[s] \notin {"writing", "torn"}}
        tears == {s \in p : pc[s] = "writing"}
        Reset(f, to) == [s \in Session |-> IF s \in ends THEN to ELSE f[s]]
    IN  /\ pc' = [s \in Session |-> IF s \in tears THEN "torn" ELSE Reset(pc, "idle")[s]]
        /\ op' = Reset(op, None)
        /\ next' = Reset(next, None)
        /\ image' = Reset(image, NoFile)
        /\ UNCHANGED <<file, form, minted, lapsed, tokens, posted, settled>>

Begins(s) ==
    \/ \E o \in Op : \/ Prepare(s, o) \/ Approve(s, o) \/ Deny(s, o)
                     \/ CommitExpired(s, o) \/ CommitBegin(s, o)
    \/ CallRaises(s)

Completes(s) ==
    \/ \E outcome \in {"committed", "failed"} : CommitReturns(s, outcome)
    \/ CommitAbandoned(s)
    \/ SaveReads(s) \/ SaveRaises(s) \/ Truncates(s) \/ Writes(s) \/ Finishes(s)
    \/ WriteFails(s) \/ Mended(s)

Next ==
    /\ \/ \E s \in Session : Begins(s) \/ Completes(s) \/ MyobPosts(s)
       \/ \E o \in Op : Lapse(o)
       \/ \E p \in processes : Crash(p)
    /\ UNCHANGED processes

Spec == Init /\ [][Next]_vars

-----------------------------------------------------------------------------
(* Properties.                                                             *)

OneProcess == processes = {Session}

\* Every variable stays in its range.
TypeOK ==
    /\ processes \in SUBSET SUBSET Session
    /\ file \in [Op -> Status] /\ form \in Form
    /\ minted \subseteq Op /\ lapsed \subseteq Op /\ tokens \subseteq Op
    /\ posted \subseteq Op /\ settled \subseteq Op
    /\ pc \in [Session -> Step]
    /\ op \in [Session -> Op \cup {None}]
    /\ next \in [Session -> Status \cup {None}]
    /\ image \in [Session -> [Op -> Status]]

\* One process alone meets an unparsable store only if a save was killed, or
\* failed, between emptying the file and filling it (PendingStore._write_all, 28).
UnreadableOnlyIfTorn ==
    /\ OneProcess
    /\ \E s \in Session :
          /\ pc[s] = "saving" \/ (pc[s] = "idle" /\ Free(s))
          /\ ~Readable
    => \E s \in Session : pc[s] = "torn"

\* "committed" is never in the file, nor about to be, before MYOB applied the
\* operation, although processes write back each other's old images.
CommittedMeansPosted ==
    \A o \in Op :
        (file[o] = "committed" \/ \E s \in Session : image[s][o] = "committed") => o \in posted

CommitOnlyIfUnsettled ==
    \A s \in Session : (pc[s] # "executing" /\ pc'[s] = "executing") => op'[s] \notin settled

\* "Operation should not commit twice" (tests/unit/test_approval_flow.py): no
\* commit is let through once a commit call of the operation has returned.
NoCommitAfterReturn == [][CommitOnlyIfUnsettled]_vars

\* One process alone keeps to it, with overlapping calls and kills.
OneProcessCommitsOnce == [][OneProcess => CommitOnlyIfUnsettled]_vars

\* What a reader of the file would find, a write in progress counted as done, and
\* a torn one too: that a torn write loses every record is not seen here.
StatusView ==
    [o \in Op |->
        LET writers == {s \in Session : pc[s] \in {"writing", "torn"}}
        IN  IF form = "whole" \/ writers = {} THEN file[o]
            ELSE image[CHOOSE s \in writers : TRUE][o]]

\* A call decides when it empties the file; until then a commit is in flight.
InFlightView ==
    [o \in Op |->
        {s \in Session :
            /\ op[s] = o
            /\ \/ pc[s] = "executing"
               \/ pc[s] \in {"saving", "truncating"} /\ next[s] \in {"committed", "failed"}}]

\* One process alone, killed at any moment, or with saves that fail, implements
\* the lifecycle although it saves a record in four steps.
Lifecycle == INSTANCE OperationLifecycle WITH
    Call <- Session, status <- StatusView, inFlight <- InFlightView

ImplementsLifecycle ==
    /\ OneProcess => Lifecycle!Init
    /\ [][OneProcess => Lifecycle!Next]_<<StatusView, InFlightView>>

=============================================================================
