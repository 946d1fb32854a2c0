------------------------- MODULE OperationLifecycle -------------------------
(***************************************************************************)
(* What the approval flow keeps for every operation, whatever the file     *)
(* format, the clock and the tokens are: a status, and the commit calls    *)
(* that were let through to MYOB and have not come back.                   *)
(*                                                                         *)
(* It is the state diagram of docs/approval-model.md corrected by one fact *)
(* of the code: a commit call that has been let through decides the status *)
(* when it returns, whatever happened to the operation in the meantime,    *)
(* because ApprovalBroker.commit writes back the record it read before     *)
(* the await.  ApprovalBroker and SharedBroker implement this module.      *)
(***************************************************************************)

CONSTANTS
    Op,         \* operation ids
    Call        \* commit calls

VARIABLES
    status,     \* status[o]: the status of operation o, "absent" before prepare
    inFlight    \* inFlight[o]: the commit calls of o that wait for MYOB

lifecycleVars == <<status, inFlight>>

Outcomes == {"committed", "failed"}

Statuses == {"absent", "pending", "approved", "denied", "expired"} \cup Outcomes

LifecycleTypeOK ==
    /\ status \in [Op -> Statuses]
    /\ inFlight \in [Op -> SUBSET Call]

Init ==
    /\ status = [o \in Op |-> "absent"]
    /\ inFlight = [o \in Op |-> {}]

Move(o, from, to) ==
    /\ status[o] \in from
    /\ status' = [status EXCEPT ![o] = to]
    /\ UNCHANGED inFlight

Prepare(o) == Move(o, {"absent"}, "pending")

Approve(o) == Move(o, {"pending"}, "approved")

Deny(o) == Move(o, {"pending", "approved"}, "denied")

Expire(o) == Move(o, {"pending", "approved"}, "expired")

\* Only an approved operation is let through.
Begin(o, c) ==
    /\ status[o] = "approved"
    /\ inFlight' = [inFlight EXCEPT ![o] = @ \cup {c}]
    /\ UNCHANGED status

\* A call that was let through returns, and its outcome is the status.
Settle(o, c) ==
    /\ c \in inFlight[o]
    /\ \E s \in Outcomes : status' = [status EXCEPT ![o] = s]
    /\ inFlight' = [inFlight EXCEPT ![o] = @ \ {c}]

\* Calls are cancelled, or die with their process, and decide nothing.
Abandon ==
    /\ inFlight' \in [Op -> SUBSET Call]
    /\ \A o \in Op : inFlight'[o] \subseteq inFlight[o]
    /\ UNCHANGED status

Next ==
    \/ \E o \in Op : Prepare(o) \/ Approve(o) \/ Deny(o) \/ Expire(o)
    \/ \E o \in Op, c \in Call : Begin(o, c) \/ Settle(o, c)
    \/ Abandon

Spec == Init /\ [][Next]_lifecycleVars

=============================================================================
