-------------------------- MODULE MCApprovalBroker --------------------------
(* Small instances of ApprovalBroker.  Operations, payloads and calls are   *)
(* interchangeable: no action tells one from another.                       *)
EXTENDS ApprovalBroker, TLC

Symmetry == Permutations(Op) \cup Permutations(Payload) \cup Permutations(Call)

=============================================================================
