--------------------------- MODULE MCSharedBroker ---------------------------
(* Small instances of SharedBroker.  Operations are interchangeable, and so *)
(* are sessions.                                                            *)
EXTENDS SharedBroker, TLC

OneEach == {{s} : s \in Session}

OneOrSeveralProcesses == {OneEach, {Session}}
SeveralProcesses == {OneEach}

Symmetry == Permutations(Op) \cup Permutations(Session)

=============================================================================
