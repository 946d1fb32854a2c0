----------------------------- MODULE MCHomeFiles -----------------------------
(* Small instances of HomeFiles.  Businesses are ordered, processes are     *)
(* interchangeable.                                                         *)
EXTENDS HomeFiles, TLC

TwoBusinesses == 1 .. 2

Symmetry == Permutations(Process)

=============================================================================
