--------------------------- MODULE MCTokenRegistry ---------------------------
(* Small instances of TokenRegistry.  Businesses are ordered, calls are     *)
(* interchangeable.                                                         *)
EXTENDS TokenRegistry, TLC

Businesses == 1 .. 3
TwoBusinesses == 1 .. 2

\* Codes with any id, and codes with the id of the business they were made for.
AnyRedirect == Tokens
OwnRedirect == {t \in Tokens : t.owner = t.business_id}

Symmetry == Permutations(Call)

\* No action reads forgotten, and no property reads it for a user who is not careful.
View ==
    <<stored, default, memory, active, pc, job, strayed, careful,
      IF careful THEN forgotten ELSE {}>>

=============================================================================
