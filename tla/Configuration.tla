--------------------------- MODULE Configuration ---------------------------
(***************************************************************************)
(* What load_config makes of the files and of the environment: the part of *)
(* AppConfig on which what a tool call does depends, allow_writes and      *)
(* default_business_id.  The lifetimes of operations and tokens are        *)
(* constants of ApprovalBroker; the paths of the files name the variables  *)
(* of the other modules; approval_mode and require_approval_for are read   *)
(* and used nowhere.                                                       *)
(*                                                                         *)
(* An operator named Faulty... is a plausible mistake in the one after it; *)
(* no definition uses it, the mutation runs substitute it.                 *)
(***************************************************************************)
EXTENDS Integers

CONSTANT Business   \* business ids

None == "none"      \* None, and the empty string, which the code treats alike

Unset == "unset"

\* What a configuration file may say: allow_writes as a boolean, or as a text,
\* which is what "${NAME:-value}" expands to; and two names for the business.
AllowWrites == {Unset, "true", "false", "text", "empty text"}

File == [allow_writes : AllowWrites,
         default_business_id : Business \cup {None},
         default_company_file_id : Business \cup {None}]

\* No candidate exists: every value is its default.
NoFile == [allow_writes |-> Unset, default_business_id |-> None, default_company_file_id |-> None]

Missing == [missing |-> TRUE]

\* MYOB_ALLOW_WRITES, as one of the words for true or as any other text, and
\* MYOB_DEFAULT_BUSINESS_ID.
Environment == [allow_writes : {Unset, "true word", "other word"},
                default_business_id : Business \cup {None}]

\* The files in the order of _config_candidates: those the caller and
\* MYOB_CODEX_MCP_CONFIG name, the one of the working directory, that of the home.
Candidates(n) == [1 .. n -> File \cup {Missing}]

-----------------------------------------------------------------------------
\* The first candidate that exists; the others are not looked at.
InForce(files) ==
    LET existing == {i \in DOMAIN files : files[i] # Missing}
    IN  IF existing = {} THEN NoFile
        ELSE files[CHOOSE i \in existing : \A j \in existing : i <= j]

\* bool() of the value: a text is true unless it is empty.
Truth(value) == value \in {Unset, "true", "text"}

FaultyBoolFromEnv(value, default) == value # Unset \/ default

BoolFromEnv(value, default) == IF value = Unset THEN default ELSE value = "true word"

\* "a or b", for values that may be None.
Or(a, b) == IF a = None THEN b ELSE a

load_config(files, env) ==
    LET loaded == InForce(files)
    IN  [allow_writes |-> BoolFromEnv(env.allow_writes, Truth(loaded.allow_writes)),
         default_business_id |->
            Or(env.default_business_id,
               Or(loaded.default_business_id, loaded.default_company_file_id))]

\* Somebody said, where it counts, that nothing may be written: in the
\* environment, or as a boolean in the file in force and not otherwise in the
\* environment.
WritesForbidden(files, env) ==
    \/ env.allow_writes = "other word"
    \/ env.allow_writes = Unset /\ InForce(files).allow_writes = "false"

=============================================================================
