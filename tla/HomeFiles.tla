----------------------------- MODULE HomeFiles -----------------------------
(***************************************************************************)
(* The keyed files of the home directory, as several processes see them:   *)
(* approval-signing.key, with which ApprovalSigner signs approval tokens,  *)
(* and tokens.enc, the token registry, which EncryptedTokenStore encrypts  *)
(* under a key it keeps in the keyring of the system, or in token.key.     *)
(*                                                                         *)
(* Both keys are created by the first process that finds none.  A file is  *)
(* written by write_bytes, which empties it and then fills it; nothing is  *)
(* locked.  Each of these is a step here, and between any two a process    *)
(* may be killed, or its call raise (the disk is full).  The two subjects  *)
(* share no file, so a behaviour is about one of them.                     *)
(*                                                                         *)
(* Of the tokens of a business only their presence is kept; TokenRegistry  *)
(* has the rest, for one process.  MYOB_CODEX_MCP_TOKEN_KEY, a key that    *)
(* exists before any process, is the case where the key file is there.     *)
(*                                                                         *)
(* An operator named Faulty... is a plausible mistake in the one after it; *)
(* no action uses it, the mutation runs substitute it.                     *)
(***************************************************************************)
EXTENDS Integers

CONSTANTS
    Process,    \* MCP servers and admin command lines
    Business,   \* business ids; sorted() orders them as numbers
    MaxKey      \* bound: keys that can be generated

None == 0

ASSUME BusinessesAreNumbers == Business \subseteq Nat \ {None}
ASSUME KeysAreNumbers == MaxKey \in Nat

VARIABLES
    subject,    \* "signing" or "tokens"; fixed
    keyring,    \* the token key is kept in the keyring; fixed
    key,        \* the content of the key file or of the keyring
    generated,  \* how many keys have been generated
    file,       \* tokens.enc
    signed,     \* the keys that approval tokens were signed with
    pc,         \* pc[p]: the next step of the call process p is in
    job,        \* job[p]: what that call is to do
    mine,       \* mine[p]: the key it has
    image,      \* image[p]: the registry it is about to write
    raced,      \* history: a process looked for the key while another created it
    overlapped, \* history: two processes used tokens.enc at the same time
    torn,       \* history: a process was killed between emptying and filling it
    halfmade,   \* history: a process was killed between emptying and filling the
                \* signing key
    ledger      \* history: the businesses that calls left with tokens; None among
                \* them stands for tokens of no business

vars == <<subject, keyring, key, generated, file, signed, pc, job, mine, image,
          raced, overlapped, torn, halfmade, ledger>>

history == <<overlapped, torn, halfmade, ledger>>
locals == <<job, mine, image>>

-----------------------------------------------------------------------------
(* The registry.                                                           *)

\* default_business_id, the keys of businesses, and whether there are tokens
\* from a release that knew no business: every change keeps them, and load falls
\* back on them.
Registry == [default : Business \cup {None}, businesses : SUBSET Business, unscoped : BOOLEAN]

NewRegistry == [default |-> None, businesses |-> {}, unscoped |-> FALSE]

\* A payload of the first release: the tokens of one business, or of none.
Legacy == [legacy : Business \cup {None}]

FaultyRegistryIn(payload) == IF "legacy" \in DOMAIN payload THEN NewRegistry ELSE payload

\* EncryptedTokenStore._registry.
RegistryIn(payload) ==
    IF "legacy" \notin DOMAIN payload THEN payload
    ELSE IF payload.legacy = None THEN [NewRegistry EXCEPT !.unscoped = TRUE]
    ELSE [NewRegistry EXCEPT !.default = payload.legacy, !.businesses = {payload.legacy}]

\* Whose tokens a registry has.
Held(r) == r.businesses \cup (IF r.unscoped THEN {None} ELSE {})

Least(S) == IF S = {} THEN None ELSE CHOOSE b \in S : \A d \in S : b <= d

FaultyWithout(r, b) == [r EXCEPT !.businesses = @ \ {b}]

\* remove_business.
Without(r, b) ==
    [r EXCEPT !.businesses = @ \ {b},
              !.default = IF @ = b THEN Least(r.businesses \ {b}) ELSE @]

\* save_business_tokens: exchange_code makes the business the default, refreshing does not.
With(r, b, make_default) ==
    [r EXCEPT !.businesses = @ \cup {b}, !.default = IF make_default \/ @ = None THEN b ELSE @]

Job ==
    [does : {"authorise", "refresh", "set default", "remove"}, business : Business]
    \cup [does : {"load", "sign", "verify"}]

NoJob == [does |-> "nothing"]

\* set_default_business refuses a business without tokens.
Refused(j, r) == j.does = "load" \/ (j.does = "set default" /\ j.business \notin r.businesses)

Changed(j, r) ==
    CASE j.does = "authorise"   -> With(r, j.business, TRUE)
      [] j.does = "refresh"     -> With(r, j.business, FALSE)
      [] j.does = "set default" -> [r EXCEPT !.default = j.business]
      [] j.does = "remove"      -> Without(r, j.business)

-----------------------------------------------------------------------------
NoKey == 0
EmptyKey == -1      \* the key file is there, and empty

NoImage == [none |-> TRUE]

Absent == [form |-> "absent"]
Empty == [form |-> "empty"]
Mixed == [form |-> "mixed"]     \* a shorter image over a longer one
Encrypted(k, payload) == [form |-> "whole", key |-> k, payload |-> payload]

Init ==
    /\ subject \in {"signing", "tokens"}
    /\ keyring \in (IF subject = "tokens" THEN BOOLEAN ELSE {FALSE})
    /\ key \in {NoKey, 1} /\ generated = key
    /\ file \in {Absent} \cup
          {Encrypted(1, payload) : payload \in IF key = 1 /\ subject = "tokens" THEN Legacy ELSE {}}
    /\ signed = {}
    /\ pc = [p \in Process |-> "idle"]
    /\ job = [p \in Process |-> NoJob]
    /\ mine = [p \in Process |-> NoKey]
    /\ image = [p \in Process |-> NoImage]
    /\ raced = FALSE /\ overlapped = FALSE /\ torn = FALSE /\ halfmade = FALSE
    /\ ledger = IF file = Absent THEN {} ELSE {file.payload.legacy}

-----------------------------------------------------------------------------
(* The key.                                                                *)

Others(p) == Process \ {p}

Creating == {"creating", "filling"}

FaultyFound == key # NoKey /\ (subject = "tokens" => keyring)

\* ApprovalSigner._key uses whatever the file holds; _load_key_from_file takes
\* an empty file for none.
Found == key # NoKey /\ (subject = "tokens" => key # EmptyKey)

\* _key, or _get_key: the key that is there, or one generated now.
Look(p) ==
    /\ pc[p] = "looking"
    /\ IF Found
       THEN /\ mine' = [mine EXCEPT ![p] = key]
            /\ pc' = [pc EXCEPT ![p] = "keyed"]
            /\ UNCHANGED generated
       ELSE /\ generated < MaxKey
            /\ generated' = generated + 1
            /\ mine' = [mine EXCEPT ![p] = generated']
            /\ pc' = [pc EXCEPT ![p] = "creating"]
    /\ raced' = (raced \/ \E q \in Others(p) : pc[q] \in Creating)
    /\ UNCHANGED <<subject, keyring, key, file, signed, job, image, history>>

\* The keyring takes the key at once; a file is emptied first.
CreateKey(p) ==
    /\ pc[p] = "creating"
    /\ key' = IF keyring THEN mine[p] ELSE EmptyKey
    /\ pc' = [pc EXCEPT ![p] = IF keyring THEN "keyed" ELSE "filling"]
    /\ UNCHANGED <<subject, keyring, generated, file, signed, locals, raced, history>>

FillKey(p) ==
    /\ pc[p] = "filling"
    /\ key' = mine[p]
    /\ pc' = [pc EXCEPT ![p] = "keyed"]
    /\ UNCHANGED <<subject, keyring, generated, file, signed, locals, raced, history>>

-----------------------------------------------------------------------------
(* The calls.                                                              *)

Ends(p) ==
    /\ pc' = [pc EXCEPT ![p] = "idle"]
    /\ job' = [job EXCEPT ![p] = NoJob]
    /\ mine' = [mine EXCEPT ![p] = NoKey]
    /\ image' = [image EXCEPT ![p] = NoImage]

Overlaps(p) == overlapped' = (overlapped \/ \E q \in Others(p) : pc[q] # "idle")

\* A call begins; where tokens.enc is missing it needs no key to read it.
Start(p, j) ==
    /\ pc[p] = "idle"
    /\ (j.does \in {"sign", "verify"}) = (subject = "signing")
    /\ file = Absent => ~Refused(j, NewRegistry)
    /\ pc' = [pc EXCEPT ![p] = "looking"]
    /\ job' = [job EXCEPT ![p] = j]
    /\ image' = [image EXCEPT ![p] =
            IF file = Absent /\ subject = "tokens" THEN Changed(j, NewRegistry) ELSE NoImage]
    /\ Overlaps(p)
    /\ UNCHANGED <<subject, keyring, key, generated, file, signed, mine, raced, torn, halfmade,
                   ledger>>

\* ApprovalSigner.issue, and verify.
Sign(p) ==
    /\ pc[p] = "keyed"
    /\ subject = "signing"
    /\ signed' = signed \cup (IF job[p].does = "sign" THEN {mine[p]} ELSE {})
    /\ Ends(p)
    /\ UNCHANGED <<subject, keyring, key, generated, file, raced, history>>

\* _registry, and the change the call makes to it, which it then encrypts under
\* the key it finds at that moment.  A file that cannot be decrypted, or is gone
\* by now, ends the call.
ReadRegistry(p) ==
    /\ pc[p] = "keyed" /\ subject = "tokens" /\ image[p] = NoImage
    /\ IF file.form = "whole" /\ file.key = mine[p] /\ ~Refused(job[p], RegistryIn(file.payload))
       THEN /\ image' = [image EXCEPT ![p] = Changed(job[p], RegistryIn(file.payload))]
            /\ pc' = [pc EXCEPT ![p] = "looking"]
            /\ mine' = [mine EXCEPT ![p] = NoKey]
            /\ UNCHANGED job
       ELSE Ends(p)
    /\ UNCHANGED <<subject, keyring, key, generated, file, signed, raced, history>>

EmptyRegistry(p) ==
    /\ pc[p] = "keyed" /\ image[p] # NoImage
    /\ pc' = [pc EXCEPT ![p] = "writing"]
    /\ file' = Empty
    /\ UNCHANGED <<subject, keyring, key, generated, signed, locals, raced, history>>

LedgerAfter(j) ==
    CASE j.does \in {"authorise", "refresh"} -> ledger \cup {j.business}
      [] j.does = "remove"                   -> ledger \ {j.business}
      [] OTHER                               -> ledger

\* The image replaces what another process wrote meanwhile only if it is as long,
\* and goes nowhere if the file was unlinked meanwhile.
WriteRegistry(p) ==
    /\ \/ pc[p] = "writing" /\ file' = Encrypted(mine[p], image[p])
       \/ pc[p] = "writing" /\ file # Empty /\ file' = Mixed
       \/ pc[p] = "unlinked" /\ UNCHANGED file
    /\ ledger' = LedgerAfter(job[p])
    /\ Ends(p)
    /\ UNCHANGED <<subject, keyring, key, generated, signed, raced, overlapped, torn,
                   halfmade>>

\* clear unlinks the file, readable or not; nothing of it is left to be torn.
Clear(p) ==
    /\ pc[p] = "idle" /\ subject = "tokens"
    /\ file' = Absent
    /\ pc' = [q \in Process |-> IF pc[q] = "writing" THEN "unlinked" ELSE pc[q]]
    /\ ledger' = {}
    /\ torn' = FALSE
    /\ Overlaps(p)
    /\ UNCHANGED <<subject, keyring, key, generated, signed, locals, raced, halfmade>>

\* The process is killed, or its call raises, which leaves the same files behind.
Kill(p) ==
    /\ pc[p] # "idle"
    /\ torn' = (torn \/ pc[p] = "writing")
    /\ halfmade' = (halfmade \/ (subject = "signing" /\ pc[p] = "filling"))
    /\ Ends(p)
    /\ UNCHANGED <<subject, keyring, key, generated, file, signed, raced, overlapped,
                   ledger>>

Next ==
    \E p \in Process :
        \/ Look(p) \/ CreateKey(p) \/ FillKey(p)
        \/ \E j \in Job : Start(p, j)
        \/ Sign(p) \/ ReadRegistry(p) \/ EmptyRegistry(p) \/ WriteRegistry(p)
        \/ Clear(p) \/ Kill(p)

Spec == Init /\ [][Next]_vars

-----------------------------------------------------------------------------
(* Properties.                                                             *)

\* Unless a process looked for the key while another was creating it, the key
\* that is there is the one every token was signed and the registry encrypted
\* with, whatever processes come later (signer.py 32-40, token_store.py 75-91).
\* The signer takes an empty file for a key: it signs with an empty key only
\* after a kill has left the file so.
KeyServes ==
    ~raced => /\ signed \subseteq {key}
              /\ EmptyKey \in signed => halfmade
              /\ file.form = "whole" => file.key = key

\* Whatever processes overlap, lose each other's updates or are killed, a
\* registry that can be read has a default exactly when it has businesses, and
\* the default is one of them (token_store.py 193-230).
RegistryConsistent ==
    file.form = "whole" =>
        LET r == RegistryIn(file.payload)
        IN  IF r.businesses = {} THEN r.default = None ELSE r.default \in r.businesses

\* Processes that take turns find each other's changes, and the tokens of the
\* first release ("migrated transparently", docs/architecture.md), in a
\* registry that they can read; kills lose nothing but the call they end,
\* unless they strike while the file is empty (token_store.py 101-144).
TurnsKept ==
    (~overlapped /\ ~torn /\ \A p \in Process : pc[p] = "idle") =>
        IF file = Absent THEN ledger = {}
        ELSE file.form = "whole" /\ file.key = key /\ Held(RegistryIn(file.payload)) = ledger

=============================================================================
