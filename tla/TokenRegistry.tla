---------------------------- MODULE TokenRegistry ----------------------------
(***************************************************************************)
(* The OAuth tokens of one server process: MyobOAuth and its               *)
(* EncryptedTokenStore, driven by the auth tools and by MyobClient.        *)
(*                                                                         *)
(* The registry file holds tokens per business and a default business;     *)
(* MyobOAuth keeps two more things in memory, the tokens it used last and  *)
(* the business it used last.  Exchanging a code, refreshing a token and   *)
(* an API request await the network, so other calls run in between; a call *)
(* of the store itself never awaits.                                       *)
(*                                                                         *)
(* Of a token set only two things are kept: the business it is labelled    *)
(* with, and its owner, the business MYOB issued it for.  When a token     *)
(* expires is the clock's choice.  A call of the store raises when the     *)
(* registry cannot be read or written; memory has often been set by then.  *)
(* What a broken write leaves in the file, and how the file is encrypted,  *)
(* are the subject of HomeFiles.  Tokens of a release that knew no         *)
(* business are left out.                                                  *)
(*                                                                         *)
(* An operator named Faulty... is a plausible mistake in the one after it; *)
(* no action uses it, the mutation runs substitute it.                     *)
(***************************************************************************)
EXTENDS Integers, FiniteSets

CONSTANTS
    Business,       \* business ids; sorted() orders them as numbers
    Call,           \* tool calls that await the network
    ConfigDefault,  \* config.default_business_id, None if it is not set
    Redirect        \* the codes there are to exchange: the business_id given with
                    \* the code, and the owner, the business MYOB made the code for

None == 0

Tokens == [business_id : Business, owner : Business]
NoTokens == [business_id |-> None, owner |-> None]

ASSUME BusinessesAreNumbers ==
    Business \subseteq Nat \ {None} /\ ConfigDefault \in Business \cup {None}

ASSUME RedirectsAreLabelled == Redirect \subseteq Tokens

VARIABLES
    stored,     \* stored[b]: the owner of the tokens stored for b, None if none are
    default,    \* default_business_id of the registry
    memory,     \* MyobOAuth._tokens
    active,     \* MyobOAuth._active_business_id
    pc,         \* pc[c]: what call c awaits
    job,        \* job[c]: the business it is for, and the owner of the token it uses
    forgotten,  \* businesses logged out or removed, and not authorised since
    strayed,    \* a call raised between setting memory and writing the registry, or the
                \* other way round, and they have not been set together since
    careful     \* the user forgets no business while a call awaits the network, gives
                \* a code with the business it was made for, and asks to refresh what
                \* the registry has tokens for, or no business unless memory strayed

vars == <<stored, default, memory, active, pc, job, forgotten, strayed, careful>>

-----------------------------------------------------------------------------
\* "exchanging" a code, "requesting" an answer of the API, or "refreshing": for
\* the refresh tool, or for a request that goes on afterwards.
Place == {"idle", "exchanging", "requesting", "refreshing", "refreshing to request"}

Job == [business : Business \cup {None}, owner : Business \cup {None}]
NoJob == [business |-> None, owner |-> None]

Authorised == {b \in Business : stored[b] # None}

Least(S) == IF S = {} THEN None ELSE CHOOSE b \in S : \A d \in S : b <= d

Labelled(b) == [business_id |-> b, owner |-> stored[b]]

\* EncryptedTokenStore.load_business_tokens; load() finds the same as None.
load_business_tokens(b) ==
    LET selected == IF b # None THEN b ELSE default
    IN  IF selected \in Authorised THEN Labelled(selected)
        ELSE IF b = None /\ Cardinality(Authorised) = 1 THEN Labelled(Least(Authorised))
        ELSE NoTokens

\* get_valid_access_token uses what the registry holds at this moment.
FaultyTokensFor(b) == IF memory # NoTokens THEN memory ELSE load_business_tokens(b)
TokensFor(b) == load_business_tokens(b)

\* MyobOAuth.business_id.
business_id == IF active # None THEN active ELSE memory.business_id

\* MyobClient._business_id: the business of a request that was given b.
Selected(b) ==
    IF b # None THEN b ELSE IF business_id # None THEN business_id ELSE ConfigDefault

Init ==
    /\ stored = [b \in Business |-> None]
    /\ default = None
    /\ memory = NoTokens
    /\ active = None
    /\ pc = [c \in Call |-> "idle"]
    /\ job = [c \in Call |-> NoJob]
    /\ forgotten = {}
    /\ strayed = FALSE
    /\ careful \in BOOLEAN

-----------------------------------------------------------------------------
(* What the calls are built from.                                          *)

\* The two assignments to memory, and then save_business_tokens, which raises if
\* the registry cannot be read or written.
Save(b, owner, make_default, written) ==
    /\ memory' = [business_id |-> b, owner |-> owner]
    /\ active' = b
    /\ strayed' = ~written
    /\ IF written
       THEN /\ stored' = [stored EXCEPT ![b] = owner]
            /\ default' = IF make_default \/ default = None THEN b ELSE default
       ELSE UNCHANGED <<stored, default>>

Await(c, place, b, owner) ==
    /\ pc' = [pc EXCEPT ![c] = place]
    /\ job' = [job EXCEPT ![c] = [business |-> b, owner |-> owner]]

Ends(c) ==
    /\ pc' = [pc EXCEPT ![c] = "idle"]
    /\ job' = [job EXCEPT ![c] = NoJob]

\* What refresh_access_token(b) sends to MYOB: the tokens of b, or if it has
\* none those used last.
ToRefresh(b) ==
    LET found == load_business_tokens(b)
    IN  IF found # NoTokens THEN found ELSE memory

FaultyRefreshBegins(c, b, place) ==
    /\ ToRefresh(b) # NoTokens
    /\ Await(c, place, b, ToRefresh(b).owner)

RefreshBegins(c, b, place) ==
    LET tokens == ToRefresh(b)
    IN  /\ tokens # NoTokens
        /\ Await(c, place, IF b # None THEN b ELSE tokens.business_id, tokens.owner)

-----------------------------------------------------------------------------
(* Authorising a business.                                                 *)

\* Nothing compares the business_id with the business the code was made for.
ExchangeBegins(c, r) ==
    /\ pc[c] = "idle"
    /\ Await(c, "exchanging", r.business_id, r.owner)
    /\ UNCHANGED <<stored, default, memory, active, forgotten, strayed>>

ExchangeDone(c, written) ==
    /\ pc[c] = "exchanging"
    /\ Save(job[c].business, job[c].owner, TRUE, written)
    /\ forgotten' = IF written THEN forgotten \ {job[c].business} ELSE forgotten
    /\ Ends(c)

-----------------------------------------------------------------------------
(* Using and refreshing tokens.                                            *)

\* MyobClient.request: b is the business named, None if none is.  Its tokens
\* are used as they are, or refreshed first.
RequestBegins(c, b) ==
    LET selected == Selected(b)
        tokens == TokensFor(selected)
    IN  /\ pc[c] = "idle"
        /\ selected # None
        /\ tokens # NoTokens
        /\ \/ /\ Await(c, "requesting", selected, tokens.owner)
              /\ memory' = tokens
              /\ active' = selected
              /\ strayed' = FALSE
           \/ /\ RefreshBegins(c, selected, "refreshing to request")
              /\ UNCHANGED <<memory, active, strayed>>
        /\ UNCHANGED <<stored, default, forgotten>>

\* MYOB answered 401: the client asks for a refresh of the business it uses.
RequestUnauthorised(c) ==
    /\ pc[c] = "requesting"
    /\ RefreshBegins(c, job[c].business, "refreshing to request")
    /\ UNCHANGED <<stored, default, memory, active, forgotten, strayed>>

\* The refresh tool.
RefreshToolBegins(c, b) ==
    /\ pc[c] = "idle"
    /\ RefreshBegins(c, b, "refreshing")
    /\ UNCHANGED <<stored, default, memory, active, forgotten, strayed>>

FaultyRefreshDone(c, written) ==
    /\ pc[c] \in {"refreshing", "refreshing to request"}
    /\ business_id # None
    /\ Save(business_id, job[c].owner, FALSE, written)
    /\ Ends(c)
    /\ UNCHANGED forgotten

\* MYOB issues new tokens to the owner of the old ones; they are stored under
\* the business that was asked for.
RefreshDone(c, written) ==
    /\ pc[c] \in {"refreshing", "refreshing to request"}
    /\ Save(job[c].business, job[c].owner, FALSE, written)
    /\ IF pc[c] = "refreshing to request" /\ written
       THEN Await(c, "requesting", job[c].business, job[c].owner)
       ELSE Ends(c)
    /\ UNCHANGED forgotten

\* The call returns or raises, or the network or MYOB refuses, or it is cancelled.
CallEnds(c) ==
    /\ pc[c] # "idle"
    /\ Ends(c)
    /\ UNCHANGED <<stored, default, memory, active, forgotten, strayed>>

-----------------------------------------------------------------------------
(* The calls that do not await.                                            *)

SetDefault(b, loaded) ==
    /\ b \in Authorised
    /\ default' = b
    /\ IF loaded
       THEN /\ memory' = Labelled(b)
            /\ active' = b
            /\ strayed' = FALSE
       ELSE UNCHANGED <<memory, active, strayed>>
    /\ UNCHANGED <<stored, pc, job, forgotten>>

FaultyNextDefault(b) == default
NextDefault(b) == IF default = b THEN Least(Authorised \ {b}) ELSE default

FaultyActiveAfterRemove == active
ActiveAfterRemove == load_business_tokens(None)'.business_id

\* The registry is read once more for memory, which may raise.
Remove(b, loaded) ==
    /\ stored' = [stored EXCEPT ![b] = None]
    /\ default' = NextDefault(b)
    /\ strayed' = ~loaded
    /\ IF loaded
       THEN /\ memory' = load_business_tokens(None)'
            /\ active' = ActiveAfterRemove
       ELSE UNCHANGED <<memory, active>>
    /\ forgotten' = forgotten \cup {b}
    /\ UNCHANGED <<pc, job>>

Cleared ==
    /\ stored' = [b \in Business |-> None]
    /\ default' = None
    /\ forgotten' = Business

FaultyLogout(cleared) ==
    /\ IF cleared THEN Cleared ELSE UNCHANGED <<stored, default, forgotten>>
    /\ strayed' = FALSE
    /\ UNCHANGED <<memory, active, pc, job>>

\* Memory first; then the file is deleted, which may raise.
Logout(cleared) ==
    /\ memory' = NoTokens
    /\ active' = None
    /\ strayed' = FALSE
    /\ IF cleared THEN Cleared ELSE UNCHANGED <<stored, default, forgotten>>
    /\ UNCHANGED <<pc, job>>

\* A new process reads the registry; calls under way are gone.
Restart ==
    /\ memory' = load_business_tokens(None)
    /\ active' = load_business_tokens(None).business_id
    /\ strayed' = FALSE
    /\ pc' = [c \in Call |-> "idle"]
    /\ job' = [c \in Call |-> NoJob]
    /\ UNCHANGED <<stored, default, forgotten>>

-----------------------------------------------------------------------------
Authorise ==
    \E c \in Call :
        \/ \E r \in Redirect : (careful => r.owner = r.business_id) /\ ExchangeBegins(c, r)
        \/ \E written \in BOOLEAN : ExchangeDone(c, written)

Use ==
    \E c \in Call :
        \/ \E b \in Business \cup {None} : RequestBegins(c, b)
        \/ RequestUnauthorised(c) \/ CallEnds(c)
        \/ \E written \in BOOLEAN : RefreshDone(c, written)

Forget ==
    \E finished \in BOOLEAN : (\E b \in Business : Remove(b, finished)) \/ Logout(finished)

Next ==
    /\ \/ Authorise \/ Use \/ Restart
       \/ (careful => \A c \in Call : pc[c] = "idle") /\ Forget
       \/ \E b \in Business, loaded \in BOOLEAN : SetDefault(b, loaded)
       \/ \E c \in Call, b \in Business \cup {None} :
             /\ careful => load_business_tokens(b) # NoTokens \/ (b = None /\ ~strayed)
             /\ RefreshToolBegins(c, b)
    /\ UNCHANGED careful

Spec == Init /\ [][Next]_vars

-----------------------------------------------------------------------------
(* Properties.                                                             *)

\* Every variable stays in its range.
TypeOK ==
    /\ stored \in [Business -> Business \cup {None}]
    /\ default \in Business \cup {None}
    /\ memory \in Tokens \cup {NoTokens}
    /\ active \in Business \cup {None}
    /\ pc \in [Call -> Place]
    /\ job \in [Call -> Job]
    /\ forgotten \subseteq Business
    /\ strayed \in BOOLEAN
    /\ careful \in BOOLEAN

\* There is a default business exactly when one is authorised, and it is one of
\* those, whatever is removed while a refresh is on its way (token_store 207-230).
DefaultAuthorised ==
    IF Authorised = {} THEN default = None ELSE default \in Authorised

\* The business a call without one goes to is one that has tokens, unless a call
\* raised between memory and the registry (oauth.py 120-122, 145-147, 202-204):
\* then calls without a business raise until one is named, or memory is set anew.
ActiveAuthorised == business_id # None /\ ~strayed => business_id \in Authorised

\* "Tokens are stored per MYOB businessId" (README.md): what is stored for a
\* business was issued for it.
StoredForOwner == \A b \in Authorised : stored[b] = b

\* For a careful user it is so, whatever refreshes, requests and exchanges of
\* several businesses interleave (oauth.py 125-148).
CarefulStoredForOwner == careful => StoredForOwner

\* For a careful user a request to a business is made with a token MYOB issued
\* for it, although other calls overwrite the tokens used last (oauth.py 171-182).
RequestsWithOwnToken ==
    careful => \A c \in Call : pc[c] = "requesting" => job[c].owner = job[c].business

\* "Clear all stored MYOB OAuth tokens from this machine" (auth_tools.py): for a
\* careful user what was logged out or removed stays away until it is authorised
\* again; a refresh under way would bring it back (oauth.py 147).
ForgottenStaysForgotten == careful => forgotten \cap Authorised = {}

=============================================================================
