----------------------------- MODULE MyobClient -----------------------------
(***************************************************************************)
(* One call of MyobClient.request: an HTTP request with its retries,       *)
(* against a MYOB service and a network that may lose or delay anything.   *)
(* At every await of the method (token, exchange, refresh, sleep) the      *)
(* network, the service and a cancellation may act.                        *)
(*                                                                         *)
(* The service is external: it is modelled from the statuses the client    *)
(* distinguishes.  A 2xx answer says the request was applied, a 5xx one    *)
(* may or may not have been, 401, 429 and the other 4xx were refused.      *)
(*                                                                         *)
(* An operator named Faulty... is a plausible mistake in the one after it; *)
(* no action uses it, the mutation runs substitute it.                     *)
(***************************************************************************)
EXTENDS Integers

CONSTANTS
    MaxRetries      \* max_retries

ASSUME RetriesAreNumbers == MaxRetries \in Nat

VARIABLES
    safe,       \* the method is GET, HEAD or OPTIONS
    keyed,      \* the caller gave an idempotency_key
    honoursKey, \* MYOB applies at most one request per Idempotency-Key
    pc,         \* where the call is
    attempt,    \* the loop variable
    keyHeader,  \* request_headers carries the Idempotency-Key
    wire,       \* the copies of the request that MYOB may still receive
    answer,     \* the status on its way back to the current attempt
    applied,    \* how many times MYOB applied the request
    keySeen     \* MYOB has applied a copy that carried the key

service == <<wire, applied, keySeen>>
vars == <<safe, keyed, honoursKey, pc, attempt, keyHeader, wire, answer, applied, keySeen>>

-----------------------------------------------------------------------------
Ended == {"returned", "raised", "cancelled"}

Place == {"new", "sending", "waiting", "refreshing", "sleeping"} \cup Ended

Success == 200
Rejected == 400      \* any 4xx but the next two
Unauthorized == 401
RateLimited == 429
ServerError == 500   \* any 5xx

HttpStatus == {Success, Rejected, Unauthorized, RateLimited, ServerError}
NoAnswer == 0

\* A copy of the request: the attempt that sent it, and whether it has the key.
Copy == [attempt : 0 .. MaxRetries, keyed : BOOLEAN]

ThisCopy == [attempt |-> attempt, keyed |-> keyHeader]

Init ==
    /\ safe \in BOOLEAN
    /\ keyed \in BOOLEAN
    /\ honoursKey \in BOOLEAN
    /\ pc = "new"
    /\ attempt = 0
    /\ keyHeader = FALSE
    /\ wire = {}
    /\ answer = NoAnswer
    /\ applied = 0
    /\ keySeen = FALSE

-----------------------------------------------------------------------------
(* The client.                                                             *)

\* The headers are built, once the access token is there.
HeadersReady ==
    /\ pc = "new"
    /\ pc' = "sending"
    /\ keyHeader' = keyed
    /\ UNCHANGED <<safe, keyed, honoursKey, attempt, answer, service>>

\* No business is selected, it has no tokens, or refreshing them failed.
HeadersFail ==
    /\ pc = "new"
    /\ pc' = "raised"
    /\ UNCHANGED <<safe, keyed, honoursKey, attempt, keyHeader, answer, service>>

Send ==
    /\ pc = "sending"
    /\ pc' = "waiting"
    /\ wire' = wire \cup {ThisCopy}
    /\ answer' = NoAnswer
    /\ UNCHANGED <<safe, keyed, honoursKey, attempt, keyHeader, applied, keySeen>>

FaultyNextAttempt(after) == attempt' = attempt + 1 /\ pc' = after

\* "continue": the next iteration of the loop, after one more await.
NextAttempt(after) ==
    /\ attempt < MaxRetries
    /\ attempt' = attempt + 1
    /\ pc' = after

Raise == pc' = "raised" /\ UNCHANGED attempt

\* An exchange that failed may be repeated only if the request is safe or keyed.
FaultyRepeatable == TRUE
Repeatable == safe \/ keyed

\* httpx.TimeoutException: the request may or may not have reached MYOB.
Timeout ==
    /\ pc = "waiting"
    /\ \/ ~Repeatable /\ Raise                       \* UnsafeRetryError
       \/ Repeatable /\ NextAttempt("sleeping")
       \/ Repeatable /\ attempt = MaxRetries /\ Raise
    /\ UNCHANGED <<safe, keyed, honoursKey, keyHeader, answer, service>>

\* httpx.RequestError: no connection, or it broke, before or after MYOB read
\* the request.
RequestError ==
    /\ pc = "waiting"
    /\ \/ Repeatable /\ NextAttempt("sleeping")
       \/ (attempt = MaxRetries \/ ~Repeatable) /\ Raise
    /\ wire' \in {wire, wire \ {ThisCopy}}
    /\ UNCHANGED <<safe, keyed, honoursKey, keyHeader, answer, applied, keySeen>>

Answered(status) ==
    /\ pc = "waiting"
    /\ answer = status
    /\ UNCHANGED <<safe, keyed, honoursKey, keyHeader, answer, service>>

FaultyUnauthorised ==
    /\ Answered(Unauthorized)
    /\ pc' = "refreshing"
    /\ UNCHANGED attempt

Unauthorised == Answered(Unauthorized) /\ NextAttempt("refreshing")

Limited == Answered(RateLimited) /\ NextAttempt("sleeping")

\* A 5xx answer is retried for a safe method only, key or not.
RetriesServerError == safe

RetryServerError == Answered(ServerError) /\ RetriesServerError /\ NextAttempt("sleeping")

\* Every other answer from 400 up raises MyobApiError.
ErrorAnswer ==
    /\ \/ Answered(Rejected)
       \/ Answered(ServerError) /\ (~RetriesServerError \/ attempt = MaxRetries)
       \/ Answered(Unauthorized) /\ attempt = MaxRetries
       \/ Answered(RateLimited) /\ attempt = MaxRetries
    /\ Raise

FaultyReturns ==
    /\ Answered(Success) \/ Answered(Rejected)
    /\ pc' = "returned"
    /\ UNCHANGED attempt

\* The body is returned; one that should be JSON and is not raises instead.
Returns ==
    /\ Answered(Success)
    /\ pc' \in {"returned", "raised"}
    /\ UNCHANGED attempt

FaultyRefreshed ==
    /\ pc = "refreshing"
    /\ pc' = "sending"
    /\ keyHeader' = FALSE
    /\ UNCHANGED <<safe, keyed, honoursKey, attempt, answer, service>>

\* refresh_access_token and _headers are through: fresh headers, key included.
Refreshed ==
    /\ pc = "refreshing"
    /\ pc' = "sending"
    /\ keyHeader' = keyed
    /\ UNCHANGED <<safe, keyed, honoursKey, attempt, answer, service>>

RefreshFails ==
    /\ pc = "refreshing"
    /\ Raise
    /\ UNCHANGED <<safe, keyed, honoursKey, keyHeader, answer, service>>

Wakes ==
    /\ pc = "sleeping"
    /\ pc' = "sending"
    /\ UNCHANGED <<safe, keyed, honoursKey, attempt, keyHeader, answer, service>>

\* The tool call is cancelled while the method awaits.
Cancelled ==
    /\ pc \in {"new", "waiting", "refreshing", "sleeping"}
    /\ pc' = "cancelled"
    /\ UNCHANGED <<safe, keyed, honoursKey, attempt, keyHeader, answer, service>>

-----------------------------------------------------------------------------
(* MYOB.                                                                   *)

\* MYOB receives copy m, in any order, and answers; the answer is lost unless
\* the attempt that sent m still waits, and then may still be too late.
MyobReceives(m, status, applies) ==
    /\ wire' = wire \ {m}
    /\ status = Success => applies
    /\ applies => status \in {Success, ServerError}
    /\ IF applies /\ ~(honoursKey /\ m.keyed /\ keySeen)
       THEN applied' = applied + 1 /\ keySeen' = (keySeen \/ m.keyed)
       ELSE UNCHANGED <<applied, keySeen>>
    /\ answer' = IF pc = "waiting" /\ m.attempt = attempt THEN status ELSE answer
    /\ UNCHANGED <<safe, keyed, honoursKey, pc, attempt, keyHeader>>

-----------------------------------------------------------------------------
ClientStep ==
    \/ HeadersReady \/ HeadersFail \/ Send
    \/ Timeout \/ RequestError
    \/ Unauthorised \/ Limited \/ RetryServerError \/ ErrorAnswer \/ Returns
    \/ Refreshed \/ RefreshFails \/ Wakes

ServiceStep ==
    \E m \in wire, status \in HttpStatus, applies \in BOOLEAN :
        MyobReceives(m, status, applies)

Next == ClientStep \/ Cancelled \/ ServiceStep

Spec == Init /\ [][Next]_vars

\* Every await of the method ends: httpx gives an exchange and a token request
\* 30 seconds, and a sleep is at most 60.
FairSpec == Spec /\ WF_vars(ClientStep)

-----------------------------------------------------------------------------
(* Properties.                                                             *)

\* Every variable stays in its range, and the loop within its iterations, so
\* that "exceeded retry policy" (156) is never raised.
TypeOK ==
    /\ safe \in BOOLEAN /\ keyed \in BOOLEAN /\ honoursKey \in BOOLEAN
    /\ pc \in Place
    /\ attempt \in 0 .. MaxRetries
    /\ keyHeader \in BOOLEAN
    /\ wire \subseteq Copy
    /\ answer \in HttpStatus \cup {NoAnswer}
    /\ applied \in Nat
    /\ keySeen \in BOOLEAN

\* "Mutating timeout retries are blocked unless an idempotency key is
\* available" (README.md), and no other retry makes up for it: MYOB applies a
\* mutation without a key at most once, whatever is lost, late or refused.
UnkeyedAppliedOnce == (~safe /\ ~keyed) => applied <= 1

\* A mutation with a key is applied at most once by a MYOB that honours keys,
\* although attempts that timed out may be overtaken by later ones: every copy
\* carries the key, those sent after a refresh included (125-130).
KeyedAppliedOnce == (~safe /\ keyed /\ honoursKey) => applied <= 1

\* Every call ends, however often it is told to refresh or to slow down.
Terminates == <>(pc \in Ended)

=============================================================================
