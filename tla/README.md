# A formal model of myob-codex-mcp

`myob-codex-mcp` is a local MCP server through which a coding agent reads and
changes MYOB business files.  A change is *prepared*, *approved* by a person and
then *committed*; reads go straight to MYOB.  This directory models that system
in TLA+, checks it with TLC and proves its central properties with TLAPS.
Paths below are relative to `src/src/myob_codex_mcp/` unless they start with
`docs/` or `README.md`, which are those of the repository.

## 1. The system

### Components, their state and their operations

| Component | State | Operations | Correct when |
|---|---|---|---|
| Approval broker (`approval/broker.py`, `models.py`) | none of its own: it reads and writes the next three | `prepare`, `approve`, `deny`, `commit` (awaits MYOB) | only approved payloads are sent; an operation is committed once; its status tells what happened |
| Pending store (`approval/pending_store.py`) | `pending-operations.json`, shared by processes | `get`, `list`, `save` = read all, change one, write all | no update is lost; a save that breaks off loses nothing |
| Signer (`approval/signer.py`) | a key file | `issue`, `verify` | exactly the tokens issued are accepted, until they expire |
| Audit log (`approval/audit.py`) | `audit.jsonl` | `write` appends | what reached MYOB is on record |
| MYOB client (`myob/client.py`) | none but the HTTP client | `request` with retries, `paged` | a mutation is applied at most once; every call ends; a list that only grows at its end is read without gaps |
| OAuth (`auth/oauth.py`) | tokens and business used last, the pending OAuth state | exchange, refresh, select, default, remove, logout | a business is served with its own tokens; what is forgotten stays so; memory agrees with the registry |
| Token store (`auth/token_store.py`) | `tokens.enc`: tokens per business, a default business | load, save, set default, remove, clear | there is a default exactly when there are tokens |
| Callback server (`auth/callback_server.py`) | two result variables and an event per flow | one handler per connection | the tool reports what happened, and returns |
| Tools (`tools/`) | none | wrap the above | |
| Admin command line (`cli.py`) | none | `approve`, `deny`, in a process of its own | |
| Server (`server.py`), configuration (`config.py`) | read once at start | start, stop | |
| Policies, validators, endpoint registry (`approval/policies.py`, `safety/validators.py`, `metadata/registry.py`) | none | classify a request, refuse a path or a method, look up a path | what is shown to the person who approves is what is sent, at its documented risk |
| OData, logging, static site | none | formatting, a page | |

### How they interact

A server process is one asyncio event loop.  Tools run on it and are preempted
only where they await: the HTTP exchange with MYOB inside `commit`, `request` and
`refresh_access_token`, the sleeps between retries, the token endpoint, the
connections of the callback server.  All other code, file access included, runs
in one piece *within* a process.  Several processes (one MCP server per agent
session, and the command line) share the files of the home directory, without
locks.  `commit` calls back into the client; the client asks OAuth for a token,
which may refresh it over the network and write the token store.

### What is hard

* state read before an await is written back after it (`broker.py` 119/140/149);
* two processes read, change and write one file (`pending_store.py` 31-33), and the
  write is an emptying and a filling (28);
* a mutation times out after MYOB applied it, or is cancelled, or its outcome cannot
  be saved (`client.py` 109, `broker.py` 139-154);
* tokens come back from a refresh after a logout (`oauth.py` 147), or are those of
  another business (126);
* connections of one authorization flow share their results (`callback_server.py`
  24, 79);
* a list is read in pages while it grows or shifts (`client.py` 170-186);
* memory is set before a save that may raise (`oauth.py` 120-122, 145-147);
* keys are created by whoever finds none first (`signer.py` 33, `token_store.py` 75-91);
* the business of a write is resolved when it is prepared and again when it is sent
  (`write_tools.py` 20, `client.py` 34), with other calls and restarts in between.

`PROJECT.json` lists all of these hazards, each at its line, with the properties
that would notice it going wrong.

## 2. The modules

| Module | Models | Runs |
|---|---|---|
| `OperationLifecycle` | the abstract specification: status and commits in flight of each operation | as a property of the next two |
| `ApprovalBroker` | broker, store, signer, audit log of one process | `broker`, `broker_overlap` |
| `SharedBroker` | calls in one or several processes on one pending store, step by step | `shared`, `shared_lost_update` |
| `MyobClient` | one HTTP request with its retries, the network and MYOB | `client` |
| `CommitPipeline` | `ApprovalBroker` composed with a `MyobClient` for each of two commit calls | `pipeline` |
| `TokenRegistry` | tokens in the registry and in memory of one process | `tokens`, `tokens_owner` |
| `HomeFiles` | the key files and the encrypted registry, as several processes use them | `home_files` |
| `CallbackServer` | authorization flows, their connections, the manual exchange | `callback` |
| `Paging` | one list read page by page | `paging` |
| `Configuration`, `Endpoints` | `load_config`; the endpoint registry, the validators and the risk rules (operators only) | used by the next |
| `ToolRequests` | from the arguments of a tool to the request that MYOB gets | `tools` |
| `ApprovalBrokerProofs`, `CommitPipelineProofs`, `SharedBrokerProofs`, `TokenRegistryProofs`, `HomeFilesProofs`, `CallbackServerProofs`, `PagingProofs` | theorems about the module each is named for (section 4) | |
| `RequestProofs` | theorems about `ToolRequests` (with `Endpoints` and `Configuration`) and about `MyobClient` | |
| `MC...` | constants and symmetry of the runs | |

### ApprovalBroker

`store` is the JSON file as a function from operation ids to records; `tokens` the
tokens handed out (the signer accepts these and no others, so a signature is
membership in this set); `audit` the appended lines as (event, operation) pairs.
A hash is the record `[sha256 |-> payload]`: equal exactly when payloads are.
`prepare`, `approve` and `deny` are one action each, because they do not await; a
parameter `logged` says whether the audit line could be appended, so that
the call raises with the store already written.  `commit` is `CommitBegin` (all of its checks, up to the
await) and one of `CommitSucceeded`, `CommitFailed` or `CommitAbandoned`
(cancelled, or the store could not be written).  `held[c]` is the Python
local variable `operation`, which is why a later `store'` may undo what other
calls wrote.  `MyobPosts` is MYOB applying the request: during the exchange, after
the client gave it up, or after the process died.  `PayloadEdited` changes a stored payload;
`Restart` ends the calls under way and draws `allow_writes` anew; `Tick` is the clock.

### OperationLifecycle

What a user may rely on whatever the clock, tokens and file format: a status
moves as in `docs/approval-model.md`, with one correction made by the code - a
commit call that was let through decides the status when it returns, whatever it
has become.  `ApprovalBroker` implements it with its own status and its
executing calls; `SharedBroker`, with one process, implements it although the file
is replaced in four steps that a kill or an error may interrupt: its refinement mapping
(`StatusView`, `InFlightView`) counts a half-written file as written.  It therefore
says nothing of what a torn file has lost; `UnreadableOnlyIfTorn` says when one is torn.

### SharedBroker

A call is: check the file, (for commit: await MYOB), then `SaveReads`, `Truncates`,
`Writes`, `Finishes`.  A session is a call that may be under way, and `processes`, fixed at
the start, says which sessions share a process: `Free` lets nothing of the same process
interleave with these steps; another process may come in between any two.  `form` tells
whether the file can be parsed: `"empty"` between the two system calls of
`write_text`, `"garbled"` when two writers have overlapped or a write broke off in the middle.
`Crash` kills a process at any step.  A call may raise at any step too: `SaveRaises` before the
file is emptied, `WriteFails` (a full disk) after it, with nothing or a part of the image
written.  The process then lives on, its session `"torn"` until the file can be read again
(`Mended`).  Payloads and
tokens are reduced to what the status flow needs.  Properties that hold only within one
process say so (`OneProcess`).

### MyobClient

One request.  `wire` holds the copies of it that MYOB may still receive, in any order
and arbitrarily late; `applied` counts how often MYOB did what was asked.  MYOB
is external and answers whatever the client distinguishes; a 5xx answer may or may not
follow an applied request, and any answer below 400, which the client returns as a success,
is taken to mean that the request was applied (MYOB is not known to redirect).  `honoursKey`, drawn when the request starts, says whether MYOB
applies a key once.

### CommitPipeline

The broker's `commit` awaits its executor, and the executor is one `MyobClient.request`
with the operation id as its key.  The module takes the actions of both specifications and
joins them: a call's client moves while the broker has the call `"executing"`
(`ExecutorStep`), what the request returned or raised is what the broker saves
(`OutcomeOf`), a cancellation ends both, and what MYOB applies for a client it has
`posted` for the broker's call.  Both requests reach one MYOB, so `applied` and `keySeen`
are shared by the two instances.  `ApprovalBroker` takes it for granted that an
executor that returns was applied; `ImplementsBroker` shows it of the client.

### TokenRegistry

A token set is the business it is labelled with and its `owner`, the business
MYOB issued it for; the code never sees the owner, the properties do.  Calls that
await the network (`exchanging`, `requesting`, `refreshing`) interleave
with each other and with the tools that do not await.  A code comes from `Redirect`,
which pairs the `business_id` given with it and the business it was made for; the code never
compares them, so the two may differ.

`exchange_code` and `refresh_access_token` set `_tokens` and `_active_business_id` and then save
the registry, which may raise; `remove_business` and `set_default_business` change the registry and
then read it again, which may raise; `clear` clears memory and then unlinks the file.  The
parameters `written`, `loaded` and `cleared` are those outcomes, and `strayed` is a history
variable: a call raised in between, and memory and registry have not been set together since.
`forgotten` is another: what was removed and not authorised since.

`careful` is drawn at the start.  A careful user removes and logs out only while no call awaits the
network, gives a code with the business it was made for, and asks to refresh
businesses that the registry has tokens for, or, while memory has not strayed, none in
particular.  What the code promises such a user is stated under `careful =>`;
`DefaultAuthorised` and `ActiveAuthorised` hold for every user.

### HomeFiles

One module for the two files that need a key, because the code creates both keys in the same way:
`Look` finds the key or draws a new one, `CreateKey` empties the file (or fills the
keyring, at once), `FillKey` fills it.  A call on the registry reads the key, reads the file,
applies its change to what it read, looks the key up again and writes the file in
two steps.  `subject` says which file a behaviour is about; they share nothing.
`raced`, `overlapped`, `torn` and `halfmade` record that two processes were inside the critical section
of the key or of the file, or that a kill (or an error of the call) struck while the file was empty, or
while the signing key was: nothing in the code prevents
these, and the properties say what holds without them (`KeyServes`, `TurnsKept`) and
what holds even so (`RegistryConsistent`).  An empty `token.key` is replaced, but an empty
`approval-signing.key` is not: every process that comes later signs and verifies with the key `b""` until
the file is removed by hand, so that its signatures show nothing (`signer.py` 33-40).  `KeyServes` says that this
takes a `halfmade` key.  `ledger` counts the businesses that completed calls left with tokens, and the
tokens of the first release that name no business, independently of how the registry represents them.

### ToolRequests, Endpoints, Configuration

`Endpoints` has the registry as functions of the entity, a path being the sequence of its
segments, and the words in which `classify_operation` finds its terms (`Spelled`).
`ToolRequests` has the sixteen tools named for an entity as the records that the source writes
down in their calls of `_prepare`, beside the entity, raw and attachment tools; it prepares with
any arguments, changes the business in use, restarts with any configuration, and
commits.  An argument that is left out is `NotGiven`, and `LayoutPath` adds to a path what is given, as
`_layout_path` does.  An empty uid is such an argument too: `_layout_path` validates only a uid that is true in
Python, so the tools that have layouts take an empty one and prepare a request without a record
(`PrepareNamed`); the other tools call `validate_guid`, which refuses it.  `Starts` is every configuration that `load_config` makes of `MaxFiles` candidate files and the
environment.

### CallbackServer

A flow is a call of `myob_oauth_authorize_business`, a visit a connection to its
server or a manual exchange.  The OAuth state is one slot of the process;
`validate_state` empties it whether or not it matches.  `result_error` is `None`, the
empty string (that is `str()` of a timeout) or a text, because only the last one is
true in Python.  After `event.set()` handlers of other connections may still run.
A manual exchange looks at the state only if one is given *and* a request is pending
(`auth_tools.py` 68-70); otherwise it exchanges the code whatever state came with it
(`ManualBegins`), and `state` records that one as well.
`waits`, drawn at the start, says whether `wait_closed` waits for them: it does from
Python 3.12 on, and 3.11 is allowed too.  So `Returns` and `Expires` may have to await the
handlers, or may overtake them.

### Paging

A collection is its length, an item its business and position.  While the call runs, entries
are added behind the place it has reached (`Added`), and another call may select another business.
`Shifted` is the rest: an entry is deleted, or comes before that place, which the order a caller asks for with
`$orderby` allows (`read_tools.py` 48-49, 87).  The list may then repeat an entry or lack one;
`shifted` remembers it, and `PrefixIfSteady` claims nothing of such a list.  `ListEnds` holds of it too.

### The "Faulty..." operators

Each run was also made against mutations of the code: an operator named
`Faulty...` is a plausible mistake in the one after it (a dropped
guard, a forgotten assignment, a swapped order).  No action uses them; `PROJECT.json` ("mutants") says
which of them each property detects.

## 3. What the runs show

| Run | Instance | Shows |
|---|---|---|
| `broker` | 1 operation, 2 payloads, 3 commit calls, TTLs 2 and 1, clock to 3 | `ApprovedPayloadOnly`, `PostedOnRecord`, `CommittedMeansPosted`, `OutcomeSettles`, `NoCommitAfterOutcome`, `ImplementsLifecycle` |
| `pipeline` | 1 operation, 2 commit calls, 1 retry each, keys honoured or not, fair | `OperationAppliedOnce`, `ImplementsBroker`, `CommitEnds` |
| `shared` | 2 operations, 2 calls in one process or in two, kills, writes that fail | in one process `UnreadableOnlyIfTorn`, `OneProcessCommitsOnce`, `ImplementsLifecycle`; in any `CommittedMeansPosted` |
| `client` | 3 retries (the code's number), keys honoured or not, fair | `UnkeyedAppliedOnce`, `KeyedAppliedOnce`, `Terminates` |
| `tokens` | 3 businesses, 2 awaiting calls, codes of any business, reads and writes that fail | for every user `DefaultAuthorised`, `ActiveAuthorised`; for a careful one `CarefulStoredForOwner`, `RequestsWithOwnToken`, `ForgottenStaysForgotten` |
| `home_files` | 2 processes, 2 businesses and tokens of none, 3 keys, kills | `KeyServes`, `RegistryConsistent`, `TurnsKept` |
| `callback` | 2 flows, 3 visits, fair | `UsedStateRefused`, `SuccessMeansStored`, `FailureIsAnothers`, `UnexplainedStoredNothing`, `FlowEnds` |
| `paging` | 2 businesses, pages of 2, up to 5 items, `top` -1, 0 or 7, `max_items` -1, 0, 3 or 9, fair | `PrefixIfSteady`, `ListEnds` |
| `tools` | 1 operation, 2 businesses, 3 layouts (one empty), a uid or an empty one, 10 raw paths, 2 configuration files | `SentAsPrepared`, `AsDocumented`, `WritesOffHonoured` |

Most of the modules about which there are theorems have their type invariant in a run; the ranges of
the others (`HomeFiles`) are part of the inductive invariant that is proved.

The runs that TLC refutes are disagreements between the code and its documents:

| Run | Property | What happens |
|---|---|---|
| `broker_overlap` | `CommitFailsOnceCommitted` | two overlapping commits both return a result |
| `shared_lost_update` | `NoCommitAfterReturn` | another process restores `approved` after a commit |
| `tokens_owner` | `StoredForOwner` | refreshing an unauthorised business stores another's tokens under its id |

Each has a passing counterpart that says under which use the claim holds:
`NoCommitAfterOutcome` (calls that do not overlap) and `OperationAppliedOnce` (MYOB, if it
honours keys, applies the operation once all the same) for `broker_overlap`,
`OneProcessCommitsOnce` for `shared_lost_update`, and `CarefulStoredForOwner` for
`tokens_owner`.

More behaviours are worth knowing; the properties are stated so as to allow them:

* a denial given while a commit waits for MYOB is overwritten by the commit's outcome
  (`OperationLifecycle` therefore has `Settle` from any status);
* a refresh under way when the user logs out stores tokens again
  (`ForgottenStaysForgotten` is claimed for careful users only);
* a save of tokens that raises leaves memory with tokens and a business that the registry does not
  hold, or no longer: calls that name no business then raise until one is named
  or memory is set anew, and a refresh of no business uses those tokens
  (`ActiveAuthorised` is claimed unless memory `strayed`);
* a code that is exchanged under another `business_id` than it was made for is stored under it
  (`CarefulStoredForOwner` is claimed of users who do not);
* a redirect that has been used is exchanged again by `myob_oauth_exchange_code` or
  `myob_oauth_exchange_redirect_url` when no request is pending, since the state is then not looked at; MYOB alone may
  refuse the code (`UsedStateRefused` names this exception);
* an error of another connection makes the tool report failure although the
  browser was told of success and the tokens are stored (`FailureIsAnothers`);
* `commit` does not look at `allow_writes`: an operation prepared and approved before a restart with
  writes off is committed after it, although README.md 142-148 lists "write tools are
  disabled" among the reasons for which a commit fails (`WritesOffHonoured` is about preparing);
* a call that names no business goes to the one used last, and to the default of the registry only
  when none was used yet, where docs/architecture.md 15 speaks of the default alone
  (`Selected`, `business_id`);
* a write prepared when no business can be resolved is shown without one, and goes to the
  business that is in use when it is committed (`SentAsPrepared` is claimed where one was shown);
* `allow_writes` in a file as a text, which is what `"${NAME:-false}"` expands to, is true
  whatever it says (`Truth`; `WritesForbidden` counts booleans only);
* a process that looks for a key while another creates it goes on with a key nobody else
  knows, or, the signer, with an empty one; and if the signing key is left empty by a process that was
  killed while it created it, every later process uses the empty key
  (`KeyServes`), although `README.md` 168 and `docs/threat-model.md` 18 rely on signatures;
* the tools that update an invoice or a bill or delete an invoice accept an empty uid and
  prepare, and show, a PUT or DELETE of `/Sale/Invoice/Service`, which names no record
  (`AsDocumented` says nothing of the path of a call that is not `Complete`);
* a call that fails to write `pending-operations.json` after emptying it leaves a file that no call can
  read, so that every later one raises until the file is repaired or removed by hand
  (`UnreadableOnlyIfTorn`), and the statuses of all operations are lost with it;
* calls of two processes on the registry may undo each other, or leave a file that cannot be
  decrypted, with which no server starts (`MyobOAuth.__init__` loads it) until
  the file is removed by hand (`TurnsKept`);
* the raw tool classifies a banking transaction by its words: a transfer of money is "medium";
  and a caller of it may choose a risk below the documented one (`AsDocumented`);
* creating an invoice, order or bill with the entity tool and no layout leaves an empty segment
  (`/Sale/Invoice/`), with the tool named for it none; `myob_entity_get` ignores the layout it is
  given, since no registered path to read one has a place for it; the tool catalog lists
  `myob_sales_order_list` and `myob_item_list`, which do not exist.

### Bounds, and why they are enough

* Three commit calls of one operation: one that returns, one that overlaps it, one that
  begins afterwards.  Two operations in the runs of `SharedBroker`, where one save writes
  the records of both; that records and tokens do not cross in one process is proved for
  any number of operations (section 4).
* `PendingTTL` 2, `ApprovalTTL` 1, `MaxTime` 3: tokens lapse before, with and after their
  operation.  `MaxTime` is the only bound of the clock.
* Two payloads: the approved one and another.
* Two processes lose updates of each other; a third adds more of the same.  `Session` has two
  members, parted into one process, where calls overlap, or two.  The safety properties are
  proved for any number of both (section 4).
* In `pipeline`, one retry makes every path of the loop happen, and a second commit call overlaps
  or follows the first; the TTLs and `MaxTime` are 0, because nothing there depends on time.
* `MaxKey` 3: the key that was there, and one from each process.
* Two files: the one in force and one that is not looked at.  One operation: that records do
  not cross is proved for `ApprovalBroker`.
* Three businesses: the default, the one used last, and one in a refresh.
* Two flows: one whose state is replaced and the one that replaces it; three
  visits: the redirect, its duplicate, and something else.  Both are numbered in the order
  in which they begin, since nothing else tells them apart.
* `MaxItem` 5 and pages of 2: two full pages and a short one, or, with 4 items, an
  empty one.  `top` is negative, zero, or more than a page holds; the two first make pages of one.
* The `VIEW` of `tokens` leaves `forgotten` out where no property reads it: no action does.
* `Symmetry` permutes values that no action distinguishes, and is used only in runs
  without liveness properties.

Deadlock is not checked where the system ends: a request, a list and a set of
authorization flows that have all returned (`CHECK_DEADLOCK FALSE` in
`MCMyobClient`, `MCCallbackServer`, `MCPaging`).

### Fairness

* `MyobClient!FairSpec`: weak fairness of the client's own steps.  Each of its awaits
  ends: an exchange and a token request after 30 seconds at most, a sleep after 60.
  Nothing is assumed of MYOB or the network.
* `FairPipelineSpec`: weak fairness of each call's client while the broker awaits it, as above, and
  of the broker going on when the client is through, which the event loop sees to.
* `CallbackServer!FairSpec`: weak fairness of all flows' and handlers' steps together: the event loop
  runs something as long as anything is ready, and its timers fire, after 180 seconds for the event,
  10 for a request line, 30 for an exchange; a page this small is written at once or the
  connection breaks.  This suffices because what there is to run runs out (`FlowsRunOut`).  A handler that must answer may still break off without setting the
  event, and no browser need come.
* `Paging!FairSpec`: weak fairness of the loop; its requests end by
  `MyobClient!Terminates`.  Everyone else may add and delete entries without end, up to `MaxItem` of them.

## 4. What is proved

TLAPS checks the theorems of the eight `...Proofs` modules for every value of the constants: any
sets of operations, payloads, calls, sessions, processes and businesses, finite or not, any numbers
of retries, keys, flows, connections and configuration files, any TTLs, pages and collections of any size.  The
properties of the runs follow from inductive invariants, conjunctions of named parts, that TLC
had found true on the instance of the run before they were proved.
A theorem about `Spec` holds of the fair specification as well, which implies it.
`PROJECT.json` ("theorems") names the property that each theorem states.

`ApprovalBrokerProofs`:

* `TypeCorrect`: `Spec => []TypeOK`.
* `BrokerCorrect`: `Spec => []BrokerInv`, the inductive invariant from which
  `ApprovedPayload`, `OnRecord`, `Settled` and `NoLaterCommit` follow.  None of the
  four is inductive by itself.  `ApprovedPayloadOnly`, say, needs to know that a
  record in the store is filed under its own id (so that a commit writes back where it
  read), that a token is never withdrawn, and that the hash in a held record is
  that of its payload (checked just before the await).  `OutcomeSettles` and `NoCommitAfterOutcome` need
  that the status of an operation with a returned commit is an outcome, and that every
  write after that, the stale ones included, writes an outcome.
* `CommittedPosted`: `committed` is only written by a call whose request was applied, and
  that stays so.
* `BrokerImplementsLifecycle`: the initial states map to initial states, and each
  action to the abstract action of its name or to a stuttering step; writing a stale outcome is
  the abstract `Settle` because the call is still in `inFlight`.

`RequestProofs`, about what a request asks for (`ToolRequests`):

* `SentAsShown`: what was sent last is what was shown; the step that matters is the commit, which
  resolves the business again and, if one was shown, finds the same.
* `WritesOff`: `OffInv` (`forbidden => ~config.allow_writes`) is kept because every start reads
  the configuration anew, and `ForbiddenIsOff` goes through the cases of `load_config`.
* `AllAsDocumented`: `StoreInv` says of each operation in the store that its path is the
  registry's if the call was given all that fills it (`Complete`), and that a registered path has
  the documented risk, whoever asked for it and with whatever uid.  `PreparesAsDocumented` reduces a tool to the words of
  its path and of its type, `RiskOfWords` reads the rules of `classify_operation` off them in
  their order, `OneEntity` shows that a registered path is that of one entity, and `RegisteredRisk` that
  then only the entity's own words count.  That the read tools ask for what the registry
  shows is `ReadPaths`.  The theorem rests on `WordsArePlain`: a uid that is
  given holds none of the terms of the rules, which `validate_guid` sees to (it admits hexadecimal
  digits only, and is called whenever the uid is not empty), and no layout is named for a deletion, a payment, a transaction or a journal, which
  is so of those that `registry.py` 44 lists.  The code takes any text for a layout; one with such a
  word in it would be classified by that word.

And about one call of `MyobClient.request`, for any number of retries:

* `ClientTypeCorrect`, where the bound on `attempt` is what makes "exceeded retry policy"
  unreachable;
* `UnkeyedOnce`: with `UnkeyedInv` (never two copies on the wire; once the request was
  applied, none; it is sent again only after a refusal, when none is on the wire and
  none was applied);
* `KeyedOnce`: with `KeyedInv` (every copy carries the key, and MYOB, if it honours keys,
  remembers the key once it has applied one);
* `CallRunsOut`, the first of the theorems below.

`CommitPipelineProofs`, for two calls of one operation and any number of retries:

* `PipelineImplementsBroker`: a joint step is a step of the broker or of none of its
  variables.  The one case that is not plain is a commit that succeeds: the broker
  requires it to be posted, and `RequestInv` knows that a request which waits with a success, or has
  returned, was applied.
* `AppliedOnce`: every copy of either request carries the key (`RequestInv`), and what MYOB
  remembers, what it has applied and what the broker's calls have posted agree (`AppliedInv`).  That a
  committed operation is posted comes from `CommittedPosted`, through the theorem before it.
* `PipelineImplementsLifecycle`: the two refinements in a row.
* `CommitRunsOut`, see below.

`SharedBrokerProofs`:

* `BrokerInvariant`, for any parting of the sessions into processes; `CommittedIsPosted` follows:
  `committed` begins as MYOB's answer, and wherever it is copied to (a call, an image, the file) the
  operation stays posted, whatever processes overwrite of each other, wherever they are killed and
  whichever writes fail.
* `OneProcessInvariant`, for one process with any number of calls: one call at most saves, the
  file is empty just while it writes or after it broke off there (`AloneInv`), what it has read
  is still so when it writes (`SavesInv`), an outcome that was returned stays one
  (`SettledInv`).  `UnreadableIfTorn`, `CommitsOnce` and `OneProcessImplementsLifecycle` follow; in the last
  the four steps of a save are one abstract step, at the moment the file is emptied, and the
  image that is about to be written stands for the empty file.

`TokenRegistryProofs`: `RegistryInvariant`, of which `StoreInv` (the registry's default is authorised, and
so is whatever memory names unless it has strayed) holds for every user, and `OwnersInv` (every token set, stored, in
memory or in the hands of a call, is labelled with its owner, and a call works for a business that is still authorised)
for a careful one.  `DefaultIsAuthorised`, `ActiveIsAuthorised`, `StoredForItsOwner`, `OwnTokenOnly` and
`ForgottenIsGone` follow.  `OwnersInv` is where the fallbacks matter: a refresh may fall back on
the business in memory, so that memory and store must be right together.  All five are proved with
reads and writes of the registry that raise wherever they may.

`HomeFilesProofs`: `HomeInvariant`.  `KeyInv` says that, unless processes raced, a key is created only
while nobody relies on one; `EmptyInv` that the signing key is empty only while it is written or
once a process was killed there; `TurnInv` that a call of processes that take turns is alone from its first read to its last
write; `FileInv` that whatever is read, merged or written is a good registry, which is why
`RegistryIsConsistent` needs no such condition.  `TheKeyServes` and `TurnsAreKept` follow from
the first two.

`CallbackServerProofs`: `ServerInvariant`.  The result of a flow is shared by its handlers and read later, so
`ResultInv` names for each result a visit that accounts for it, `VisitInv` says what each visit
that has been answered or stored has left behind, and `StateInv` that the pending state is held by no visit.
A used one is therefore never pending, and only a visit that skips the comparison can hold it
again: `UsedStateIsRefused` shows that this is a manual exchange while nothing is pending.  `SuccessIsStored`, `FailureIsExplained`, `UnexplainedIsNothing`, `UsedStateIsRefused` and
the last line of `TypeOK` follow.

`PagingProofs`: `PagingInvariant`: as long as one business was read and its collection was not shifted, the items are the first ones of
its collection and `skip` is their number (`SteadyInv`).  The step that matters is `PageContinues`:
a full page advances both by the same number, and a short one reached the end.
`PagesMakeAPrefix` then covers every `top` and `max_items`, negative ones included, and
`NamedMakesAPrefix` drops the condition that the business stays the same for calls that name theirs.

Four theorems prove of each liveness property what can be proved without fairness: there is a number
that every step of the component's own lowers, that no other step raises, and that is
bounded from the start.  A component that keeps moving therefore ends, whatever the others do:

* `CallRunsOut` (for `Terminates`): a call of `request` makes at most `3 * max_retries + 3` steps.
* `CommitRunsOut` (for `CommitEnds`): the same of the requests of two commits that overlap;
  restarts, the other commit and MYOB give nothing back, a commit is under way once, and while it is, its
  request goes on or has returned or raised, so that there always is a step to wait for.
* `LoopRunsOut` (for `ListEnds`): a list is read in at most `2 * max_items + 2` steps, although
  others may add items without end.  It is here that a page must have room for an item.
* `FlowsRunOut` (for `FlowEnds`): a call of the authorize tool makes at most three steps and a handler
  four; a server that closes waits only for handlers that have a step to make.

Assumptions used: the `ASSUME`s of the modules (`TimesAreIntegers`, `RetriesAreNumbers`,
`TwoCalls`, `WordsArePlain`, `PartitionsOfSessions`, `BusinessesAreNumbers`, `KeysAreNumbers`,
`FlowsAndVisitsAreNumbers`, `ArgumentsAreNumbers`), which TLC evaluates in their runs.  Businesses are
numbers in two modules because the code sorts them: `sorted(businesses)[0]` is a business, for any set of them, since
the order of the natural numbers is well-founded (`LeastIsOne`).  Lemmas of note: `OneRecordSaved` (which records a step
may change), `LifecycleStep` (both refinements), `Loaded`, `Saved` and `Chosen` (what the
registry's operations return), `ItemsMeet` and `PrefixOfItems` (pages that meet are one).

Only model-checked: `Terminates`, `CommitEnds`, `ListEnds` and `FlowEnds` themselves.  They need
fairness and `ENABLED`, for which the installed provers have nothing; the theorems above bound the
steps, and TLC shows on the instances that under fairness the last of them is taken.  Every
other property of a passing run is proved.

## 5. What is not modelled, and why

* Cryptography: a signature or a ciphertext is valid exactly under the key it was made with.
* `MYOB_CODEX_MCP_TOKEN_KEY`: a key that is there before any process, as when the key file is.
* A keyring that works once and fails later; `HomeFiles` fixes at the start whether there is one.
* Of the configuration: credentials, scopes, the log level and the places of the files, which
  nothing else depends on, and files that cannot be parsed, with which no server starts.
* `approval_mode`, `require_approval_for` and `risk_at_least`, which nothing reads.
* Financial summaries, OData strings, logging, redaction, the tool catalog, the static callback page, scripts
  and CI: stateless, and no other part's behaviour depends on them.
* `MemoryTokenStore`, a double for tests.
* Bodies and parameters of requests: a payload is a model value.
* Which entries a list repeats or lacks once its collection was shifted between two pages.
* Tokens of a first-release file that name no business, in `TokenRegistry`: `load_business_tokens` and
  `MyobOAuth.__init__` use them as the tokens of none.  `HomeFiles` has them, as far as their being kept goes.

## 6. Plan

Every property of the runs is proved but the four liveness properties.  What would add most:

1. `CommitPipeline` for any set of calls, with a request for each as a function of the call, in place of
   the two instances.
2. `Paging` composed with a `MyobClient` for each page, in place of its `RequestRaises`.
3. A property of `Paging` that says which entries may be missed or repeated when its collection was shifted.

## 7. Running it

    tlc -config MCApprovalBroker.cfg MCApprovalBroker
    tlapm ApprovalBrokerProofs.tla
    tlapm CommitPipelineProofs.tla
    tlapm RequestProofs.tla

Each configuration belongs to the module that `PROJECT.json` ("runs") names; the longest
takes about a minute and a half.
