# Verification of the LangGraph secure gateway

TLA+ models of the gateway in `src/langgraph_secure_gateway/`, the TLC instances that check
them, and proofs that TLAPS checks. File names below are relative to that directory.

    tlc -config RefreshRace.cfg MCRefreshRace.tla         # any pair of the table "Runs"
    tlapm RefreshSessionsProofs.tla                       # any *Proofs module

## 1. The system

The gateway is one FastAPI process (or several, on one PostgreSQL database). It authenticates
users, keeps their refresh sessions, and forwards `/agents/{key}/...` to LangGraph services
that an administrator has registered.

| Component | State | Operations | What makes it correct | Status |
|---|---|---|---|---|
| Refresh sessions, `auth/routes.py`, `auth/models.py` | tables `users`, `refresh_sessions`; the cookie of each client | login, refresh (rotation, replay detection), logout; deletion and deactivation of a user by the console | one working token per login; a spent token is never exchanged; a replay ends the user's sessions; nothing survives its user; every request ends; a careful client keeps up | modelled |
| Schema migration and reset, `auth/db.py`, `auth/migrations/`, `app.py`, `cli.py` | tables, `alembic_version`, a session advisory lock | start, init-db, reset-db | tables and recorded revision agree; upgrades are whole; who starts has the latest schema | modelled |
| Connections and the event loop, `auth/db.py` | connection pool, thread pool, event loop | sync endpoints in threads with `get_session`, `SessionLocal()` in async handlers | no connection leaks; the loop recovers from waiting; it stands still only with a connection for every thread, or by connections kept between two threads; requests end | modelled, but for the views of sqladmin |
| SSE heartbeat, `gateway/proxy.py` 55-85, 394-413 | generator, reading task, timer, response | chunks, heartbeats, disconnects, failures, close | chunks in order and once; a broken stream never looks complete; a stream stays alive; the upstream is released | modelled |
| Agent proxy, `gateway/proxy.py`, `auth/gateway_security.py` | the principal and the agent as they were read; an httpx client | authenticate, find the agent, check access, read and rewrite the body, send, answer, stream; file download | forwarded only what was allowed since the request arrived; refused only with a reason; clients closed; calls answered | modelled, but for headers and the values of queries |
| Run identity rewrite, `gateway/proxy.py` 34-47, 88-268 | none | rewrite and assertion | identity and owner set wherever they belong, nothing else touched | modelled |
| Admin console, `auth/admin.py` | tables; signed session cookie | sign-in, sign-out, the check of every request, forms for users, agents, grants | addresses are distinct; an edit is that of an admin; what it means for sessions and requests | modelled, but for lists and searches |
| Access tokens, `auth/security.py`, `auth/dependencies.py`; `/auth/me`, `/auth/session` | none: signed tokens with an expiry | encode, decode, current user | a token works for an active user until it expires, and not long after its login | its life is; signatures and headers are not |
| Agent discovery, `auth/discovery.py`, `templates/sqladmin/_agent_discovery_script.html` | the form; a timer; lookups in flight | debounce, fetch, apply | the list shown is that of the URL in the form; what was found can be called | modelled, but for the choice from the list |
| Admin bootstrap, `auth_cli.py`, `scripts/create_admin_user.py` | table `users` | create or update the admin | one user per address; afterwards there is an admin who can sign in | modelled |
| OpenAPI rewriting, `gateway/proxy.py` 175-192 | none | one document | - | only the call around it |
| Deploy scaffolding, wiring, configuration, templates | files, settings | written once | - | not modelled: sequential I/O and constants |

How they interact: the auth router, the proxy and the console share the database, the pool and
the event loop, and nothing else in memory. Requests of the auth router run in threads, one
transaction each; the proxy and the admin login run on the event loop and open short sessions
there. The proxy only reads the database. Deleting a user or an agent cascades to sessions and
grants. A stream's generator, its reading task, the response and the background task share the
upstream response. Clients of the auth router meet it through a network that delays and loses
what it carries; the agent form calls the console while it is edited, and the console a service.

What is hard to test here: two transactions on the rows of one user in every order, and their
deadlocks; a token exchanged while its login is ended; processes that migrate, fail and die
while others wait; the event loop blocked by the pool while threads wait for the loop; a
heartbeat that falls due while a chunk arrives and the client leaves; facts read in one session
and used after others changed them; cookies that are a step behind the database; lookups whose
answers come in any order. `PROJECT.json` lists each under "hazards" with its line.

## 2. The modules

| Module | Models | Used by |
|---|---|---|
| `TokenRotation` | what rotating tokens promise, without a database (abstract specification) | `RefreshSessions` refines it |
| `RefreshSessions`, `MCRefreshSessions` | login, refresh, logout, deletion, deactivation, statement by statement | `ReplayRace` |
| `ReplayRace`, `MCRefreshRace` | the same, with the history of what a replay can miss | |
| `ClientSession`, `MCClientSession` | browsers, their cookies and access tokens, and a network that delays and loses, around the auth router | uses `TokenRotation` |
| `SchemaUpgrade` | what `ensure_auth_schema` and `reset_auth_schema` promise, without locks and transactions (abstract specification) | `SchemaMigration` refines it |
| `SchemaMigration` | startup, init-db and reset-db of several processes | |
| `ConnectionPool`, `MCConnectionPool` | requests, threads, pool and event loop of one process | |
| `ChunkStream` | what a client may expect of a streamed answer, without tasks and heartbeats (abstract specification) | `SseHeartbeat` refines it |
| `SseHeartbeat` | one streamed answer | |
| `IdentityRewrite` | the rewrite and the path patterns, as operators | `AgentProxy` |
| `AgentProxy`, `MCAgentProxy`, `MCIdentityRewrite` | a request against a database that is being edited | |
| `AdminAccounts` | users, the console's sign-in and forms of users, create-admin-user | `AgentForm` |
| `AgentForm`, `MCAgentForm` | the agent form and its lookups, on top of `AdminAccounts` | |
| `...Proofs` | the theorems about the module of that name | |

Definitions called "Fault" in their comment are not used: each is a definition as a plausible
mistake would have it. They stand before the one they would replace, and show for every property
that it can fail.

### RefreshSessions

`rows[t]` is the row of `refresh_sessions` for the token `t`; `rotated`, `revoked` and `next` are
`rotated_at`, `revoked_at` and `replaced_by_id` (only whether the times are set matters);
`family`, the login a session descends from, is a history variable. `lock` and `userLock` are
PostgreSQL's row locks, `pc`, `tok`, `usr`, `new`, `scan` the locals of the handlers.

A step is one statement with its lock: `RefreshNotFound/Replayed/Expired/Accepted` the
`SELECT ... FOR UPDATE` and what follows from it, `RefreshUser/Inactive` the read of the user,
`RefreshInsert` the flush of the successor, `RefreshCommit` the update of the old row and the
commit; `RevokeScan/Update/Commit` are `_revoke_user_refresh_sessions` and its commit, where the
query takes no lock and the updates take one row at a time; `Abort` is any way out without a
commit (an exception, a lost connection, a crash) and a lost answer; `Delete...` is `DELETE FROM
users` with its cascade. A statement that follows another in the same transaction and can neither
wait nor be seen between is part of the same step.

Details that follow from the code: the ORM expires rows at the commit, so login and refresh read
the user again for the answer and fail when it is gone (`RespondUserGone`, after the commit);
a logout or refresh without a cookie changes nothing and is a stutter; `refresh` never finds its
user missing, because the row it has locked refers to the user (`RowsOutliveTheirReaders`);
`replaced_by_id` is set to NULL by a deletion only when the whole chain is deleted with its user,
which nobody sees.

`ReplayRace` runs beside it and changes nothing of it: `raced` is history, the handlers whose replay
was overtaken, that is, a session of their user began to work between their query and their commit.
`OnlyRacedReplaysMiss` says that there is no other way for a replay to miss a session, or to take
one too many.

### ClientSession

Here the gateway is small and the world around it large. `Rotation` is an instance of
`TokenRotation`: since `RefreshSessions` implements that protocol, commit by commit, a handler is
one step here up to its commit (`Login`, `Refresh`, `RefreshReplayed`, `Logout` and so on, each with
its early returns), between a `request` and an `answer` that the network holds as long as it likes.
Behind the commit of a login or refresh the code reads `user.id` again, which takes a connection
from the pool, and only then makes the access token: that is a second step (`Mint`), before which
anything may happen, or an error (`MintFails`) when the user is gone or no connection is free. A browser
adds its cookie when it sends and obeys `Set-Cookie` when it receives, so answers of two calls may
overtake each other; `LoseRequest` and `LoseAnswer` are connections that break before and after
the gateway has acted. `HTTPException` drops what the handler has set on the injected response, so
a refusal carries no cookie (`Keep`), although the handlers call `_clear_refresh_cookie`.

`calm` is history: the browsers that have made one call at a time and lost no answer. They are
those that the rotation was made for, and `ClientKeepsUp` says that it serves them: the working
token of their login is their cookie, or on its way to it. `LogoutEndsTheLogin` depends on it,
because a logout revokes the one session it is presented with: a browser with a refresh under way,
or one that has lost the answer of a refresh, signs out of a session that was replaced already,
and the login goes on until it expires. `endedAt`, history too, is when a login ended; a JWT does
not know, and `AccessEndsWithItsLogin` bounds by how much it outlives it: its lifetime, and the time
between the commit (`since`) and the making of the token (`iat`), in which its login may have ended
already. Without that time the bound is false, in the code and in the model.

### AdminAccounts and AgentForm

`rows` is the table `users`, `cookie` the user id in the session cookie of a browser (`tab`),
`posted` a form from the moment it is sent until it is saved. Every request is checked against the
table (`Admit`, `TurnAway`), and saved later in another session: hence `ever`, the history of who
has been an admin since the form was sent. `cli` is a run of `create_or_update_admin_user`:
`CliRead` is its query, then it hashes, and `CliCreate` or `CliUpdate` is its commit, which writes
only the attributes that differ from what it has read (`Flushed`). What is typed has a `value` and
may have blanks or capitals around it (`tidy`): the console strips addresses and passwords, the
command only addresses.

`AgentForm` adds the form of an agent with its script: `Type` starts the timer of 350 ms again,
`TimerFires` and `Blur` call `loadAgents`, and nothing cancels an earlier call, so `lookup` holds
what is under way in any order. A lookup is a request to the console that is authenticated like
any other; turned away it gets the login page, which is no JSON. `late` is history: this list came
from a lookup that a later one had replaced. A `Url` is the address of a service or of its docs;
`Normalized` is what the script and the discovery make of it, `Upstream` where the proxy sends
calls for an agent that was saved with it.

### SchemaMigration

`tables` and `version` are what is committed; `made` and `seen` belong to a process's open
transaction. `engine.begin()` opens one transaction around lock, upgrade and unlock, and Alembic,
which gets that connection, does not commit it; so `Unlock` comes before `Commit` and another
process may read the old revision (`SchemaCollision`). A `CREATE TABLE` waits for an uncommitted
table of the same name and fails when it is committed; the failure leaves the advisory lock with
the session, until the process is gone (`Exit`). `DROP SCHEMA` waits for transactions that have
read `alembic_version` or created a table.

`SchemaUpgrade` has none of that: an upgrade is one step from whatever is there to the latest
revision, a reset one step to nothing, and everything else leaves the schema alone. In the
refinement (`AbsState`) a process is "busy" from its start until its commit, however long it waits,
and is "away" again when it has failed.

### ConnectionPool

A request of the auth router is a series of calls in threads: `get_current_user` for `/auth/me` and
`/auth/session`, the endpoint, and the validation of its result, which FastAPI runs in a thread for
a sync endpoint. For each it waits for a thread (`Dispatch`, `DispatchNext`), and gives it back to
the event loop when the loop takes the result (`TakeResult`, `Answer`); in between (`BetweenCalls`)
it has no thread, but its session keeps the connection. The connection is checked out by the first
statement, given back by a commit, taken again for `user.id`, and given back at last by `Close`,
after the answer. A proxy request opens its two sessions on the loop itself, so while it waits for a
connection (`LoopCheckout`, `LoopTimeout`) nothing else runs there. `InThread` and `FreeThread`
are the limiter of anyio.

Two cycles follow, and only `pool_timeout` ends them. In the `Standstill` the loop waits for a
connection and every connection belongs to a request that waits for the loop. In the other, requests
with a connection wait for their next thread while every thread waits for a connection
(`AuthRequestsEnd` is about both). The defaults, 15 connections and 40 threads, allow the standstill;
a pool larger than the threads does not exclude it, because any number of requests can keep a
connection without a thread. `SizedPoolKeepsMoving` says what is left: it takes as many threads with
a connection as there are connections that are not so kept (`Kept`).

### SseHeartbeat

`reader` is the task `next_chunk`, `gen` the generator, `hand` what it yields, `waited` the timer,
`response` the `StreamingResponse` with the client. They interleave at every `await`. After a
disconnect the response is cancelled and the background task still runs; after an exception in the
stream it does not (`GotError`), which is why `UpstreamReleased` speaks of complete and departed
streams only. A generator that was suspended is closed by the loop later.

`ChunkStream` knows chunks, but no tasks and no time. The refinement is by the variables of the same
name: a heartbeat, a read or the timer is a stutter, `Wrote` delivers, and `GotStop` and `GotError`
finish, which `ChunkStream` allows only behind the last chunk.

### IdentityRewrite

JSON is reduced to dicts, lists and the rest, at the places the code looks at. A path is the
sequence of its segments. `InjectIdentity`, `HasIdentity`, `OwnerSet`, `PassesAssertion`,
`Malformed`, `Rejected` and `Forwarded` are the functions and early returns of
`_maybe_rewrite_body_for_identity`; `IsRunCreatePath` and `IsStreamPath` the two patterns. Bytes
that are no text in any encoding `json.loads` tries raise an exception that is not caught
(`Unreadable`).

The path that the patterns match is the one Starlette has decoded. `_agent_upstream_url` puts the same
text into a URL, which httpx parses again and the upstream's server decodes: `UrlPath` is what is left
of it. A query or a fragment in it is cut off (`Cut`, `UpToQuery`), dot segments are taken out
(`WithoutDots`, after `normalize_path` of the locked httpx 0.28.1), and escapes that survived the first
decoding are decoded (`Decoded`). Where nothing in a path is such syntax (`Plain`) it stays as it is.

What the rewrite has to achieve is said without it, in `AgentProxy`: `ChangedAt` of
two values says which keys may differ, `NamesCaller` and `NamesOwner` which do and to what.

### AgentProxy

The database is three tables that the console edits, one form and commit at a time. A request
reads the user (`Authenticate`), the agent (`FindAgent`) and the grant (`CheckAccess`) in three
statements and uses what it has read from then on. Its path and body are chosen when the body is
read, because nothing depends on them before; `asked` is history, the request as it was read, with the
path the gateway goes by (the rewrite, the timeout, streaming, `/openapi.json`), and `sent` is what the
upstream gets, with the path it reads: `UrlPath` of the path of the base URL (`Base`) and the one asked
for. So `OnlyIdentityChanges` and `SearchesStayScoped` speak of bodies by the path the gateway reads;
that the upstream reads the same path is promised under `Plain` only. `sent.url` in
`ForwardedWasAllowed` is the service: no path leads to another host, but one with dot segments may
leave the path of the base URL. A search whose body is no JSON object is forwarded as it is, and
`SearchesStayScoped` says so.
`ever` and `always` are history variables: the
facts (a user is active or an admin, an agent serves a key, a grant exists) that held at some
time, and all the time, since the request arrived. The three facts need not hold at one instant,
and the properties do not say so: they say that nothing from before the arrival is used, and that
no request is refused for what was there all the time. Requests share only the database, which
they do not write, so one of them stands for all.

Upstream: `UpstreamFails` is `httpx.RequestError`; other exceptions (an invalid URL, an
`/openapi.json` that is no JSON) end the request with the client left open (`UpstreamError`).

## 3. Runs

| Run | Module, configuration | Bounds | Shows |
|---|---|---|---|
| refresh_race | MCRefreshRace, RefreshRace | 3 tokens, 2 instants; 2 handlers and 1 user, or 1 handler and 2 users | rotation is a chain with one working token per login, whatever interleaves; `ImplementsRotation`: each commit is a step of TokenRotation; a replay revokes all sessions of its user and none of another, unless one of that user began to work between its query and its commit |
| client_session | MCClientSession, ClientSession | 2 browsers, 2 calls, 3 tokens, 2 instants; symmetric | a calm client keeps up and can end its login; access tokens end, at the latest their lifetime and the wait before their making after their login; a refusal is final |
| refresh_replay_race | MCRefreshSessions, RefreshReplayRace | 2 handlers, 1 user, 3 tokens, 2 instants | **violation**, see Findings |
| refresh_liveness | MCRefreshSessions, RefreshLiveness | 2 handlers, 1 user, 2 tokens, 2 instants | every request ends, through deadlocks |
| schema_migration | SchemaMigration | 3 processes, 2 revisions, 1 reset, 2 crashes | tables match the revision; `ImplementsUpgrade`: each commit is a whole upgrade or a reset; attempts end |
| schema_collision | SchemaMigration, SchemaCollision | 2 processes | **violation**, see Findings |
| connection_pool | MCConnectionPool, ConnectionPool | 3 + 2 requests; 2 connections and 3 threads, 3 connections and 1 thread, or 1 of each | no leak; a larger pool stands still only by connections kept without a thread; the loop and the auth requests recover, from that and from waiting for each other's threads and connections |
| sse_heartbeat | SseHeartbeat | 3 chunks, an interval of 2 ticks | chunks, order, completeness, keep-alive, release; `ImplementsStream`: the stream is that of ChunkStream |
| identity_rewrite | MCIdentityRewrite | junk or nothing or a dict at each place, batches of 0 and 2, paths of up to 5 segments of 8, and of up to 3 of these and 4 that a URL reads in its own way | what is sent is what was asked but for the identity and the owner, on the same path if that is no URL syntax; a refusal has its reason, new streams are streams |
| agent_proxy | MCAgentProxy | 2 users, 2 agents, 2 keys, 2 URLs, 3 forms saved, 7 requests | the properties of section 2 |
| admin_console | MCAgentForm, AgentForm | 2 users, 2 addresses, 2 commands and 1 browser; or 1 user, 1 command, 1 form, 2 URLs and 2 lookups | distinct addresses, edits of admins, an admin restored; the form settles on its URL and does not load for ever |
| agent_docs_url | MCAgentForm, AgentDocsUrl | as admin_console | **violation**, see Findings |

Why these bounds are enough to be of interest: two handlers are what a race between two transactions
needs, and deadlocks here are of two (the proofs are for any number); three tokens make a chain of
three, or a chain and a second login; two instants with a lifetime of one make sessions that expire
at the instant of their refresh. Liveness takes two tokens: a replay or a refresh and a deletion
already wait for each other over them. Three processes are one that holds the lock, one that waits
with an old revision, and one that resets or fails behind them. Two revisions make a half-done
upgrade. Two browsers and two calls are two clients at once, or one whose second call overtakes the
first; three tokens, a rotation twice over or next to another login. Two commands and a browser are
three writers of one row or address; two lookups, one that is late. `MCRefreshRace`,
`MCConnectionPool` and `MCAgentForm` check several instances in one run (`load`, `sizing`): each leaves
out what the others have. Three requests of the auth router are one that keeps a connection, one
that has a thread and one that waits; one connection and one thread are the shortest cycle of the two,
and three connections with one thread a pool larger than the threads that can still be kept. Three
forms are enough to take a key from one agent to another while a grant
changes. Three chunks have a first, a middle and a last. In the rewrite, the values at one place
matter only as: absent, no dict, dict.

The models stop where a bound is reached (tokens, time, resets, chunks, edits, lookups), so these
configurations do not check for deadlock; `ConnectionPool` has no such bound and is checked.

Fairness, and why the code justifies it:

- `RefreshSessions`: SF for the steps of each handler, because PostgreSQL queues the waiters of a
  row lock, and WF for breaking a deadlock, which it does after `deadlock_timeout`. Nothing
  forces requests to come.
- `SchemaMigration`: SF for the steps of a started process (waiters of an advisory lock are
  queued). No fairness on `Start`: the compose files have no restart policy that the models could use.
- `ConnectionPool`: SF for sync steps (the loop's ready queue, the queue of the pool and that of the
  thread limiter are FIFO), WF for steps on the loop. Nothing forces requests to come.
- `SseHeartbeat`: WF for the gateway and for time. The upstream may be silent for ever and the
  client may stop reading; only `KeepsAlive` assumes, in its own formula, a client that reads.
- `AgentProxy`: WF for what the gateway does by itself. A call that is no stream waits at most
  120 s for each part of an answer, and answers are assumed to be finite. Reading the request's body
  and a stream have no timeout, so nothing is claimed of them.
- `AgentForm`: WF for the steps of a lookup, because the console answers and its call of the service
  has a timeout (`langgraph_discovery_timeout_seconds`). Nobody has to type, save or stay.
- `ClientSession` has no fairness: nothing there must happen.

## 4. Findings

- **A replay can miss a session** (`refresh_replay_race`). `_revoke_user_refresh_sessions`
  (`auth/routes.py` 179-186) selects what to revoke without a lock. A refresh of another session
  of the user, or of the successor of the spent token, that commits between the query and the
  replay's commit leaves a new working session, of the very login whose token was replayed.
  `tests/test_refresh_rotation.py` 93 asserts that none is left; when no such commit falls in
  between, none is (`OnlyRacedReplaysMiss`, in `refresh_race` and proved).
- **Two starting processes can collide** (`schema_collision`). `migrate_auth_schema`
  (`auth/db.py` 53-59) unlocks before the transaction commits. A process that was waiting reads the
  old revision and fails with tables that exist. The docstring of `ensure_auth_schema` promises
  an upgraded schema; nothing is damaged (`TablesMatchVersion` holds), the process ends.
- **A docs URL lists agents that cannot be called** (`agent_docs_url`). The repository's README
  (73-74) offers the docs URL of a service as `base_url`. Only the discovery strips `/docs`
  (`auth/discovery.py` 13-32); the form saves the URL as it is (`auth/admin.py` 215-218), and the
  proxy appends its paths to it (`gateway/proxy.py` 272).

What no document of the repository speaks of, but a reader should know: a browser that loses the
answer of a refresh, or makes two calls at a time, may fall behind the rotation; its next refresh
is a replay, which ends all sessions of the user, and its logout misses the session that works
(section 2, ClientSession). A refused refresh leaves the dead cookie with the client. An admin
created with a padded password cannot sign in to the console. The rewrite goes by the decoded path: when a
part of it is syntax of a URL, the upstream reads another path than the rewrite did. Bodies of
`/threads` and `/threads/search` that are no JSON objects go through as they are. A pool larger than
the threads does not keep the event loop from waiting for it (section 2, ConnectionPool). An access
token is made after the commit of its handler, and may outlive an early end of its login by that much
more.

## 5. Proofs

All for any values of the constants, by an inductive invariant `IInv` each (that it
holds initially, that every step keeps it, then the invariant by PTL). The only assumptions are those the modules declare: `None` is
no handler, user, token or process, bounds and sizes are numbers, and the like.

- **RefreshSessionsProofs**: `TypeCorrect`, `OneLive`, `EndedLogin`, `Chains`, `DeletedUser`,
  `RowsOutlive`, `NeverExchanged`, `Refinement`, `SequentialReplay`, `RacedReplays`. The properties are not inductive:
  that a rotation commits on a token that still works follows only from what the handler's locals
  say about the row it locked statements ago. `IInv` adds, for each handler, what it relies on
  (`LocalsSet`, `HoldsRow`, `HoldsNew`, `Scanned`), that an uncommitted row has a writer, and that a
  login has one newest session (`OneTipPerLogin`, stronger than `OneLivePerLogin`: also of sessions
  that are revoked). The proof goes in two layers: what each kind of change (login, insertion,
  rotation, revocation, cascade, rollback) does to a table of that shape, and what each statement
  does to what the other handlers rely on (`KeepsRequests`: a row lock is why it stays). `Refinement`
  maps the six changes to the actions of `TokenRotation` or to a stutter. `RacedReplays` needs what a
  replay has queried to be still all there is: `ScanIsWhole`, kept as long as the handler is not in
  `raced`, because a session that works later worked at the query, for the same user
  (`OwnerStays`). `SequentialReplay` is the case of a single handler.
- **ClientSessionProofs**: `ClientTypes`, `ClientsKeepUp`, `AccessEnds`, `LogoutEnds`,
  `RefusalIsFinal`, `ClientsRotate`. That the cookie of a calm browser is the newest token of its login is not
  inductive: somebody else might exchange it. `IInv` says who can: the tokens of one login are all
  with one browser, in its cookie or on the way (`OneHolder`), and a calm browser has one call under
  way (`OneCall`), which carries the newest token of its login in either direction
  (`RequestIsNewest`, `AnswerIsNewest`). For access tokens it relates their expiry, and before they are
  made the commit behind them, to the end of their login (`AccessOK`), and says that ended logins stay ended (`EndsOK`). `ClientsRotate` is
  the other half of `Refinement`: this world around the gateway moves its tokens only as
  `TokenRotation` has it, which is what the handlers implement.
- **AgentFormProofs**: `AdminTypes`, `AddressesDistinct`, `EditsAuthorised`, `AdminRestored`,
  `FormSettles`. All a step does to the table is put a row with a tidy, free address, or take one
  away (`RowsStep`). `IInv` says that what a command has read is current as long as it is alone
  (`ReadIsCurrent`), and of a form at rest that its list is current, late, or about to be replaced
  by a lookup for its URL (`ListIsSettled`, `FreshIsCurrent`).
- **TokenRotationProofs**: the two promises of the abstract protocol; the invariant adds that a
  login's first token was issued.
- **SchemaMigrationProofs**: `SchemaTypes`, `SchemaTables`, `SchemaDone`, `SchemaRefines`. The
  invariant says what revision each open transaction was built on, and who can have tables. For
  the refinement every commit must reach the latest revision, although the advisory lock is gone by
  then (`CommitReachesHead`): a transaction with tables has applied all that was missing, and one
  without has read the latest, below which nobody resets while it is open (`ReadsBehind`).
- **ConnectionPoolProofs**: `PoolTypes`, `PoolNoLeaks`, `PoolKeepsMoving`. The invariant says at
  which places a request has a connection, also those without a thread, and that no more requests are
  in threads than there are; the standstill would need a thread for every connection that is not
  kept, by counting.
- **SseHeartbeatProofs**: `StreamTypes`, `StreamInOrder`, `StreamWhole`, `StreamRefines`. The invariant
  is that the client is behind the reader by exactly the chunk that is being handed over. For the
  refinement a second one, `Attached`, says that the upstream connection is open while the
  generator needs it, so that a failed read means a broken upstream with nothing left to deliver.
- **AgentProxyProofs**: `IdentityInjected`, `InjectionIsExact`, `RewritePasses` and
  `ForwardedIsExact` about the rewrite, on every body, by the path the gateway reads; `PlainPathKept`
  about the path that the upstream reads; `ProxyTypes`, `ProxyForwards`,
  `ProxyRefuses`, `ProxySearches`, `ProxyReleases`, `ProxyRewrites`, `ProxyAccepts`, `ProxyStreams`.
  That changes of a dict add up (`ChangesAdd`) is what carries the rewrite: each `Put` changes one
  key, and where the code puts a dict in the place of something else nothing is lost. The invariant
  brackets the facts of the moment between `always` and `ever`, and says at each stage what the
  stages before have found; keys are unique, so the agent found is the only one that can have been
  there all the time.

Every type invariant is proved (that of `TokenRotation` as a part of its invariant); of the runs only `refresh_race` checks its own too,
where a wrong id would be the mistake of a handler.

Only model-checked: every liveness property (`RequestsEnd`, `AttemptsEnd`, `LoopRecovers`,
`AuthRequestsEnd`, `KeepsAlive`, `UpstreamReleased`, `CallsAreAnswered`, `LookupsEnd`), which rest on fairness.

## 6. Not modelled, and the plan

Not modelled: passwords and signatures (a token is valid or not), request and response headers,
the values of query strings, how escapes are written in URLs beyond how they are read, the content of OpenAPI documents, what an
upstream does with a run, the views of sqladmin beyond the commit of a form, deploy scaffolding.

`ClientSession` has one user, whose sessions are those a replay ends; a handler is one step there,
so what two handlers do to each other is left to `RefreshSessions`, and that the one stands for
the other are the theorems `Refinement` and `ClientsRotate`. `AdminAccounts` leaves first and last names out, which the
command and the console overwrite as they do the rest. One browser edits users in `admin_console`;
the theorems are for any number.

What is left, in this order:

1. `AgentProxy` composed with `SseHeartbeat`, so that the stream of one is the other.
2. That `AgentProxy` implements an abstract gate: allowed, or refused, by the facts between
   arrival and answer.
3. Several users in `ClientSession`, and the threads of the sqladmin views in `ConnectionPool`.
