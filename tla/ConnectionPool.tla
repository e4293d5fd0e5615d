--------------------------- MODULE ConnectionPool ---------------------------
(***************************************************************************)
(* Who waits for whom in one gateway process.  A request of the auth       *)
(* router is a series of calls in threads: get_current_user where the      *)
(* route has it, the endpoint, the validation of its result.  Each takes a *)
(* thread and gives it back to the loop, while the session that            *)
(* get_session made, and its connection, stay with the request until the   *)
(* answer is sent.  The proxy runs on the event loop and opens its         *)
(* sessions there, synchronously, so it stops the loop while it waits for  *)
(* a connection of the pool.                                               *)
(***************************************************************************)
EXTENDS Naturals, FiniteSets

CONSTANTS SyncRequest,   \* requests of the auth router at a time
          AsyncRequest,  \* proxy requests and admin logins at a time
          Sizings,       \* the sizes of the deployments to look at
          None

ASSUME PoolAssumption == Sizings \subseteq [pool : Nat \ {0}, threads : Nat \ {0}]
ASSUME RequestAssumption == SyncRequest \cap AsyncRequest = {}
ASSUME NoneAssumption == None \notin AsyncRequest

VARIABLES pc,       \* pc[r]: where request r is
          holders,  \* the requests that have a connection checked out
          loop,     \* the proxy request that runs on the event loop, or None
          sizing    \* the sizes this process was started with

vars == <<pc, holders, loop, sizing>>

\* Connections of the engine: pool_size + max_overflow.
PoolSize == sizing.pool

\* Threads of the pool that runs sync endpoints.
Threads == sizing.threads

Request == SyncRequest \cup AsyncRequest

\* Sync, in a thread: query the database, use its rows, and perhaps commit; found,
\* result and returned mean that the thread has the user, the result of the
\* endpoint, and what is to be answered.  Between two calls the request is loaded
\* or unvalidated, and waits for the next thread.
AtWork == {"query", "rows", "committed", "reload", "endpoint", "validation"}
Done == {"found", "result", "returned"}
BetweenCalls == {"loaded", "unvalidated"}
SyncPc == AtWork \cup Done \cup BetweenCalls \cup {"idle", "close"}

\* Async: two sessions, one after the other.
AsyncPc == {"idle", "auth", "agent"}

Init ==
    /\ pc = [r \in Request |-> "idle"]
    /\ holders = {}
    /\ loop = None
    /\ sizing \in Sizings

Goto(r, l) ==
    /\ pc' = [pc EXCEPT ![r] = l]
    /\ UNCHANGED sizing

FreeConnection == Cardinality(holders) < PoolSize

\* A thread is given back by the loop, when it takes the result.
InThread == {r \in SyncRequest : pc[r] \in AtWork \cup Done}

FreeThread == Cardinality(InThread) < Threads

-----------------------------------------------------------------------------
(* login, refresh, logout, me, session_info: in a thread, with get_session *)

\* Fault: a thread for every request.
DispatchUnlimited(r) ==
    /\ pc[r] = "idle"
    /\ loop = None
    /\ Goto(r, "query")
    /\ UNCHANGED <<holders, loop>>

\* The calls of get_auth_context and get_session come before it: they need nothing
\* but a thread, and have no connection yet.
Dispatch(r) ==
    /\ pc[r] = "idle"
    /\ loop = None
    /\ FreeThread
    /\ Goto(r, "query")
    /\ UNCHANGED <<holders, loop>>

\* The first statement of a transaction checks a connection out.
Checkout(r) ==
    /\ pc[r] \in {"query", "reload"}
    /\ FreeConnection
    /\ holders' = holders \cup {r}
    /\ Goto(r, IF pc[r] = "query" THEN "rows" ELSE "result")
    /\ UNCHANGED loop

\* Fault: the checkout is retried until it succeeds.
CheckoutTimeoutRetried(r) ==
    /\ pc[r] \in {"query", "reload"}
    /\ ~FreeConnection
    /\ UNCHANGED vars

\* The pool gives up after pool_timeout: 500.
CheckoutTimeout(r) ==
    /\ pc[r] \in {"query", "reload"}
    /\ ~FreeConnection
    /\ Goto(r, "returned")
    /\ UNCHANGED <<holders, loop>>

\* get_current_user has found the user: its call is over, its connection is kept.
UserFound(r) ==
    /\ pc[r] = "rows"
    /\ Goto(r, "found")
    /\ UNCHANGED <<holders, loop>>

\* An HTTPException, which needs no validation, or a logout of a session that is
\* unknown or revoked: no commit.
Return(r) ==
    /\ pc[r] = "rows"
    /\ Goto(r, "returned") \/ Goto(r, "result")
    /\ UNCHANGED <<holders, loop>>

\* session.commit() gives the connection back.
Commit(r) ==
    /\ pc[r] = "rows"
    /\ holders' = holders \ {r}
    /\ Goto(r, "committed")
    /\ UNCHANGED loop

\* A refused refresh raises, a logout is done; a successful login or refresh reads
\* user.id again, in a new transaction.
AfterCommit(r) ==
    /\ pc[r] = "committed"
    /\ Goto(r, "returned") \/ Goto(r, "result") \/ Goto(r, "reload")
    /\ UNCHANGED <<holders, loop>>

\* The loop takes what a call has returned, and the thread back.
TakeResult(r) ==
    /\ pc[r] \in {"found", "result"}
    /\ loop = None
    /\ Goto(r, IF pc[r] = "found" THEN "loaded" ELSE "unvalidated")
    /\ UNCHANGED <<holders, loop>>

\* The endpoint behind get_current_user, or the validation, gets a thread.
DispatchNext(r) ==
    /\ pc[r] \in BetweenCalls
    /\ loop = None
    /\ FreeThread
    /\ Goto(r, IF pc[r] = "loaded" THEN "endpoint" ELSE "validation")
    /\ UNCHANGED <<holders, loop>>

\* me reads the user, session_info queries on the connection that it has.
Endpoint(r) ==
    /\ pc[r] = "endpoint"
    /\ Goto(r, "result")
    /\ UNCHANGED <<holders, loop>>

\* The response_model checks the result.
Validate(r) ==
    /\ pc[r] = "validation"
    /\ Goto(r, "returned")
    /\ UNCHANGED <<holders, loop>>

\* Back on the loop: the response is sent, and the exit of get_session starts.
Answer(r) ==
    /\ pc[r] = "returned"
    /\ loop = None
    /\ Goto(r, "close")
    /\ UNCHANGED <<holders, loop>>

\* Fault: the session is left open.
CloseForgotten(r) ==
    /\ pc[r] = "close"
    /\ Goto(r, "idle")
    /\ UNCHANGED <<holders, loop>>

\* The end of `with SessionLocal()`, in a thread that is always available.
Close(r) ==
    /\ pc[r] = "close"
    /\ holders' = holders \ {r}
    /\ Goto(r, "idle")
    /\ UNCHANGED loop

-----------------------------------------------------------------------------
(* _proxy_agent_request, download_agent_file, AdminAuth: on the loop *)

Begin(r) ==
    /\ pc[r] = "idle"
    /\ loop = None
    /\ loop' = r
    /\ Goto(r, "auth")
    /\ UNCHANGED holders

\* The loop waits in pool.connect().
LoopCheckout(r) ==
    /\ loop = r
    /\ r \notin holders
    /\ FreeConnection
    /\ holders' = holders \cup {r}
    /\ UNCHANGED <<pc, loop, sizing>>

\* Fault: the checkout is retried until it succeeds.
LoopTimeoutRetried(r) ==
    /\ loop = r
    /\ r \notin holders
    /\ ~FreeConnection
    /\ UNCHANGED vars

\* The pool gives up after pool_timeout, which is no AuthError: 500.
LoopTimeout(r) ==
    /\ loop = r
    /\ r \notin holders
    /\ ~FreeConnection
    /\ loop' = None
    /\ Goto(r, "idle")
    /\ UNCHANGED holders

\* The session of authenticate_bearer_from_headers ends, and the one of
\* _get_authorized_agent begins without an await.
Authenticated(r) ==
    /\ pc[r] = "auth"
    /\ r \in holders
    /\ holders' = holders \ {r}
    /\ Goto(r, "agent")
    /\ UNCHANGED loop

\* AuthError, an answer without forwarding, or the first await after the
\* sessions: the loop runs the others.
LeaveLoop(r) ==
    /\ pc[r] # "idle"
    /\ r \in holders
    /\ holders' = holders \ {r}
    /\ loop' = None
    /\ Goto(r, "idle")

-----------------------------------------------------------------------------
SyncStep(r) ==
    \/ Checkout(r) \/ CheckoutTimeout(r) \/ UserFound(r) \/ Return(r) \/ Commit(r)
    \/ AfterCommit(r) \/ TakeResult(r) \/ DispatchNext(r) \/ Endpoint(r)
    \/ Validate(r) \/ Answer(r) \/ Close(r)

AsyncStep(r) ==
    \/ LoopCheckout(r) \/ LoopTimeout(r) \/ Authenticated(r) \/ LeaveLoop(r)

Next ==
    \/ \E r \in SyncRequest : Dispatch(r) \/ SyncStep(r)
    \/ \E r \in AsyncRequest : Begin(r) \/ AsyncStep(r)

Spec == Init /\ [][Next]_vars

\* Threads and the loop keep executing; the ready queue of the loop is FIFO, and so
\* is that of the thread limiter: what waits for them gets its turn.
FairSpec ==
    /\ Spec
    /\ \A r \in SyncRequest : SF_vars(SyncStep(r))
    /\ \A r \in AsyncRequest : WF_vars(AsyncStep(r))

-----------------------------------------------------------------------------
(* Properties *)

\* The types of the variables, and the limit of the pool.
TypeOK ==
    /\ pc \in [Request -> SyncPc \cup AsyncPc]
    /\ \A r \in AsyncRequest : pc[r] \in AsyncPc
    /\ holders \subseteq Request
    /\ Cardinality(holders) <= PoolSize
    /\ loop \in AsyncRequest \cup {None}
    /\ sizing \in Sizings

\* A connection is checked out only while its request is under way: commits,
\* errors, timeouts and answers give every one back.
NoConnectionLeaks == \A r \in holders : pc[r] # "idle"

\* The standstill: the loop waits for a connection, and every connection for the
\* loop.
Standstill ==
    /\ loop # None /\ loop \notin holders
    /\ ~FreeConnection
    /\ \A r \in holders : pc[r] \in Done \cup BetweenCalls

\* The connections that requests keep while they have no thread.
Kept == {r \in holders : pc[r] \in BetweenCalls}

\* It takes as many threads with a connection as there are connections that no
\* request keeps between its calls: a pool that is larger than the threads can only
\* come to the standstill by what is kept.
SizedPoolKeepsMoving == Threads + Cardinality(Kept) < PoolSize => ~Standstill

\* The event loop recovers, also from a standstill, which only the timeout of
\* the pool ends.
LoopRecovers == \A r \in AsyncRequest : loop = r ~> loop # r

\* Every request of the auth router is answered and gives its session back: also
\* when it has a connection and waits for a thread, and every thread waits for a
\* connection.
AuthRequestsEnd == \A r \in SyncRequest : pc[r] # "idle" ~> pc[r] = "idle"

=============================================================================
