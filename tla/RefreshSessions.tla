-------------------------- MODULE RefreshSessions --------------------------
(***************************************************************************)
(* The refresh sessions of auth/routes.py, statement by statement.         *)
(*                                                                         *)
(* Requests run in Handlers (threadpool workers or gateway processes),     *)
(* each in its own READ COMMITTED transaction on one PostgreSQL database:  *)
(* a statement sees committed rows, a row lock is held until commit or     *)
(* rollback, and nothing else orders two requests.  A step is one          *)
(* statement of a handler; statements that follow each other while the     *)
(* transaction holds a single lock and waits for nothing are one step.     *)
(***************************************************************************)
EXTENDS Naturals, FiniteSets

CONSTANTS Handlers,   \* requests in progress at a time
          Users,      \* rows of table users
          Token,      \* refresh tokens, ordered like the ids of their rows
          Lifetime,   \* settings.refresh_token_expire_days
          MaxTime,    \* bound: the clock stops here
          None        \* SQL NULL, and a local variable that is not set

ASSUME TokenAssumption == Token \subseteq Nat
ASSUME TimeAssumption == Lifetime \in Nat /\ MaxTime \in Nat
ASSUME NoneAssumption == None \notin Handlers \cup Users \cup Token

VARIABLES
    now,       \* wall clock of the gateway
    users,     \* users[u]: is_active of the committed row, or "deleted"
    rows,      \* rows[t]: the row of refresh_sessions for token t
    known,     \* tokens that reached a client, the only ones it can present
    lock,      \* lock[t]: the transaction that holds the row lock of t
    userLock,  \* userLock[u]: the transaction that is deleting user u
    pc,        \* pc[h]: the next statement of handler h
    tok,       \* tok[h]: refresh_session of h (a deleter: next row to delete)
    usr,       \* usr[h]: the user h works for
    new,       \* new[h]: new_refresh_session of h
    scan       \* scan[h]: what _revoke_user_refresh_sessions selected

clientVars == <<now, users, known>>
locals == <<pc, tok, usr, new, scan>>
vars == <<now, users, rows, known, lock, userLock, pc, tok, usr, new, scan>>

Row == [st : {"free", "pending", "committed", "deleted"},
        user : Users \cup {None},
        family : Token \cup {None},      \* ghost: the login it descends from
        expires : Nat,
        rotated : BOOLEAN,               \* rotated_at IS NOT NULL
        revoked : BOOLEAN,               \* revoked_at IS NOT NULL
        next : Token \cup {None}]        \* replaced_by_id

Blank(st) == [st |-> st, user |-> None, family |-> None, expires |-> 0,
              rotated |-> FALSE, revoked |-> FALSE, next |-> None]

Pc == {"idle", "lg_commit", "rf_find", "rf_user", "rf_insert", "rf_commit",
       "rv_scan", "rv_update", "lo_find", "de_lock", "de_rows", "respond"}

Init ==
    /\ now = 0
    /\ users = [u \in Users |-> "active"]
    /\ rows = [t \in Token |-> Blank("free")]
    /\ known = {}
    /\ lock = [t \in Token |-> None]
    /\ userLock = [u \in Users |-> None]
    /\ pc = [h \in Handlers |-> "idle"]
    /\ tok = [h \in Handlers |-> None]
    /\ usr = [h \in Handlers |-> None]
    /\ new = [h \in Handlers |-> None]
    /\ scan = [h \in Handlers |-> {}]

-----------------------------------------------------------------------------
(* Helpers *)

Committed(t) == rows[t].st = "committed"

\* What every query of the code calls an active session: revoked_at IS NULL.
Live(t) == Committed(t) /\ ~rows[t].revoked

SessionsOf(u) == {t \in Token : Committed(t) /\ rows[t].user = u}

\* _create_refresh_session
NewSession(u, f, st) ==
    [st |-> st, user |-> u, family |-> f, expires |-> now + Lifetime,
     rotated |-> FALSE, revoked |-> FALSE, next |-> None]

\* revoked_at = now
Revoked(r) == [r EXCEPT !.revoked = TRUE]

\* rotated_at = now, revoked_at = now, replaced_by_id = n
ReplacedBy(r, n) == [r EXCEPT !.rotated = TRUE, !.revoked = TRUE, !.next = n]

\* The row becomes visible to the other transactions.
Visible(r) == [r EXCEPT !.st = "committed"]

\* The end of a transaction: every lock of h is released.
ReleaseLocks(h) ==
    /\ lock' = [t \in Token |-> IF lock[t] = h THEN None ELSE lock[t]]
    /\ userLock' = [u \in Users |-> IF userLock[u] = h THEN None ELSE userLock[u]]

\* The end of a request: the transaction is over and the locals are gone.
Finish(h) ==
    /\ ReleaseLocks(h)
    /\ pc' = [pc EXCEPT ![h] = "idle"]
    /\ tok' = [tok EXCEPT ![h] = None]
    /\ usr' = [usr EXCEPT ![h] = None]
    /\ new' = [new EXCEPT ![h] = None]
    /\ scan' = [scan EXCEPT ![h] = {}]

\* Bound: a request that may insert a row starts only while a free token is
\* left for it, so that running out of tokens never blocks a request.
MayInsert == {"lg_commit", "rf_find", "rf_user", "rf_insert"}
RoomForOneMore ==
    Cardinality({h \in Handlers : pc[h] \in MayInsert})
        < Cardinality({t \in Token : rows[t].st = "free"})

\* Fault: SELECT without FOR UPDATE waits for nobody.
FoundRowWithoutLock(h) == Committed(tok[h])

\* SELECT ... FOR UPDATE has found the committed row and got its lock.
FoundRow(h) == Committed(tok[h]) /\ lock[tok[h]] = None

-----------------------------------------------------------------------------
(* POST /auth/login *)

\* The user is read and the password is verified; no lock is taken.
LoginBegin(h, u) ==
    /\ pc[h] = "idle"
    /\ RoomForOneMore
    /\ users[u] = "active"
    /\ pc' = [pc EXCEPT ![h] = "lg_commit"]
    /\ usr' = [usr EXCEPT ![h] = u]
    /\ UNCHANGED <<clientVars, rows, lock, userLock, tok, new, scan>>

\* Fault: no foreign key, the session of a deleted user is inserted.
LoginCommitUnchecked(h) ==
    /\ pc[h] = "lg_commit"
    /\ userLock[usr[h]] = None
    /\ \E n \in Token :
          /\ rows[n].st = "free"
          /\ rows' = [rows EXCEPT ![n] = NewSession(usr[h], n, "committed")]
          /\ new' = [new EXCEPT ![h] = n]
    /\ pc' = [pc EXCEPT ![h] = "respond"]
    /\ UNCHANGED <<clientVars, lock, userLock, tok, usr, scan>>

\* UPDATE users SET last_login_at, INSERT the session, COMMIT.  The user is not
\* read again: only a deletion stops the login, not a deactivation.
LoginCommit(h) ==
    /\ pc[h] = "lg_commit"
    /\ userLock[usr[h]] = None
    /\ users[usr[h]] # "deleted"
    /\ \E n \in Token :
          /\ rows[n].st = "free"
          /\ rows' = [rows EXCEPT ![n] = NewSession(usr[h], n, "committed")]
          /\ new' = [new EXCEPT ![h] = n]
    /\ pc' = [pc EXCEPT ![h] = "respond"]
    /\ UNCHANGED <<clientVars, lock, userLock, tok, usr, scan>>

\* The UPDATE matches no row (StaleDataError): 500.
LoginUserGone(h) ==
    /\ pc[h] = "lg_commit"
    /\ users[usr[h]] = "deleted"
    /\ Finish(h)
    /\ UNCHANGED <<clientVars, rows>>

-----------------------------------------------------------------------------
(* POST /auth/refresh *)

RefreshStart(h, t) ==
    /\ pc[h] = "idle"
    /\ Live(t) => RoomForOneMore
    /\ pc' = [pc EXCEPT ![h] = "rf_find"]
    /\ tok' = [tok EXCEPT ![h] = t]
    /\ UNCHANGED <<clientVars, rows, lock, userLock, usr, new, scan>>

RefreshNotFound(h) ==
    /\ pc[h] = "rf_find"
    /\ ~Committed(tok[h])
    /\ Finish(h)
    /\ UNCHANGED <<clientVars, rows>>

\* A token that was revoked or rotated before: every session of its user is
\* about to be revoked.
RefreshReplayed(h) ==
    /\ pc[h] = "rf_find"
    /\ FoundRow(h)
    /\ rows[tok[h]].revoked \/ rows[tok[h]].rotated
    /\ lock' = [lock EXCEPT ![tok[h]] = h]
    /\ usr' = [usr EXCEPT ![h] = rows[tok[h]].user]
    /\ pc' = [pc EXCEPT ![h] = "rv_scan"]
    /\ UNCHANGED <<clientVars, rows, userLock, tok, new, scan>>

RefreshExpired(h) ==
    /\ pc[h] = "rf_find"
    /\ FoundRow(h)
    /\ ~rows[tok[h]].revoked /\ ~rows[tok[h]].rotated
    /\ rows[tok[h]].expires <= now
    /\ rows' = [rows EXCEPT ![tok[h]] = Revoked(@)]
    /\ Finish(h)
    /\ UNCHANGED clientVars

\* Fault: the row is read but not locked.
RefreshAcceptedUnlocked(h) ==
    /\ pc[h] = "rf_find"
    /\ FoundRow(h)
    /\ ~rows[tok[h]].revoked /\ ~rows[tok[h]].rotated
    /\ now < rows[tok[h]].expires
    /\ usr' = [usr EXCEPT ![h] = rows[tok[h]].user]
    /\ pc' = [pc EXCEPT ![h] = "rf_user"]
    /\ UNCHANGED <<clientVars, rows, lock, userLock, tok, new, scan>>

RefreshAccepted(h) ==
    /\ pc[h] = "rf_find"
    /\ FoundRow(h)
    /\ ~rows[tok[h]].revoked /\ ~rows[tok[h]].rotated
    /\ now < rows[tok[h]].expires
    /\ lock' = [lock EXCEPT ![tok[h]] = h]
    /\ usr' = [usr EXCEPT ![h] = rows[tok[h]].user]
    /\ pc' = [pc EXCEPT ![h] = "rf_user"]
    /\ UNCHANGED <<clientVars, rows, userLock, tok, new, scan>>

\* session.get(User, ...): a deletion in progress is not committed, so the
\* user is still seen.
RefreshInactive(h) ==
    /\ pc[h] = "rf_user"
    /\ users[usr[h]] # "active"
    /\ rows' = [rows EXCEPT ![tok[h]] = Revoked(@)]
    /\ Finish(h)
    /\ UNCHANGED clientVars

RefreshUser(h) ==
    /\ pc[h] = "rf_user"
    /\ users[usr[h]] = "active"
    /\ pc' = [pc EXCEPT ![h] = "rf_insert"]
    /\ UNCHANGED <<clientVars, rows, lock, userLock, tok, usr, new, scan>>

\* Fault: commit() instead of flush(), two transactions instead of one.
RefreshInsertCommitted(h) ==
    /\ pc[h] = "rf_insert"
    /\ userLock[usr[h]] = None
    /\ \E n \in Token :
          /\ rows[n].st = "free"
          /\ rows' = [rows EXCEPT
                        ![n] = NewSession(usr[h], rows[tok[h]].family, "committed")]
          /\ new' = [new EXCEPT ![h] = n]
    /\ pc' = [pc EXCEPT ![h] = "rf_commit"]
    /\ UNCHANGED <<clientVars, lock, userLock, tok, usr, scan>>

\* session.flush(): the INSERT, whose foreign key takes FOR KEY SHARE on the
\* user and so waits for a deletion in progress.
RefreshInsert(h) ==
    /\ pc[h] = "rf_insert"
    /\ userLock[usr[h]] = None
    /\ \E n \in Token :
          /\ rows[n].st = "free"
          /\ rows' = [rows EXCEPT
                        ![n] = NewSession(usr[h], rows[tok[h]].family, "pending")]
          /\ lock' = [lock EXCEPT ![n] = h]
          /\ new' = [new EXCEPT ![h] = n]
    /\ pc' = [pc EXCEPT ![h] = "rf_commit"]
    /\ UNCHANGED <<clientVars, userLock, tok, usr, scan>>

\* The transaction ends with these rows; the response comes next.
CommitRotation(h, newRows) ==
    /\ pc[h] = "rf_commit"
    /\ rows' = newRows
    /\ ReleaseLocks(h)
    /\ pc' = [pc EXCEPT ![h] = "respond"]
    /\ tok' = [tok EXCEPT ![h] = None]
    /\ UNCHANGED <<clientVars, usr, new, scan>>

\* Fault: replaced_by_id gets the id of the user.
RefreshCommitWrongId(h) ==
    CommitRotation(h, [rows EXCEPT ![tok[h]] = ReplacedBy(@, usr[h]),
                                   ![new[h]] = Visible(@)])

\* Fault: replaced_by_id is not set.
RefreshCommitUnlinked(h) ==
    CommitRotation(h, [rows EXCEPT ![tok[h]] = ReplacedBy(@, None),
                                   ![new[h]] = Visible(@)])

\* Fault: rotated_at is not set.
RefreshCommitUnrotated(h) ==
    CommitRotation(h, [rows EXCEPT ![tok[h]] = [Revoked(@) EXCEPT !.next = new[h]],
                                   ![new[h]] = Visible(@)])

\* The UPDATE of the old row and COMMIT.
RefreshCommit(h) ==
    CommitRotation(h, [rows EXCEPT ![tok[h]] = ReplacedBy(@, new[h]),
                                   ![new[h]] = Visible(@)])

-----------------------------------------------------------------------------
(* _revoke_user_refresh_sessions *)

\* Fault: the query does not filter by user.
RevokeScanEverybody(h) ==
    /\ pc[h] = "rv_scan"
    /\ scan' = [scan EXCEPT ![h] = {t \in Token : Live(t)}]
    /\ pc' = [pc EXCEPT ![h] = "rv_update"]
    /\ UNCHANGED <<clientVars, rows, lock, userLock, tok, usr, new>>

RevokeScan(h) ==
    /\ pc[h] = "rv_scan"
    /\ scan' = [scan EXCEPT ![h] = {t \in SessionsOf(usr[h]) : ~rows[t].revoked}]
    /\ pc' = [pc EXCEPT ![h] = "rv_update"]
    /\ UNCHANGED <<clientVars, rows, lock, userLock, tok, usr, new>>

ToRevoke(h) == {t \in scan[h] : lock[t] # h}

\* One UPDATE of the flush, in the order of the primary keys.
RevokeUpdate(h) ==
    /\ pc[h] = "rv_update"
    /\ \E t \in ToRevoke(h) :
          /\ \A s \in ToRevoke(h) : t <= s
          /\ lock[t] = None
          /\ lock' = [lock EXCEPT ![t] = h]
    /\ UNCHANGED <<clientVars, rows, userLock, locals>>

RevokeCommit(h) ==
    /\ pc[h] = "rv_update"
    /\ ToRevoke(h) = {}
    /\ rows' = [t \in Token |->
                  IF t \in scan[h] THEN Revoked(rows[t]) ELSE rows[t]]
    /\ Finish(h)
    /\ UNCHANGED clientVars

-----------------------------------------------------------------------------
(* POST /auth/logout *)

LogoutStart(h, t) ==
    /\ pc[h] = "idle"
    /\ pc' = [pc EXCEPT ![h] = "lo_find"]
    /\ tok' = [tok EXCEPT ![h] = t]
    /\ UNCHANGED <<clientVars, rows, lock, userLock, usr, new, scan>>

\* Fault: the session is not closed, so the row stays locked.
LogoutNothingUnclosed(h) ==
    /\ pc[h] = "lo_find"
    /\ ~Committed(tok[h]) \/ (FoundRow(h) /\ rows[tok[h]].revoked)
    /\ lock' = [lock EXCEPT ![tok[h]] = h]
    /\ pc' = [pc EXCEPT ![h] = "idle"]
    /\ tok' = [tok EXCEPT ![h] = None]
    /\ UNCHANGED <<clientVars, rows, userLock, usr, new, scan>>

LogoutNothing(h) ==
    /\ pc[h] = "lo_find"
    /\ ~Committed(tok[h]) \/ (FoundRow(h) /\ rows[tok[h]].revoked)
    /\ Finish(h)
    /\ UNCHANGED <<clientVars, rows>>

LogoutRevoke(h) ==
    /\ pc[h] = "lo_find"
    /\ FoundRow(h)
    /\ ~rows[tok[h]].revoked
    /\ rows' = [rows EXCEPT ![tok[h]] = Revoked(@)]
    /\ Finish(h)
    /\ UNCHANGED clientVars

-----------------------------------------------------------------------------
(* The admin console: editing and deleting a user *)

SetActive(u) ==
    /\ userLock[u] = None
    /\ users[u] # "deleted"
    /\ users' = [users EXCEPT ![u] = IF @ = "active" THEN "inactive" ELSE "active"]
    /\ UNCHANGED <<now, rows, known, lock, userLock, locals>>

DeleteStart(h, u) ==
    /\ pc[h] = "idle"
    /\ users[u] # "deleted"
    /\ pc' = [pc EXCEPT ![h] = "de_lock"]
    /\ usr' = [usr EXCEPT ![h] = u]
    /\ UNCHANGED <<clientVars, rows, lock, userLock, tok, new, scan>>

\* A flushed INSERT holds FOR KEY SHARE on its user until its commit.
HoldsKeyShare(h, u) == pc[h] = "rf_commit" /\ usr[h] = u

ToDelete(h) == {t \in SessionsOf(usr[h]) : lock[t] # h}

\* The row the cascade turns to next, in an order that is not the revokers'.
NextToDelete(S, h) ==
    IF S = {} THEN tok' = [tok EXCEPT ![h] = None]
              ELSE \E t \in S : tok' = [tok EXCEPT ![h] = t]

\* DELETE FROM users: the row lock on the user.
DeleteLock(h) ==
    /\ pc[h] = "de_lock"
    /\ userLock[usr[h]] = None
    /\ \A g \in Handlers : ~HoldsKeyShare(g, usr[h])
    /\ users[usr[h]] # "deleted"
    /\ userLock' = [userLock EXCEPT ![usr[h]] = h]
    /\ pc' = [pc EXCEPT ![h] = "de_rows"]
    /\ NextToDelete(SessionsOf(usr[h]), h)
    /\ UNCHANGED <<clientVars, rows, lock, usr, new, scan>>

\* Another deletion was first: the DELETE matches no row.
DeleteNothing(h) ==
    /\ pc[h] = "de_lock"
    /\ users[usr[h]] = "deleted"
    /\ Finish(h)
    /\ UNCHANGED <<clientVars, rows>>

\* ON DELETE CASCADE: one row of refresh_sessions.
DeleteRow(h) ==
    /\ pc[h] = "de_rows"
    /\ tok[h] # None
    /\ lock[tok[h]] = None
    /\ lock' = [lock EXCEPT ![tok[h]] = h]
    /\ NextToDelete(ToDelete(h) \ {tok[h]}, h)
    /\ UNCHANGED <<clientVars, rows, userLock, pc, usr, new, scan>>

DeleteCommit(h) ==
    /\ pc[h] = "de_rows"
    /\ ToDelete(h) = {}
    /\ rows' = [t \in Token |->
                  IF t \in SessionsOf(usr[h]) THEN Blank("deleted") ELSE rows[t]]
    /\ users' = [users EXCEPT ![usr[h]] = "deleted"]
    /\ Finish(h)
    /\ UNCHANGED <<now, known>>

-----------------------------------------------------------------------------
(* Responses, failures and the clock *)

\* The cookie and the access token reach the client.  user.id is expired by the
\* commit and is read again.
Respond(h) ==
    /\ pc[h] = "respond"
    /\ users[usr[h]] # "deleted"
    /\ known' = known \cup {new[h]}
    /\ Finish(h)
    /\ UNCHANGED <<now, users, rows>>

\* The user was deleted after the commit (ObjectDeletedError): 500.
RespondUserGone(h) ==
    /\ pc[h] = "respond"
    /\ users[usr[h]] = "deleted"
    /\ Finish(h)
    /\ UNCHANGED <<clientVars, rows>>

\* The worker or its connection dies: the transaction is rolled back; after a
\* commit, the response is lost.
Abort(h) ==
    /\ pc[h] # "idle"
    /\ rows' = [t \in Token |->
                  IF pc[h] = "rf_commit" /\ t = new[h] THEN Blank("free")
                                                      ELSE rows[t]]
    /\ Finish(h)
    /\ UNCHANGED clientVars

\* The next statement of h needs a lock that g holds.
WaitsFor(h, g) ==
    \/ pc[h] \in {"rf_find", "lo_find"} /\ lock[tok[h]] = g
    \/ pc[h] = "de_rows" /\ tok[h] # None /\ lock[tok[h]] = g
    \/ /\ pc[h] = "rv_update"
       /\ \E t \in ToRevoke(h) : (\A s \in ToRevoke(h) : t <= s) /\ lock[t] = g
    \/ pc[h] \in {"lg_commit", "rf_insert", "de_lock"} /\ userLock[usr[h]] = g
    \/ pc[h] = "de_lock" /\ HoldsKeyShare(g, usr[h])

Deadlocked(h) ==
    \E C \in SUBSET Handlers :
        /\ h \in C
        /\ \A x \in C : (\E y \in C : WaitsFor(x, y)) /\ (\E y \in C : WaitsFor(y, x))

\* PostgreSQL rolls one transaction of a wait cycle back: 500.
DeadlockVictim(h) == Deadlocked(h) /\ Abort(h)

Tick ==
    /\ now < MaxTime
    /\ now' = now + 1
    /\ UNCHANGED <<users, rows, known, lock, userLock, locals>>

-----------------------------------------------------------------------------
Arrive(h) ==
    \/ \E u \in Users : LoginBegin(h, u)
    \/ \E t \in known : RefreshStart(h, t)
    \/ \E t \in known : LogoutStart(h, t)
    \/ \E u \in Users : DeleteStart(h, u)

\* The next statement of a request that has begun.
Step(h) ==
    \/ LoginCommit(h) \/ LoginUserGone(h)
    \/ RefreshNotFound(h) \/ RefreshReplayed(h) \/ RefreshExpired(h)
    \/ RefreshAccepted(h) \/ RefreshInactive(h) \/ RefreshUser(h)
    \/ RefreshInsert(h) \/ RefreshCommit(h)
    \/ RevokeScan(h) \/ RevokeUpdate(h) \/ RevokeCommit(h)
    \/ LogoutNothing(h) \/ LogoutRevoke(h)
    \/ DeleteLock(h) \/ DeleteNothing(h) \/ DeleteRow(h) \/ DeleteCommit(h)
    \/ Respond(h) \/ RespondUserGone(h)

Next ==
    \/ \E h \in Handlers : Arrive(h) \/ Step(h) \/ Abort(h)
    \/ \E u \in Users : SetActive(u)
    \/ Tick

Spec == Init /\ [][Next]_vars

\* PostgreSQL queues the waiters of a lock, so a statement that can run again
\* and again does run; and it breaks every wait cycle.
Fairness ==
    /\ \A h \in Handlers : SF_vars(Step(h))
    /\ WF_vars(\E h \in Handlers : DeadlockVictim(h))

FairSpec == Spec /\ Fairness

-----------------------------------------------------------------------------
(* Properties *)

\* The types of the variables.
TypeOK ==
    /\ now \in 0..MaxTime
    /\ users \in [Users -> {"active", "inactive", "deleted"}]
    /\ rows \in [Token -> Row]
    /\ known \in SUBSET Token
    /\ lock \in [Token -> Handlers \cup {None}]
    /\ userLock \in [Users -> Handlers \cup {None}]
    /\ pc \in [Handlers -> Pc]
    /\ tok \in [Handlers -> Token \cup {None}]
    /\ usr \in [Handlers -> Users \cup {None}]
    /\ new \in [Handlers -> Token \cup {None}]
    /\ scan \in [Handlers -> SUBSET Token]

\* However refreshes, logins, replays, logouts and crashes interleave, the
\* sessions that descend from one login have at most one that still works.
OneLivePerLogin ==
    \A s, t \in Token :
        Live(s) /\ Live(t) /\ rows[s].family = rows[t].family => s = t

\* A login whose newest session was revoked (logout, replay, expiry, inactive
\* user) is over: no other session of it works, and none will.
EndedLoginStaysEnded ==
    \A s, t \in Token :
        /\ Committed(s) /\ rows[s].revoked /\ ~rows[s].rotated
        /\ Live(t)
        => rows[s].family # rows[t].family

\* A rotated session is revoked and names its successor, a committed session of
\* the same login that expires no earlier; no other session names one.
NamesSuccessor(t) ==
    LET n == rows[t].next IN
    /\ rows[t].rotated <=> n # None
    /\ rows[t].rotated =>
         /\ rows[t].revoked
         /\ Committed(n)
         /\ rows[n].user = rows[t].user
         /\ rows[n].family = rows[t].family
         /\ rows[t].expires <= rows[n].expires

Names(p, t) == Committed(p) /\ rows[p].next = t

\* replaced_by_id links the sessions of a login into one chain: every session
\* but the first is the successor of exactly one, so no token was ever exchanged
\* twice.
ChainLinks ==
    \A t \in Token : Committed(t) =>
        /\ NamesSuccessor(t)
        /\ rows[t].family # t => \E p \in Token : Names(p, t)
        /\ \A p, q \in Token : Names(p, t) /\ Names(q, t) => p = q

\* The deletion of a user takes every session with it, also those that requests
\* in progress were about to add.
DeletedUserLeavesNothing ==
    \A u \in Users : users[u] = "deleted" =>
        \A t \in Token : rows[t].st \in {"pending", "committed"} => rows[t].user # u

\* The rows a transaction has read for update, or is about to revoke one by
\* one, are there and belong to a user who is there when it writes them: no
\* UPDATE fails for a missing row, and session.get finds the user.
RowsOutliveTheirReaders ==
    \A h \in Handlers :
        /\ pc[h] \in {"rf_user", "rf_insert", "rf_commit", "rv_scan", "rv_update"} =>
             /\ Committed(tok[h])
             /\ rows[tok[h]].user = usr[h]
             /\ users[usr[h]] # "deleted"
        /\ \A t \in scan[h] : Committed(t) /\ rows[t].user = usr[h]

\* The replay revokes every session of its user, and no other session.
ReplayIsComplete(h) ==
    RevokeCommit(h) =>
        \A t \in Token : Committed(t) =>
            (rows'[t].revoked <=> rows[t].revoked \/ rows[t].user = usr[h])

\* With nobody else at work, every replay of a spent token does so, as
\* tests/test_refresh_rotation.py asserts.
ReplayRevokesTheUser == [][\A h \in Handlers : ReplayIsComplete(h)]_vars

\* In particular the login whose spent token was replayed is over: the session
\* that replaced that token does not outlive the replay.
ReplayEndsItsLogin ==
    [][\A h \in Handlers : RevokeCommit(h) =>
          \A t \in Token : Live(t)' =>
              rows'[t].family # rows[tok[h]].family]_vars

\* A session that was revoked without being exchanged, by a logout for example,
\* is never exchanged afterwards, also not by a refresh already under way.
RevokedIsNeverExchanged ==
    [][\A t \in Token :
          Committed(t) /\ rows[t].revoked /\ ~rows[t].rotated => ~rows'[t].rotated]_vars

\* Every request ends: it is answered, or rolled back.
RequestsEnd == \A h \in Handlers : pc[h] # "idle" ~> pc[h] = "idle"

-----------------------------------------------------------------------------
(* Refinement: the committed rows rotate tokens as TokenRotation says. *)

AbsStatus ==
    [t \in Token |-> IF Live(t) THEN "live"
                     ELSE IF Committed(t) THEN "spent"
                     ELSE IF rows[t].st = "deleted" THEN "gone"
                     ELSE "unissued"]

AbsLogin == [t \in Token |-> IF Committed(t) THEN rows[t].family ELSE None]

Abs == INSTANCE TokenRotation WITH status <- AbsStatus, login <- AbsLogin

\* Every commit of the database is a step of the abstract token rotation.
ImplementsRotation == Abs!Spec

=============================================================================
