--------------------------- MODULE ClientSession ---------------------------
(***************************************************************************)
(* The clients of the auth router: cookie jars, access tokens, and answers *)
(* that are late, overtaken or lost.                                       *)
(*                                                                         *)
(* Browsers, each with a page that makes calls, sign in as the same user.  *)
(* The gateway handles a request in one step on the rotation protocol of   *)
(* TokenRotation, which is what the handlers of RefreshSessions implement; *)
(* a handler that has committed a token makes the access token in a second *)
(* step.  Between a request and its handling, between the two steps and    *)
(* until the answer arrives, anything else may happen.                     *)
(***************************************************************************)
EXTENDS Naturals

CONSTANTS Browser,         \* cookie jars
          Call,            \* calls of the auth router under way at a time
          Token,           \* refresh tokens
          Lifetime,        \* settings.refresh_token_expire_days
          AccessLifetime,  \* settings.jwt_expire_minutes
          MaxTime,         \* bound: the clock stops here
          None,            \* no cookie, no access token, no message
          Keep             \* an answer without a Set-Cookie header

ASSUME LifetimeAssumption == Lifetime \in Nat \ {0} /\ AccessLifetime \in Nat
ASSUME TimeAssumption == MaxTime \in Nat
ASSUME ValueAssumption == None \notin Token \cup Nat /\ Keep \notin Token /\ None # Keep

VARIABLES
    now,      \* wall clock
    user,     \* the row of the user: "active", "inactive" or "deleted"
    status,   \* the tokens, as in TokenRotation
    login,    \* login[t]: the first token of the login t belongs to
    expires,  \* expires_at of the tokens
    jar,      \* jar[b]: the refresh cookie of browser b
    access,   \* access[b]: the access token that browser b has in memory
    request,  \* request[x]: what call x sends to the gateway
    answer,   \* answer[x]: what comes back for it
    calm,     \* history: browsers that made one call at a time and lost none
    endedAt   \* history: when a login stopped working, None before

server == <<user, status, login, expires>>
client == <<jar, access>>
network == <<request, answer>>
vars == <<now, user, status, login, expires, jar, access, request, answer,
          calm, endedAt>>

Rotation == INSTANCE TokenRotation

Op == {"login", "refresh", "logout"}
Request == [from : Browser, op : Op, token : Token \cup {None}]

\* A JWT holds the user, iat and exp: None until it is made.  The login it is for,
\* and since, when a token of it was committed, are history.
Access == [login : Token, since : Nat, iat : Nat \cup {None}, exp : Nat \cup {None}]
Answer == [to : Browser, cookie : Token \cup {None, Keep}, access : Access \cup {None}]

ASSUME MessageAssumption == None \notin Request \cup Access \cup Answer

Init ==
    /\ now = 0
    /\ user = "active"
    /\ Rotation!Init
    /\ expires = [t \in Token |-> 0]
    /\ jar = [b \in Browser |-> None]
    /\ access = [b \in Browser |-> None]
    /\ request = [x \in Call |-> None]
    /\ answer = [x \in Call |-> None]
    /\ calm = Browser
    /\ endedAt = [l \in Token |-> None]

-----------------------------------------------------------------------------
(* Helpers *)

Idle(x) == request[x] = None /\ answer[x] = None

\* Call x is one of browser b.
CallOf(x, b) ==
    \/ request[x] # None /\ request[x].from = b
    \/ answer[x] # None /\ answer[x].to = b

Live(t) == status[t] = "live"
LiveTokens == {t \in Token : Live(t)}

\* The rows of refresh_sessions.
Rows == {t \in Token : status[t] \in {"live", "spent"}}

\* expires_at has not passed.
Works(t) == Live(t) /\ now < expires[t]

\* What a handler that has committed is going to answer with.
Grant(l) == [login |-> l, since |-> now, iat |-> None, exp |-> None]

\* Fault: the life of the access token is that of the refresh token.
LongAccessToken(a) == [a EXCEPT !.iat = now, !.exp = now + Lifetime + AccessLifetime]

\* create_access_token
AccessToken(a) == [a EXCEPT !.iat = now, !.exp = now + AccessLifetime]

\* get_auth_context and get_current_user: is a call with this JWT served now?
\* The refresh sessions are not looked at.
Accepts(a) == now < a.exp /\ user = "active"

\* The handler of x has committed a token, and the JWT is not made yet.
Minting(x) == answer[x] # None /\ answer[x].access # None /\ answer[x].access.exp = None

\* The gateway answers request x.
Reply(x, cookie, jwt) ==
    /\ request' = [request EXCEPT ![x] = None]
    /\ answer' = [answer EXCEPT ![x] =
                    [to |-> request[x].from, cookie |-> cookie, access |-> jwt]]
    /\ UNCHANGED <<now, client, calm>>

\* HTTPException: what the handler has set on its own response, the deletion of
\* the cookie, is not in the answer.
Refuse(x) == Reply(x, Keep, None)

Asks(x, op) == request[x] # None /\ request[x].op = op
-----------------------------------------------------------------------------
(* The client *)

\* The browser adds its cookie to the request.
Send(x, b, op) ==
    /\ Idle(x)
    /\ request' = [request EXCEPT ![x] =
                     [from |-> b, op |-> op,
                      token |-> IF op = "login" THEN None ELSE jar[b]]]
    /\ calm' = IF \E y \in Call : CallOf(y, b) THEN calm \ {b} ELSE calm
    /\ UNCHANGED <<now, server, client, answer>>

\* A Set-Cookie header sets or deletes the cookie; a refusal leaves the
\* page without an access token.
Receive(x) ==
    /\ answer[x] # None /\ ~Minting(x)
    /\ jar' = IF answer[x].cookie = Keep THEN jar
              ELSE [jar EXCEPT ![answer[x].to] = answer[x].cookie]
    /\ access' = [access EXCEPT ![answer[x].to] = answer[x].access]
    /\ answer' = [answer EXCEPT ![x] = None]
    /\ UNCHANGED <<now, server, request, calm>>

\* The connection breaks before the gateway has the request, or after.
LoseRequest(x) ==
    /\ request[x] # None
    /\ request' = [request EXCEPT ![x] = None]
    /\ UNCHANGED <<now, server, client, answer, calm>>

LoseAnswer(x) ==
    /\ answer[x] # None
    /\ answer' = [answer EXCEPT ![x] = None]
    /\ calm' = calm \ {answer[x].to}
    /\ UNCHANGED <<now, server, client, request>>

\* max_age of the cookie counts from its arrival: not before expires_at.
CookieExpires(b) ==
    /\ jar[b] # None
    /\ expires[jar[b]] <= now
    /\ jar' = [jar EXCEPT ![b] = None]
    /\ UNCHANGED <<now, server, access, network, calm>>

-----------------------------------------------------------------------------
(* POST /auth/login *)

Login(x) ==
    /\ Asks(x, "login")
    /\ user = "active"
    /\ \E n \in Token :
          /\ Rotation!Issue(n)
          /\ expires' = [expires EXCEPT ![n] = now + Lifetime]
          /\ Reply(x, n, Grant(n))
    /\ UNCHANGED user

LoginRefused(x) ==
    /\ Asks(x, "login")
    /\ user # "active"
    /\ Refuse(x)
    /\ UNCHANGED server

-----------------------------------------------------------------------------
(* POST /auth/refresh *)

\* The token request x presents.
Presented(x) == request[x].token

\* No token, or none that the table knows.
RefreshUnknown(x) ==
    /\ Asks(x, "refresh")
    /\ Presented(x) \notin Rows
    /\ Refuse(x)
    /\ UNCHANGED server

\* A spent token: every session of the user is revoked.
RefreshReplayed(x) ==
    /\ Asks(x, "refresh")
    /\ Presented(x) # None
    /\ status[Presented(x)] = "spent"
    /\ Rotation!Revoke(LiveTokens)
    /\ Refuse(x)
    /\ UNCHANGED <<user, expires>>

\* Fault: a refusal that changes nothing.
RefreshRefusedOnly(x) ==
    /\ Asks(x, "refresh")
    /\ Presented(x) # None
    /\ Live(Presented(x))
    /\ ~Works(Presented(x)) \/ user # "active"
    /\ Refuse(x)
    /\ UNCHANGED server

\* An expired session, or a user who is not active.
RefreshRefused(x) ==
    /\ Asks(x, "refresh")
    /\ Presented(x) # None
    /\ Live(Presented(x))
    /\ ~Works(Presented(x)) \/ user # "active"
    /\ Rotation!Revoke({Presented(x)})
    /\ Refuse(x)
    /\ UNCHANGED <<user, expires>>

\* The token is exchanged for n.
Exchange(x, n, cookie) ==
    /\ Asks(x, "refresh")
    /\ Presented(x) # None
    /\ Works(Presented(x))
    /\ user = "active"
    /\ Rotation!Rotate(Presented(x), n)
    /\ expires' = [expires EXCEPT ![n] = now + Lifetime]
    /\ Reply(x, cookie, Grant(login[Presented(x)]))
    /\ UNCHANGED user

\* Fault: _set_refresh_cookie is forgotten.
RefreshWithoutCookie(x) == \E n \in Token : Exchange(x, n, Keep)

Refresh(x) == \E n \in Token : Exchange(x, n, n)

-----------------------------------------------------------------------------
(* After the commit of a login or a refresh *)

\* The user is read again, and the JWT made.
Mint(x) ==
    /\ Minting(x)
    /\ user # "deleted"
    /\ answer' = [answer EXCEPT ![x].access = AccessToken(@)]
    /\ UNCHANGED <<now, server, client, request, calm>>

\* The user is gone, or no connection is free in time: the error has no cookie,
\* and the token that was committed is lost with it.
MintFails(x) ==
    /\ Minting(x)
    /\ answer' = [answer EXCEPT ![x].cookie = Keep, ![x].access = None]
    /\ calm' = calm \ {answer[x].to}
    /\ UNCHANGED <<now, server, client, request>>

-----------------------------------------------------------------------------
(* POST /auth/logout *)

\* Fault: the cookie is deleted, the session goes on.
LogoutOfTheBrowser(x) ==
    /\ Asks(x, "logout")
    /\ Reply(x, None, None)
    /\ UNCHANGED server

\* The session is revoked if there is one that is not, and the cookie deleted.
Logout(x) ==
    /\ Asks(x, "logout")
    /\ Rotation!Revoke({Presented(x)} \cap LiveTokens)
    /\ Reply(x, None, None)
    /\ UNCHANGED <<user, expires>>

-----------------------------------------------------------------------------
(* The admin console, and the clock *)

SetActive ==
    /\ user # "deleted"
    /\ user' = IF user = "active" THEN "inactive" ELSE "active"
    /\ UNCHANGED <<now, status, login, expires, client, network, calm>>

\* The sessions of the user go with the user.
DeleteUser ==
    /\ user # "deleted"
    /\ user' = "deleted"
    /\ Rotation!Purge(Rows)
    /\ UNCHANGED <<now, expires, client, network, calm>>

Tick ==
    /\ now < MaxTime
    /\ now' = now + 1
    /\ UNCHANGED <<server, client, network, calm>>

-----------------------------------------------------------------------------
Ended(l) == status[l] # "unissued" /\ \A t \in Token : login[t] = l => ~Works(t)

\* History: when login l ended.
RecordEnds ==
    endedAt' = [l \in Token |-> IF endedAt[l] = None /\ Ended(l)' THEN now'
                                                              ELSE endedAt[l]]

Handle(x) ==
    \/ Login(x) \/ LoginRefused(x)
    \/ RefreshUnknown(x) \/ RefreshReplayed(x) \/ RefreshRefused(x) \/ Refresh(x)
    \/ Logout(x)
    \/ Mint(x) \/ MintFails(x)

Network(x) ==
    \/ \E b \in Browser, op \in Op : Send(x, b, op)
    \/ Receive(x) \/ LoseRequest(x) \/ LoseAnswer(x)

Next ==
    /\ \/ \E x \in Call : Handle(x) \/ Network(x)
       \/ \E b \in Browser : CookieExpires(b)
       \/ SetActive \/ DeleteUser \/ Tick
    /\ RecordEnds

Spec == Init /\ [][Next]_vars

-----------------------------------------------------------------------------
(* Properties *)

\* The types of the variables.
TypeOK ==
    /\ now \in 0..MaxTime
    /\ user \in {"active", "inactive", "deleted"}
    /\ Rotation!TypeOK
    /\ expires \in [Token -> Nat]
    /\ jar \in [Browser -> Token \cup {None}]
    /\ access \in [Browser -> Access \cup {None}]
    /\ request \in [Call -> Request \cup {None}]
    /\ answer \in [Call -> Answer \cup {None}]
    /\ calm \subseteq Browser
    /\ endedAt \in [Token -> Nat \cup {None}]

\* A browser that keeps to one call at a time, and loses no answer, never falls
\* behind the rotation: the only token of its login that works is its cookie, or
\* about to become it.  So its refreshes are never taken for replays, as long as
\* its login is not ended by others.
ClientKeepsUp ==
    \A b \in calm : jar[b] # None =>
        \A t \in LiveTokens : login[t] = login[jar[b]] =>
            \/ t = jar[b]
            \/ \E x \in Call : CallOf(x, b) /\ answer[x] # None /\ answer[x].cookie = t

\* "The gateway revokes the refresh session and clears the cookie": when such a
\* browser signs out, nothing of its login works any more.
LogoutEndsTheLogin ==
    [][\A x \in Call : Logout(x) /\ Presented(x) # None /\ request[x].from \in calm =>
          \A t \in Token : Live(t)' => login'[t] # login[Presented(x)]]_vars

\* An access token is good for requests although its login has ended, but not
\* longer after that than its own lifetime and the time that its handler took from
\* the commit to the token: a logout, a replay or an expiry reaches every API call
\* in the end, also one that comes between the two.
AccessEndsWithItsLogin ==
    \A b \in Browser : access[b] # None /\ Accepts(access[b]) =>
        LET a == access[b] IN
        endedAt[a.login] # None =>
            now < endedAt[a.login] + AccessLifetime + (a.iat - a.since)

\* A refusal of /auth/refresh is final: the client keeps its cookie, since the
\* deletion is lost with the error, but the token does not work any more, and
\* nothing makes a token work again, also not activating the user again.
RefusedIsFinal ==
    [][/\ \A x \in Call :
             Asks(x, "refresh") /\ answer'[x] # None /\ answer'[x].access = None
             => Presented(x) \notin LiveTokens'
       /\ \A t \in Token : status[t] \in {"spent", "gone"} => ~Live(t)']_vars

=============================================================================
