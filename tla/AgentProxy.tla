----------------------------- MODULE AgentProxy -----------------------------
(***************************************************************************)
(* A request to /agents/{key}/... while the admin console edits users,     *)
(* agents and grants: _proxy_agent_request, download_agent_file and        *)
(* _get_authorized_agent.  Each SELECT sees what is committed at that      *)
(* moment; the console commits one form at a time.  Requests share nothing *)
(* but the database, which they only read, so one stands for each of them. *)
(***************************************************************************)
EXTENDS IdentityRewrite, FiniteSets

CONSTANTS User, Agent,  \* the rows by their ids, which are never used again
          Key, Url,     \* Agent.key and Agent.base_url
          Base,         \* Base[url]: the path of a base URL, without its last slash
    Requests,     \* what may come after the key: [path, post, body]; the path is
                  \* the decoded one behind the slashes that lstrip takes off
          MaxEdits,     \* bound: forms saved
          Absent, Deleted, None

ASSUME BaseAssumption == Base \in [Url -> Seq(Segment)]
ASSUME BoundAssumption == MaxEdits \in Nat
ASSUME NoneAssumption == None \notin User

VARIABLES
    users,    \* users[u]: the row, or Deleted
    agents,   \* agents[a]: the row, Absent or Deleted
    grants,   \* user_agent_access: pairs of a user and an agent
    edits,
    pc,       \* what the request does next
    caller,   \* the user the access token names; None if it is not valid
    key,      \* the key in the URL
    admin,    \* principal.user.is_admin as it was read
    found,    \* the agent as it was read: [id, url]
    asked,    \* history: the request as it was read
    sent,     \* what went to the upstream, by the path that it reads
    client,   \* TRUE while an httpx client is open
    answer,   \* how the request ended
    ever,     \* history: the facts that held at some time since the arrival
    always    \* history: the facts that held all the time since the arrival

database == <<users, agents, grants, edits>>
history == <<ever, always>>
vars == <<database, pc, caller, key, admin, found, asked, sent, client, answer, history>>

UserRow == [active : BOOLEAN, admin : BOOLEAN]
AgentRow == [key : Key, url : Url, active : BOOLEAN]

HasUser(u) == users[u] # Deleted
HasAgent(a) == agents[a] \notin {Absent, Deleted}

Active == {u \in User : HasUser(u) /\ users[u].active}
Admins == {u \in User : HasUser(u) /\ users[u].admin}
Serving == {a \in Agent : HasAgent(a) /\ agents[a].active}

\* What a request depends on.
Facts ==
    {<<"active", u>> : u \in Active} \cup {<<"admin", u>> : u \in Admins}
    \cup {<<"grant", g[1], g[2]>> : g \in grants}
    \cup UNION {{<<"serves", a, agents[a].key>>,
                 <<"agent", a, agents[a].key, agents[a].url>>} :
                    a \in Serving}

NotFound == [id |-> None]
NotSent == [body |-> None]

Init ==
    /\ users \in [User -> UserRow \cup {Deleted}]
    /\ agents \in [Agent -> AgentRow \cup {Absent, Deleted}]
    /\ \A a, b \in Agent :
          a # b /\ HasAgent(a) /\ HasAgent(b) => agents[a].key # agents[b].key
    /\ grants \subseteq {u \in User : HasUser(u)} \X {a \in Agent : HasAgent(a)}
    /\ edits = 0
    /\ pc = "idle"
    /\ caller = None /\ key \in Key /\ admin = FALSE
    /\ found = NotFound /\ asked = NotSent /\ sent = NotSent
    /\ client = FALSE
    /\ answer = "none"
    /\ ever = {} /\ always = {}

-----------------------------------------------------------------------------
(* The admin console *)

\* A form is saved: one commit.
Saved ==
    /\ edits < MaxEdits
    /\ edits' = edits + 1
    /\ ever' = ever \cup Facts'
    /\ always' = always \cap Facts'
    /\ UNCHANGED <<pc, caller, key, admin, found, asked, sent, client, answer>>

SaveUser(u) ==
    /\ HasUser(u)
    /\ \E row \in UserRow : users' = [users EXCEPT ![u] = row]
    /\ UNCHANGED <<agents, grants>>
    /\ Saved

DeleteUser(u) ==
    /\ HasUser(u)
    /\ users' = [users EXCEPT ![u] = Deleted]
    /\ grants' = {g \in grants : g[1] # u}
    /\ UNCHANGED agents
    /\ Saved

\* The key is unique.
SaveAgent(a) ==
    /\ agents[a] # Deleted
    /\ \E row \in AgentRow :
          /\ \A b \in Agent \ {a} : HasAgent(b) => agents[b].key # row.key
          /\ agents' = [agents EXCEPT ![a] = row]
    /\ UNCHANGED <<users, grants>>
    /\ Saved

\* ON DELETE CASCADE
DeleteAgent(a) ==
    /\ HasAgent(a)
    /\ agents' = [agents EXCEPT ![a] = Deleted]
    /\ grants' = {g \in grants : g[2] # a}
    /\ UNCHANGED users
    /\ Saved

Grant(u, a) ==
    /\ HasUser(u) /\ HasAgent(a) /\ <<u, a>> \notin grants
    /\ grants' = grants \cup {<<u, a>>}
    /\ UNCHANGED <<users, agents>>
    /\ Saved

Revoke(u, a) ==
    /\ <<u, a>> \in grants
    /\ grants' = grants \ {<<u, a>>}
    /\ UNCHANGED <<users, agents>>
    /\ Saved

\* The row of a grant is edited to that of another user or agent.
Regrant(g, u, a) ==
    /\ HasUser(u) /\ HasAgent(a) /\ <<u, a>> \notin grants
    /\ grants' = (grants \ {g}) \cup {<<u, a>>}
    /\ UNCHANGED <<users, agents>>
    /\ Saved

Console ==
    \/ \E u \in User : SaveUser(u) \/ DeleteUser(u)
    \/ \E a \in Agent : SaveAgent(a) \/ DeleteAgent(a)
    \/ \E u \in User, a \in Agent : Grant(u, a) \/ Revoke(u, a)
    \/ \E g \in grants, u \in User, a \in Agent : Regrant(g, u, a)

-----------------------------------------------------------------------------
(* The request *)

Answer(how) == pc' = "done" /\ answer' = how

Arrive(u, k) ==
    /\ pc = "idle"
    /\ pc' = "auth"
    /\ caller' = u
    /\ key' = k
    /\ ever' = Facts /\ always' = Facts
    /\ UNCHANGED <<database, admin, found, asked, sent, client, answer>>

\* authenticate_bearer_from_headers
Authenticate ==
    /\ pc = "auth"
    /\ caller \in Active
    /\ admin' = users[caller].admin
    /\ pc' = "agent"
    /\ UNCHANGED <<database, caller, key, found, asked, sent, client, answer, history>>

Unauthenticated ==
    /\ pc = "auth"
    /\ caller \notin Active
    /\ Answer("401")
    /\ UNCHANGED <<database, caller, key, admin, found, asked, sent, client, history>>

\* Fault: inactive agents are found as well.
FindAgentInactive ==
    /\ pc = "agent"
    /\ \E a \in Agent : /\ HasAgent(a) /\ agents[a].key = key
                        /\ found' = [id |-> a, url |-> agents[a].url]
    /\ pc' = "access"
    /\ UNCHANGED <<database, caller, key, admin, asked, sent, client, answer, history>>

FindAgent ==
    /\ pc = "agent"
    /\ \E a \in Serving : /\ agents[a].key = key
                          /\ found' = [id |-> a, url |-> agents[a].url]
    /\ pc' = "access"
    /\ UNCHANGED <<database, caller, key, admin, asked, sent, client, answer, history>>

AgentNotFound ==
    /\ pc = "agent"
    /\ \A a \in Serving : agents[a].key # key
    /\ Answer("404")
    /\ UNCHANGED <<database, caller, key, admin, found, asked, sent, client, history>>

CheckAccess ==
    /\ pc = "access"
    /\ <<caller, found.id>> \in grants
    /\ pc' = "body"
    /\ UNCHANGED <<database, caller, key, admin, found, asked, sent, client, answer, history>>

\* Fault: only the first grant of the agent is looked at.
ForbiddenByFirst ==
    /\ pc = "access"
    /\ \E g \in grants : g[2] = found.id /\ g[1] # caller
    /\ Answer("403")
    /\ UNCHANGED <<database, caller, key, admin, found, asked, sent, client, history>>

Forbidden ==
    /\ pc = "access"
    /\ <<caller, found.id>> \notin grants
    /\ Answer("403")
    /\ UNCHANGED <<database, caller, key, admin, found, asked, sent, client, history>>

\* download_agent_file: the file, or 404.
ServeFile ==
    /\ pc = "body"
    /\ Answer("file") \/ Answer("404 file")
    /\ UNCHANGED <<database, caller, key, admin, found, asked, sent, client, history>>

\* The client goes away before its body is complete.
BodyLost ==
    /\ pc = "body"
    /\ Answer("crashed")
    /\ UNCHANGED <<database, caller, key, admin, found, asked, sent, client, history>>

\* The request with what was read about its caller
Identified(r) ==
    [path |-> r.path, post |-> r.post, body |-> r.body,
     user |-> caller, admin |-> admin, key |-> key]

BodyUnreadable ==
    /\ pc = "body"
    /\ \E r \in Requests : Unreadable(Identified(r)) /\ asked' = Identified(r)
    /\ Answer("crashed")
    /\ UNCHANGED <<database, caller, key, admin, found, sent, client, history>>

BodyRejected ==
    /\ pc = "body"
    /\ \E r \in Requests : Rejected(Identified(r)) /\ asked' = Identified(r)
    /\ Answer("400")
    /\ UNCHANGED <<database, caller, key, admin, found, sent, client, history>>

\* A new client sends the request to the agent as it was read.  The text of the
\* path becomes part of a URL: the upstream reads what is left of it there.
Send ==
    /\ pc = "body"
    /\ \E r \in Requests :
          /\ ~Unreadable(Identified(r)) /\ ~Rejected(Identified(r))
          /\ asked' = Identified(r)
          /\ sent' = [path |-> UrlPath(Base[found.url] \o r.path), post |-> r.post,
                      url |-> found.url, body |-> Forwarded(Identified(r))]
    /\ client' = TRUE
    /\ pc' = "upstream"
    /\ UNCHANGED <<database, caller, key, admin, found, answer, history>>

-----------------------------------------------------------------------------
(* The upstream *)

\* The gateway goes by the path it matched.
Streamed == IsStreamPath(asked.path)
OpenApi == asked.path = <<"openapi.json">>

\* Fault: the client is not closed.
UpstreamFailsOpen ==
    /\ pc = "upstream"
    /\ Answer("502")
    /\ UNCHANGED <<database, caller, key, admin, found, asked, sent, client, history>>

\* httpx.RequestError
UpstreamFails ==
    /\ pc = "upstream"
    /\ client' = FALSE
    /\ Answer("502")
    /\ UNCHANGED <<database, caller, key, admin, found, asked, sent, history>>

\* Fault: no call has a read timeout.
ReadTimeoutNever == FALSE /\ UNCHANGED vars

\* The same for a call that is no stream and whose upstream keeps silent.
ReadTimeout == pc = "upstream" /\ ~Streamed /\ UpstreamFails

\* The target is no URL, or the answer to /openapi.json no JSON: an exception
\* that is no RequestError leaves the client open.
UpstreamError ==
    /\ pc = "upstream"
    /\ Answer("crashed")
    /\ UNCHANGED <<database, caller, key, admin, found, asked, sent, client, history>>

\* The whole answer; of an OpenAPI document with status 200 the edited one.
UpstreamAnswers ==
    /\ pc = "upstream"
    /\ ~Streamed
    /\ client' = FALSE
    /\ Answer("answered") \/ (OpenApi /\ Answer("openapi"))
    /\ UNCHANGED <<database, caller, key, admin, found, asked, sent, history>>

UpstreamStreams ==
    /\ pc = "upstream"
    /\ Streamed
    /\ pc' = "stream"
    /\ UNCHANGED <<database, caller, key, admin, found, asked, sent, client, answer, history>>

\* The stream is over, or its client gone; the background task is left to run.
StreamEnds ==
    /\ pc = "stream"
    /\ pc' = "background"
    /\ UNCHANGED <<database, caller, key, admin, found, asked, sent, client, answer, history>>

\* An exception in the stream: the background task does not run.
StreamBreaks ==
    /\ pc = "stream"
    /\ Answer("crashed")
    /\ UNCHANGED <<database, caller, key, admin, found, asked, sent, client, history>>

CloseStream ==
    /\ pc = "background"
    /\ client' = FALSE
    /\ Answer("answered")
    /\ UNCHANGED <<database, caller, key, admin, found, asked, sent, history>>

-----------------------------------------------------------------------------
\* What the gateway does by itself.
Gateway ==
    \/ Authenticate \/ Unauthenticated \/ FindAgent \/ AgentNotFound
    \/ CheckAccess \/ Forbidden \/ ReadTimeout \/ CloseStream

\* What the client and the upstream decide.
Peers ==
    \/ \E u \in User \cup {None}, k \in Key : Arrive(u, k)
    \/ ServeFile \/ BodyLost \/ BodyUnreadable \/ BodyRejected \/ Send
    \/ UpstreamFails \/ UpstreamError \/ UpstreamAnswers \/ UpstreamStreams
    \/ StreamEnds \/ StreamBreaks

Next == Console \/ Gateway \/ Peers

Spec == Init /\ [][Next]_vars

\* The event loop goes on with a request that waits for nobody.  A call that is no
\* stream waits at most 120 s for each part of an answer, and no answer is endless.
Fairness == WF_vars(Gateway)

-----------------------------------------------------------------------------
(* Properties *)

\* The types of the variables.
TypeOK ==
    /\ users \in [User -> UserRow \cup {Deleted}]
    /\ agents \in [Agent -> AgentRow \cup {Absent, Deleted}]
    /\ grants \subseteq User \X Agent
    /\ edits \in 0..MaxEdits
    /\ pc \in {"idle", "auth", "agent", "access", "body", "upstream", "stream",
               "background", "done"}
    /\ caller \in User \cup {None}
    /\ key \in Key
    /\ admin \in BOOLEAN
    /\ found \in [id : Agent, url : Url] \cup {NotFound}
    /\ client \in BOOLEAN
    /\ answer \in {"none", "401", "403", "404", "400", "502", "file", "404 file",
                   "openapi", "answered", "crashed"}

\* A request reaches an upstream, or a file, only if its user was active, the agent
\* was active behind this key and URL, and the user had been granted this agent,
\* each at some time since the request arrived: what was taken away before is gone.
\* It says which service gets the request; a path with dot segments may leave the
\* path of the base URL there.
ForwardedWasAllowed ==
    sent # NotSent \/ answer = "file" =>
        /\ <<"active", caller>> \in ever
        /\ <<"agent", found.id, key, found.url>> \in ever
        /\ <<"grant", caller, found.id>> \in ever
        /\ sent # NotSent => sent.url = found.url

\* A request is refused only if something it needs was missing at some time since it
\* arrived: edits of other rows, and moving an agent, cost nobody an answer.
RefusedWithReason ==
    /\ answer = "401" => <<"active", caller>> \notin always
    /\ answer = "404" => ~ \E a \in Agent : <<"serves", a, key>> \in always
    /\ answer = "403" => ~ \E a \in Agent : /\ <<"serves", a, key>> \in always
                                           /\ <<"grant", caller, a>> \in always

\* A search for threads, by the path the gateway reads, is confined to those of the
\* caller unless the caller was an admin at some time since the request arrived; a
\* body that is no JSON object is not confined but goes through as it is.
SearchesStayScoped ==
    sent # NotSent /\ asked.post /\ asked.path = Search /\ <<"admin", caller>> \notin ever =>
        \/ /\ sent.body.type = "json" /\ IsDict(sent.body.value)
           /\ Get(Get(sent.body.value, "metadata"), "owner") = Str(caller)
        \/ Malformed(asked) /\ sent.body = asked.body

\* Only an exception that nobody catches leaves an httpx client open.
ClientsReleased == pc = "done" /\ client => answer = "crashed"

\* The keys of any value, and what is there: what is no dict has none.
Keys(v) == IF IsDict(v) THEN DOMAIN v.at ELSE {}
At(v, k) == IF k \in Keys(v) THEN v.at[k] ELSE Null

\* w is the dict v, or a new one, with new values at the keys in S.
ChangedAt(v, w, S) ==
    /\ IsDict(w)
    /\ DOMAIN w.at = Keys(v) \cup S
    /\ \A k \in Keys(v) \ S : w.at[k] = v.at[k]

\* In run w the config names the caller and the agent; the rest is as in run v.
NamesCaller(v, w, r) ==
    LET config(run) == At(run, "config")
        configurable(run) == At(config(run), "configurable")
    IN  /\ ChangedAt(v, w, {"config"})
        /\ ChangedAt(config(v), config(w), {"configurable"})
        /\ ChangedAt(configurable(v), configurable(w), {"user_id", "gateway_agent_key"})
        /\ At(configurable(w), "user_id") = Str(r.user)
        /\ At(configurable(w), "gateway_agent_key") = Str(r.key)

\* In w the metadata names the caller as the owner; the rest is as in v.
NamesOwner(v, w, r) ==
    /\ ChangedAt(v, w, {"metadata"})
    /\ ChangedAt(At(v, "metadata"), At(w, "metadata"), {"owner"})
    /\ At(At(w, "metadata"), "owner") = Str(r.user)

\* On every path that the gateway reads as a run, a thread or a search, the body
\* that is sent has the identity of the caller in every run and the owner in every
\* thread and, in all other places, what the caller sent; the search of an admin is
\* only given a dict of metadata, and every other body goes through as it is.  The
\* upstream reads the path that the gateway read, unless some part of it is syntax
\* of a URL.
OnlyIdentityChanges ==
    sent # NotSent =>
        LET v == Payload(asked)  w == sent.body.value
            target == Base[sent.url] \o asked.path
        IN
        /\ sent.post = asked.post
        /\ Plain(target) => sent.path = target
        /\ ~Applies(asked) => sent.body = asked.body
        /\ asked.post /\ IsRunCreatePath(asked.path) => NamesCaller(v, w, asked)
        /\ asked.post /\ asked.path = Batch =>
              /\ DOMAIN w.items = DOMAIN v.items
              /\ \A i \in DOMAIN v.items : NamesCaller(v.items[i], w.items[i], asked)
        /\ asked.post /\ asked.path \in {Threads, Search} =>
              IF Malformed(asked) THEN sent.body = asked.body
              ELSE IF asked.path = Search /\ asked.admin
              THEN /\ ChangedAt(v, w, {"metadata"})
                   /\ ChangedAt(At(v, "metadata"), At(w, "metadata"), {})
              ELSE NamesOwner(v, w, asked)

\* The assertion behind the rewrite refuses no body that has the right shape:
\* what a caller put in the place of the identity never costs the request.
WellFormedIsForwarded ==
    answer = "400" =>
        \/ Malformed(asked)
        \/ /\ asked.path = Batch
           /\ \E i \in DOMAIN asked.body.value.items : ~IsDict(asked.body.value.items[i])

\* The two path patterns agree: a run that is created on a stream path, by the path
\* the gateway reads, is read as a stream, without the timeout of other calls.
NewStreamsAreStreams ==
    sent # NotSent /\ IsRunCreatePath(asked.path) /\ asked.path[Len(asked.path)] = "stream"
    => Streamed

\* A call that is no stream is answered, also when the upstream keeps silent.
CallsAreAnswered == pc = "upstream" /\ ~Streamed ~> pc = "done"

=============================================================================
