-------------------------- MODULE AgentProxyProofs --------------------------
(* Proofs about AgentProxy and the rewrite it uses, for any users, agents,   *)
(* keys and requests and any number of edits.                                *)
EXTENDS AgentProxy, TLAPS

-----------------------------------------------------------------------------
(* The rewrite *)

\* What Put writes is what Get reads; other keys keep their values.
LEMMA GetPut ==
  ASSUME NEW d, NEW k, NEW v, NEW x
  PROVE  /\ IsDict(Put(d, k, v))
         /\ Get(Put(d, k, v), k) = v
         /\ x # k => Get(Put(d, k, v), x) = Get(d, x)
  BY DEF Put, Get, IsDict, Dict

\* Whatever the config of a run is, after the rewrite it names the user and the
\* agent.
THEOREM IdentityInjected ==
  ASSUME NEW run, NEW user, NEW k
  PROVE  LET after == InjectIdentity(run, user, k)
         IN  IsDict(after) /\ HasIdentity(after, user, k)
  <1> DEFINE config == DictAt(run, "config")
             configurable == DictAt(config, "configurable")
             identity == Put(Put(configurable, "user_id", Str(user)),
                             "gateway_agent_key", Str(k))
             after == InjectIdentity(run, user, k)
  <1>1. after = Put(run, "config", Put(config, "configurable", identity))
    BY DEF InjectIdentity
  <1> HIDE DEF after, config, configurable
  <1>2. IsDict(after) /\ Get(after, "config") = Put(config, "configurable", identity)
    BY <1>1, GetPut
  <1>3. /\ IsDict(Get(after, "config"))
        /\ Get(Get(after, "config"), "configurable") = identity
    BY <1>2, GetPut
  <1>4. /\ IsDict(identity)
        /\ Get(identity, "user_id") = Str(user)
        /\ Get(identity, "gateway_agent_key") = Str(k)
    BY GetPut
  <1> QED
    BY <1>2, <1>3, <1>4 DEF HasIdentity, after

\* The rewrite passes its own assertion: a body of the right shape whose runs are
\* all dicts is never refused.
THEOREM RewritePasses ==
  ASSUME NEW r, IsRunPath(r.path), ~Malformed(r),
         r.path = Batch => \A i \in DOMAIN Payload(r).items : IsDict(Payload(r).items[i])
  PROVE  PassesAssertion(r, Rewritten(r))
  <1>1. r.path \notin {Threads, Search}
    BY DEF IsRunPath, IsRunCreatePath, Threads, Search, Batch
  <1>2. CASE r.path = Batch
    <2> DEFINE items == Payload(r).items
               after == [i \in DOMAIN items |-> IdentitySet(r, items[i])]
    <2>1. Rewritten(r) = List(after)
      BY <1>1, <1>2 DEF Rewritten
    <2>2. Rewritten(r).items = after
      BY <2>1 DEF List
    <2>3. ASSUME NEW i \in DOMAIN items
          PROVE  IsDict(after[i]) /\ HasIdentity(after[i], r.user, r.key)
      BY <1>2, IdentityInjected DEF IdentitySet
    <2> QED
      BY <1>2, <2>2, <2>3 DEF PassesAssertion
  <1>3. CASE r.path # Batch
    <2>1. IsDict(Payload(r))
      BY <1>3 DEF Malformed, Payload, EmptyDict, Dict, IsDict
    <2>2. Rewritten(r) = InjectIdentity(Payload(r), r.user, r.key)
      BY <1>1, <1>3, <2>1 DEF Rewritten, IdentitySet
    <2> QED
      BY <1>3, <2>2, IdentityInjected DEF PassesAssertion
  <1> QED
    BY <1>2, <1>3

\* A rejected body has a wrong shape, or holds a run that is no dict.
LEMMA RejectedWithReason ==
  ASSUME NEW r, Rejected(r)
  PROVE  \/ Malformed(r)
         \/ /\ r.path = Batch
            /\ \E i \in DOMAIN r.body.value.items : ~IsDict(r.body.value.items[i])
  <1>1. IsRunPath(r.path) /\ ~(~Malformed(r) /\ PassesAssertion(r, Rewritten(r)))
    BY DEF Rejected
  <1>2. CASE r.body.type = "json"
    BY <1>1, <1>2, RewritePasses DEF Payload
  <1>3. CASE r.body.type # "json" /\ r.path = Batch
    <2>1. DOMAIN Payload(r).items = {}
      BY <1>3 DEF Payload, List
    <2> QED
      BY <1>1, <2>1, RewritePasses
  <1>4. CASE r.path # Batch
    BY <1>1, <1>4, RewritePasses
  <1> QED
    BY <1>2, <1>3, <1>4

\* Put writes at one key.
LEMMA PutChanges ==
  ASSUME NEW d, IsDict(d), NEW k, NEW v
  PROVE  /\ ChangedAt(d, Put(d, k, v), {k})
         /\ At(Put(d, k, v), k) = v
  BY DEF ChangedAt, Put, Keys, At, IsDict, Dict

\* The dict at a key of a dict, or the empty one, has what was there.
LEMMA DictAtChanges ==
  ASSUME NEW d, IsDict(d), NEW k
  PROVE  IsDict(DictAt(d, k)) /\ ChangedAt(At(d, k), DictAt(d, k), {})
  <1>1. Get(d, k) = At(d, k)
    BY DEF Get, At, Keys
  <1>2. CASE IsDict(At(d, k))
    BY <1>1, <1>2 DEF DictAt, ChangedAt, Keys
  <1>3. CASE ~IsDict(At(d, k))
    <2>1. DictAt(d, k) = EmptyDict /\ Keys(At(d, k)) = {}
      BY <1>1, <1>3 DEF DictAt, Keys
    <2>2. IsDict(EmptyDict) /\ DOMAIN EmptyDict.at = {}
      BY DEF EmptyDict, Dict, IsDict
    <2> QED
      BY <2>1, <2>2 DEF ChangedAt
  <1> QED
    BY <1>2, <1>3

\* Changes that follow each other add up.
LEMMA ChangesAdd ==
  ASSUME NEW u, NEW v, NEW w, NEW S, NEW T, ChangedAt(u, v, S), ChangedAt(v, w, T)
  PROVE  ChangedAt(u, w, S \cup T)
  BY DEF ChangedAt, Keys

\* The identity is written where the upstream looks for it, and nowhere else.
THEOREM InjectionIsExact ==
  ASSUME NEW run, IsDict(run), NEW r
  PROVE  NamesCaller(run, InjectIdentity(run, r.user, r.key), r)
  <1> DEFINE config == DictAt(run, "config")
             configurable == DictAt(config, "configurable")
             named == Put(configurable, "user_id", Str(r.user))
             identity == Put(named, "gateway_agent_key", Str(r.key))
             newConfig == Put(config, "configurable", identity)
             after == InjectIdentity(run, r.user, r.key)
  <1>1. after = Put(run, "config", newConfig)
    BY DEF InjectIdentity
  <1> HIDE DEF after
  <1>2. IsDict(config) /\ ChangedAt(At(run, "config"), config, {})
    BY DictAtChanges
  <1>3. /\ IsDict(configurable)
        /\ ChangedAt(At(config, "configurable"), configurable, {})
    BY <1>2, DictAtChanges
  <1>4. ChangedAt(run, after, {"config"}) /\ At(after, "config") = newConfig
    BY <1>1, PutChanges
  <1>5. /\ ChangedAt(At(run, "config"), newConfig, {"configurable"})
        /\ At(newConfig, "configurable") = identity
    <2>1. ChangedAt(config, newConfig, {"configurable"})
      BY <1>2, PutChanges
    <2>2. ChangedAt(At(run, "config"), newConfig, {} \cup {"configurable"})
      BY <1>2, <2>1, ChangesAdd
    <2>3. {} \cup {"configurable"} = {"configurable"}
      OBVIOUS
    <2>4. At(newConfig, "configurable") = identity
      <3> HIDE DEF config, identity
      <3> QED
        BY <1>2, PutChanges
    <2> QED
      BY <2>2, <2>3, <2>4
  <1>6. At(config, "configurable") = At(At(run, "config"), "configurable")
    BY <1>2 DEF ChangedAt, At, Keys
  <1>7. /\ ChangedAt(At(config, "configurable"), identity, {"user_id", "gateway_agent_key"})
        /\ At(identity, "user_id") = Str(r.user)
        /\ At(identity, "gateway_agent_key") = Str(r.key)
    <2>1. /\ ChangedAt(configurable, named, {"user_id"})
          /\ At(named, "user_id") = Str(r.user)
      BY <1>3, PutChanges
    <2>2. IsDict(named)
      BY <2>1 DEF ChangedAt
    <2>3. /\ ChangedAt(named, identity, {"gateway_agent_key"})
          /\ At(identity, "gateway_agent_key") = Str(r.key)
      BY <2>2, PutChanges
    <2>4. ChangedAt(configurable, identity, {"user_id"} \cup {"gateway_agent_key"})
      BY <2>1, <2>3, ChangesAdd
    <2>5. ChangedAt(At(config, "configurable"), identity,
                    {} \cup ({"user_id"} \cup {"gateway_agent_key"}))
      BY <1>3, <2>4, ChangesAdd
    <2>6. {} \cup ({"user_id"} \cup {"gateway_agent_key"})
            = {"user_id", "gateway_agent_key"}
      OBVIOUS
    <2>7. At(identity, "user_id") = Str(r.user)
      BY <2>1, <2>2, <2>3 DEF ChangedAt, At, Keys
    <2> QED
      BY <2>3, <2>5, <2>6, <2>7
  <1> QED
    BY <1>4, <1>5, <1>6, <1>7 DEF NamesCaller, after

\* The owner is written into the metadata, and nothing else is touched.
LEMMA OwnershipIsExact ==
  ASSUME NEW r, IsDict(Payload(r))
  PROVE  LET v == Payload(r)  w == OwnerSet(r)
         IN  /\ ~(r.path = Search /\ r.admin) => NamesOwner(v, w, r)
             /\ r.path = Search /\ r.admin =>
                   /\ ChangedAt(v, w, {"metadata"})
                   /\ ChangedAt(At(v, "metadata"), At(w, "metadata"), {})
  <1> DEFINE v == Payload(r)
             w == OwnerSet(r)
             metadata == DictAt(v, "metadata")
             owned == Put(metadata, "owner", Str(r.user))
  <1>1. IsDict(metadata) /\ ChangedAt(At(v, "metadata"), metadata, {})
    BY DictAtChanges
  <1>2. CASE r.path = Search /\ r.admin
    <2>1. w = Put(v, "metadata", metadata)
      BY <1>2 DEF OwnerSet
    <2> QED
      BY <1>1, <1>2, <2>1, PutChanges
  <1>3. CASE ~(r.path = Search /\ r.admin)
    <2>1. w = Put(v, "metadata", owned)
      BY <1>3 DEF OwnerSet
    <2>2. ChangedAt(v, w, {"metadata"}) /\ At(w, "metadata") = owned
      BY <2>1, PutChanges
    <2>3. ChangedAt(metadata, owned, {"owner"}) /\ At(owned, "owner") = Str(r.user)
      BY <1>1, PutChanges
    <2>4. ChangedAt(At(v, "metadata"), owned, {} \cup {"owner"})
      BY <1>1, <2>3, ChangesAdd
    <2>5. {} \cup {"owner"} = {"owner"}
      OBVIOUS
    <2> QED
      BY <1>3, <2>2, <2>3, <2>4, <2>5 DEF NamesOwner
  <1> QED
    BY <1>2, <1>3

\* What is neither refused nor unreadable is sent with the identity, the owner, or
\* as it is.
THEOREM ForwardedIsExact ==
  ASSUME NEW r, ~Rejected(r), ~Unreadable(r)
  PROVE  LET v == Payload(r)  body == Forwarded(r)  w == body.value IN
         /\ ~Applies(r) => body = r.body
         /\ r.post /\ IsRunCreatePath(r.path) => NamesCaller(v, w, r)
         /\ r.post /\ r.path = Batch =>
               /\ DOMAIN w.items = DOMAIN v.items
               /\ \A i \in DOMAIN v.items : NamesCaller(v.items[i], w.items[i], r)
         /\ r.post /\ r.path \in {Threads, Search} =>
               IF Malformed(r) THEN body = r.body
               ELSE IF r.path = Search /\ r.admin
               THEN /\ ChangedAt(v, w, {"metadata"})
                    /\ ChangedAt(At(v, "metadata"), At(w, "metadata"), {})
               ELSE NamesOwner(v, w, r)
  <1> DEFINE v == Payload(r)
             body == Forwarded(r)
             w == body.value
  <1>1. /\ IsRunPath(r.path) => r.path \notin {Threads, Search}
        /\ IsRunCreatePath(r.path) => r.path # Batch
        /\ Batch \notin {Threads, Search}
    BY DEF IsRunPath, IsRunCreatePath, Threads, Search, Batch
  <1>2. ~Applies(r) => body = r.body
    BY DEF Forwarded
  <1>3. ASSUME r.post, IsRunPath(r.path)
        PROVE  /\ ~Malformed(r) /\ PassesAssertion(r, Rewritten(r))
               /\ w = Rewritten(r)
    <2>1. Applies(r) /\ ~Malformed(r) /\ PassesAssertion(r, Rewritten(r))
      BY <1>3 DEF Applies, Rejected
    <2> QED
      BY <2>1 DEF Forwarded
  <1>4. ASSUME r.post, IsRunCreatePath(r.path)
        PROVE  NamesCaller(v, w, r)
    <2>1. IsRunPath(r.path)
      BY <1>4 DEF IsRunPath
    <2>2. IsDict(v)
      BY <1>1, <1>3, <1>4, <2>1 DEF Malformed, Payload, EmptyDict, Dict, IsDict
    <2>3. w = InjectIdentity(v, r.user, r.key)
      BY <1>1, <1>3, <1>4, <2>1, <2>2 DEF Rewritten, IdentitySet
    <2> QED
      BY <2>2, <2>3, InjectionIsExact
  <1>5. ASSUME r.post, r.path = Batch
        PROVE  /\ DOMAIN w.items = DOMAIN v.items
               /\ \A i \in DOMAIN v.items : NamesCaller(v.items[i], w.items[i], r)
    <2> DEFINE after == [i \in DOMAIN v.items |-> IdentitySet(r, v.items[i])]
    <2>1. IsRunPath(r.path)
      BY <1>5 DEF IsRunPath
    <2>2. Rewritten(r) = List(after)
      BY <1>1, <1>5 DEF Rewritten
    <2>3. w.items = after
      BY <1>3, <1>5, <2>1, <2>2 DEF List
    <2>4. ASSUME NEW i \in DOMAIN v.items
          PROVE  NamesCaller(v.items[i], w.items[i], r)
      <3>1. w.items[i] = IdentitySet(r, v.items[i])
        BY <2>3
      <3>2. IsDict(w.items[i])
        BY <1>3, <1>5, <2>1, <2>3 DEF PassesAssertion
      <3>3. /\ IsDict(v.items[i])
            /\ w.items[i] = InjectIdentity(v.items[i], r.user, r.key)
        BY <3>1, <3>2 DEF IdentitySet
      <3> QED
        BY <3>3, InjectionIsExact
    <2> QED
      BY <2>3, <2>4
  <1>6. ASSUME r.post, r.path \in {Threads, Search}
        PROVE  IF Malformed(r) THEN body = r.body
               ELSE IF r.path = Search /\ r.admin
               THEN /\ ChangedAt(v, w, {"metadata"})
                    /\ ChangedAt(At(v, "metadata"), At(w, "metadata"), {})
               ELSE NamesOwner(v, w, r)
    <2>1. CASE Malformed(r)
      BY <2>1 DEF Forwarded
    <2>2. CASE ~Malformed(r)
      <3>1. IsDict(v)
        BY <1>1, <1>6, <2>2 DEF Malformed, Payload, EmptyDict, Dict, IsDict
      <3>2. w = OwnerSet(r)
        BY <1>6, <2>2 DEF Forwarded, Applies, Rewritten
      <3> QED
        BY <2>2, <3>1, <3>2, OwnershipIsExact
    <2> QED
      BY <2>1, <2>2
  <1> QED
    BY <1>2, <1>4, <1>5, <1>6

\* A run that is created on a path that ends in stream is on a stream path.
LEMMA CreatedStreams ==
  ASSUME NEW p, IsRunCreatePath(p), p[Len(p)] = "stream"
  PROVE  IsStreamPath(p)
  <1>1. CASE p \in {<<"runs">>, <<"runs", "stream">>, <<"runs", "wait">>}
    BY <1>1 DEF IsStreamPath
  <1>2. ASSUME NEW t \in Named,
               p \in {<<"threads", t, "runs">>, <<"threads", t, "runs", "stream">>,
                      <<"threads", t, "runs", "wait">>}
        PROVE  p = <<"threads", t, "runs", "stream">>
    <2>1. CASE p = <<"threads", t, "runs">>
      BY <2>1
    <2>2. CASE p = <<"threads", t, "runs", "wait">>
      BY <2>2
    <2> QED
      BY <1>2, <2>1, <2>2
  <1> QED
    BY <1>1, <1>2 DEF IsRunCreatePath, IsStreamPath

\* A search by somebody who is no admin asks for the threads of that user, or goes
\* through as it is.
LEMMA OwnerOfSearch ==
  ASSUME NEW r, r.path = Search, r.post, ~r.admin
  PROVE  \/ /\ Forwarded(r).type = "json" /\ IsDict(Forwarded(r).value)
            /\ Get(Get(Forwarded(r).value, "metadata"), "owner") = Str(r.user)
         \/ Malformed(r) /\ Forwarded(r) = r.body
  <1>1. CASE Malformed(r)
    BY <1>1 DEF Forwarded
  <1>2. CASE ~Malformed(r)
    <2>1. Forwarded(r) = [type |-> "json", value |-> OwnerSet(r)]
      BY <1>2 DEF Forwarded, Applies, Rewritten
    <2>2. IsDict(OwnerSet(r)) /\ Get(Get(OwnerSet(r), "metadata"), "owner") = Str(r.user)
      BY GetPut DEF OwnerSet
    <2> QED
      BY <2>1, <2>2
  <1> QED
    BY <1>1, <1>2

-----------------------------------------------------------------------------
(* The path *)

\* A path without syntax of a URL is what is left of it.
THEOREM PlainPathKept == ASSUME NEW p, Plain(p) PROVE UrlPath(p) = p
  <1>1. UpToQuery(p) = p
    BY DEF Plain, UpToQuery
  <1>2. WithoutDots(p) = p
    BY DEF Plain, WithoutDots
  <1>3. AsDecoded(p) = p
    BY DEF Plain, AsDecoded
  <1> QED
    BY <1>1, <1>2, <1>3 DEF UrlPath

-----------------------------------------------------------------------------
(* The facts of a request *)

\* What the facts say about the database.
LEMMA FactsOf ==
  ASSUME grants \subseteq User \X Agent
  PROVE  /\ \A u : <<"active", u>> \in Facts <=> u \in Active
         /\ \A u : <<"admin", u>> \in Facts <=> u \in Admins
         /\ \A u, a : <<"grant", u, a>> \in Facts <=> <<u, a>> \in grants
         /\ \A a, k : <<"serves", a, k>> \in Facts <=> a \in Serving /\ agents[a].key = k
         /\ \A a \in Serving : <<"agent", a, agents[a].key, agents[a].url>> \in Facts
  <1>1. \A u : <<"active", u>> \in Facts <=> u \in Active
    BY DEF Facts
  <1>2. \A u : <<"admin", u>> \in Facts <=> u \in Admins
    BY DEF Facts
  <1>3. \A u, a : <<"grant", u, a>> \in Facts <=> <<u, a>> \in grants
    BY DEF Facts
  <1>4. \A a, k : <<"serves", a, k>> \in Facts <=> a \in Serving /\ agents[a].key = k
    BY DEF Facts
  <1>5. \A a \in Serving : <<"agent", a, agents[a].key, agents[a].url>> \in Facts
    BY DEF Facts
  <1> QED
    BY <1>1, <1>2, <1>3, <1>4, <1>5

-----------------------------------------------------------------------------
(* The inductive invariant *)

UniqueKeys ==
    \A a, b \in Agent :
        a # b /\ HasAgent(a) /\ HasAgent(b) => agents[a].key # agents[b].key

\* The database is sound, and the history brackets it.
Sound ==
    /\ users \in [User -> UserRow \cup {Deleted}]
    /\ agents \in [Agent -> AgentRow \cup {Absent, Deleted}]
    /\ grants \subseteq User \X Agent
    /\ edits \in 0..MaxEdits
    /\ UniqueKeys
    /\ pc # "idle" => Facts \subseteq ever /\ always \subseteq Facts

Late == {"upstream", "stream", "background"}

\* What a request has behind it when it gets so far.
Passed ==
    /\ pc \in {"agent", "access", "body"} \cup Late =>
          /\ <<"active", caller>> \in ever
          /\ admin => <<"admin", caller>> \in ever
    /\ pc \in {"access", "body"} \cup Late =>
          <<"agent", found.id, key, found.url>> \in ever
    /\ pc = "access" => \A a : <<"serves", a, key>> \in always => a = found.id
    /\ pc \in {"body"} \cup Late => <<"grant", caller, found.id>> \in ever

\* Before it has been sent, and before it is answered.
Fresh ==
    /\ pc \notin Late \cup {"done"} => sent = NotSent /\ ~client
    /\ pc # "done" => answer = "none"

Promises ==
    ForwardedWasAllowed /\ RefusedWithReason /\ SearchesStayScoped /\ ClientsReleased

\* What is sent is what was asked, rewritten, or the refusal has its reason.
Exact == OnlyIdentityChanges /\ WellFormedIsForwarded /\ NewStreamsAreStreams

IInv == TypeOK /\ Sound /\ Passed /\ Fresh /\ Promises /\ Exact

\* It holds before the request has come.
LEMMA InitIInv == Init => IInv
  <1> SUFFICES ASSUME Init PROVE IInv
    OBVIOUS
  <1>1. /\ users \in [User -> UserRow \cup {Deleted}]
        /\ agents \in [Agent -> AgentRow \cup {Absent, Deleted}]
        /\ grants \subseteq User \X Agent
        /\ UniqueKeys
    BY DEF Init, UniqueKeys
  <1>a. edits \in 0..MaxEdits
    BY BoundAssumption DEF Init
  <1>2. TypeOK /\ Sound
    <2>1. TypeOK
      BY <1>1, <1>a DEF Init, TypeOK
    <2>2. Sound
      BY <1>1, <1>a DEF Init, Sound
    <2> QED
      BY <2>1, <2>2
  <1>3. Passed /\ Fresh
    BY DEF Init, Passed, Fresh, Late
  <1>4. Promises
    BY DEF Init, Promises, ForwardedWasAllowed, RefusedWithReason, SearchesStayScoped,
           ClientsReleased
  <1>5. Exact
    BY DEF Init, Exact, OnlyIdentityChanges, WellFormedIsForwarded, NewStreamsAreStreams
  <1> QED
    BY <1>2, <1>3, <1>4, <1>5 DEF IInv

\* Facts only change with the tables.
LEMMA FactsStay == ASSUME UNCHANGED database PROVE Facts' = Facts
  BY DEF database, Facts, Active, Admins, Serving, HasUser, HasAgent

\* The same of the request, once it has arrived.
LEMMA SoundStays ==
  ASSUME Sound, UNCHANGED <<database, history>>, pc' # "idle", pc # "idle"
  PROVE  Sound'
  BY FactsStay DEF Sound, UniqueKeys, HasAgent, database, history

\* So are the request and what was sent, unless a step answers 400.
LEMMA ExactStays ==
  ASSUME Exact, UNCHANGED <<asked, sent>>, answer' # answer => answer' # "400"
  PROVE  Exact'
  <1>1. OnlyIdentityChanges'
    BY DEF Exact, OnlyIdentityChanges
  <1>2. WellFormedIsForwarded'
    BY DEF Exact, WellFormedIsForwarded
  <1>3. NewStreamsAreStreams'
    BY DEF Exact, NewStreamsAreStreams, Streamed
  <1> QED
    BY <1>1, <1>2, <1>3 DEF Exact

\* A saved form keeps the tables sound.
LEMMA ConsoleSound == ASSUME Sound, Console PROVE Sound'
  <1>1. Saved
    BY DEF Console, SaveUser, DeleteUser, SaveAgent, DeleteAgent, Grant, Revoke,
           Regrant
  <1>2. /\ edits' \in 0..MaxEdits
        /\ Facts' \subseteq ever' /\ always' \subseteq Facts'
    BY <1>1, BoundAssumption DEF Saved, Sound
  <1>3. ASSUME NEW u \in User, SaveUser(u) \/ DeleteUser(u)
        PROVE  /\ UNCHANGED agents
               /\ users' \in [User -> UserRow \cup {Deleted}]
               /\ grants' \subseteq User \X Agent
    BY <1>3 DEF SaveUser, DeleteUser, Sound
  <1>4. ASSUME NEW a \in Agent, SaveAgent(a)
        PROVE  /\ UNCHANGED <<users, grants>>
               /\ agents' \in [Agent -> AgentRow \cup {Absent, Deleted}]
               /\ UniqueKeys'
    <2>1. PICK row \in AgentRow :
            /\ \A b \in Agent \ {a} : HasAgent(b) => agents[b].key # row.key
            /\ agents' = [agents EXCEPT ![a] = row]
      BY <1>4 DEF SaveAgent
    <2>2. agents' \in [Agent -> AgentRow \cup {Absent, Deleted}]
      BY <2>1 DEF Sound
    <2>3. agents'[a] = row /\ \A b \in Agent \ {a} : agents'[b] = agents[b]
      BY <2>1 DEF Sound
    <2>4. UniqueKeys'
      BY <2>1, <2>3 DEF Sound, UniqueKeys, HasAgent
    <2> QED
      BY <1>4, <2>2, <2>4 DEF SaveAgent
  <1>5. ASSUME NEW a \in Agent, DeleteAgent(a)
        PROVE  /\ UNCHANGED users
               /\ grants' \subseteq User \X Agent
               /\ agents' \in [Agent -> AgentRow \cup {Absent, Deleted}]
               /\ UniqueKeys'
    <2>1. /\ agents' = [agents EXCEPT ![a] = Deleted]
          /\ UNCHANGED users /\ grants' \subseteq User \X Agent
      BY <1>5 DEF DeleteAgent, Sound
    <2>2. agents'[a] = Deleted /\ \A b \in Agent \ {a} : agents'[b] = agents[b]
      BY <2>1 DEF Sound
    <2> QED
      BY <2>1, <2>2 DEF Sound, UniqueKeys, HasAgent
  <1>6. ASSUME NEW u \in User, NEW a \in Agent, Grant(u, a) \/ Revoke(u, a)
        PROVE  UNCHANGED <<users, agents>> /\ grants' \subseteq User \X Agent
    BY <1>6 DEF Grant, Revoke, Sound
  <1>7. ASSUME NEW g \in grants, NEW u \in User, NEW a \in Agent, Regrant(g, u, a)
        PROVE  UNCHANGED <<users, agents>> /\ grants' \subseteq User \X Agent
    BY <1>7 DEF Regrant, Sound
  <1>8. UNCHANGED agents => UniqueKeys'
    BY DEF Sound, UniqueKeys, HasAgent
  <1> QED
    BY <1>2, <1>3, <1>4, <1>5, <1>6, <1>7, <1>8 DEF Console, Sound

\* A saved form takes nothing from what a request has behind it.
LEMMA ConsoleKeeps == ASSUME IInv, Console PROVE IInv'
  <1>1. Saved
    BY DEF Console, SaveUser, DeleteUser, SaveAgent, DeleteAgent, Grant, Revoke,
           Regrant
  <1>2. /\ UNCHANGED <<pc, caller, key, admin, found, asked, sent, client, answer>>
        /\ ever \subseteq ever' /\ always' \subseteq always
    BY <1>1 DEF Saved
  <1>3. Sound'
    BY ConsoleSound DEF IInv
  <1>4. TypeOK'
    BY <1>2, <1>3 DEF IInv, TypeOK, Sound
  <1>5. Passed' /\ Fresh'
    BY <1>2 DEF IInv, Passed, Fresh
  <1>6. ForwardedWasAllowed' /\ ClientsReleased'
    BY <1>2 DEF IInv, Promises, ForwardedWasAllowed, ClientsReleased
  <1>7. RefusedWithReason'
    BY <1>2 DEF IInv, Promises, RefusedWithReason
  <1>8. SearchesStayScoped'
    BY <1>2 DEF IInv, Promises, SearchesStayScoped
  <1>9. Exact'
    BY <1>2, ExactStays DEF IInv
  <1> QED
    BY <1>3, <1>4, <1>5, <1>6, <1>7, <1>8, <1>9 DEF IInv, Promises

-----------------------------------------------------------------------------
(* The steps of the request *)

\* The request starts with the facts of this moment.
LEMMA ArriveKeeps ==
  ASSUME IInv, NEW u \in User \cup {None}, NEW k \in Key, Arrive(u, k)
  PROVE  IInv'
  <1>1. TypeOK'
    BY DEF IInv, TypeOK, Arrive, database
  <1>2. Sound'
    BY FactsStay DEF IInv, Sound, UniqueKeys, HasAgent, Arrive, database
  <1>3. Passed' /\ Fresh'
    BY DEF IInv, Passed, Fresh, Late, Arrive
  <1>4. Promises'
    <2>1. sent' = NotSent /\ client' = FALSE /\ answer' = "none"
      BY DEF IInv, Fresh, Late, Arrive
    <2> QED
      BY <2>1 DEF Promises, ForwardedWasAllowed, RefusedWithReason,
                  SearchesStayScoped, ClientsReleased
  <1>5. Exact'
    BY ExactStays DEF Arrive, IInv
  <1> QED
    BY <1>1, <1>2, <1>3, <1>4, <1>5 DEF IInv

\* The three reads: what is found is a fact at this moment.
LEMMA ReadKeeps ==
  ASSUME IInv, Authenticate \/ FindAgent \/ CheckAccess
  PROVE  IInv'
  <1>1. /\ UNCHANGED <<database, history, caller, key, asked, sent, client, answer>>
        /\ pc \in {"auth", "agent", "access"}
        /\ pc' \in {"agent", "access", "body"}
    BY DEF Authenticate, FindAgent, CheckAccess
  <1>2. Sound' /\ Facts \subseteq ever /\ always \subseteq Facts
    BY <1>1, SoundStays DEF IInv, Sound
  <1>3. grants \subseteq User \X Agent /\ UniqueKeys
    BY DEF IInv, Sound
  <1>4. Fresh' /\ sent' = NotSent /\ client' = FALSE /\ answer' = "none"
    BY <1>1 DEF IInv, Fresh, Late, TypeOK
  <1>5. Promises'
    BY <1>1, <1>4 DEF Promises, ForwardedWasAllowed, RefusedWithReason,
                      SearchesStayScoped, ClientsReleased
  <1>6. TypeOK' /\ Passed'
    <2>1. CASE Authenticate
      <3>1. caller \in User /\ users[caller] \in UserRow
        BY <2>1 DEF Authenticate, Active, HasUser, IInv, TypeOK
      <3>2. admin' = users[caller].admin /\ admin' \in BOOLEAN
        BY <2>1, <3>1 DEF Authenticate, UserRow
      <3>3. caller \in Active /\ (admin' => caller \in Admins)
        BY <2>1, <3>1, <3>2 DEF Authenticate, Active, Admins
      <3>4. <<"active", caller>> \in ever /\ (admin' => <<"admin", caller>> \in ever)
        BY <1>2, <1>3, <3>3, FactsOf
      <3>5. TypeOK'
        BY <1>1, <2>1, <3>2 DEF Authenticate, IInv, TypeOK, database
      <3>6. Passed'
        BY <1>1, <2>1, <3>4 DEF Authenticate, Passed, Late, history
      <3> QED
        BY <3>5, <3>6
    <2>2. CASE FindAgent
      <3>1. PICK a \in Serving : /\ agents[a].key = key
                                 /\ found' = [id |-> a, url |-> agents[a].url]
        BY <2>2 DEF FindAgent
      <3>2. a \in Agent /\ agents[a] \in AgentRow
        BY DEF Serving, HasAgent, IInv, TypeOK
      <3>3. found'.id = a /\ found'.url = agents[a].url
        BY <3>1
      <3>4. <<"agent", found'.id, key, found'.url>> \in ever
        BY <1>2, <1>3, <3>1, <3>3, FactsOf
      <3>5. ASSUME NEW b, <<"serves", b, key>> \in always PROVE b = a
        <4>1. b \in Serving /\ agents[b].key = key
          BY <1>2, <1>3, <3>5, FactsOf
        <4> QED
          BY <1>3, <3>1, <4>1 DEF UniqueKeys, Serving
      <3>6. TypeOK'
        BY <1>1, <2>2, <3>1, <3>2 DEF FindAgent, AgentRow, IInv, TypeOK, database
      <3>7. Passed'
        BY <1>1, <2>2, <3>3, <3>4, <3>5 DEF FindAgent, IInv, Passed, Late, history
      <3> QED
        BY <3>6, <3>7
    <2>3. CASE CheckAccess
      <3>1. <<"grant", caller, found.id>> \in ever
        BY <1>2, <1>3, <2>3, FactsOf DEF CheckAccess
      <3>2. TypeOK'
        BY <1>1, <2>3 DEF CheckAccess, IInv, TypeOK, database
      <3>3. Passed'
        BY <1>1, <2>3, <3>1 DEF CheckAccess, IInv, Passed, Late, history
      <3> QED
        BY <3>2, <3>3
    <2> QED
      BY <2>1, <2>2, <2>3
  <1>7. Exact'
    BY <1>1, ExactStays DEF IInv
  <1> QED
    BY <1>2, <1>4, <1>5, <1>6, <1>7 DEF IInv

\* A refusal: what is missing now was not there all the time.
LEMMA RefusalKeeps ==
  ASSUME IInv, Unauthenticated \/ AgentNotFound \/ Forbidden
  PROVE  IInv'
  <1>1. /\ UNCHANGED <<database, history, caller, key, admin, found, asked, sent, client>>
        /\ pc \in {"auth", "agent", "access"} /\ pc' = "done"
        /\ answer' \in {"401", "404", "403"}
    BY DEF Unauthenticated, AgentNotFound, Forbidden, Answer
  <1>2. Sound' /\ always \subseteq Facts
    BY <1>1, SoundStays DEF IInv, Sound
  <1>3. grants \subseteq User \X Agent
    BY DEF IInv, Sound
  <1>4. Fresh' /\ sent' = NotSent /\ client' = FALSE
    BY <1>1 DEF IInv, Fresh, Late, TypeOK
  <1>5. TypeOK' /\ Passed'
    BY <1>1 DEF IInv, TypeOK, Passed, Late, database
  <1>6. ForwardedWasAllowed' /\ SearchesStayScoped' /\ ClientsReleased'
    BY <1>1, <1>4 DEF ForwardedWasAllowed, SearchesStayScoped, ClientsReleased
  <1>7. RefusedWithReason'
    <2>1. CASE Unauthenticated
      BY <1>1, <1>2, <1>3, <2>1, FactsOf
      DEF Unauthenticated, Answer, RefusedWithReason, history
    <2>2. CASE AgentNotFound
      <3>1. \A a : <<"serves", a, key>> \notin always
        BY <1>2, <1>3, <2>2, FactsOf DEF AgentNotFound
      <3>2. answer' = "404"
        BY <2>2 DEF AgentNotFound, Answer
      <3> QED
        BY <1>1, <3>1, <3>2 DEF RefusedWithReason, history
    <2>3. CASE Forbidden
      <3>1. \A a : <<"serves", a, key>> \in always => a = found.id
        BY <2>3 DEF Forbidden, IInv, Passed
      <3>2. <<"grant", caller, found.id>> \notin always
        BY <1>2, <1>3, <2>3, FactsOf DEF Forbidden
      <3> QED
        BY <1>1, <2>3, <3>1, <3>2 DEF Forbidden, Answer, RefusedWithReason, history
    <2> QED
      BY <2>1, <2>2, <2>3
  <1>8. Exact'
    BY <1>1, ExactStays DEF IInv
  <1> QED
    BY <1>2, <1>4, <1>5, <1>6, <1>7, <1>8 DEF IInv, Promises

\* An answer before anything is sent.
LEMMA BodyKeeps ==
  ASSUME IInv, ServeFile \/ BodyLost \/ BodyUnreadable \/ BodyRejected
  PROVE  IInv'
  <1>1. /\ UNCHANGED <<database, history, caller, key, admin, found, sent, client>>
        /\ pc = "body" /\ pc' = "done"
        /\ answer' \in {"file", "404 file", "crashed", "400"}
    BY DEF ServeFile, BodyLost, BodyUnreadable, BodyRejected, Answer
  <1>2. Sound'
    BY <1>1, SoundStays DEF IInv
  <1>3. TypeOK' /\ Passed'
    BY <1>1 DEF IInv, TypeOK, Passed, Late, database
  <1>4. Fresh' /\ sent' = NotSent /\ client' = FALSE
    BY <1>1 DEF IInv, Fresh, Late, TypeOK
  <1>5. ForwardedWasAllowed'
    BY <1>1, <1>4 DEF IInv, Passed, ForwardedWasAllowed, history
  <1>6. RefusedWithReason' /\ SearchesStayScoped' /\ ClientsReleased'
    BY <1>1, <1>4 DEF RefusedWithReason, SearchesStayScoped, ClientsReleased
  <1>7. OnlyIdentityChanges' /\ NewStreamsAreStreams'
    BY <1>4 DEF OnlyIdentityChanges, NewStreamsAreStreams
  <1>8. WellFormedIsForwarded'
    <2> SUFFICES ASSUME answer' = "400" PROVE WellFormedIsForwarded'
      BY DEF WellFormedIsForwarded
    <2>1. Rejected(asked')
      BY DEF ServeFile, BodyLost, BodyUnreadable, BodyRejected, Answer
    <2> QED
      BY <2>1, RejectedWithReason DEF WellFormedIsForwarded
  <1> QED
    BY <1>2, <1>3, <1>4, <1>5, <1>6, <1>7, <1>8 DEF IInv, Promises, Exact

\* What is sent has all that a request needs behind it.
LEMMA SendKeeps == ASSUME IInv, Send PROVE IInv'
  <1>1. PICK r \in Requests :
          /\ ~Unreadable(Identified(r)) /\ ~Rejected(Identified(r))
          /\ asked' = Identified(r)
          /\ sent' = [path |-> UrlPath(Base[found.url] \o r.path), post |-> r.post,
                      url |-> found.url, body |-> Forwarded(Identified(r))]
    BY DEF Send
  <1>2. /\ UNCHANGED <<database, history, caller, key, admin, found, answer>>
        /\ pc = "body" /\ pc' = "upstream" /\ client'
        /\ client' \in BOOLEAN
    BY DEF Send
  <1>3. Sound'
    BY <1>2, SoundStays DEF IInv
  <1>4. TypeOK'
    BY <1>2 DEF IInv, TypeOK, database
  <1>5. Passed' /\ Fresh'
    BY <1>2 DEF IInv, Passed, Fresh, Late, history
  <1>6. answer' = "none"
    BY <1>2 DEF IInv, Fresh
  <1>7. ForwardedWasAllowed'
    BY <1>1, <1>2 DEF IInv, Passed, ForwardedWasAllowed, history
  <1>8. RefusedWithReason' /\ ClientsReleased'
    BY <1>2, <1>6 DEF RefusedWithReason, ClientsReleased
  <1>9. SearchesStayScoped'
    <2> SUFFICES ASSUME r.post, r.path = Search, <<"admin", caller>> \notin ever
                 PROVE  LET body == Forwarded(Identified(r)) IN
                        \/ /\ body.type = "json" /\ IsDict(body.value)
                           /\ Get(Get(body.value, "metadata"), "owner") = Str(caller)
                        \/ Malformed(Identified(r)) /\ body = Identified(r).body
      BY <1>1, <1>2 DEF SearchesStayScoped, Identified, history
    <2>1. ~admin
      BY <1>2 DEF IInv, Passed
    <2>2. /\ Identified(r).path = Search /\ Identified(r).post
          /\ ~Identified(r).admin /\ Identified(r).user = caller
      BY <2>1 DEF Identified
    <2> QED
      BY <2>2, OwnerOfSearch
  <1>10. /\ sent'.post = asked'.post /\ sent'.body = Forwarded(asked')
         /\ sent'.path = UrlPath(Base[sent'.url] \o asked'.path)
    BY <1>1 DEF Identified
  <1>11. OnlyIdentityChanges'
    BY <1>1, <1>10, ForwardedIsExact, PlainPathKept DEF OnlyIdentityChanges
  <1>12. WellFormedIsForwarded'
    BY <1>6 DEF WellFormedIsForwarded
  <1>13. NewStreamsAreStreams'
    BY CreatedStreams DEF NewStreamsAreStreams, Streamed
  <1> QED
    BY <1>3, <1>4, <1>5, <1>7, <1>8, <1>9, <1>11, <1>12, <1>13 DEF IInv, Promises, Exact

\* What the upstream does changes how the request ends, and nothing of its past.
LEMMA UpstreamKeeps ==
  ASSUME IInv,
         \/ UpstreamFails \/ ReadTimeout \/ UpstreamError \/ UpstreamAnswers
         \/ UpstreamStreams \/ StreamEnds \/ StreamBreaks \/ CloseStream
  PROVE  IInv'
  <1>1. /\ UNCHANGED <<database, history, caller, key, admin, found, asked, sent>>
        /\ pc \in Late
        /\ client' \in {client, FALSE}
        /\ \/ pc' \in Late /\ answer' = answer
           \/ /\ pc' = "done"
              /\ answer' \in {"502", "answered", "openapi", "crashed"}
              /\ client' => answer' = "crashed"
    BY DEF UpstreamFails, ReadTimeout, UpstreamError, UpstreamAnswers, UpstreamStreams,
           StreamEnds, StreamBreaks, CloseStream, Answer, Late
  <1>2. Sound'
    BY <1>1, SoundStays DEF IInv, Late
  <1>3. TypeOK'
    BY <1>1 DEF IInv, TypeOK, Late, database
  <1>4. Passed'
    BY <1>1 DEF IInv, Passed, Late, history
  <1>5. Fresh'
    BY <1>1 DEF IInv, Fresh, Late
  <1>6. ForwardedWasAllowed'
    BY <1>1 DEF IInv, Passed, Promises, ForwardedWasAllowed, history
  <1>7. RefusedWithReason'
    <2>1. answer' # "401" /\ answer' # "403" /\ answer' # "404"
      BY <1>1 DEF IInv, Fresh, Late
    <2> QED
      BY <2>1 DEF RefusedWithReason
  <1>8. ClientsReleased'
    BY <1>1 DEF ClientsReleased, Late
  <1>9. SearchesStayScoped'
    BY <1>1 DEF IInv, Promises, SearchesStayScoped, history
  <1>10. Exact'
    BY <1>1, ExactStays DEF IInv
  <1> QED
    BY <1>2, <1>3, <1>4, <1>5, <1>6, <1>7, <1>8, <1>9, <1>10 DEF IInv, Promises

\* Every step keeps the invariant.
LEMMA NextIInv == IInv /\ [Next]_vars => IInv'
  <1> SUFFICES ASSUME IInv, [Next]_vars PROVE IInv'
    OBVIOUS
  <1>1. CASE Console
    BY <1>1, ConsoleKeeps
  <1>2. CASE Gateway
    BY <1>2, ReadKeeps, RefusalKeeps, UpstreamKeeps DEF Gateway
  <1>3. CASE Peers
    BY <1>3, ArriveKeeps, BodyKeeps, SendKeeps, UpstreamKeeps DEF Peers
  <1>4. CASE UNCHANGED vars
    <2>1. UNCHANGED <<users, agents, grants, edits>>
      BY <1>4 DEF vars, database
    <2>2. UNCHANGED <<pc, caller, key, admin, found, asked, sent, client, answer, ever,
                      always>>
      BY <1>4 DEF vars, history
    <2>3. TypeOK' /\ Passed' /\ Fresh'
      BY <2>1, <2>2 DEF IInv, TypeOK, Passed, Fresh
    <2>4. Sound'
      BY <2>1, <2>2, FactsStay DEF IInv, Sound, UniqueKeys, HasAgent, database
    <2>5. Promises'
      BY <2>1, <2>2 DEF IInv, Promises, ForwardedWasAllowed, RefusedWithReason,
                        SearchesStayScoped, ClientsReleased
    <2>6. Exact'
      BY <2>2, ExactStays DEF IInv
    <2> QED
      BY <2>3, <2>4, <2>5, <2>6 DEF IInv
  <1> QED
    BY <1>1, <1>2, <1>3, <1>4 DEF Next

-----------------------------------------------------------------------------
(* Theorems *)

\* The invariant holds in every reachable state.
THEOREM ProxyInvariant == Spec => []IInv
  BY InitIInv, NextIInv, PTL DEF Spec

\* The types of the variables.
THEOREM ProxyTypes == Spec => []TypeOK
  <1>1. IInv => TypeOK
    BY DEF IInv
  <1> QED
    BY <1>1, ProxyInvariant, PTL

\* What is forwarded, or read from a file, had an active user, the agent and a grant
\* behind it, each since the request arrived.
THEOREM ProxyForwards == Spec => []ForwardedWasAllowed
  <1>1. IInv => ForwardedWasAllowed
    BY DEF IInv, Promises
  <1> QED
    BY <1>1, ProxyInvariant, PTL

\* A refusal has its reason in something that was missing since the request arrived.
THEOREM ProxyRefuses == Spec => []RefusedWithReason
  <1>1. IInv => RefusedWithReason
    BY DEF IInv, Promises
  <1> QED
    BY <1>1, ProxyInvariant, PTL

\* A search, by the path the gateway reads, of somebody who was no admin asks for the
\* threads of that user, unless its body is no JSON object, which goes through as it is.
THEOREM ProxySearches == Spec => []SearchesStayScoped
  <1>1. IInv => SearchesStayScoped
    BY DEF IInv, Promises
  <1> QED
    BY <1>1, ProxyInvariant, PTL

\* A request that ends without an uncaught exception has closed its client.
THEOREM ProxyReleases == Spec => []ClientsReleased
  <1>1. IInv => ClientsReleased
    BY DEF IInv, Promises
  <1> QED
    BY <1>1, ProxyInvariant, PTL

\* On every path that the gateway reads as a run, a thread or a search, the body that
\* is sent has the identity or the owner in its place and everywhere else what came;
\* the upstream reads the same path where nothing in it is syntax of a URL.
THEOREM ProxyRewrites == Spec => []OnlyIdentityChanges
  <1>1. IInv => OnlyIdentityChanges
    BY DEF IInv, Exact
  <1> QED
    BY <1>1, ProxyInvariant, PTL

\* No body of the right shape is refused, whatever it has in the place of the identity.
THEOREM ProxyAccepts == Spec => []WellFormedIsForwarded
  <1>1. IInv => WellFormedIsForwarded
    BY DEF IInv, Exact
  <1> QED
    BY <1>1, ProxyInvariant, PTL

\* A run that is created on a stream path, by the path the gateway reads, is read as
\* a stream.
THEOREM ProxyStreams == Spec => []NewStreamsAreStreams
  <1>1. IInv => NewStreamsAreStreams
    BY DEF IInv, Exact
  <1> QED
    BY <1>1, ProxyInvariant, PTL

=============================================================================
