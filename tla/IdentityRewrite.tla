--------------------------- MODULE IdentityRewrite ---------------------------
(***************************************************************************)
(* What the proxy makes of a request before it forwards it: the body that  *)
(* _maybe_rewrite_body_for_identity returns, the two path patterns, and    *)
(* the path that is left of the URL.  Operators only; AgentProxy uses them *)
(* in its steps.                                                           *)
(***************************************************************************)
EXTENDS Naturals, SequencesExt

CONSTANTS
    Segment,   \* what stands between two slashes of a path; "" is nothing
    Cut,       \* Cut[s]: the part of s in front of its first ? or #, or s itself
    Decoded    \* Decoded[s]: the segments a server reads in s behind its escapes

ASSUME CutAssumption == Cut \in [Segment -> Segment]
ASSUME DecodedAssumption == Decoded \in [Segment -> Seq(Segment)]

Named == Segment \ {""}

-----------------------------------------------------------------------------
(* JSON values: dict, list and the rest.  Only the places that the gateway  *)
(* looks at are told apart.                                                 *)

Dict(at) == [type |-> "dict", at |-> at]
List(items) == [type |-> "list", items |-> items]
Str(s) == [type |-> "str", value |-> s]
Null == [type |-> "null"]

EmptyDict == Dict([k \in {} |-> Null])

IsDict(v) == v.type = "dict"
Get(d, k) == IF k \in DOMAIN d.at THEN d.at[k] ELSE Null
Put(d, k, v) == Dict([x \in DOMAIN d.at \cup {k} |-> IF x = k THEN v ELSE d.at[x]])

\* d.get(k), or {} in the place of anything but a dict
DictAt(d, k) == IF IsDict(Get(d, k)) THEN Get(d, k) ELSE EmptyDict

-----------------------------------------------------------------------------
(* Paths, as the sequence of their segments *)

Threads == <<"threads">>
Search == <<"threads", "search">>
Batch == <<"runs", "batch">>

IsRunCreatePath(p) ==
    \/ p \in {<<"runs">>, <<"runs", "stream">>, <<"runs", "wait">>}
    \/ \E t \in Named :
          p \in {<<"threads", t, "runs">>, <<"threads", t, "runs", "stream">>,
                 <<"threads", t, "runs", "wait">>}

\* Fault: the stream of a new run on a thread is missing.
IsStreamPathShort(p) ==
    \/ p = <<"runs", "stream">>
    \/ \E t \in Named : p \in {<<"runs", t, "stream">>, <<"threads", t, "stream">>}
    \/ \E t, r \in Named : p = <<"threads", t, "runs", r, "stream">>

IsStreamPath(p) ==
    \/ p = <<"runs", "stream">>
    \/ \E t \in Named : p \in {<<"runs", t, "stream">>, <<"threads", t, "stream">>,
                               <<"threads", t, "runs", "stream">>}
    \/ \E t, r \in Named : p = <<"threads", t, "runs", r, "stream">>

IsRunPath(p) == p = Batch \/ IsRunCreatePath(p)

-----------------------------------------------------------------------------
(* The path of a URL.  The patterns read the path as Starlette decoded it;   *)
(* httpx parses the same text as part of a URL, and the upstream decodes it. *)

\* What is left when the query and the fragment are taken off
UpToQuery(p) ==
    LET ends == {i \in DOMAIN p : Cut[p[i]] # p[i]}
    IN  IF ends = {} THEN p
        ELSE [i \in 1..Min(ends) |-> IF i = Min(ends) THEN Cut[p[i]] ELSE p[i]]

\* normalize_path of httpx
WithoutDots(p) ==
    LET Step(out, s) ==
            IF s = "." \/ (s = ".." /\ out = <<>>) THEN out
            ELSE IF s = ".." THEN Front(out)
            ELSE Append(out, s)
    IN  IF \A i \in DOMAIN p : p[i] \notin {".", ".."} THEN p
        ELSE FoldLeft(Step, <<>>, p)

AsDecoded(p) ==
    IF \A i \in DOMAIN p : Decoded[p[i]] = <<p[i]>> THEN p
    ELSE FlattenSeq([i \in DOMAIN p |-> Decoded[p[i]]])

UrlPath(p) == AsDecoded(WithoutDots(UpToQuery(p)))

\* Nothing in the path is syntax of a URL.
Plain(p) ==
    \A i \in DOMAIN p : /\ Cut[p[i]] = p[i] /\ Decoded[p[i]] = <<p[i]>>
                        /\ p[i] \notin {".", ".."}

-----------------------------------------------------------------------------
(* The rewrite.  A request r has a path, post (the method is POST), a body,  *)
(* the user of the principal, whether that user is an admin, and the key of *)
(* the agent.  A body is blank, invalid (no JSON), binary (no text in any   *)
(* encoding that json.loads tries), or json with a value.                   *)

\* Fault: the config of the caller is replaced.
InjectIdentityOnly(run, user, key) ==
    Put(run, "config",
        Put(EmptyDict, "configurable",
            Put(Put(EmptyDict, "user_id", Str(user)), "gateway_agent_key", Str(key))))

InjectIdentity(run, user, key) ==
    LET config == DictAt(run, "config")
        configurable == DictAt(config, "configurable")
        identity == Put(Put(configurable, "user_id", Str(user)),
                        "gateway_agent_key", Str(key))
    IN  Put(run, "config", Put(config, "configurable", identity))

\* Fault: the key of the agent is looked up under the name of the argument.
HasIdentityMisnamed(run, user, key) ==
    /\ IsDict(Get(run, "config"))
    /\ IsDict(Get(Get(run, "config"), "configurable"))
    /\ LET configurable == Get(Get(run, "config"), "configurable")
       IN  /\ Get(configurable, "user_id") = Str(user)
           /\ Get(configurable, "agent_key") = Str(key)

HasIdentity(run, user, key) ==
    /\ IsDict(Get(run, "config"))
    /\ IsDict(Get(Get(run, "config"), "configurable"))
    /\ LET configurable == Get(Get(run, "config"), "configurable")
       IN  /\ Get(configurable, "user_id") = Str(user)
           /\ Get(configurable, "gateway_agent_key") = Str(key)

Applies(r) == r.post /\ (r.path \in {Threads, Search} \/ IsRunPath(r.path))

Malformed(r) ==
    \/ r.body.type = "invalid"
    \/ r.body.type = "json" /\ r.path = Batch /\ r.body.value.type # "list"
    \/ r.body.type = "json" /\ r.path # Batch /\ ~IsDict(r.body.value)

Payload(r) ==
    IF r.body.type = "json" THEN r.body.value
    ELSE IF r.path = Batch THEN List(<<>>) ELSE EmptyDict

\* Fault: setdefault, which keeps the owner that the caller sent.
OwnerSetDefault(r) ==
    LET metadata == DictAt(Payload(r), "metadata")
    IN  Put(Payload(r), "metadata",
            IF "owner" \in DOMAIN metadata.at \/ (r.path = Search /\ r.admin)
            THEN metadata ELSE Put(metadata, "owner", Str(r.user)))

\* The metadata becomes a dict, and names the owner unless an admin searches.
OwnerSet(r) ==
    LET metadata == DictAt(Payload(r), "metadata")
    IN  Put(Payload(r), "metadata",
            IF r.path = Search /\ r.admin THEN metadata
            ELSE Put(metadata, "owner", Str(r.user)))

IdentitySet(r, run) == IF IsDict(run) THEN InjectIdentity(run, r.user, r.key) ELSE run

Rewritten(r) ==
    IF r.path \in {Threads, Search} THEN OwnerSet(r)
    ELSE IF r.path = Batch
    THEN List([i \in DOMAIN Payload(r).items |-> IdentitySet(r, Payload(r).items[i])])
    ELSE IdentitySet(r, Payload(r))

\* _assert_run_payload_identity
PassesAssertion(r, payload) ==
    LET runs == IF r.path = Batch THEN {payload.items[i] : i \in DOMAIN payload.items}
                ELSE {payload}
    IN  \A run \in runs : IsDict(run) /\ HasIdentity(run, r.user, r.key)

\* UnicodeDecodeError, which is not caught
Unreadable(r) == Applies(r) /\ r.body.type = "binary"

\* BodyRewriteError: 400
Rejected(r) ==
    /\ Applies(r) /\ ~Unreadable(r)
    /\ IsRunPath(r.path)
    /\ ~(~Malformed(r) /\ PassesAssertion(r, Rewritten(r)))

\* The body that goes to the upstream.
Forwarded(r) ==
    IF Applies(r) /\ ~Malformed(r) THEN [type |-> "json", value |-> Rewritten(r)]
    ELSE r.body

=============================================================================
