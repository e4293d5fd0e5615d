------------------------- MODULE MCIdentityRewrite -------------------------
(* AgentProxy with a database at rest, for what it does to a request: every  *)
(* shape of body that the code tells apart, every path of at most five       *)
(* segments, and of at most three with parts that a URL reads in its way.    *)
EXTENDS AgentProxy

CONSTANTS u1, a1, k1, x1

MCInit ==
    /\ \E admin1 \in BOOLEAN : users = [u \in User |-> [active |-> TRUE, admin |-> admin1]]
    /\ agents = [a \in Agent |-> [key |-> k1, url |-> x1, active |-> TRUE]]
    /\ grants = User \X Agent
    /\ Init

MCSpec == MCInit /\ [][Next]_vars

Junk == Str("junk")

\* The dicts with junk at some of the places
DictsOver(places) == {Dict([k \in ks |-> Junk]) : ks \in SUBSET places}

Configurables == DictsOver({"user_id", "gateway_agent_key", "thread"})
Configs == {Dict([k \in {"configurable", "tags"} |->
                    IF k = "tags" THEN Junk ELSE c]) : c \in Configurables \cup {Junk}}
               \cup DictsOver({"tags"})
Metadatas == DictsOver({"owner", "graph"})
Dicts == {Dict([k \in {"config", "metadata"} |-> IF k = "config" THEN c ELSE m]) :
             c \in Configs \cup {Junk}, m \in Metadatas \cup {Junk}}
             \cup DictsOver({"input"})
Items == {Dict([k \in {"config"} |-> c]) : c \in Configs} \cup {Junk, EmptyDict}

Bodies ==
    {[type |-> t] : t \in {"blank", "invalid", "binary"}} \cup
    {[type |-> "json", value |-> v] :
        v \in Dicts \cup {Junk} \cup {List(<<i, j>>) : i, j \in Items}
                    \cup {List(<<>>)}}

RunStream == <<"threads", "t1", "runs", "stream">>

MCCut == [s \in Segment |-> IF s = "t1#" THEN "t1" ELSE s]
MCDecoded == [s \in Segment |-> IF s = "t1%2Fruns" THEN <<"t1", "runs">> ELSE <<s>>]
MCBase == [x \in Url |-> <<"t1">>]

\* The paths behind lstrip
Paths(segments, n) ==
    {p \in BoundedSeq(segments, n) : p = <<"">> \/ (p # <<>> /\ p[1] # "")}

UrlSyntax == {".", "..", "t1#", "t1%2Fruns"}

MCRequests ==
    [path : {Threads, Search, Batch, <<"runs">>, RunStream, <<"t1">>},
     post : BOOLEAN, body : Bodies]
    \cup [path : Paths(Segment \ UrlSyntax, 5) \cup Paths(Segment, 3), post : {TRUE},
          body : {[type |-> "blank"]}]

=============================================================================
