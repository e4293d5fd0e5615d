---------------------------- MODULE MCAgentProxy ----------------------------
(* A small instance of AgentProxy: an installation in use, from which three  *)
(* saved forms lead to what matters for one request.                         *)
EXTENDS AgentProxy, TLC

CONSTANTS u1, u2, a1, a2, k1, k2, x1, x2

MCInit ==
    /\ users = (u1 :> [active |-> TRUE, admin |-> FALSE]
                @@ u2 :> [active |-> TRUE, admin |-> TRUE])
    /\ agents = (a1 :> [key |-> k1, url |-> x1, active |-> TRUE] @@ a2 :> Absent)
    /\ grants = {<<u1, a1>>, <<u2, a1>>}
    /\ Init

MCSpec == MCInit /\ [][Next]_vars /\ Fairness

MCCut == [s \in Segment |-> s]
MCDecoded == [s \in Segment |-> <<s>>]
MCBase == [x \in Url |-> <<"t1">>]

Json(v) == [type |-> "json", value |-> v]

MCRequests ==
    [path : {Search}, post : {TRUE},
     body : {Json(Put(EmptyDict, "metadata", Put(EmptyDict, "owner", Str("u3")))),
             [type |-> "invalid"]}]
    \cup [path : {<<"runs">>}, post : {TRUE},
          body : {Json(Str("junk")), [type |-> "binary"], [type |-> "blank"]}]
    \cup [path : {<<"runs", "t1", "stream">>, <<"openapi.json">>}, post : {FALSE},
          body : {[type |-> "blank"]}]

=============================================================================
