--------------------------- MODULE TokenRotation ---------------------------
(***************************************************************************)
(* What rotating refresh tokens promise, without a database: a login       *)
(* issues a token, a live token is exchanged for one successor of the same *)
(* login and is spent, tokens are revoked, and tokens of a deleted user    *)
(* disappear.  A spent token never lives again.                            *)
(***************************************************************************)
CONSTANTS Token, None

VARIABLES status,  \* status[t]: "unissued", "live", "spent" or "gone"
          login    \* login[t]: the first token of the login t belongs to

vars == <<status, login>>

Init ==
    /\ status = [t \in Token |-> "unissued"]
    /\ login = [t \in Token |-> None]

Issue(t) ==
    /\ status[t] = "unissued"
    /\ status' = [status EXCEPT ![t] = "live"]
    /\ login' = [login EXCEPT ![t] = t]

Rotate(t, n) ==
    /\ status[t] = "live"
    /\ status[n] = "unissued"
    /\ status' = [status EXCEPT ![t] = "spent", ![n] = "live"]
    /\ login' = [login EXCEPT ![n] = login[t]]

Revoke(S) ==
    /\ \A t \in S : status[t] = "live"
    /\ status' = [t \in Token |-> IF t \in S THEN "spent" ELSE status[t]]
    /\ UNCHANGED login

Purge(S) ==
    /\ \A t \in S : status[t] \in {"live", "spent"}
    /\ status' = [t \in Token |-> IF t \in S THEN "gone" ELSE status[t]]
    /\ login' = [t \in Token |-> IF t \in S THEN None ELSE login[t]]

Next ==
    \/ \E t \in Token : Issue(t)
    \/ \E t, n \in Token : Rotate(t, n)
    \/ \E S \in SUBSET Token : Revoke(S) \/ Purge(S)

Spec == Init /\ [][Next]_vars

-----------------------------------------------------------------------------
TypeOK ==
    /\ status \in [Token -> {"unissued", "live", "spent", "gone"}]
    /\ login \in [Token -> Token \cup {None}]

\* A login has at most one token that still works.
OneLiveToken ==
    \A s, t \in Token :
        status[s] = "live" /\ status[t] = "live" /\ login[s] = login[t] => s = t

LiveTokens(l) == {t \in Token : status[t] = "live" /\ login[t] = l}

\* A login that has lost its last live token never gets another: whoever was
\* logged out has to log in again.
EndedLoginIsFinal ==
    [][\A l \in Token :
          status[l] # "unissued" /\ LiveTokens(l) = {} => LiveTokens(l)' = {}]_vars

=============================================================================
