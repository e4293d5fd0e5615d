----------------------------- MODULE ReplayRace -----------------------------
(* RefreshSessions with the history of what a replay can miss: the sessions  *)
(* that its query came too early for.                                        *)
EXTENDS RefreshSessions

VARIABLE raced  \* handlers whose replay was overtaken between query and commit

raceVars == <<vars, raced>>

RaceInit == Init /\ raced = {}

\* A session of the user of h begins to work in this step.
Overtakes(h) ==
    \E t \in Token : ~Live(t) /\ Live(t)' /\ rows'[t].user = usr[h]

RaceNext ==
    /\ Next
    /\ raced' = {h \in Handlers : /\ pc[h] = "rv_update" /\ pc'[h] = "rv_update"
                                  /\ h \in raced \/ Overtakes(h)}

RaceSpec == RaceInit /\ [][RaceNext]_raceVars

-----------------------------------------------------------------------------
(* Properties *)

\* A replay revokes every session of its user and no other, as
\* tests/test_refresh_rotation.py asserts, unless another request commits a session
\* of this user between the query of _revoke_user_refresh_sessions and its commit:
\* nothing else that goes on meanwhile makes it miss one.
OnlyRacedReplaysMiss == [][\A h \in Handlers \ raced : ReplayIsComplete(h)]_raceVars

=============================================================================
