--------------------------- MODULE MCRefreshRace ---------------------------
(* RefreshSessions on two instances: two requests at a time of one user, and *)
(* one request at a time of two users.                                       *)
EXTENDS ReplayRace

CONSTANTS h1, h2, u1, u2

VARIABLE load  \* which of the two

TwoHandlers == {h1, h2}
TwoUsers == {u1, u2}
Token3 == 1..3

MCInit == RaceInit /\ load \in {"two requests", "two users"}

MCNext ==
    /\ RaceNext
    /\ load = "two requests" => users'[u2] = "active" /\ \A h \in Handlers : usr'[h] # u2
    /\ load = "two users" => pc'[h2] = "idle"
    /\ UNCHANGED load

MCSpec == MCInit /\ [][MCNext]_<<raceVars, load>>

=============================================================================
