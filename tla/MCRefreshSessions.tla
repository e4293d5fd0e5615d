------------------------- MODULE MCRefreshSessions -------------------------
(* Instances of RefreshSessions that TLC checks. *)
EXTENDS RefreshSessions

CONSTANTS h1, h2, u1, u2

TwoHandlers == {h1, h2}
OneUser == {u1}
TwoUsers == {u1, u2}
Token2 == 1..2
Token3 == 1..3

=============================================================================
