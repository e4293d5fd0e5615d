---------------------------- MODULE SchemaUpgrade ----------------------------
(***************************************************************************)
(* What ensure_auth_schema and reset_auth_schema promise, without locks    *)
(* and transactions: an upgrade is one step to the latest revision,        *)
(* whatever other processes do, and who is through has made it.            *)
(***************************************************************************)
EXTENDS Naturals

CONSTANTS Proc,  \* gateways and CLI processes
          Head   \* the packaged revisions are 1..Head

VARIABLES
    tables,   \* the revisions whose tables exist
    version,  \* the revision that is recorded, 0 when there is none
    state     \* state[p]: where p is with its attempt

vars == <<tables, version, state>>

Init ==
    /\ \E v \in 0..Head : version = v /\ tables = 1..v
    /\ state = [p \in Proc |-> "away"]

-----------------------------------------------------------------------------
Begin(p) ==
    /\ state[p] = "away"
    /\ state' = [state EXCEPT ![p] = "busy"]
    /\ UNCHANGED <<tables, version>>

\* ensure_auth_schema returns: the schema is the latest at this moment.
Upgrade(p) ==
    /\ state[p] = "busy"
    /\ tables' = 1..Head
    /\ version' = Head
    /\ state' = [state EXCEPT ![p] = "through"]

\* reset_auth_schema: everything goes at once, then p upgrades as the others do.
Reset(p) ==
    /\ state[p] = "away"
    /\ tables' = {}
    /\ version' = 0
    /\ state' = [state EXCEPT ![p] = "busy"]

\* The attempt fails, or the process ends: nothing has changed.
Leave(p) ==
    /\ state[p] \in {"busy", "through"}
    /\ state' = [state EXCEPT ![p] = "away"]
    /\ UNCHANGED <<tables, version>>

Next == \E p \in Proc : Begin(p) \/ Upgrade(p) \/ Reset(p) \/ Leave(p)

Spec == Init /\ [][Next]_vars

=============================================================================
