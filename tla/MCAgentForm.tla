---------------------------- MODULE MCAgentForm ----------------------------
(* AgentForm on two instances: users, forms and commands with two accounts,  *)
(* and the agent form of one admin whom a command deactivates.               *)
EXTENDS AgentForm, TLC

CONSTANTS u1, u2, e1, e2, c1, c2, s1, s2

MCUrl == {[service |-> s1, docs |-> FALSE], [service |-> s2, docs |-> TRUE]}

VARIABLE load  \* which of the two

MCInit == Init /\ load \in {"accounts", "form"}

OneAccount ==
    /\ rows'[u2] = None
    /\ cli'[c2].phase = "idle"
    /\ cli'[c1].phase = "read" => cli'[c1].email.value = e1
    /\ \A t \in Tab : form'[t] = None => posted'[t] = "none"

MCNext ==
    /\ Next
    /\ load = "accounts" => form' = form
    /\ load = "form" => OneAccount
    /\ UNCHANGED load

MCSpec == MCInit /\ [][MCNext]_<<vars, load>> /\ \A l \in Lookup : WF_lookup(LookupStep(l))

=============================================================================
