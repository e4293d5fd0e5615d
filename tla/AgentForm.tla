----------------------------- MODULE AgentForm -----------------------------
(***************************************************************************)
(* The agent form of the console: its script looks up the agents of a      *)
(* LangGraph service while the base URL is typed.  A lookup is a request   *)
(* to the console, which authenticates it and asks the service; nothing    *)
(* orders the answers.                                                     *)
(***************************************************************************)
EXTENDS AdminAccounts

CONSTANTS Service,  \* LangGraph services
          Url,      \* what can be typed as a base URL, beside nothing
          Lookup    \* bound: lookups under way at a time

\* The address of a service, or of its docs.
ASSUME UrlAssumption == Url \subseteq [service : Service, docs : BOOLEAN]

VARIABLES
    form,    \* form[t]: the agent form of tab t, None when it is not open
    lookup,  \* lookup[l]: a lookup under way
    agent    \* base_url of the agent that was saved

page == <<form, lookup>>
vars == <<accounts, history, page, agent>>

\* list is what the select shows: a prompt, "loading", "failed", or the agents
\* of a service, if there are any.  late is history: the answer of a lookup that
\* a later one had replaced has put it there.
Form == [url : Url \cup {None}, timer : BOOLEAN,
         list : Service \cup {"prompt", "loading", "failed"}, late : BOOLEAN]

\* late is history: another lookup has been started since.
Query == [tab : Tab, root : [service : Service, docs : {FALSE}], late : BOOLEAN,
          phase : {"sent", "admitted", "listed", "failed"}]

ASSUME FormAssumption ==
    /\ None \notin Url \cup Form \cup Query
    /\ Service \cap {"prompt", "loading", "failed"} = {}

Init ==
    /\ AccountsInit
    /\ form = [t \in Tab |-> None]
    /\ lookup = [l \in Lookup |-> None]
    /\ agent = None

-----------------------------------------------------------------------------
(* Helpers *)

\* What the script makes of a URL, and the gateway again.
Normalized(url) == [url EXCEPT !.docs = FALSE]

\* Where the proxy sends what is meant for an agent with this base_url.
Upstream(url) == url

LookupsOf(t) == {l \in Lookup : lookup[l] # None /\ lookup[l].tab = t}

\* A load begins: what is under way for the tab will be late.
Overtaken(t) == [l \in Lookup |-> IF l \in LookupsOf(t) THEN [lookup[l] EXCEPT !.late = TRUE]
                                                       ELSE lookup[l]]

Prompt(t, f) ==
    /\ f.url = None
    /\ form' = [form EXCEPT ![t] = [f EXCEPT !.list = "prompt", !.late = FALSE]]
    /\ lookup' = Overtaken(t)

Fetch(t, f) ==
    /\ f.url # None
    /\ form' = [form EXCEPT ![t] = [f EXCEPT !.list = "loading", !.late = FALSE]]
    /\ \E l \in Lookup :
          /\ lookup[l] = None
          /\ lookup' = [Overtaken(t) EXCEPT ![l] = [tab |-> t, root |-> Normalized(f.url),
                                                    late |-> FALSE, phase |-> "sent"]]

\* loadAgents
LoadAgents(t, f) == Prompt(t, f) \/ Fetch(t, f)

-----------------------------------------------------------------------------
(* The page *)

\* The form of a new agent, or of the one that was saved; the script runs.
OpenForm(t) ==
    /\ form[t] = None
    /\ posted[t] = "none"
    /\ Authenticated(t)
    /\ \E url \in {None, agent} :
          LoadAgents(t, [url |-> url, timer |-> FALSE, list |-> "prompt", late |-> FALSE])
    /\ UNCHANGED <<accounts, agent>>

\* Fault: the script hears of the URL when the field is left only.
TypeUnheard(t) ==
    /\ form[t] # None
    /\ posted[t] = "none"
    /\ \E url \in Url \cup {None} : form' = [form EXCEPT ![t].url = url]
    /\ UNCHANGED <<accounts, lookup, agent>>

\* input and change: the timer starts again.
Type(t) ==
    /\ form[t] # None
    /\ posted[t] = "none"
    /\ \E url \in Url \cup {None} :
          form' = [form EXCEPT ![t] = [@ EXCEPT !.url = url, !.timer = TRUE]]
    /\ UNCHANGED <<accounts, lookup, agent>>

TimerFires(t) ==
    /\ form[t] # None
    /\ form[t].timer
    /\ LoadAgents(t, [form[t] EXCEPT !.timer = FALSE])
    /\ UNCHANGED <<accounts, agent>>

\* blur: the timer goes on.
Blur(t) ==
    /\ form[t] # None
    /\ LoadAgents(t, form[t])
    /\ UNCHANGED <<accounts, agent>>

\* The page is left: nobody waits for its lookups.
CloseForm(t) ==
    /\ form[t] # None
    /\ form' = [form EXCEPT ![t] = None]
    /\ lookup' = [l \in Lookup |-> IF l \in LookupsOf(t) THEN None ELSE lookup[l]]

Leave(t) ==
    /\ posted[t] = "none"
    /\ CloseForm(t)
    /\ UNCHANGED <<accounts, agent>>

Submit(t) == form[t] # None /\ (SendForm(t) \/ Admit(t)) /\ UNCHANGED <<page, agent>>

SubmitTurnedAway(t) == TurnAway(t) /\ CloseForm(t) /\ UNCHANGED agent

\* AgentAdmin: the URL is stripped.
SaveAgent(t) ==
    /\ EndForm(t)
    /\ CloseForm(t)
    /\ form[t].url # None
    /\ agent' = form[t].url
    /\ UNCHANGED rows

\* No URL, no key or no name.
AgentRefused(t) == EndForm(t) /\ CloseForm(t) /\ UNCHANGED <<rows, agent>>

-----------------------------------------------------------------------------
(* A lookup *)

LookupAdmitted(l) ==
    /\ lookup[l] # None
    /\ lookup[l].phase = "sent"
    /\ Authenticated(lookup[l].tab)
    /\ lookup' = [lookup EXCEPT ![l].phase = "admitted"]
    /\ UNCHANGED <<accounts, form, agent>>

\* The session is cleared; the login page comes back, which is no JSON.
LookupTurnedAway(l) ==
    /\ lookup[l] # None
    /\ lookup[l].phase = "sent"
    /\ ~Authenticated(lookup[l].tab)
    /\ lookup' = [lookup EXCEPT ![l].phase = "failed"]
    /\ cookie' = [cookie EXCEPT ![lookup[l].tab] = None]
    /\ UNCHANGED <<rows, posted, cli, form, agent>>

\* The service answers, or fails to within the timeout.
LookupAnswered(l) ==
    /\ lookup[l] # None
    /\ lookup[l].phase = "admitted"
    /\ \E outcome \in {"listed", "failed"} :
          lookup' = [lookup EXCEPT ![l].phase = outcome]
    /\ UNCHANGED <<accounts, form, agent>>

\* The answer of l has the page show this.
Shows(l, list) ==
    LET t == lookup[l].tab IN
    /\ form' = [form EXCEPT ![t] = [@ EXCEPT !.list = list, !.late = lookup[l].late]]
    /\ lookup' = [lookup EXCEPT ![l] = None]
    /\ UNCHANGED <<accounts, agent>>

Arrives(l) ==
    /\ lookup[l] # None
    /\ lookup[l].phase = "listed"
    /\ Shows(l, lookup[l].root.service)

\* Fault: the exception is not caught.
FailsUncaught(l) ==
    /\ lookup[l] # None
    /\ lookup[l].phase = "failed"
    /\ Shows(l, form[lookup[l].tab].list)

Fails(l) ==
    /\ lookup[l] # None
    /\ lookup[l].phase = "failed"
    /\ Shows(l, "failed")

-----------------------------------------------------------------------------
AgentPage(t) ==
    \/ OpenForm(t) \/ Type(t) \/ TimerFires(t) \/ Blur(t) \/ Leave(t)
    \/ Submit(t) \/ SubmitTurnedAway(t) \/ SaveAgent(t) \/ AgentRefused(t)

LookupStep(l) ==
    \/ LookupAdmitted(l) \/ LookupTurnedAway(l) \/ LookupAnswered(l)
    \/ Arrives(l) \/ Fails(l)

\* A tab shows one page at a time.
Next ==
    /\ \/ \E t \in Tab : \/ AgentPage(t)
                         \/ form[t] = None /\ UserForm(t) /\ UNCHANGED <<page, agent>>
       \/ \E l \in Lookup : LookupStep(l)
       \/ \E c \in Cli : Command(c) /\ UNCHANGED <<page, agent>>
    /\ RecordHistory

Spec == Init /\ [][Next]_vars

\* The gateway and the service answer in the end: discovery has a timeout.
FairSpec == Spec /\ \A l \in Lookup : WF_lookup(LookupStep(l))

-----------------------------------------------------------------------------
(* Properties *)

\* The types of the variables.
TypeOK ==
    /\ AccountsTypeOK
    /\ form \in [Tab -> Form \cup {None}]
    /\ lookup \in [Lookup -> Query \cup {None}]
    /\ agent \in Url \cup {None}

\* When the form is at rest, it lists the agents of the service whose URL it
\* shows, however the field was edited and left, unless a late answer has
\* replaced the list: the script does not order the answers.
SettledListIsCurrent ==
    \A t \in Tab :
        form[t] # None /\ ~form[t].timer /\ LookupsOf(t) = {} /\ ~form[t].late =>
            \/ form[t].list = "failed"
            \/ form[t].url = None /\ form[t].list = "prompt"
            \/ form[t].url # None /\ form[t].list = form[t].url.service

Loading(t) == form[t] # None /\ form[t].list = "loading"

\* "Loading..." does not stay, whoever is demoted or fails to answer.
LookupsEnd == \A t \in Tab : Loading(t) ~> ~Loading(t)

\* "You can enter either the API root or a docs URL": the agent is called where
\* the form found it.
AgentsAreReached == agent # None => Upstream(agent) = Normalized(agent)
=============================================================================
