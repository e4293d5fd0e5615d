-------------------------- MODULE AgentFormProofs --------------------------
(* Proofs about AdminAccounts and AgentForm, for any users, browsers, runs of *)
(* the command, services and lookups.                                         *)
EXTENDS AgentForm, TLAPS

-----------------------------------------------------------------------------
(* The accounts *)

\* Whatever writes an address tidies it first.
AddressesAreTidy ==
    /\ \A u \in User : Exists(u) => rows[u].email.tidy
    /\ \A c \in Cli : cli[c].phase = "read" =>
          cli[c].email \in Typed(Email) /\ cli[c].email.tidy

AdmittedWasAdmin == \A t \in Tab : posted[t] = "admitted" => ever[t]

\* What a command has read is what is there, when nobody has written since.
ReadIsCurrent ==
    \A c \in Cli : cli[c].phase = "read" /\ alone[c] /\ cli[c].found # None =>
        /\ Exists(cli[c].found)
        /\ rows[cli[c].found] = cli[c].seen
        /\ cli[c].seen.email = cli[c].email

\* The inductive invariant of the accounts.
AccountsInv ==
    /\ AccountsTypeOK
    /\ AddressesAreTidy
    /\ EmailsDistinct
    /\ AdmittedWasAdmin
    /\ ReadIsCurrent

\* A row is put where it leaves the addresses tidy and distinct, or taken away.
PutRow ==
    \E u \in User, r \in Row \cup {None} :
        /\ rows' = [rows EXCEPT ![u] = r]
        /\ r # None =>
             /\ r.email.tidy
             /\ \A v \in User : v # u /\ Exists(v) => rows[v].email # r.email

\* All that a step of AgentForm does to the accounts.
AccountsStep ==
    \/ \E t \in Tab : UserForm(t)
    \/ \E c \in Cli : Command(c)
    \/ \E t \in Tab : cookie' = [cookie EXCEPT ![t] = None]
                      /\ UNCHANGED <<rows, posted, cli>>
    \/ UNCHANGED accounts

LEMMA TidyTyped ==
  ASSUME NEW S, NEW x \in Typed(S)
  PROVE  Tidy(x) \in Typed(S) /\ Tidy(x).tidy /\ (x.tidy => Tidy(x) = x)
  BY DEF Typed, Tidy

LEMMA AccountsInitInv == AccountsInit => AccountsInv
  <1> SUFFICES ASSUME AccountsInit PROVE AccountsInv
    OBVIOUS
  <1> USE RowAssumption
  <1>1. ASSUME NEW e \in Email, NEW s \in Secret
        PROVE  FirstAdmin(e, s) \in Row /\ FirstAdmin(e, s).email.tidy
    BY DEF FirstAdmin, Row, Typed
  <1>2. /\ rows \in [User -> Row \cup {None}]
        /\ \A u \in User : rows[u] # None => rows[u].email.tidy
        /\ \A u, v \in User : rows[u] # None /\ rows[v] # None => u = v
    BY <1>1 DEF AccountsInit
  <1>3. At("idle") \in Run /\ At("idle").phase = "idle"
    BY DEF At, Run
  <1>4. AccountsTypeOK
    BY <1>2, <1>3 DEF AccountsInit, AccountsTypeOK
  <1>5. AddressesAreTidy /\ EmailsDistinct /\ AdmittedWasAdmin /\ ReadIsCurrent
    BY <1>2, <1>3 DEF AccountsInit, AddressesAreTidy, EmailsDistinct, AdmittedWasAdmin,
                      ReadIsCurrent, Exists
  <1> QED
    BY <1>4, <1>5 DEF AccountsInv

LEMMA PutRowIntro ==
  ASSUME NEW u \in User, NEW r \in Row, rows' = [rows EXCEPT ![u] = r], r.email.tidy,
         \A v \in User : v # u /\ Exists(v) => rows[v].email # r.email
  PROVE  PutRow
  BY DEF PutRow

\* The UNIQUE constraint, in terms of the rows.
LEMMA FreeEmail ==
  ASSUME NEW e, NEW u \in User, EmailFree(e, u), NEW v \in User, v # u, Exists(v)
  PROVE  rows[v].email # e
  BY DEF EmailFree, WithEmail

LEMMA FormPuts ==
  ASSUME AccountsInv, NEW t \in Tab, NEW u \in User,
         EditUser(t, u) \/ CreateUser(t, u) \/ DeleteUser(t, u)
  PROVE  PutRow
  <1> USE RowAssumption
  <1>1. CASE EditUser(t, u)
    <2>1. PICK e \in Typed(Email), p \in Typed(Secret) \cup {None}, active \in BOOLEAN, admin \in BOOLEAN :
            /\ EmailFree(Tidy(e), u)
            /\ rows' = [rows EXCEPT ![u] =
                          [email |-> Tidy(e),
                           password |-> IF p = None THEN rows[u].password ELSE Tidy(p),
                           active |-> active, admin |-> admin]]
      BY <1>1 DEF EditUser
    <2>2. rows[u] \in Row /\ rows[u].password \in Typed(Secret)
      BY <1>1 DEF EditUser, Exists, AccountsInv, AccountsTypeOK, Row
    <2> DEFINE q == IF p = None THEN rows[u].password ELSE Tidy(p)
    <2>3. q \in Typed(Secret)
      BY <2>2, TidyTyped
    <2> DEFINE r == [email |-> Tidy(e), password |-> q, active |-> active, admin |-> admin]
    <2>4. r \in Row /\ r.email = Tidy(e) /\ r.email.tidy
      BY <2>3, TidyTyped DEF Row
    <2>5. rows' = [rows EXCEPT ![u] = r]
      BY <2>1
    <2>6. \A v \in User : v # u /\ Exists(v) => rows[v].email # r.email
      BY <2>1, <2>4, FreeEmail
    <2> HIDE DEF r
    <2> QED
      BY <2>4, <2>5, <2>6, PutRowIntro
  <1>2. CASE CreateUser(t, u)
    <2>1. PICK e \in Typed(Email), p \in Typed(Secret), active \in BOOLEAN, admin \in BOOLEAN :
            /\ EmailFree(Tidy(e), u)
            /\ rows' = [rows EXCEPT ![u] = [email |-> Tidy(e), password |-> Tidy(p),
                                            active |-> active, admin |-> admin]]
      BY <1>2 DEF CreateUser
    <2> DEFINE r == [email |-> Tidy(e), password |-> Tidy(p), active |-> active, admin |-> admin]
    <2>2. r \in Row /\ r.email = Tidy(e) /\ r.email.tidy
      BY TidyTyped DEF Row
    <2>3. rows' = [rows EXCEPT ![u] = r]
      BY <2>1
    <2>4. \A v \in User : v # u /\ Exists(v) => rows[v].email # r.email
      BY <2>1, <2>2, FreeEmail
    <2> HIDE DEF r
    <2> QED
      BY <2>2, <2>3, <2>4, PutRowIntro
  <1>3. CASE DeleteUser(t, u)
    BY <1>3 DEF DeleteUser, PutRow
  <1> QED
    BY <1>1, <1>2, <1>3

\* What the command makes of a row.
LEMMA UpdatedRow ==
  ASSUME AccountsInv, NEW c \in Cli, NEW password \in Typed(Secret), NEW active \in BOOLEAN,
         CliUpdate(c, password, active)
  PROVE  LET u == cli[c].found
             r == rows'[u]
         IN /\ u \in User
            /\ rows' = [rows EXCEPT ![u] = r]
            /\ r \in Row
            /\ r.email = rows[u].email
            /\ r.password = password
            /\ r.active = Flushed(active, cli[c].seen.active, rows[u].active)
            /\ r.admin = Flushed(TRUE, cli[c].seen.admin, rows[u].admin)
  <1> DEFINE u == cli[c].found
             r == Updated(rows[u], cli[c].seen, password, active)
  <1>1. u \in User /\ rows[u] \in Row /\ rows \in [User -> Row \cup {None}]
    BY DEF CliUpdate, Exists, AccountsInv, AccountsTypeOK, Run
  <1>2. rows' = [rows EXCEPT ![u] = r]
    BY DEF CliUpdate
  <1>3. rows'[u] = r
    BY <1>1, <1>2
  <1>4. /\ r.email = rows[u].email /\ r.password = password
        /\ r.active = Flushed(active, cli[c].seen.active, rows[u].active)
        /\ r.admin = Flushed(TRUE, cli[c].seen.admin, rows[u].admin)
    BY <1>1 DEF Row, Updated
  <1>5. /\ Flushed(active, cli[c].seen.active, rows[u].active) \in BOOLEAN
        /\ Flushed(TRUE, cli[c].seen.admin, rows[u].admin) \in BOOLEAN
    BY <1>1 DEF Flushed, Row
  <1>6. r \in Row
    BY <1>1, <1>5 DEF Row, Updated
  <1> HIDE DEF r
  <1> QED
    BY <1>1, <1>2, <1>3, <1>4, <1>6

LEMMA CommandPuts ==
  ASSUME AccountsInv, NEW c \in Cli, NEW password \in Typed(Secret), NEW active \in BOOLEAN,
         CliSave(c, password, active)
  PROVE  PutRow
  <1> USE RowAssumption
  <1>1. CASE CliCreate(c, password, active)
    <2> DEFINE r == [email |-> cli[c].email, password |-> password,
                     active |-> active, admin |-> TRUE]
    <2>1. PICK u \in User : ~Exists(u) /\ rows' = [rows EXCEPT ![u] = r]
      BY <1>1 DEF CliCreate
    <2>2. cli[c].email \in Typed(Email) /\ cli[c].email.tidy
      BY <1>1 DEF CliCreate, CliEnd, AccountsInv, AddressesAreTidy
    <2>3. r \in Row /\ r.email.tidy
      BY <2>2 DEF Row
    <2>4. \A v \in User : Exists(v) => rows[v].email # r.email
      BY <1>1 DEF CliCreate, WithEmail
    <2> HIDE DEF r
    <2> QED
      BY <2>1, <2>3, <2>4, PutRowIntro
  <1>2. CASE CliUpdate(c, password, active)
    <2> DEFINE u == cli[c].found
               r == rows'[u]
    <2>1. u \in User /\ rows' = [rows EXCEPT ![u] = r] /\ r \in Row /\ r.email = rows[u].email
      BY <1>2, UpdatedRow
    <2>2. Exists(u)
      BY <1>2 DEF CliUpdate
    <2>3. r.email.tidy
      BY <2>1, <2>2 DEF AccountsInv, AddressesAreTidy
    <2>4. ASSUME NEW v \in User, v # u, Exists(v) PROVE rows[v].email # r.email
      BY <2>1, <2>2, <2>4 DEF AccountsInv, EmailsDistinct
    <2> HIDE DEF r
    <2> QED
      BY <2>1, <2>3, <2>4, PutRowIntro
  <1> QED
    BY <1>1, <1>2 DEF CliSave

\* Every step leaves the table alone or puts a row.
LEMMA RowsStep ==
  ASSUME AccountsInv, AccountsStep
  PROVE  rows' = rows \/ PutRow
  <1>1. ASSUME NEW t \in Tab, UserForm(t) PROVE rows' = rows \/ PutRow
    BY <1>1, FormPuts DEF UserForm, SignIn, SignOut, SendForm, Admit, TurnAway, FormFails
  <1>2. ASSUME NEW c \in Cli, Command(c) PROVE rows' = rows \/ PutRow
    BY <1>2, CommandPuts DEF Command, CliRead, CliFinds, CliFails
  <1> QED
    BY <1>1, <1>2 DEF AccountsStep, accounts

LEMMA RunTypes ==
  ASSUME AccountsTypeOK, NEW c \in Cli, Command(c)
  PROVE  cli' \in [Cli -> Run]
  <1>1. At("ended") \in Run
    BY DEF At, Run
  <1>2. ASSUME NEW e \in Typed(Email), NEW u \in User \cup {None}, CliFinds(c, e, u)
        PROVE  cli' \in [Cli -> Run]
    <2> DEFINE seen == IF u = None THEN None ELSE rows[u]
    <2>1. seen \in Row \cup {None}
      BY DEF AccountsTypeOK
    <2>2. [phase |-> "read", email |-> e, found |-> u, seen |-> seen] \in Run
      BY <2>1 DEF Run
    <2> QED
      BY <1>2, <2>2 DEF CliFinds, AccountsTypeOK
  <1>3. CASE CliRead(c)
    BY <1>2, <1>3, TidyTyped DEF CliRead
  <1>4. CASE CliEnd(c)
    BY <1>1, <1>4 DEF CliEnd, AccountsTypeOK
  <1> QED
    BY <1>3, <1>4 DEF Command, CliSave, CliCreate, CliUpdate, CliFails

LEMMA FormTypes ==
  ASSUME AccountsTypeOK, NEW t \in Tab, UserForm(t)
  PROVE  /\ cookie' \in [Tab -> User \cup {None}]
         /\ posted' \in [Tab -> {"none", "sent", "admitted"}]
         /\ cli' = cli
  BY DEF AccountsTypeOK, UserForm, SignIn, SignOut, SendForm, Admit, TurnAway, EndForm,
         EditUser, CreateUser, DeleteUser, FormFails

LEMMA HistoryTypes ==
  ASSUME RecordHistory
  PROVE  ever' \in [Tab -> BOOLEAN] /\ alone' \in [Cli -> BOOLEAN]
  BY DEF RecordHistory

LEMMA AccountsTypes ==
  ASSUME AccountsInv, AccountsStep, RecordHistory
  PROVE  AccountsTypeOK'
  <1>1. rows' \in [User -> Row \cup {None}]
    BY RowsStep DEF AccountsInv, AccountsTypeOK, PutRow
  <1>2. /\ cookie' \in [Tab -> User \cup {None}]
        /\ posted' \in [Tab -> {"none", "sent", "admitted"}]
        /\ cli' \in [Cli -> Run]
    <2>1. ASSUME NEW t \in Tab, UserForm(t) PROVE <1>2!:
      BY <2>1, FormTypes DEF AccountsInv, AccountsTypeOK
    <2>2. ASSUME NEW c \in Cli, Command(c) PROVE <1>2!:
      BY <2>2, RunTypes DEF AccountsInv, AccountsTypeOK, Command, CliRead, CliFinds, CliSave,
                            CliCreate, CliUpdate, CliFails, CliEnd
    <2> QED
      BY <2>1, <2>2 DEF AccountsInv, AccountsTypeOK, AccountsStep, accounts
  <1> QED
    BY <1>1, <1>2, HistoryTypes DEF AccountsTypeOK

\* The commands that have read.
LEMMA ReadStep ==
  ASSUME AccountsInv, AccountsStep, NEW c \in Cli, cli'[c].phase = "read"
  PROVE  \/ cli'[c] = cli[c]
         \/ /\ cli[c].phase = "idle"
            /\ rows' = rows
            /\ cli'[c].email \in Typed(Email) /\ cli'[c].email.tidy
            /\ cli'[c].found # None =>
                 /\ cli'[c].found \in User
                 /\ Exists(cli'[c].found)
                 /\ rows[cli'[c].found] = cli'[c].seen
                 /\ cli'[c].seen.email = cli'[c].email
  <1>1. ASSUME NEW d \in Cli, CliEnd(d) PROVE cli'[c] = cli[c]
    BY <1>1 DEF CliEnd, At, AccountsInv, AccountsTypeOK
  <1>2. ASSUME NEW d \in Cli, NEW e \in Typed(Email), NEW u \in User \cup {None}, e.tidy,
               CliFinds(d, e, u), c = d
        PROVE  /\ cli[c].phase = "idle"
               /\ rows' = rows
               /\ cli'[c].email = e
               /\ cli'[c].found = u
               /\ u # None => u \in WithEmail(e) /\ cli'[c].seen = rows[u]
    BY <1>2 DEF CliFinds, AccountsInv, AccountsTypeOK
  <1>3. ASSUME NEW d \in Cli, NEW e \in Typed(Email), NEW u \in User \cup {None},
               CliFinds(d, e, u), c # d
        PROVE  cli'[c] = cli[c]
    BY <1>3 DEF CliFinds, AccountsInv, AccountsTypeOK
  <1>4. ASSUME NEW d \in Cli, CliRead(d), c # d PROVE cli'[c] = cli[c]
    BY <1>3, <1>4, TidyTyped DEF CliRead
  <1>5. ASSUME CliRead(c)
        PROVE  /\ cli[c].phase = "idle"
               /\ rows' = rows
               /\ cli'[c].email \in Typed(Email) /\ cli'[c].email.tidy
               /\ cli'[c].found # None =>
                    /\ cli'[c].found \in User
                    /\ Exists(cli'[c].found)
                    /\ rows[cli'[c].found] = cli'[c].seen
                    /\ cli'[c].seen.email = cli'[c].email
    <2>1. PICK e \in Typed(Email), u \in User \cup {None} : CliFinds(c, Tidy(e), u)
      BY <1>5 DEF CliRead
    <2>2. Tidy(e) \in Typed(Email) /\ Tidy(e).tidy
      BY TidyTyped
    <2> QED
      BY <1>2, <2>1, <2>2 DEF WithEmail
  <1>6. ASSUME NEW d \in Cli, Command(d), ~CliRead(d) PROVE cli'[c] = cli[c]
    BY <1>1, <1>6 DEF Command, CliSave, CliCreate, CliUpdate, CliFails
  <1>7. ASSUME NEW t \in Tab, UserForm(t) PROVE cli' = cli
    BY <1>7, FormTypes DEF AccountsInv
  <1> QED
    BY <1>4, <1>5, <1>6, <1>7 DEF AccountsStep, accounts

LEMMA AccountsInvStep ==
  ASSUME AccountsInv, AccountsStep, RecordHistory
  PROVE  AccountsInv'
  <1> USE RowAssumption
  <1>1. AccountsTypeOK'
    BY AccountsTypes
  <1>2. \A u \in User : Exists(u)' => rows'[u].email.tidy
    <2>1. CASE rows' = rows
      BY <2>1 DEF Exists, AccountsInv, AddressesAreTidy
    <2>2. CASE PutRow
      BY <2>2 DEF PutRow, Exists, AccountsInv, AccountsTypeOK, AddressesAreTidy
    <2> QED
      BY <2>1, <2>2, RowsStep
  <1>3. AddressesAreTidy'
    BY <1>2, ReadStep DEF AccountsInv, AddressesAreTidy
  <1>4. EmailsDistinct'
    <2>1. \A u, v \in User : Exists(u)' /\ Exists(v)' /\ rows'[u].email = rows'[v].email => u = v
      <3>1. \A u, v \in User : Exists(u) /\ Exists(v) /\ rows[u].email = rows[v].email => u = v
        BY DEF AccountsInv, EmailsDistinct
      <3>2. CASE rows' = rows
        BY <3>1, <3>2 DEF Exists
      <3>3. CASE PutRow
        BY <3>1, <3>3 DEF PutRow, Exists, AccountsInv, AccountsTypeOK
      <3> QED
        BY <3>2, <3>3, RowsStep
    <2>2. ASSUME NEW u \in User, Exists(u)' PROVE Tidy(rows'[u].email) = rows'[u].email
      <3>1. rows'[u].email \in Typed(Email) /\ rows'[u].email.tidy
        BY <1>1, <1>2, <2>2 DEF AccountsTypeOK, Exists, Row
      <3> QED
        BY <3>1, TidyTyped
    <2> QED
      BY <2>1, <2>2 DEF EmailsDistinct, Tidy
  <1>5. AdmittedWasAdmin'
    <2> SUFFICES ASSUME NEW t \in Tab, posted'[t] = "admitted" PROVE ever'[t]
      BY DEF AdmittedWasAdmin
    <2>1. ever'[t] <=> ever[t] \/ Admin(cookie[t])'
      BY DEF RecordHistory
    <2>2. posted[t] = "admitted" \/ (posted[t] = "sent" /\ Admit(t))
      BY DEF AccountsStep, accounts, UserForm, SignIn, SignOut, SendForm, Admit, TurnAway,
             EndForm, EditUser, CreateUser, DeleteUser, FormFails, Command, CliRead, CliFinds,
             CliSave, CliCreate, CliUpdate, CliEnd, CliFails, AccountsInv, AccountsTypeOK
    <2>3. CASE posted[t] = "admitted"
      BY <2>1, <2>3 DEF AccountsInv, AdmittedWasAdmin
    <2>4. CASE Admit(t)
      <3>1. Admin(cookie[t])'
        BY <2>4 DEF Admit, Authenticated, Admin, Exists
      <3> QED
        BY <2>1, <3>1
    <2> QED
      BY <2>2, <2>3, <2>4
  <1>6. ReadIsCurrent'
    <2> SUFFICES ASSUME NEW c \in Cli, cli'[c].phase = "read", alone'[c], cli'[c].found # None
                 PROVE  /\ Exists(cli[c].found)'
                        /\ rows'[cli'[c].found] = cli'[c].seen
                        /\ cli'[c].seen.email = cli'[c].email
      BY DEF ReadIsCurrent, Exists
    <2>1. cli[c].phase = "read" => alone[c] /\ rows' = rows
      BY DEF RecordHistory
    <2>2. CASE cli'[c] = cli[c]
      BY <2>1, <2>2 DEF AccountsInv, ReadIsCurrent, Exists
    <2>3. CASE cli'[c] # cli[c]
      BY <2>3, ReadStep DEF Exists
    <2> QED
      BY <2>2, <2>3
  <1> QED
    BY <1>1, <1>3, <1>4, <1>5, <1>6 DEF AccountsInv

-----------------------------------------------------------------------------
(* The agent form *)

PageTypeOK ==
    /\ form \in [Tab -> Form \cup {None}]
    /\ lookup \in [Lookup -> Query \cup {None}]

\* Somebody waits for every lookup.
LookupsHaveForms == \A l \in Lookup : lookup[l] # None => form[lookup[l].tab] # None

\* The list is that of the URL.
Current(f) ==
    \/ f.list = "failed"
    \/ f.url = None /\ f.list = "prompt"
    \/ f.url # None /\ f.list = f.url.service

\* What has not been overtaken asks for the URL in the field, unless the timer
\* runs; and the list is current, late, or about to be replaced.
FreshIsCurrent ==
    \A l \in Lookup :
        lookup[l] # None /\ ~lookup[l].late /\ ~form[lookup[l].tab].timer =>
            /\ form[lookup[l].tab].url # None
            /\ lookup[l].root.service = form[lookup[l].tab].url.service

ListIsSettled ==
    \A t \in Tab : form[t] # None /\ ~form[t].timer =>
        \/ form[t].late
        \/ Current(form[t])
        \/ \E l \in Lookup : lookup[l] # None /\ lookup[l].tab = t /\ ~lookup[l].late

\* The inductive invariant of the agent form.
PageInv == PageTypeOK /\ LookupsHaveForms /\ FreshIsCurrent /\ ListIsSettled

Advance(l, phase) ==
    /\ lookup[l] # None
    /\ lookup' = [lookup EXCEPT ![l].phase = phase]
    /\ form' = form

Retype(t) ==
    /\ form[t] # None
    /\ lookup' = lookup
    /\ \E url \in Url \cup {None} :
          form' = [form EXCEPT ![t] = [@ EXCEPT !.url = url, !.timer = TRUE]]

\* All that a step of AgentForm does to the page.
PageStep ==
    \/ UNCHANGED page
    \/ \E t \in Tab, f \in Form : LoadAgents(t, f)
    \/ \E t \in Tab : Retype(t)
    \/ \E t \in Tab : CloseForm(t)
    \/ \E l \in Lookup, phase \in {"admitted", "listed", "failed"} : Advance(l, phase)
    \/ \E l \in Lookup : lookup[l] # None /\ Shows(l, lookup[l].root.service)
    \/ \E l \in Lookup : lookup[l] # None /\ Shows(l, "failed")

\* The inductive invariant.
IInv == AccountsInv /\ PageInv /\ agent \in Url \cup {None}

LEMMA StepParts ==
  ASSUME IInv, Next
  PROVE  AccountsStep /\ PageStep /\ RecordHistory
  <1> USE RowAssumption, FormAssumption
  <1>1. RecordHistory
    BY DEF Next
  <1>2. ASSUME NEW t \in Tab, AgentPage(t) PROVE AccountsStep /\ PageStep
    <2>1. ASSUME NEW f, f = form[t], f # None
          PROVE  f \in Form /\ [f EXCEPT !.timer = FALSE] \in Form
      BY <2>1 DEF IInv, PageInv, PageTypeOK, Form
    <2>2. CASE OpenForm(t)
      <3>1. ASSUME NEW url \in {None, agent}
            PROVE  [url |-> url, timer |-> FALSE, list |-> "prompt", late |-> FALSE] \in Form
        BY DEF Form, IInv
      <3> QED
        BY <2>2, <3>1 DEF OpenForm, AccountsStep, PageStep
    <2>3. CASE Type(t)
      BY <2>3 DEF Type, AccountsStep, PageStep, Retype
    <2>4. CASE TimerFires(t)
      BY <2>1, <2>4 DEF TimerFires, AccountsStep, PageStep
    <2>5. CASE Blur(t)
      BY <2>1, <2>5 DEF Blur, AccountsStep, PageStep
    <2>6. CASE Leave(t)
      BY <2>6 DEF Leave, AccountsStep, PageStep
    <2>7. CASE Submit(t)
      BY <2>7 DEF Submit, AccountsStep, UserForm, PageStep
    <2>8. CASE SubmitTurnedAway(t)
      BY <2>8 DEF SubmitTurnedAway, AccountsStep, UserForm, PageStep
    <2>9. CASE SaveAgent(t)
      BY <2>9 DEF SaveAgent, FormFails, AccountsStep, UserForm, PageStep
    <2>10. CASE AgentRefused(t)
      BY <2>10 DEF AgentRefused, FormFails, AccountsStep, UserForm, PageStep
    <2> QED
      BY <1>2, <2>2, <2>3, <2>4, <2>5, <2>6, <2>7, <2>8, <2>9, <2>10 DEF AgentPage
  <1>3. ASSUME NEW l \in Lookup, LookupStep(l) PROVE AccountsStep /\ PageStep
    <2>1. lookup[l] # None
      BY <1>3 DEF LookupStep, LookupAdmitted, LookupTurnedAway, LookupAnswered, Arrives, Fails
    <2>2. lookup[l].tab \in Tab
      BY <2>1 DEF IInv, PageInv, PageTypeOK, Query
    <2>3. AccountsStep
      BY <1>3, <2>2 DEF LookupStep, LookupAdmitted, LookupTurnedAway, LookupAnswered, Arrives,
                        Fails, Shows, AccountsStep
    <2>4. PageStep
      BY <1>3, <2>1 DEF LookupStep, LookupAdmitted, LookupTurnedAway, LookupAnswered, Arrives,
                        Fails, PageStep, Advance
    <2> QED
      BY <2>3, <2>4
  <1>4. ASSUME NEW t \in Tab, UserForm(t), UNCHANGED <<page, agent>>
        PROVE  AccountsStep /\ PageStep
    BY <1>4 DEF AccountsStep, PageStep
  <1>5. ASSUME NEW c \in Cli, Command(c), UNCHANGED <<page, agent>>
        PROVE  AccountsStep /\ PageStep
    BY <1>5 DEF AccountsStep, PageStep
  <1> QED
    BY <1>1, <1>2, <1>3, <1>4, <1>5 DEF Next

LEMMA AgentType ==
  ASSUME IInv, Next
  PROVE  agent' \in Url \cup {None}
  <1>1. ASSUME NEW t \in Tab, SaveAgent(t) PROVE agent' \in Url
    BY <1>1 DEF SaveAgent, CloseForm, IInv, PageInv, PageTypeOK, Form
  <1>2. ASSUME NEW t \in Tab, AgentPage(t), ~SaveAgent(t) PROVE agent' = agent
    BY <1>2 DEF AgentPage, OpenForm, Type, TimerFires, Blur, Leave, Submit, SubmitTurnedAway,
                AgentRefused
  <1>3. ASSUME NEW l \in Lookup, LookupStep(l) PROVE agent' = agent
    BY <1>3 DEF LookupStep, LookupAdmitted, LookupTurnedAway, LookupAnswered, Arrives, Fails,
                Shows
  <1> QED
    BY <1>1, <1>2, <1>3 DEF Next, IInv

\* A load makes what is under way late.
LEMMA OvertakenLookups ==
  ASSUME PageTypeOK, NEW t \in Tab, NEW l \in Lookup
  PROVE  LET o == Overtaken(t)[l] IN
         /\ o \in Query \cup {None}
         /\ o = None <=> lookup[l] = None
         /\ o # None => /\ o.tab = lookup[l].tab
                        /\ o.tab = t => o.late
                        /\ o.tab # t => o = lookup[l]
  <1> USE FormAssumption
  <1>1. CASE l \in LookupsOf(t)
    <2>1. lookup[l] \in Query /\ lookup[l].tab = t /\ lookup[l] # None
      BY <1>1 DEF LookupsOf, PageTypeOK
    <2>2. Overtaken(t)[l] = [lookup[l] EXCEPT !.late = TRUE]
      BY <1>1 DEF Overtaken
    <2> QED
      BY <2>1, <2>2 DEF Query
  <1>2. CASE l \notin LookupsOf(t)
    <2>1. Overtaken(t)[l] = lookup[l]
      BY <1>2 DEF Overtaken
    <2> QED
      BY <1>2, <2>1 DEF LookupsOf, PageTypeOK
  <1> QED
    BY <1>1, <1>2

LEMMA LoadTypes ==
  ASSUME PageTypeOK, NEW t \in Tab, NEW f \in Form, LoadAgents(t, f)
  PROVE  PageTypeOK'
  <1> USE FormAssumption
  <1>1. CASE Prompt(t, f)
    <2>1. [f EXCEPT !.list = "prompt", !.late = FALSE] \in Form
      BY DEF Form
    <2>2. form' \in [Tab -> Form \cup {None}]
      BY <1>1, <2>1 DEF Prompt, PageTypeOK
    <2>3. lookup' \in [Lookup -> Query \cup {None}]
      <3>1. Overtaken(t) = [l \in Lookup |-> Overtaken(t)[l]]
        BY DEF Overtaken
      <3> QED
        BY <1>1, <3>1, OvertakenLookups DEF Prompt
    <2> QED
      BY <2>2, <2>3 DEF PageTypeOK
  <1>2. CASE Fetch(t, f)
    <2> DEFINE q == [tab |-> t, root |-> Normalized(f.url), late |-> FALSE, phase |-> "sent"]
    <2>1. [f EXCEPT !.list = "loading", !.late = FALSE] \in Form
      BY DEF Form
    <2>2. form' \in [Tab -> Form \cup {None}]
      BY <1>2, <2>1 DEF Fetch, PageTypeOK
    <2>3. f.url \in [service : Service, docs : BOOLEAN]
      BY <1>2, UrlAssumption DEF Fetch, Form
    <2>4. q \in Query
      BY <2>3 DEF Query, Normalized
    <2>5. PICK l \in Lookup : lookup' = [Overtaken(t) EXCEPT ![l] = q]
      BY <1>2 DEF Fetch
    <2>6. lookup' \in [Lookup -> Query \cup {None}]
      <3>1. Overtaken(t) = [k \in Lookup |-> Overtaken(t)[k]]
        BY DEF Overtaken
      <3> HIDE DEF q
      <3> QED
        BY <2>4, <2>5, <3>1, OvertakenLookups
    <2> QED
      BY <2>2, <2>6 DEF PageTypeOK
  <1> QED
    BY <1>1, <1>2 DEF LoadAgents

LEMMA ShowTypes ==
  ASSUME PageTypeOK, LookupsHaveForms, NEW l \in Lookup, lookup[l] # None,
         NEW list \in Service \cup {"failed"}, Shows(l, list)
  PROVE  PageTypeOK'
  <1>1. lookup[l] \in Query /\ lookup[l].tab \in Tab /\ lookup[l].late \in BOOLEAN
    BY DEF PageTypeOK, Query
  <1>2. form[lookup[l].tab] \in Form
    BY <1>1 DEF PageTypeOK, LookupsHaveForms
  <1>3. [form[lookup[l].tab] EXCEPT !.list = list, !.late = lookup[l].late] \in Form
    BY <1>1, <1>2 DEF Form
  <1> QED
    BY <1>1, <1>3 DEF Shows, PageTypeOK

LEMMA PageTypes ==
  ASSUME PageInv, PageStep
  PROVE  PageTypeOK'
  <1> USE FormAssumption
  <1>1. CASE UNCHANGED page
    BY <1>1 DEF page, PageInv, PageTypeOK
  <1>2. ASSUME NEW t \in Tab, Retype(t) PROVE PageTypeOK'
    <2>1. form[t] \in Form
      BY <1>2 DEF Retype, PageInv, PageTypeOK
    <2>2. ASSUME NEW url \in Url \cup {None}
          PROVE  [form[t] EXCEPT !.url = url, !.timer = TRUE] \in Form
      BY <2>1 DEF Form
    <2> QED
      BY <1>2, <2>2 DEF Retype, PageInv, PageTypeOK
  <1>3. ASSUME NEW t \in Tab, CloseForm(t) PROVE PageTypeOK'
    BY <1>3 DEF CloseForm, PageInv, PageTypeOK
  <1>4. ASSUME NEW l \in Lookup, NEW phase \in {"admitted", "listed", "failed"},
               Advance(l, phase)
        PROVE  PageTypeOK'
    <2>1. lookup[l] \in Query
      BY <1>4 DEF Advance, PageInv, PageTypeOK
    <2>2. [lookup[l] EXCEPT !.phase = phase] \in Query
      BY <2>1 DEF Query
    <2> QED
      BY <1>4, <2>2 DEF Advance, PageInv, PageTypeOK
  <1>5. ASSUME NEW l \in Lookup, lookup[l] # None PROVE lookup[l].root.service \in Service
    BY <1>5 DEF PageInv, PageTypeOK, Query
  <1> QED
    BY <1>1, <1>2, <1>3, <1>4, <1>5, LoadTypes, ShowTypes DEF PageStep, PageInv

\* A load leaves one lookup that is not late, for the URL, or a prompt.
LEMMA LoadStep ==
  ASSUME PageInv, NEW t \in Tab, NEW f \in Form, LoadAgents(t, f)
  PROVE  LookupsHaveForms' /\ FreshIsCurrent' /\ ListIsSettled'
  <1> USE FormAssumption
  <1> DEFINE g == form'[t]
  <1>1. /\ g # None /\ g.url = f.url /\ g.timer = f.timer /\ g.late = FALSE
        /\ \A s \in Tab : s # t => form'[s] = form[s]
        /\ f.url = None => g.list = "prompt"
    <2>1. f # None
      OBVIOUS
    <2>2. ASSUME NEW list \in {"prompt", "loading"},
                 form' = [form EXCEPT ![t] = [f EXCEPT !.list = list, !.late = FALSE]]
          PROVE  /\ g # None /\ g.url = f.url /\ g.timer = f.timer /\ g.late = FALSE
                 /\ \A s \in Tab : s # t => form'[s] = form[s]
                 /\ g.list = list
      <3>1. [f EXCEPT !.list = list, !.late = FALSE] \in Form
        BY DEF Form
      <3>2. g = [f EXCEPT !.list = list, !.late = FALSE]
        BY <2>2 DEF PageInv, PageTypeOK
      <3>3. g.url = f.url /\ g.timer = f.timer /\ g.late = FALSE /\ g.list = list
        BY <3>2 DEF Form
      <3> QED
        BY <2>2, <3>1, <3>2, <3>3 DEF PageInv, PageTypeOK
    <2> QED
      BY <2>2 DEF LoadAgents, Prompt, Fetch
  <1>2. ASSUME NEW k \in Lookup, lookup'[k] # None
        PROVE  \/ /\ lookup'[k].tab = t /\ ~lookup'[k].late
                  /\ f.url # None /\ lookup'[k].root.service = f.url.service
               \/ lookup'[k].tab = t /\ lookup'[k].late
               \/ lookup'[k].tab # t /\ lookup'[k] = lookup[k]
    <2>1. lookup'[k] = Overtaken(t)[k] =>
            \/ lookup'[k].tab = t /\ lookup'[k].late
            \/ lookup'[k].tab # t /\ lookup'[k] = lookup[k]
      BY <1>2, OvertakenLookups DEF PageInv
    <2>2. CASE Prompt(t, f)
      BY <2>1, <2>2 DEF Prompt
    <2>3. CASE Fetch(t, f)
      <3>1. f.url \in [service : Service, docs : BOOLEAN] /\ f.url # None
        BY <2>3, UrlAssumption DEF Fetch, Form
      <3>2. PICK l \in Lookup :
               lookup' = [Overtaken(t) EXCEPT
                            ![l] = [tab |-> t, root |-> Normalized(f.url),
                                    late |-> FALSE, phase |-> "sent"]]
        BY <2>3 DEF Fetch
      <3>3. CASE k = l
        <4>1. lookup'[k] = [tab |-> t, root |-> Normalized(f.url),
                            late |-> FALSE, phase |-> "sent"]
          BY <3>2, <3>3 DEF Overtaken
        <4> QED
          BY <3>1, <4>1 DEF Normalized
      <3>4. CASE k # l
        BY <2>1, <3>2, <3>4 DEF Overtaken
      <3> QED
        BY <3>3, <3>4
    <2> QED
      BY <2>2, <2>3 DEF LoadAgents
  <1>3. f.url # None => \E k \in Lookup : lookup'[k] # None /\ lookup'[k].tab = t
                                          /\ ~lookup'[k].late
    <2> SUFFICES ASSUME f.url # None PROVE \E k \in Lookup : lookup'[k] # None
                     /\ lookup'[k].tab = t /\ ~lookup'[k].late
      OBVIOUS
    <2> DEFINE q == [tab |-> t, root |-> Normalized(f.url), late |-> FALSE, phase |-> "sent"]
    <2>1. PICK l \in Lookup : lookup' = [Overtaken(t) EXCEPT ![l] = q]
      BY DEF LoadAgents, Prompt, Fetch
    <2>2. q \in Query
      BY UrlAssumption DEF Form, Normalized, Query
    <2>3. lookup'[l] = q /\ q.tab = t /\ ~q.late
      BY <2>1 DEF Overtaken
    <2> HIDE DEF q
    <2> QED
      BY <2>2, <2>3
  <1>4. ASSUME NEW s \in Tab, s # t, NEW l \in Lookup
        PROVE  lookup[l] # None /\ lookup[l].tab = s => lookup'[l] = lookup[l]
    <2>1. lookup[l] # None /\ lookup[l].tab = s => Overtaken(t)[l] = lookup[l]
      BY <1>4, OvertakenLookups DEF PageInv
    <2>2. CASE Prompt(t, f)
      BY <2>1, <2>2 DEF Prompt
    <2>3. CASE Fetch(t, f)
      BY <2>1, <2>3 DEF Fetch, Overtaken
    <2> QED
      BY <2>2, <2>3 DEF LoadAgents
  <1>5. LookupsHaveForms'
    BY <1>1, <1>2 DEF LookupsHaveForms, PageInv, PageTypeOK, Query
  <1>6. FreshIsCurrent'
    <2> SUFFICES ASSUME NEW k \in Lookup, lookup'[k] # None, ~lookup'[k].late,
                        ~form'[lookup'[k].tab].timer
                 PROVE  /\ form'[lookup'[k].tab].url # None
                        /\ lookup'[k].root.service = form'[lookup'[k].tab].url.service
      BY DEF FreshIsCurrent
    <2>1. CASE lookup'[k].tab = t
      BY <1>1, <1>2, <2>1
    <2>2. CASE lookup'[k].tab # t
      <3>1. lookup'[k] = lookup[k] /\ lookup[k] # None
        BY <1>2, <2>2
      <3>2. lookup[k].tab \in Tab
        BY <3>1 DEF PageInv, PageTypeOK, Query
      <3>3. form'[lookup[k].tab] = form[lookup[k].tab]
        BY <1>1, <2>2, <3>1, <3>2
      <3> QED
        BY <3>1, <3>3 DEF PageInv, FreshIsCurrent
    <2> QED
      BY <2>1, <2>2
  <1>7. ListIsSettled'
    <2> SUFFICES ASSUME NEW s \in Tab, form'[s] # None, ~form'[s].timer
                 PROVE  \/ form'[s].late
                        \/ Current(form'[s])
                        \/ \E l \in Lookup : lookup'[l] # None /\ lookup'[l].tab = s
                                             /\ ~lookup'[l].late
      BY DEF ListIsSettled, Current
    <2>1. CASE s = t
      BY <1>1, <1>3, <2>1 DEF Current
    <2>2. CASE s # t
      BY <1>1, <1>4, <2>2 DEF PageInv, ListIsSettled
    <2> QED
      BY <2>1, <2>2
  <1> QED
    BY <1>5, <1>6, <1>7

\* The answer of l, or its failure.
LEMMA ShowStep ==
  ASSUME PageInv, NEW l \in Lookup, lookup[l] # None,
         NEW list \in {lookup[l].root.service, "failed"}, Shows(l, list)
  PROVE  LookupsHaveForms' /\ FreshIsCurrent' /\ ListIsSettled'
  <1> DEFINE t == lookup[l].tab
             g == [form[t] EXCEPT !.list = list, !.late = lookup[l].late]
  <1>1. lookup[l] \in Query /\ t \in Tab /\ lookup[l].late \in BOOLEAN
    BY DEF PageInv, PageTypeOK, Query
  <1>2. form[t] \in Form /\ form[t] # None
    BY <1>1 DEF PageInv, PageTypeOK, LookupsHaveForms
  <1>3. /\ form' = [form EXCEPT ![t] = g]
        /\ lookup' = [lookup EXCEPT ![l] = None]
    BY DEF Shows
  <1>4. /\ g \in Form
        /\ g.url = form[t].url /\ g.timer = form[t].timer
        /\ g.list = list /\ g.late = lookup[l].late
    <2>1. lookup[l].root.service \in Service
      BY <1>1 DEF Query
    <2> QED
      BY <1>1, <1>2, <2>1 DEF Form
  <1> HIDE DEF g, t
  <1>5. /\ form'[t] = g /\ g # None
        /\ \A s \in Tab : s # t => form'[s] = form[s]
        /\ \A k \in Lookup : lookup'[k] # None => k # l /\ lookup'[k] = lookup[k]
        /\ \A k \in Lookup : k # l => lookup'[k] = lookup[k]
    BY <1>1, <1>3, <1>4, FormAssumption DEF PageInv, PageTypeOK
  <1>6. LookupsHaveForms'
    BY <1>5 DEF LookupsHaveForms, PageInv, PageTypeOK, Query
  <1>7. FreshIsCurrent'
    <2> SUFFICES ASSUME NEW k \in Lookup, lookup'[k] # None, ~lookup'[k].late,
                        ~form'[lookup'[k].tab].timer
                 PROVE  /\ form'[lookup'[k].tab].url # None
                        /\ lookup'[k].root.service = form'[lookup'[k].tab].url.service
      BY DEF FreshIsCurrent
    <2>1. lookup'[k] = lookup[k] /\ lookup[k] # None
      BY <1>5
    <2>2. lookup[k].tab \in Tab
      BY <2>1 DEF PageInv, PageTypeOK, Query
    <2>3. /\ form'[lookup[k].tab].url = form[lookup[k].tab].url
          /\ form'[lookup[k].tab].timer = form[lookup[k].tab].timer
      BY <1>4, <1>5, <2>2
    <2> QED
      BY <2>1, <2>3 DEF PageInv, FreshIsCurrent
  <1>8. ListIsSettled'
    <2> SUFFICES ASSUME NEW s \in Tab, form'[s] # None, ~form'[s].timer
                 PROVE  \/ form'[s].late
                        \/ Current(form'[s])
                        \/ \E k \in Lookup : lookup'[k] # None /\ lookup'[k].tab = s
                                             /\ ~lookup'[k].late
      BY DEF ListIsSettled, Current
    <2>1. CASE s = t
      <3>1. CASE lookup[l].late
        BY <1>4, <1>5, <2>1, <3>1
      <3>2. CASE ~lookup[l].late
        <4>1. form[t].url # None /\ lookup[l].root.service = form[t].url.service
          BY <1>4, <1>5, <2>1, <3>2 DEF PageInv, FreshIsCurrent, t
        <4> QED
          BY <1>4, <1>5, <2>1, <4>1 DEF Current
      <3> QED
        BY <3>1, <3>2
    <2>2. CASE s # t
      BY <1>5, <2>2 DEF PageInv, ListIsSettled, t
    <2> QED
      BY <2>1, <2>2
  <1> QED
    BY <1>6, <1>7, <1>8

LEMMA RetypeStep ==
  ASSUME PageInv, NEW t \in Tab, Retype(t)
  PROVE  LookupsHaveForms' /\ FreshIsCurrent' /\ ListIsSettled'
  <1>1. PICK url \in Url \cup {None} :
           form' = [form EXCEPT ![t] = [form[t] EXCEPT !.url = url, !.timer = TRUE]]
    BY DEF Retype
  <1> DEFINE g == [form[t] EXCEPT !.url = url, !.timer = TRUE]
  <1>2. form[t] \in Form /\ lookup' = lookup
    BY DEF Retype, PageInv, PageTypeOK
  <1>3. g \in Form /\ g.timer
    BY <1>2 DEF Form
  <1> HIDE DEF g
  <1>4. /\ form'[t] = g /\ g # None
        /\ \A s \in Tab : s # t => form'[s] = form[s]
    BY <1>1, <1>3, FormAssumption DEF PageInv, PageTypeOK, g
  <1>5. \A l \in Lookup : lookup[l] # None => lookup[l].tab \in Tab
    BY DEF PageInv, PageTypeOK, Query
  <1>6. LookupsHaveForms'
    BY <1>2, <1>4, <1>5 DEF LookupsHaveForms, PageInv
  <1>7. FreshIsCurrent'
    BY <1>2, <1>3, <1>4, <1>5 DEF FreshIsCurrent, PageInv
  <1>8. ListIsSettled'
    BY <1>2, <1>3, <1>4 DEF ListIsSettled, Current, PageInv
  <1> QED
    BY <1>6, <1>7, <1>8

LEMMA CloseStep ==
  ASSUME PageInv, NEW t \in Tab, CloseForm(t)
  PROVE  LookupsHaveForms' /\ FreshIsCurrent' /\ ListIsSettled'
  <1>1. form'[t] = None /\ \A s \in Tab : s # t => form'[s] = form[s]
    BY DEF CloseForm, PageInv, PageTypeOK
  <1>2. /\ \A l \in Lookup : lookup'[l] # None => lookup'[l] = lookup[l] /\ lookup[l].tab # t
        /\ \A l \in Lookup : lookup[l] # None /\ lookup[l].tab # t => lookup'[l] = lookup[l]
    BY DEF CloseForm, LookupsOf
  <1>3. \A l \in Lookup : lookup[l] # None => lookup[l].tab \in Tab
    BY DEF PageInv, PageTypeOK, Query
  <1>4. LookupsHaveForms'
    BY <1>1, <1>2, <1>3 DEF LookupsHaveForms, PageInv
  <1>5. FreshIsCurrent'
    BY <1>1, <1>2, <1>3 DEF FreshIsCurrent, PageInv
  <1>6. ListIsSettled'
    BY <1>1, <1>2 DEF ListIsSettled, Current, PageInv
  <1> QED
    BY <1>4, <1>5, <1>6

LEMMA AdvanceStep ==
  ASSUME PageInv, NEW l \in Lookup, NEW phase \in {"admitted", "listed", "failed"},
         Advance(l, phase)
  PROVE  LookupsHaveForms' /\ FreshIsCurrent' /\ ListIsSettled'
  <1> DEFINE q == [lookup[l] EXCEPT !.phase = phase]
  <1>1. lookup[l] \in Query /\ lookup[l] # None /\ form' = form
        /\ lookup' = [lookup EXCEPT ![l] = q]
    BY DEF Advance, PageInv, PageTypeOK
  <1>2. q \in Query /\ q.tab = lookup[l].tab /\ q.root = lookup[l].root
        /\ q.late = lookup[l].late
    BY <1>1 DEF Query
  <1> HIDE DEF q
  <1>3. \A k \in Lookup :
           /\ lookup'[k] = None <=> lookup[k] = None
           /\ lookup[k] # None => /\ lookup'[k].tab = lookup[k].tab
                                  /\ lookup'[k].root = lookup[k].root
                                  /\ lookup'[k].late = lookup[k].late
    BY <1>1, <1>2, FormAssumption DEF PageInv, PageTypeOK
  <1>4. LookupsHaveForms'
    BY <1>1, <1>3 DEF LookupsHaveForms, PageInv
  <1>5. FreshIsCurrent'
    BY <1>1, <1>3 DEF FreshIsCurrent, PageInv
  <1>6. ListIsSettled'
    BY <1>1, <1>3 DEF ListIsSettled, Current, PageInv
  <1> QED
    BY <1>4, <1>5, <1>6

LEMMA PageInvStep ==
  ASSUME PageInv, PageStep
  PROVE  PageInv'
  <1>1. PageTypeOK'
    BY PageTypes
  <1>2. CASE UNCHANGED page
    BY <1>1, <1>2 DEF page, PageInv, LookupsHaveForms, FreshIsCurrent, ListIsSettled, Current
  <1>3. CASE ~UNCHANGED page
    BY <1>1, <1>3, LoadStep, RetypeStep, CloseStep, AdvanceStep, ShowStep DEF PageStep, PageInv
  <1> QED
    BY <1>2, <1>3

-----------------------------------------------------------------------------
(* Theorems *)

LEMMA InitIInv == Init => IInv
  <1> SUFFICES ASSUME Init PROVE IInv
    OBVIOUS
  <1>1. AccountsInv
    BY AccountsInitInv DEF Init
  <1>2. PageInv
    BY DEF Init, PageInv, PageTypeOK, LookupsHaveForms, FreshIsCurrent, ListIsSettled
  <1> QED
    BY <1>1, <1>2 DEF Init, IInv

LEMMA IInvStep == IInv /\ [Next]_vars => IInv'
  <1>1. ASSUME IInv, Next PROVE IInv'
    BY <1>1, StepParts, AccountsInvStep, PageInvStep, AgentType DEF IInv
  <1>2. ASSUME IInv, UNCHANGED vars PROVE IInv'
    BY <1>2 DEF vars, accounts, history, page, IInv, AccountsInv, AccountsTypeOK,
                AddressesAreTidy, EmailsDistinct, AdmittedWasAdmin, ReadIsCurrent, Exists,
                PageInv, PageTypeOK, LookupsHaveForms, FreshIsCurrent, ListIsSettled, Current
  <1> QED
    BY <1>1, <1>2

\* The inductive invariant holds for any users, browsers, commands and lookups.
THEOREM AdminInvariant == Spec => []IInv
  BY InitIInv, IInvStep, PTL DEF Spec

\* The variables keep their types.
THEOREM AdminTypes == Spec => []TypeOK
  <1>1. IInv => TypeOK
    BY DEF IInv, AccountsInv, PageInv, PageTypeOK, TypeOK
  <1> QED
    BY <1>1, AdminInvariant, PTL

\* No two users have the same address, however it was typed and whoever typed it.
THEOREM AddressesDistinct == Spec => []EmailsDistinct
  <1>1. IInv => EmailsDistinct
    BY DEF IInv, AccountsInv
  <1> QED
    BY <1>1, AdminInvariant, PTL

\* When the form is at rest it lists the agents of the service whose URL it shows,
\* unless a late answer came last.
THEOREM FormSettles == Spec => []SettledListIsCurrent
  <1>1. ASSUME IInv PROVE SettledListIsCurrent
    <2> SUFFICES ASSUME NEW t \in Tab, form[t] # None, ~form[t].timer, LookupsOf(t) = {},
                        ~form[t].late
                 PROVE  \/ form[t].list = "failed"
                        \/ form[t].url = None /\ form[t].list = "prompt"
                        \/ form[t].url # None /\ form[t].list = form[t].url.service
      BY DEF SettledListIsCurrent
    <2> QED
      BY <1>1 DEF IInv, PageInv, ListIsSettled, Current, LookupsOf
  <1> QED
    BY <1>1, AdminInvariant, PTL

\* A form changes the table only if its sender was an admin since it was sent.
THEOREM EditsAuthorised == Spec => EditsAreAuthorised
  <1> DEFINE A == \A t \in Tab : EndForm(t) /\ rows' # rows => ever[t]
  <1>1. IInv => A
    BY DEF IInv, AccountsInv, AdmittedWasAdmin, EndForm
  <1>2. IInv => [A]_accounts
    BY <1>1
  <1> QED
    BY <1>2, AdminInvariant, PTL DEF EditsAreAuthorised

\* A user whom the command has saved undisturbed can sign in with its password.
THEOREM AdminRestored == Spec => AdminIsRestored
  <1> DEFINE A == \A c \in Cli, p \in Typed(Secret) :
                     CliSave(c, p, TRUE) /\ alone[c] /\ p.tidy =>
                         \E u \in User : /\ Enters(u, p)'
                                         /\ rows'[u].email = cli[c].email
  <1>1. IInv => A
    <2> SUFFICES ASSUME IInv, NEW c \in Cli, NEW p \in Typed(Secret), CliSave(c, p, TRUE),
                        alone[c], p.tidy
                 PROVE  \E u \in User : Enters(u, p)' /\ rows'[u].email = cli[c].email
      OBVIOUS
    <2> USE RowAssumption
    <2>1. Tidy(p) = p
      BY TidyTyped
    <2>2. ASSUME NEW u \in User, rows'[u] \in Row, rows'[u].password = p,
                 rows'[u].active, rows'[u].admin, u # None
          PROVE  Enters(u, p)'
      BY <2>1, <2>2 DEF Enters, Admin, Exists, Tidy
    <2>3. CASE CliCreate(c, p, TRUE)
      <3> DEFINE r == [email |-> cli[c].email, password |-> p, active |-> TRUE, admin |-> TRUE]
      <3>1. PICK u \in User : rows' = [rows EXCEPT ![u] = r]
        BY <2>3 DEF CliCreate
      <3>2. cli[c].email \in Typed(Email)
        BY <2>3 DEF CliCreate, CliEnd, IInv, AccountsInv, AddressesAreTidy
      <3>3. r \in Row /\ rows'[u] = r
        BY <3>1, <3>2 DEF Row, IInv, AccountsInv, AccountsTypeOK
      <3> QED
        BY <2>2, <3>3
    <2>4. CASE CliUpdate(c, p, TRUE)
      <3> DEFINE u == cli[c].found
      <3>1. /\ u \in User /\ rows'[u] \in Row
            /\ rows'[u].email = rows[u].email
            /\ rows'[u].password = p
            /\ rows'[u].active = Flushed(TRUE, cli[c].seen.active, rows[u].active)
            /\ rows'[u].admin = Flushed(TRUE, cli[c].seen.admin, rows[u].admin)
        BY <2>4, UpdatedRow DEF IInv
      <3>2. rows[u] = cli[c].seen /\ rows[u].email = cli[c].email
        BY <2>4 DEF CliUpdate, CliEnd, Exists, IInv, AccountsInv, ReadIsCurrent
      <3>3. rows'[u].active /\ rows'[u].admin
        BY <3>1, <3>2 DEF Flushed
      <3> QED
        BY <2>2, <3>1, <3>2, <3>3
    <2> QED
      BY <2>3, <2>4 DEF CliSave
  <1>2. IInv => [A]_accounts
    BY <1>1
  <1> QED
    BY <1>2, AdminInvariant, PTL DEF AdminIsRestored

=============================================================================
