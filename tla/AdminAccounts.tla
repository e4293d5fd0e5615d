--------------------------- MODULE AdminAccounts ---------------------------
(***************************************************************************)
(* The accounts of the gateway and who may edit them: the table users, the *)
(* admin console with its signed session cookie, and create-admin-user on  *)
(* the command line.                                                       *)
(*                                                                         *)
(* The console checks its user against the table when a request arrives    *)
(* and saves in a second session; the command reads, hashes for a while    *)
(* and commits.  Anything may happen in between.                           *)
(***************************************************************************)
EXTENDS Naturals

CONSTANTS User,     \* primary keys
          Email,    \* addresses
          Secret,   \* passwords
          Tab,      \* browsers with the console
          Cli,      \* runs of create-admin-user
          None

\* An address or a password as somebody types it; stripped, and an address in
\* lower case, it is tidy.
Typed(S) == [value : S, tidy : BOOLEAN]
Tidy(x) == [x EXCEPT !.tidy = TRUE]

Row == [email : Typed(Email), password : Typed(Secret), active : BOOLEAN, admin : BOOLEAN]

ASSUME RowAssumption == None \notin User /\ None \notin Row

VARIABLES
    rows,    \* rows[u]: the row of user u
    cookie,  \* cookie[t]: the user in the session cookie of tab t
    posted,  \* posted[t]: the form that tab t has sent, "none", "sent" or "admitted"
    ever,    \* history: the user of t was an admin at a time since the form was sent
    cli,     \* cli[c]: a run of the command
    alone    \* history: nobody has written the table since c read it

accounts == <<rows, cookie, posted, cli>>
history == <<ever, alone>>

\* found and seen are what the command has read.
Run == [phase : {"idle", "read", "ended"}, email : Typed(Email) \cup {None},
        found : User \cup {None}, seen : Row \cup {None}]

At(phase) == [phase |-> phase, email |-> None, found |-> None, seen |-> None]

FirstAdmin(e, s) == [email |-> [value |-> e, tidy |-> TRUE],
                     password |-> [value |-> s, tidy |-> TRUE],
                     active |-> TRUE, admin |-> TRUE]

\* Nobody is there yet, or somebody is.
AccountsInit ==
    /\ LET nobody == [u \in User |-> None] IN
       \/ rows = nobody
       \/ \E u \in User, e \in Email, s \in Secret :
             rows = [nobody EXCEPT ![u] = FirstAdmin(e, s)]
    /\ cookie = [t \in Tab |-> None]
    /\ posted = [t \in Tab |-> "none"]
    /\ ever = [t \in Tab |-> FALSE]
    /\ cli = [c \in Cli |-> At("idle")]
    /\ alone = [c \in Cli |-> TRUE]

-----------------------------------------------------------------------------
(* Helpers *)

Exists(u) == u # None /\ rows[u] # None
Admin(u) == Exists(u) /\ rows[u].active /\ rows[u].admin

\* The users with this address.
WithEmail(e) == {u \in User : Exists(u) /\ rows[u].email = e}

\* The UNIQUE constraint on users.email lets u have the address e.
EmailFree(e, u) == WithEmail(e) \subseteq {u}

\* AdminAuth.login lets u in with this password.
Enters(u, password) == Admin(u) /\ rows[u].password = Tidy(password)

\* Fault: the cookie says who is an admin.
TrustsCookie(t) == cookie[t] # None

\* AdminAuth.authenticate, at every request.
Authenticated(t) == Admin(cookie[t])

-----------------------------------------------------------------------------
(* The console *)

SignIn(t) ==
    /\ cookie[t] = None
    /\ \E u \in User, password \in Typed(Secret) :
          /\ Enters(u, password)
          /\ cookie' = [cookie EXCEPT ![t] = u]
    /\ UNCHANGED <<rows, posted, cli>>

SignOut(t) ==
    /\ cookie[t] # None
    /\ posted[t] = "none"
    /\ cookie' = [cookie EXCEPT ![t] = None]
    /\ UNCHANGED <<rows, posted, cli>>

\* A form of the console is sent: what is in it matters when it is saved.
SendForm(t) ==
    /\ cookie[t] # None
    /\ posted[t] = "none"
    /\ posted' = [posted EXCEPT ![t] = "sent"]
    /\ UNCHANGED <<rows, cookie, cli>>

Admit(t) ==
    /\ posted[t] = "sent"
    /\ Authenticated(t)
    /\ posted' = [posted EXCEPT ![t] = "admitted"]
    /\ UNCHANGED <<rows, cookie, cli>>

\* The session is cleared and the browser sent to the login page.
TurnAway(t) ==
    /\ posted[t] = "sent"
    /\ ~Authenticated(t)
    /\ posted' = [posted EXCEPT ![t] = "none"]
    /\ cookie' = [cookie EXCEPT ![t] = None]
    /\ UNCHANGED <<rows, cli>>

\* The view has saved the form, or has failed.
EndForm(t) ==
    /\ posted[t] = "admitted"
    /\ posted' = [posted EXCEPT ![t] = "none"]
    /\ UNCHANGED <<cookie, cli>>

\* UserAdmin: an empty password keeps the old one.
EditUser(t, u) ==
    /\ EndForm(t)
    /\ Exists(u)
    /\ \E e \in Typed(Email), p \in Typed(Secret) \cup {None}, active, admin \in BOOLEAN :
          /\ EmailFree(Tidy(e), u)
          /\ rows' = [rows EXCEPT ![u] =
                        [email |-> Tidy(e),
                         password |-> IF p = None THEN rows[u].password ELSE Tidy(p),
                         active |-> active, admin |-> admin]]

CreateUser(t, u) ==
    /\ EndForm(t)
    /\ ~Exists(u)
    /\ \E e \in Typed(Email), p \in Typed(Secret), active, admin \in BOOLEAN :
          /\ EmailFree(Tidy(e), u)
          /\ rows' = [rows EXCEPT ![u] = [email |-> Tidy(e), password |-> Tidy(p),
                                          active |-> active, admin |-> admin]]

DeleteUser(t, u) ==
    /\ EndForm(t)
    /\ Exists(u)
    /\ rows' = [rows EXCEPT ![u] = None]

\* No email, no password for a new user, an address that is taken, or no row.
FormFails(t) == EndForm(t) /\ UNCHANGED rows

-----------------------------------------------------------------------------
(* create_or_update_admin_user *)

\* The command finds u with this address, or nobody.
CliFinds(c, e, u) ==
    /\ cli[c].phase = "idle"
    /\ IF u = None THEN WithEmail(e) = {} ELSE u \in WithEmail(e)
    /\ cli' = [cli EXCEPT ![c] = [phase |-> "read", email |-> e, found |-> u,
                                  seen |-> IF u = None THEN None ELSE rows[u]]]
    /\ UNCHANGED <<rows, cookie, posted>>

\* Fault: the address is used as it was typed.
CliReadUntidy(c) ==
    \E e \in Typed(Email), u \in User \cup {None} : CliFinds(c, e, u)

CliRead(c) ==
    \E e \in Typed(Email), u \in User \cup {None} : CliFinds(c, Tidy(e), u)

CliEnd(c) ==
    /\ cli[c].phase = "read"
    /\ cli' = [cli EXCEPT ![c] = At("ended")]
    /\ UNCHANGED <<cookie, posted>>

CliCreate(c, password, active) ==
    /\ CliEnd(c)
    /\ cli[c].found = None
    /\ WithEmail(cli[c].email) = {}
    /\ \E u \in User :
          /\ ~Exists(u)
          /\ rows' = [rows EXCEPT ![u] = [email |-> cli[c].email, password |-> password,
                                          active |-> active, admin |-> TRUE]]

\* The session writes what differs from the row that it has read.
Flushed(new, seen, current) == IF new # seen THEN new ELSE current

\* Fault: a user who exists keeps the rights it has.
CliUpdatePassword(c, password, active) ==
    /\ CliEnd(c)
    /\ Exists(cli[c].found)
    /\ rows' = [rows EXCEPT ![cli[c].found].password = password]

Updated(row, seen, password, active) ==
    [row EXCEPT !.password = password,
                !.active = Flushed(active, seen.active, row.active),
                !.admin = Flushed(TRUE, seen.admin, row.admin)]

CliUpdate(c, password, active) ==
    /\ CliEnd(c)
    /\ Exists(cli[c].found)
    /\ LET u == cli[c].found IN
       rows' = [rows EXCEPT ![u] = Updated(rows[u], cli[c].seen, password, active)]

CliSave(c, password, active) ==
    CliCreate(c, password, active) \/ CliUpdate(c, password, active)

\* Somebody has created the user meanwhile, or deleted it; or the command is
\* killed.
CliFails(c) == CliEnd(c) /\ UNCHANGED rows

-----------------------------------------------------------------------------
UserForm(t) ==
    \/ SignIn(t) \/ SignOut(t) \/ SendForm(t) \/ Admit(t) \/ TurnAway(t)
    \/ \E u \in User : EditUser(t, u) \/ CreateUser(t, u) \/ DeleteUser(t, u)
    \/ FormFails(t)

Command(c) ==
    \/ CliRead(c)
    \/ \E password \in Typed(Secret), active \in BOOLEAN : CliSave(c, password, active)
    \/ CliFails(c)

RecordHistory ==
    /\ ever' = [t \in Tab |-> /\ posted'[t] # "none"
                              /\ ever[t] \/ Admin(cookie[t])']
    /\ alone' = [c \in Cli |-> \/ cli'[c].phase # "read"
                               \/ cli[c].phase = "read" => alone[c] /\ UNCHANGED rows]

-----------------------------------------------------------------------------
(* Properties *)

\* The types of the variables.
AccountsTypeOK ==
    /\ rows \in [User -> Row \cup {None}]
    /\ cookie \in [Tab -> User \cup {None}]
    /\ posted \in [Tab -> {"none", "sent", "admitted"}]
    /\ ever \in [Tab -> BOOLEAN]
    /\ cli \in [Cli -> Run]
    /\ alone \in [Cli -> BOOLEAN]

\* The console and the command agree about addresses: no two users have the same
\* one, however it was typed, so the command never makes a second admin beside
\* the one whom it should have found.
EmailsDistinct ==
    \A u, v \in User :
        Exists(u) /\ Exists(v) /\ Tidy(rows[u].email) = Tidy(rows[v].email) => u = v

\* A form changes the table only if its sender was an admin at a time since it
\* was sent: a session cookie that outlives a demotion, a deactivation or the
\* deletion of its user is of no use.
EditsAreAuthorised ==
    [][\A t \in Tab : EndForm(t) /\ rows' # rows => ever[t]]_accounts

\* "Create or rotate an admin user": when nobody writes the table while the
\* command runs, the user with its address can sign in to the console with its
\* password, whoever was there before.  A padded password does not let anybody
\* in, because the console strips what is typed and the command does not.
AdminIsRestored ==
    [][\A c \in Cli, p \in Typed(Secret) :
          CliSave(c, p, TRUE) /\ alone[c] /\ p.tidy =>
              \E u \in User : /\ Enters(u, p)'
                              /\ rows'[u].email = cli[c].email]_accounts
=============================================================================
