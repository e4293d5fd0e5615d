----------------------- MODULE RefreshSessionsProofs -----------------------
(***************************************************************************)
(* Theorems about RefreshSessions, and ReplayRace, for every number of     *)
(* concurrent requests, users and tokens and every lifetime.               *)
(***************************************************************************)
EXTENDS ReplayRace, TLAPS

-----------------------------------------------------------------------------
(* The inductive invariant: what a request in progress relies on ...        *)

HasToken == {"rf_find", "lo_find", "rf_user", "rf_insert", "rf_commit",
             "rv_scan", "rv_update"}
HasUser == {"lg_commit", "rf_user", "rf_insert", "rf_commit", "rv_scan",
            "rv_update", "de_lock", "de_rows", "respond"}
Rotating == {"rf_user", "rf_insert", "rf_commit"}
Revoking == {"rv_scan", "rv_update"}

\* It has set the local variables its next statement reads.
LocalsSet(h) ==
    /\ pc[h] \in HasToken => tok[h] \in Token
    /\ pc[h] \in HasUser => usr[h] \in Users
    /\ pc[h] \in {"rf_commit", "respond"} => new[h] \in Token

\* The row it read FOR UPDATE is locked and there; if it is about to exchange
\* the token, the token is unspent.
HoldsRow(h) ==
    /\ pc[h] \in Rotating \cup Revoking =>
         lock[tok[h]] = h /\ Committed(tok[h]) /\ rows[tok[h]].user = usr[h]
    /\ pc[h] \in Rotating => ~rows[tok[h]].revoked /\ ~rows[tok[h]].rotated

\* The row it has inserted, and nobody else sees, will succeed the row it read.
HoldsNew(h) ==
    pc[h] = "rf_commit" =>
        /\ rows[new[h]].st = "pending"
        /\ lock[new[h]] = h
        /\ rows[new[h]].user = usr[h]
        /\ rows[new[h]].family = rows[tok[h]].family
        /\ rows[tok[h]].expires <= rows[new[h]].expires

\* The rows it is about to revoke are there.
Scanned(h) ==
    \A t \in scan[h] : pc[h] = "rv_update" /\ Committed(t) /\ rows[t].user = usr[h]

Request(h) == LocalsSet(h) /\ HoldsRow(h) /\ HoldsNew(h) /\ Scanned(h)

\* An uncommitted row belongs to a transaction in progress.
PendingHasWriter ==
    \A t \in Token : rows[t].st = "pending" =>
        \E h \in Handlers : pc[h] = "rf_commit" /\ new[h] = t

(* ... and what the table looks like between two statements.               *)

\* user_id is NOT NULL and a foreign key; a session descends from a login whose
\* own session was committed once.
OwnersSet ==
    \A t \in Token : rows[t].st \in {"pending", "committed"} =>
        /\ rows[t].user \in Users
        /\ rows[t].family \in Token
        /\ rows[t].st = "committed" \/ rows[t].family # t
        /\ rows[rows[t].family].st \in {"committed", "deleted"}

\* Only committed rows were revoked or rotated, and the rotated were revoked.
RowShape ==
    \A t \in Token :
        /\ rows[t].revoked => Committed(t)
        /\ rows[t].rotated => rows[t].revoked
        /\ rows[t].st \in {"pending", "committed"} => rows[t].expires <= now + Lifetime
        /\ rows[t].next # None => rows[t].rotated

\* A login has one newest session.
OneTipPerLogin ==
    \A s, t \in Token :
        /\ Committed(s) /\ ~rows[s].rotated
        /\ Committed(t) /\ ~rows[t].rotated
        /\ rows[s].family = rows[t].family
        => s = t

Table == OwnersSet /\ RowShape /\ OneTipPerLogin /\ ChainLinks /\ DeletedUserLeavesNothing

IInv == TypeOK /\ (\A h \in Handlers : Request(h)) /\ PendingHasWriter /\ Table

-----------------------------------------------------------------------------
(* Rows *)

\* A free or deleted row is blank.
LEMMA BlankRow ==
    ASSUME NEW st \in {"free", "deleted"}
    PROVE  /\ Blank(st) \in Row /\ Blank(st).st = st
           /\ Blank(st).rotated = FALSE /\ Blank(st).revoked = FALSE
           /\ Blank(st).expires = 0 /\ Blank(st).next = None
BY DEF Blank, Row

\* What an UPDATE of a session changes, and that it changes nothing else.
LEMMA RevokedRow ==
    ASSUME NEW r \in Row
    PROVE  /\ Revoked(r) \in Row /\ Revoked(r).revoked = TRUE
           /\ Revoked(r).st = r.st /\ Revoked(r).user = r.user
           /\ Revoked(r).family = r.family /\ Revoked(r).expires = r.expires
           /\ Revoked(r).rotated = r.rotated /\ Revoked(r).next = r.next
BY DEF Revoked, Row

\* A session that is exchanged names its successor, and is otherwise the same.
LEMMA ReplacedRow ==
    ASSUME NEW r \in Row, NEW n \in Token
    PROVE  /\ ReplacedBy(r, n) \in Row
           /\ ReplacedBy(r, n).rotated = TRUE /\ ReplacedBy(r, n).revoked = TRUE
           /\ ReplacedBy(r, n).next = n
           /\ ReplacedBy(r, n).st = r.st /\ ReplacedBy(r, n).user = r.user
           /\ ReplacedBy(r, n).family = r.family
           /\ ReplacedBy(r, n).expires = r.expires
BY DEF ReplacedBy, Row

\* A committed insertion changes nothing but whether others see the row.
LEMMA VisibleRow ==
    ASSUME NEW r \in Row
    PROVE  /\ Visible(r) \in Row /\ Visible(r).st = "committed"
           /\ Visible(r).user = r.user /\ Visible(r).family = r.family
           /\ Visible(r).expires = r.expires /\ Visible(r).rotated = r.rotated
           /\ Visible(r).revoked = r.revoked /\ Visible(r).next = r.next
BY DEF Visible, Row

-----------------------------------------------------------------------------
(* The changes a transaction makes to the table keep Table. *)

\* UPDATE ... SET revoked_at on the rows S.
RevokeRows(S) ==
    rows' = [t \in Token |-> IF t \in S THEN Revoked(rows[t]) ELSE rows[t]]

\* INSERT of the row n.
InsertRow(n, u, f, st) ==
    rows' = [t \in Token |-> IF t = n THEN NewSession(u, f, st) ELSE rows[t]]

\* The commit of a rotation of o into n.
RotateRows(o, n) ==
    rows' = [t \in Token |-> CASE t = o -> ReplacedBy(rows[t], n)
                               [] t = n -> Visible(rows[t])
                               [] OTHER -> rows[t]]

\* The cascade of a deleted user.
DeleteRows(u) ==
    rows' = [t \in Token |-> IF t \in SessionsOf(u) THEN Blank("deleted") ELSE rows[t]]

\* The rollback of the insertion of n.
RollbackRow(n) ==
    rows' = [t \in Token |-> IF t = n THEN Blank("free") ELSE rows[t]]

\* Time passing and edits of users leave the table as it is.
LEMMA TableUnchanged ==
    ASSUME TypeOK, Table, rows' = rows, now' \in Nat, now <= now',
           \A u \in Users : users'[u] = "deleted" => users[u] = "deleted"
    PROVE  Table'
<1>1. OwnersSet' /\ OneTipPerLogin' /\ ChainLinks'
  BY DEF Table, OwnersSet, OneTipPerLogin, ChainLinks, NamesSuccessor, Names, Committed
<1>2. RowShape'
  BY TimeAssumption DEF Table, RowShape, Committed, TypeOK, Row
<1>3. DeletedUserLeavesNothing'
  BY DEF Table, DeletedUserLeavesNothing
<1>4. QED BY <1>1, <1>2, <1>3 DEF Table

\* A revocation keeps the chains: rotated sessions are revoked already.
LEMMA TableRevoke ==
    ASSUME TypeOK, Table, NEW S \in SUBSET Token, \A t \in S : Committed(t),
           RevokeRows(S), users' = users, now' = now
    PROVE  rows' \in [Token -> Row] /\ Table'
<1>1. rows' \in [Token -> Row]
  BY RevokedRow DEF RevokeRows, TypeOK
<1>2. \A t \in Token : /\ rows'[t].st = rows[t].st /\ rows'[t].user = rows[t].user
                       /\ rows'[t].family = rows[t].family
                       /\ rows'[t].expires = rows[t].expires
                       /\ rows'[t].rotated = rows[t].rotated
                       /\ rows'[t].next = rows[t].next
                       /\ rows'[t].revoked <=> rows[t].revoked \/ t \in S
  <2> SUFFICES ASSUME NEW t \in Token
               PROVE  /\ rows'[t].st = rows[t].st /\ rows'[t].user = rows[t].user
                      /\ rows'[t].family = rows[t].family
                      /\ rows'[t].expires = rows[t].expires
                      /\ rows'[t].rotated = rows[t].rotated
                      /\ rows'[t].next = rows[t].next
                      /\ rows'[t].revoked <=> rows[t].revoked \/ t \in S
    OBVIOUS
  <2>1. CASE t \in S
    BY <2>1, RevokedRow DEF RevokeRows, TypeOK
  <2>2. CASE t \notin S
    BY <2>2 DEF RevokeRows
  <2>3. QED BY <2>1, <2>2
<1>3. OwnersSet'
  BY <1>2 DEF Table, OwnersSet
<1>4. RowShape'
  BY <1>2 DEF Table, RowShape, Committed
<1>5. OneTipPerLogin'
  BY <1>2 DEF Table, OneTipPerLogin, Committed
<1>6. ChainLinks'
  BY <1>2 DEF Table, ChainLinks, NamesSuccessor, Names, Committed, TypeOK, Row
<1>7. DeletedUserLeavesNothing'
  BY <1>2 DEF Table, DeletedUserLeavesNothing
<1>8. QED BY <1>1, <1>3, <1>4, <1>5, <1>6, <1>7 DEF Table

\* A new row changes no other row, and no row names it yet.
LEMMA InsertedRow ==
    ASSUME TypeOK, Table, NEW n \in Token, NEW u \in Users, NEW f \in Token,
           NEW st \in {"pending", "committed"}, rows[n].st = "free",
           InsertRow(n, u, f, st)
    PROVE  /\ rows' \in [Token -> Row]
           /\ \A t \in Token : t # n => rows'[t] = rows[t]
           /\ rows'[n].st = st /\ rows'[n].user = u /\ rows'[n].family = f
           /\ rows'[n].expires = now + Lifetime
           /\ ~rows'[n].rotated /\ ~rows'[n].revoked /\ rows'[n].next = None
           /\ \A t \in Token : rows'[t].next # n
<1> DEFINE r == NewSession(u, f, st)
<1>0. now + Lifetime \in Nat
  BY TimeAssumption DEF TypeOK
<1>1. /\ r \in Row /\ r.st = st /\ r.user = u /\ r.family = f
      /\ r.expires = now + Lifetime
      /\ r.rotated = FALSE /\ r.revoked = FALSE /\ r.next = None
  BY <1>0 DEF NewSession, Row
<1> HIDE DEF r
<1>2. rows' = [t \in Token |-> IF t = n THEN r ELSE rows[t]]
  BY DEF InsertRow, r
<1>3. \A t \in Token : rows[t].next # n
  BY NoneAssumption DEF Table, RowShape, ChainLinks, NamesSuccessor, Committed
<1>4. QED BY <1>1, <1>2, <1>3, NoneAssumption DEF TypeOK

\* A login starts a chain of its own, with a token that no row has named.
LEMMA TableLogin ==
    ASSUME TypeOK, Table, NEW n \in Token, NEW u \in Users, rows[n].st = "free",
           users[u] # "deleted", InsertRow(n, u, n, "committed"),
           users' = users, now' = now
    PROVE  rows' \in [Token -> Row] /\ Table'
<1>1. /\ rows' \in [Token -> Row]
      /\ \A t \in Token : t # n => rows'[t] = rows[t]
      /\ rows'[n].st = "committed" /\ rows'[n].user = u /\ rows'[n].family = n
      /\ rows'[n].expires = now + Lifetime
      /\ ~rows'[n].rotated /\ ~rows'[n].revoked /\ rows'[n].next = None
      /\ \A t \in Token : rows'[t].next # n
  BY InsertedRow
<1>2. \A t \in Token : rows[t].st \in {"pending", "committed"} => rows[t].family # n
  BY DEF Table, OwnersSet
<1>3. OwnersSet'
  BY <1>1 DEF Table, OwnersSet
<1>4. RowShape'
  BY <1>1, TimeAssumption DEF Table, RowShape, Committed, TypeOK
<1>5. OneTipPerLogin'
  BY <1>1, <1>2 DEF Table, OneTipPerLogin, Committed
<1>6. ChainLinks'
  <2> SUFFICES ASSUME NEW t \in Token, Committed(t)'
               PROVE  /\ NamesSuccessor(t)'
                      /\ (rows[t].family # t => \E p \in Token : Names(p, t))'
                      /\ \A p, q \in Token : Names(p, t)' /\ Names(q, t)' => p = q
    BY DEF ChainLinks
  <2>1. CASE t = n
    BY <2>1, <1>1 DEF NamesSuccessor, Names
  <2>2. CASE t # n
    <3>1. Committed(t) /\ rows'[t] = rows[t]
      BY <2>2, <1>1 DEF Committed
    <3>2. \A p \in Token : Names(p, t)' <=> Names(p, t)
      BY <2>2, <1>1, NoneAssumption DEF Names, Committed
    <3>3. NamesSuccessor(t)'
      BY <3>1, <1>1 DEF Table, ChainLinks, NamesSuccessor, Committed, TypeOK, Row
    <3>4. QED
      BY <3>1, <3>2, <3>3 DEF Table, ChainLinks
  <2>3. QED BY <2>1, <2>2
<1>7. DeletedUserLeavesNothing'
  BY <1>1 DEF Table, DeletedUserLeavesNothing
<1>8. QED BY <1>1, <1>3, <1>4, <1>5, <1>6, <1>7 DEF Table

\* A successor that is not committed yet belongs to no chain.
LEMMA TableInsert ==
    ASSUME TypeOK, Table, NEW n \in Token, NEW o \in Token, rows[n].st = "free",
           Committed(o), users[rows[o].user] # "deleted",
           InsertRow(n, rows[o].user, rows[o].family, "pending"),
           users' = users, now' = now
    PROVE  /\ rows' \in [Token -> Row] /\ Table'
           /\ rows'[o].expires <= rows'[n].expires
<1>0. rows[o].user \in Users /\ rows[o].family \in Token /\ rows[o].family # n
  BY DEF Table, OwnersSet, Committed
<1>1. /\ rows' \in [Token -> Row]
      /\ \A t \in Token : t # n => rows'[t] = rows[t]
      /\ rows'[n].st = "pending" /\ rows'[n].user = rows[o].user
      /\ rows'[n].family = rows[o].family
      /\ rows'[n].expires = now + Lifetime
      /\ ~rows'[n].rotated /\ ~rows'[n].revoked /\ rows'[n].next = None
      /\ \A t \in Token : rows'[t].next # n
  BY <1>0, InsertedRow
<1>2. \A t \in Token : Committed(t)' <=> Committed(t)
  BY <1>1 DEF Committed
<1>3. OwnersSet'
  BY <1>0, <1>1 DEF Table, OwnersSet, Committed
<1>4. RowShape'
  BY <1>1, TimeAssumption DEF Table, RowShape, Committed, TypeOK
<1>5. OneTipPerLogin'
  BY <1>1, <1>2 DEF Table, OneTipPerLogin, Committed
<1>6. ChainLinks'
  <2> SUFFICES ASSUME NEW t \in Token, Committed(t)'
               PROVE  /\ NamesSuccessor(t)'
                      /\ (rows[t].family # t => \E p \in Token : Names(p, t))'
                      /\ \A p, q \in Token : Names(p, t)' /\ Names(q, t)' => p = q
    BY DEF ChainLinks
  <2>1. t # n /\ Committed(t) /\ rows'[t] = rows[t]
    BY <1>1 DEF Committed
  <2>2. \A p \in Token : Names(p, t)' <=> Names(p, t)
    BY <2>1, <1>1, <1>2, NoneAssumption DEF Names, Committed
  <2>3. NamesSuccessor(t)'
    BY <2>1, <1>1, <1>2 DEF Table, ChainLinks, NamesSuccessor, TypeOK, Row
  <2>4. QED
    BY <2>1, <2>2, <2>3 DEF Table, ChainLinks
<1>7. DeletedUserLeavesNothing'
  BY <1>0, <1>1 DEF Table, DeletedUserLeavesNothing
<1>8. rows'[o].expires <= rows'[n].expires
  BY <1>1, TimeAssumption DEF Table, RowShape, Committed, TypeOK
<1>9. QED BY <1>1, <1>3, <1>4, <1>5, <1>6, <1>7, <1>8 DEF Table

\* The commit of a rotation makes the successor the newest of its chain.
LEMMA TableRotate ==
    ASSUME TypeOK, Table, NEW o \in Token, NEW n \in Token,
           Committed(o), ~rows[o].revoked, ~rows[o].rotated,
           rows[n].st = "pending", rows[n].user = rows[o].user,
           rows[n].family = rows[o].family, rows[o].expires <= rows[n].expires,
           RotateRows(o, n), users' = users, now' = now
    PROVE  rows' \in [Token -> Row] /\ Table'
<1>0. o # n /\ rows[o] \in Row /\ rows[n] \in Row
  BY DEF Committed, TypeOK
<1>1. /\ rows' \in [Token -> Row]
      /\ \A t \in Token : t \notin {o, n} => rows'[t] = rows[t]
      /\ rows'[o] = ReplacedBy(rows[o], n) /\ rows'[n] = Visible(rows[n])
  BY <1>0, ReplacedRow, VisibleRow DEF RotateRows, TypeOK
<1>2. /\ rows'[o].st = "committed" /\ rows'[o].rotated = TRUE
      /\ rows'[o].revoked = TRUE /\ rows'[o].next = n
      /\ rows'[o].user = rows[o].user /\ rows'[o].family = rows[o].family
      /\ rows'[o].expires = rows[o].expires
  <2>1. rows[o].st = "committed"
    BY DEF Committed
  <2> DEFINE r == rows[o]
             r1 == ReplacedBy(r, n)
  <2>2. /\ r1.st = r.st /\ r1.rotated = TRUE /\ r1.revoked = TRUE /\ r1.next = n
        /\ r1.user = r.user /\ r1.family = r.family /\ r1.expires = r.expires
    <3> HIDE DEF r
    <3>1. r \in Row
      BY <1>0 DEF r
    <3>2. QED BY <3>1, ReplacedRow
  <2> HIDE DEF r1
  <2>3. rows'[o] = r1
    BY <1>1 DEF r1
  <2>4. QED BY <2>1, <2>2, <2>3
<1>3. /\ rows'[n].st = "committed"
      /\ rows'[n].rotated = rows[n].rotated /\ rows'[n].revoked = rows[n].revoked
      /\ rows'[n].next = rows[n].next
      /\ rows'[n].user = rows[n].user /\ rows'[n].family = rows[n].family
      /\ rows'[n].expires = rows[n].expires
  BY <1>0, <1>1, VisibleRow
<1>4. /\ \A t \in Token : t # o => /\ rows'[t].rotated = rows[t].rotated
                                   /\ rows'[t].revoked = rows[t].revoked
                                   /\ rows'[t].next = rows[t].next
      /\ \A t \in Token : t # n => rows'[t].st = rows[t].st
      /\ \A t \in Token : /\ rows'[t].user = rows[t].user
                          /\ rows'[t].family = rows[t].family
                          /\ rows'[t].expires = rows[t].expires
  BY <1>1, <1>2, <1>3 DEF Committed
<1>5. ~rows[n].rotated /\ ~rows[n].revoked /\ rows[n].next = None
  BY DEF Table, RowShape, Committed
<1>6. \A t \in Token : rows[t].next # n
  BY NoneAssumption DEF Table, RowShape, ChainLinks, NamesSuccessor, Committed
<1>7. OwnersSet'
  BY <1>2, <1>3, <1>4 DEF Table, OwnersSet
<1>8. RowShape'
  BY <1>2, <1>3, <1>4, <1>5 DEF Table, RowShape, Committed
<1>9. OneTipPerLogin'
  BY <1>2, <1>3, <1>4 DEF Table, OneTipPerLogin, Committed
<1>10. ChainLinks'
  <2> SUFFICES ASSUME NEW t \in Token, Committed(t)'
               PROVE  /\ NamesSuccessor(t)'
                      /\ (rows[t].family # t => \E p \in Token : Names(p, t))'
                      /\ \A p, q \in Token : Names(p, t)' /\ Names(q, t)' => p = q
    BY DEF ChainLinks
  <2>1. CASE t = o
    <3>1. NamesSuccessor(t)'
      BY <2>1, <1>2, <1>3, <1>4, NoneAssumption DEF NamesSuccessor, Committed
    <3>2. \A p \in Token : Names(p, t)' <=> Names(p, t)
      BY <2>1, <1>0, <1>2, <1>3, <1>4, <1>5, NoneAssumption DEF Names, Committed, Table, RowShape
    <3>3. QED BY <2>1, <3>1, <3>2, <1>4 DEF Table, ChainLinks
  <2>2. CASE t = n
    <3>1. NamesSuccessor(t)'
      BY <2>2, <1>3, <1>5 DEF NamesSuccessor
    <3>2. \A p \in Token : Names(p, t)' <=> p = o
      BY <2>2, <1>2, <1>4, <1>6 DEF Names, Committed
    <3>3. QED BY <3>1, <3>2
  <2>3. CASE t \notin {o, n}
    <3>1. Committed(t)
      BY <2>3, <1>4 DEF Committed
    <3>2. NamesSuccessor(t)'
      BY <2>3, <3>1, <1>2, <1>3, <1>4 DEF Table, ChainLinks, NamesSuccessor, Committed, TypeOK, Row
    <3>3. \A p \in Token : Names(p, t)' <=> Names(p, t)
      <4>1. rows[o].next = None
        BY DEF Table, RowShape
      <4>2. QED BY <2>3, <4>1, <1>2, <1>3, <1>4, <1>5, NoneAssumption DEF Names, Committed
    <3>4. QED BY <3>1, <3>2, <3>3, <1>4 DEF Table, ChainLinks
  <2>4. QED BY <2>1, <2>2, <2>3
<1>11. DeletedUserLeavesNothing'
  BY <1>2, <1>3, <1>4 DEF Table, DeletedUserLeavesNothing
<1>12. QED BY <1>1, <1>7, <1>8, <1>9, <1>10, <1>11 DEF Table

\* The cascade takes whole chains: every session of a chain has the same user.
LEMMA TableDelete ==
    ASSUME TypeOK, Table, NEW u \in Users,
           \A t \in Token : rows[t].st = "pending" => rows[t].user # u,
           DeleteRows(u), users' = [users EXCEPT ![u] = "deleted"], now' = now
    PROVE  rows' \in [Token -> Row] /\ Table'
<1>1. /\ rows' \in [Token -> Row]
      /\ \A t \in SessionsOf(u) : /\ rows'[t].st = "deleted" /\ ~rows'[t].rotated
                                  /\ ~rows'[t].revoked /\ rows'[t].next = None
      /\ \A t \in Token \ SessionsOf(u) : rows'[t] = rows[t]
  BY BlankRow DEF DeleteRows, TypeOK, SessionsOf
<1>2. OwnersSet'
  BY <1>1 DEF Table, OwnersSet, SessionsOf, Committed
<1>3. RowShape'
  BY <1>1 DEF Table, RowShape, SessionsOf, Committed
<1>4. OneTipPerLogin'
  BY <1>1 DEF Table, OneTipPerLogin, SessionsOf, Committed
<1>5. ChainLinks'
  <2> SUFFICES ASSUME NEW t \in Token, Committed(t)'
               PROVE  /\ NamesSuccessor(t)'
                      /\ (rows[t].family # t => \E p \in Token : Names(p, t))'
                      /\ \A p, q \in Token : Names(p, t)' /\ Names(q, t)' => p = q
    BY DEF ChainLinks
  <2>1. t \notin SessionsOf(u) /\ Committed(t) /\ rows'[t] = rows[t] /\ rows[t].user # u
    BY <1>1 DEF SessionsOf, Committed
  <2>2. NamesSuccessor(t)'
    BY <2>1, <1>1 DEF Table, ChainLinks, NamesSuccessor, SessionsOf, Committed, TypeOK, Row
  <2>3. \A p \in Token : Names(p, t)' <=> Names(p, t)
    <3> SUFFICES ASSUME NEW p \in Token PROVE Names(p, t)' <=> Names(p, t)
      OBVIOUS
    <3>1. Names(p, t) => p \notin SessionsOf(u)
      BY <2>1, NoneAssumption DEF Table, ChainLinks, NamesSuccessor, Names, SessionsOf, Committed
    <3>2. QED BY <3>1, <1>1 DEF Names, Committed
  <2>4. QED BY <2>1, <2>2, <2>3 DEF Table, ChainLinks
<1>6. DeletedUserLeavesNothing'
  BY <1>1 DEF Table, DeletedUserLeavesNothing, SessionsOf, Committed, TypeOK
<1>7. QED BY <1>1, <1>2, <1>3, <1>4, <1>5, <1>6 DEF Table

\* An insertion that is rolled back was named by nobody.
LEMMA TableRollback ==
    ASSUME TypeOK, Table, NEW n \in Token, rows[n].st = "pending",
           RollbackRow(n), users' = users, now' = now
    PROVE  rows' \in [Token -> Row] /\ Table'
<1>1. /\ rows' \in [Token -> Row]
      /\ rows'[n].st = "free" /\ ~rows'[n].rotated /\ ~rows'[n].revoked
      /\ rows'[n].next = None
      /\ \A t \in Token : t # n => rows'[t] = rows[t]
  BY BlankRow DEF RollbackRow, TypeOK
<1>2. OwnersSet'
  BY <1>1 DEF Table, OwnersSet
<1>3. RowShape'
  BY <1>1 DEF Table, RowShape, Committed
<1>4. OneTipPerLogin'
  BY <1>1 DEF Table, OneTipPerLogin, Committed
<1>5. ChainLinks'
  <2> SUFFICES ASSUME NEW t \in Token, Committed(t)'
               PROVE  /\ NamesSuccessor(t)'
                      /\ (rows[t].family # t => \E p \in Token : Names(p, t))'
                      /\ \A p, q \in Token : Names(p, t)' /\ Names(q, t)' => p = q
    BY DEF ChainLinks
  <2>1. t # n /\ Committed(t) /\ rows'[t] = rows[t]
    BY <1>1 DEF Committed
  <2>2. \A p \in Token : Names(p, t)' <=> Names(p, t)
    BY <1>1 DEF Names, Committed
  <2>3. NamesSuccessor(t)'
    BY <2>1, <1>1 DEF Table, ChainLinks, NamesSuccessor, Committed, TypeOK, Row
  <2>4. QED BY <2>1, <2>2, <2>3 DEF Table, ChainLinks
<1>6. DeletedUserLeavesNothing'
  BY <1>1 DEF Table, DeletedUserLeavesNothing
<1>7. QED BY <1>1, <1>2, <1>3, <1>4, <1>5, <1>6 DEF Table

-----------------------------------------------------------------------------
(* A step of one request keeps what the others rely on. *)

\* The locals of the other requests, the rows they hold locked, and the rows
\* they have selected are as they were.
Keeps(h) ==
    \A g \in Handlers \ {h} :
        /\ pc'[g] = pc[g] /\ tok'[g] = tok[g] /\ usr'[g] = usr[g]
        /\ new'[g] = new[g] /\ scan'[g] = scan[g]
        /\ pc[g] \in Rotating \cup Revoking =>
             lock'[tok[g]] = g /\ rows'[tok[g]] = rows[tok[g]]
        /\ pc[g] = "rf_commit" =>
             lock'[new[g]] = g /\ rows'[new[g]] = rows[new[g]]
        /\ \A t \in scan[g] : Committed(t)' /\ rows'[t].user = rows[t].user

\* A step that leaves what others have locked alone keeps what they rely on.
LEMMA KeepsRequests ==
    ASSUME IInv, NEW h \in Handlers, Keeps(h), Request(h)'
    PROVE  \A g \in Handlers : Request(g)'
<1> SUFFICES ASSUME NEW g \in Handlers, g # h PROVE Request(g)'
  OBVIOUS
<1>1. Request(g)
  BY DEF IInv
<1>2. LocalsSet(g)'
  BY <1>1 DEF Request, LocalsSet, Keeps
<1>3. HoldsRow(g)'
  BY <1>1 DEF Request, HoldsRow, Keeps, Committed
<1>4. HoldsNew(g)'
  BY <1>1 DEF Request, HoldsNew, Keeps, Rotating
<1>5. Scanned(g)'
  BY <1>1 DEF Request, Scanned, Keeps, Committed
<1>6. QED BY <1>2, <1>3, <1>4, <1>5 DEF Request

\* The end of a request keeps the types of what it touches, and a request that
\* has ended relies on nothing.
LEMMA Finished ==
    ASSUME TypeOK, NEW h \in Handlers, Finish(h)
    PROVE  /\ lock' \in [Token -> Handlers \cup {None}]
           /\ userLock' \in [Users -> Handlers \cup {None}]
           /\ \A t \in Token : lock[t] # h => lock'[t] = lock[t]
           /\ pc' = [pc EXCEPT ![h] = "idle"] /\ pc' \in [Handlers -> Pc]
           /\ tok' = [tok EXCEPT ![h] = None]
           /\ tok' \in [Handlers -> Token \cup {None}]
           /\ usr' = [usr EXCEPT ![h] = None]
           /\ usr' \in [Handlers -> Users \cup {None}]
           /\ new' = [new EXCEPT ![h] = None]
           /\ new' \in [Handlers -> Token \cup {None}]
           /\ scan' = [scan EXCEPT ![h] = {}]
           /\ scan' \in [Handlers -> SUBSET Token]
           /\ Request(h)'
BY DEF TypeOK, Finish, ReleaseLocks, Pc, Request, LocalsSet, HoldsRow, HoldsNew,
       Scanned, HasToken, HasUser, Rotating, Revoking

\* An end of a request that leaves every row alone.
LEMMA FinishedQuietly ==
    ASSUME IInv, NEW h \in Handlers, pc[h] # "rf_commit", Finish(h), rows' = rows,
           users' = users, now' = now, known' \in SUBSET Token
    PROVE  IInv'
<1> USE DEF IInv
<1>1. TypeOK'
  BY Finished DEF TypeOK
<1>2. Keeps(h)
  BY Finished DEF Keeps, Request, LocalsSet, HoldsRow, HoldsNew, Scanned, HasToken,
                  Rotating, Revoking, Committed, TypeOK
<1>3. PendingHasWriter'
  BY Finished DEF PendingHasWriter, TypeOK
<1>4. Table'
  BY TableUnchanged DEF TypeOK
<1>5. QED BY <1>1, <1>2, <1>3, <1>4, Finished, KeepsRequests

\* An end of a request that revokes the rows S, none of them locked by another.
LEMMA FinishedRevoking ==
    ASSUME IInv, NEW h \in Handlers, pc[h] # "rf_commit", Finish(h),
           NEW S \in SUBSET Token,
           \A t \in S : Committed(t) /\ lock[t] \in {None, h},
           RevokeRows(S), UNCHANGED clientVars
    PROVE  IInv'
<1> USE DEF IInv, clientVars
<1>1. rows' \in [Token -> Row] /\ Table'
  BY TableRevoke
<1>2. TypeOK'
  BY <1>1, Finished DEF TypeOK
<1>3. \A t \in Token : /\ rows'[t].st = rows[t].st /\ rows'[t].user = rows[t].user
                       /\ t \notin S => rows'[t] = rows[t]
  BY RevokedRow DEF RevokeRows, TypeOK
<1>4. Keeps(h)
  BY <1>3, Finished, NoneAssumption
     DEF Keeps, Request, LocalsSet, HoldsRow, HoldsNew, Scanned, HasToken,
         Rotating, Revoking, Committed, TypeOK
<1>5. PendingHasWriter'
  BY <1>3, Finished DEF PendingHasWriter, TypeOK
<1>6. QED BY <1>1, <1>2, <1>4, <1>5, Finished, KeepsRequests

-----------------------------------------------------------------------------
(* Every action keeps the inductive invariant: first those that leave the   *)
(* table alone, ...                                                         *)

\* login: the user is read, nothing is locked.
LEMMA LoginBeginStep ==
    ASSUME IInv, NEW h \in Handlers, NEW u \in Users, LoginBegin(h, u)
    PROVE  IInv'
<1> USE DEF IInv, clientVars, locals
<1>1. TypeOK'
  BY DEF LoginBegin, TypeOK, Pc
<1>2. Keeps(h)
  BY NoneAssumption DEF LoginBegin, Keeps, Request, LocalsSet, HoldsRow, HoldsNew, Scanned, HasToken, Rotating, Revoking, Committed, TypeOK, FoundRow
<1>3. Request(h)'
  BY DEF LoginBegin, Request, LocalsSet, HoldsRow, HoldsNew, Scanned, HasToken, HasUser, Rotating, Revoking, Committed, TypeOK, FoundRow, Table, OwnersSet
<1>4. PendingHasWriter'
  BY DEF LoginBegin, PendingHasWriter, TypeOK
<1>5. Table'
  BY TableUnchanged DEF LoginBegin, TypeOK
<1>6. QED BY <1>1, <1>2, <1>3, <1>4, <1>5, KeepsRequests

\* refresh begins with a token that a client knows.
LEMMA RefreshStartStep ==
    ASSUME IInv, NEW h \in Handlers, NEW t \in known, RefreshStart(h, t)
    PROVE  IInv'
<1> USE DEF IInv, clientVars, locals
<1>1. TypeOK'
  BY DEF RefreshStart, TypeOK, Pc
<1>2. Keeps(h)
  BY NoneAssumption DEF RefreshStart, Keeps, Request, LocalsSet, HoldsRow, HoldsNew, Scanned, HasToken, Rotating, Revoking, Committed, TypeOK, FoundRow
<1>3. Request(h)'
  BY DEF RefreshStart, Request, LocalsSet, HoldsRow, HoldsNew, Scanned, HasToken, HasUser, Rotating, Revoking, Committed, TypeOK, FoundRow, Table, OwnersSet
<1>4. PendingHasWriter'
  BY DEF RefreshStart, PendingHasWriter, TypeOK
<1>5. Table'
  BY TableUnchanged DEF RefreshStart, TypeOK
<1>6. QED BY <1>1, <1>2, <1>3, <1>4, <1>5, KeepsRequests

\* logout begins with a token that a client knows.
LEMMA LogoutStartStep ==
    ASSUME IInv, NEW h \in Handlers, NEW t \in known, LogoutStart(h, t)
    PROVE  IInv'
<1> USE DEF IInv, clientVars, locals
<1>1. TypeOK'
  BY DEF LogoutStart, TypeOK, Pc
<1>2. Keeps(h)
  BY NoneAssumption DEF LogoutStart, Keeps, Request, LocalsSet, HoldsRow, HoldsNew, Scanned, HasToken, Rotating, Revoking, Committed, TypeOK, FoundRow
<1>3. Request(h)'
  BY DEF LogoutStart, Request, LocalsSet, HoldsRow, HoldsNew, Scanned, HasToken, HasUser, Rotating, Revoking, Committed, TypeOK, FoundRow, Table, OwnersSet
<1>4. PendingHasWriter'
  BY DEF LogoutStart, PendingHasWriter, TypeOK
<1>5. Table'
  BY TableUnchanged DEF LogoutStart, TypeOK
<1>6. QED BY <1>1, <1>2, <1>3, <1>4, <1>5, KeepsRequests

\* The deletion of a user begins; nothing is locked.
LEMMA DeleteStartStep ==
    ASSUME IInv, NEW h \in Handlers, NEW u \in Users, DeleteStart(h, u)
    PROVE  IInv'
<1> USE DEF IInv, clientVars, locals
<1>1. TypeOK'
  BY DEF DeleteStart, TypeOK, Pc
<1>2. Keeps(h)
  BY NoneAssumption DEF DeleteStart, Keeps, Request, LocalsSet, HoldsRow, HoldsNew, Scanned, HasToken, Rotating, Revoking, Committed, TypeOK, FoundRow
<1>3. Request(h)'
  BY DEF DeleteStart, Request, LocalsSet, HoldsRow, HoldsNew, Scanned, HasToken, HasUser, Rotating, Revoking, Committed, TypeOK, FoundRow, Table, OwnersSet
<1>4. PendingHasWriter'
  BY DEF DeleteStart, PendingHasWriter, TypeOK
<1>5. Table'
  BY TableUnchanged DEF DeleteStart, TypeOK
<1>6. QED BY <1>1, <1>2, <1>3, <1>4, <1>5, KeepsRequests

\* refresh: a spent token; its row stays locked.
LEMMA RefreshReplayedStep ==
    ASSUME IInv, NEW h \in Handlers, RefreshReplayed(h)
    PROVE  IInv'
<1> USE DEF IInv, clientVars, locals
<1>1. TypeOK'
  BY DEF RefreshReplayed, TypeOK, Pc, Request, LocalsSet, HasToken, Table, OwnersSet, Committed, FoundRow
<1>2. Keeps(h)
  BY NoneAssumption DEF RefreshReplayed, Keeps, Request, LocalsSet, HoldsRow, HoldsNew, Scanned, HasToken, Rotating, Revoking, Committed, TypeOK, FoundRow
<1>3. Request(h)'
  BY DEF RefreshReplayed, Request, LocalsSet, HoldsRow, HoldsNew, Scanned, HasToken, HasUser, Rotating, Revoking, Committed, TypeOK, FoundRow, Table, OwnersSet
<1>4. PendingHasWriter'
  BY DEF RefreshReplayed, PendingHasWriter, TypeOK
<1>5. Table'
  BY TableUnchanged DEF RefreshReplayed, TypeOK
<1>6. QED BY <1>1, <1>2, <1>3, <1>4, <1>5, KeepsRequests

\* refresh: a live token; its row is locked from now on.
LEMMA RefreshAcceptedStep ==
    ASSUME IInv, NEW h \in Handlers, RefreshAccepted(h)
    PROVE  IInv'
<1> USE DEF IInv, clientVars, locals
<1>1. TypeOK'
  BY DEF RefreshAccepted, TypeOK, Pc, Request, LocalsSet, HasToken, Table, OwnersSet, Committed, FoundRow
<1>2. Keeps(h)
  BY NoneAssumption DEF RefreshAccepted, Keeps, Request, LocalsSet, HoldsRow, HoldsNew, Scanned, HasToken, Rotating, Revoking, Committed, TypeOK, FoundRow
<1>3. Request(h)'
  BY DEF RefreshAccepted, Request, LocalsSet, HoldsRow, HoldsNew, Scanned, HasToken, HasUser, Rotating, Revoking, Committed, TypeOK, FoundRow, Table, OwnersSet
<1>4. PendingHasWriter'
  BY DEF RefreshAccepted, PendingHasWriter, TypeOK
<1>5. Table'
  BY TableUnchanged DEF RefreshAccepted, TypeOK
<1>6. QED BY <1>1, <1>2, <1>3, <1>4, <1>5, KeepsRequests

\* refresh: the user is there because its row refers to it.
LEMMA RefreshUserStep ==
    ASSUME IInv, NEW h \in Handlers, RefreshUser(h)
    PROVE  IInv'
<1> USE DEF IInv, clientVars, locals
<1>1. TypeOK'
  BY DEF RefreshUser, TypeOK, Pc
<1>2. Keeps(h)
  BY NoneAssumption DEF RefreshUser, Keeps, Request, LocalsSet, HoldsRow, HoldsNew, Scanned, HasToken, Rotating, Revoking, Committed, TypeOK, FoundRow
<1>3. Request(h)'
  BY DEF RefreshUser, Request, LocalsSet, HoldsRow, HoldsNew, Scanned, HasToken, HasUser, Rotating, Revoking, Committed, TypeOK, FoundRow, Table, OwnersSet
<1>4. PendingHasWriter'
  BY DEF RefreshUser, PendingHasWriter, TypeOK
<1>5. Table'
  BY TableUnchanged DEF RefreshUser, TypeOK
<1>6. QED BY <1>1, <1>2, <1>3, <1>4, <1>5, KeepsRequests

\* The replay's query: the rows are the user's.
LEMMA RevokeScanStep ==
    ASSUME IInv, NEW h \in Handlers, RevokeScan(h)
    PROVE  IInv'
<1> USE DEF IInv, clientVars, locals
<1>1. TypeOK'
  BY DEF RevokeScan, SessionsOf, TypeOK, Pc
<1>2. Keeps(h)
  BY NoneAssumption DEF RevokeScan, SessionsOf, Keeps, Request, LocalsSet, HoldsRow, HoldsNew, Scanned, HasToken, Rotating, Revoking, Committed, TypeOK, FoundRow
<1>3. Request(h)'
  BY DEF RevokeScan, SessionsOf, Request, LocalsSet, HoldsRow, HoldsNew, Scanned, HasToken, HasUser, Rotating, Revoking, Committed, TypeOK, FoundRow, Table, OwnersSet
<1>4. PendingHasWriter'
  BY DEF RevokeScan, SessionsOf, PendingHasWriter, TypeOK
<1>5. Table'
  BY TableUnchanged DEF RevokeScan, SessionsOf, TypeOK
<1>6. QED BY <1>1, <1>2, <1>3, <1>4, <1>5, KeepsRequests

\* The replay locks the next row it revokes.
LEMMA RevokeUpdateStep ==
    ASSUME IInv, NEW h \in Handlers, RevokeUpdate(h)
    PROVE  IInv'
<1> USE DEF IInv, clientVars, locals
<1>1. TypeOK'
  BY DEF RevokeUpdate, ToRevoke, TypeOK, Pc
<1>2. Keeps(h)
  BY NoneAssumption DEF RevokeUpdate, ToRevoke, Keeps, Request, LocalsSet, HoldsRow, HoldsNew, Scanned, HasToken, Rotating, Revoking, Committed, TypeOK, FoundRow
<1>3. Request(h)'
  BY DEF RevokeUpdate, ToRevoke, Request, LocalsSet, HoldsRow, HoldsNew, Scanned, HasToken, HasUser, Rotating, Revoking, Committed, TypeOK, FoundRow, Table, OwnersSet
<1>4. PendingHasWriter'
  BY DEF RevokeUpdate, ToRevoke, PendingHasWriter, TypeOK
<1>5. Table'
  BY TableUnchanged DEF RevokeUpdate, ToRevoke, TypeOK
<1>6. QED BY <1>1, <1>2, <1>3, <1>4, <1>5, KeepsRequests

\* The deletion locks the user, behind which no row is being inserted.
LEMMA DeleteLockStep ==
    ASSUME IInv, NEW h \in Handlers, DeleteLock(h)
    PROVE  IInv'
<1> USE DEF IInv, clientVars, locals
<1>1. TypeOK'
  BY DEF DeleteLock, NextToDelete, SessionsOf, TypeOK, Pc, Request, LocalsSet, HasUser
<1>2. Keeps(h)
  BY NoneAssumption DEF DeleteLock, NextToDelete, SessionsOf, Keeps, Request, LocalsSet, HoldsRow, HoldsNew, Scanned, HasToken, Rotating, Revoking, Committed, TypeOK, FoundRow
<1>3. Request(h)'
  BY DEF DeleteLock, NextToDelete, SessionsOf, Request, LocalsSet, HoldsRow, HoldsNew, Scanned, HasToken, HasUser, Rotating, Revoking, Committed, TypeOK, FoundRow, Table, OwnersSet
<1>4. PendingHasWriter'
  BY DEF DeleteLock, NextToDelete, SessionsOf, PendingHasWriter, TypeOK
<1>5. Table'
  BY TableUnchanged DEF DeleteLock, NextToDelete, SessionsOf, TypeOK
<1>6. QED BY <1>1, <1>2, <1>3, <1>4, <1>5, KeepsRequests

\* The cascade locks one row more.
LEMMA DeleteRowStep ==
    ASSUME IInv, NEW h \in Handlers, DeleteRow(h)
    PROVE  IInv'
<1> USE DEF IInv, clientVars, locals
<1>1. TypeOK'
  BY DEF DeleteRow, NextToDelete, ToDelete, SessionsOf, TypeOK, Pc
<1>2. Keeps(h)
  BY NoneAssumption DEF DeleteRow, NextToDelete, ToDelete, SessionsOf, Keeps, Request, LocalsSet, HoldsRow, HoldsNew, Scanned, HasToken, Rotating, Revoking, Committed, TypeOK, FoundRow
<1>3. Request(h)'
  BY DEF DeleteRow, NextToDelete, ToDelete, SessionsOf, Request, LocalsSet, HoldsRow, HoldsNew, Scanned, HasToken, HasUser, Rotating, Revoking, Committed, TypeOK, FoundRow, Table, OwnersSet
<1>4. PendingHasWriter'
  BY DEF DeleteRow, NextToDelete, ToDelete, SessionsOf, PendingHasWriter, TypeOK
<1>5. Table'
  BY TableUnchanged DEF DeleteRow, NextToDelete, ToDelete, SessionsOf, TypeOK
<1>6. QED BY <1>1, <1>2, <1>3, <1>4, <1>5, KeepsRequests

(* ... then those that end a request and leave the table alone ...          *)

\* login: the user was deleted meanwhile.
LEMMA LoginUserGoneStep ==
    ASSUME IInv, NEW h \in Handlers, LoginUserGone(h)
    PROVE  IInv'
<1>1. /\ pc[h] # "rf_commit" /\ Finish(h) /\ rows' = rows
      /\ users' = users /\ now' = now /\ known' \in SUBSET Token
  BY DEF LoginUserGone, clientVars, IInv, TypeOK, Request, LocalsSet
<1>2. QED BY <1>1, FinishedQuietly

\* refresh: no such row.
LEMMA RefreshNotFoundStep ==
    ASSUME IInv, NEW h \in Handlers, RefreshNotFound(h)
    PROVE  IInv'
<1>1. /\ pc[h] # "rf_commit" /\ Finish(h) /\ rows' = rows
      /\ users' = users /\ now' = now /\ known' \in SUBSET Token
  BY DEF RefreshNotFound, clientVars, IInv, TypeOK, Request, LocalsSet
<1>2. QED BY <1>1, FinishedQuietly

\* logout: nothing to revoke.
LEMMA LogoutNothingStep ==
    ASSUME IInv, NEW h \in Handlers, LogoutNothing(h)
    PROVE  IInv'
<1>1. /\ pc[h] # "rf_commit" /\ Finish(h) /\ rows' = rows
      /\ users' = users /\ now' = now /\ known' \in SUBSET Token
  BY DEF LogoutNothing, clientVars, IInv, TypeOK, Request, LocalsSet
<1>2. QED BY <1>1, FinishedQuietly

\* The user was deleted by somebody else.
LEMMA DeleteNothingStep ==
    ASSUME IInv, NEW h \in Handlers, DeleteNothing(h)
    PROVE  IInv'
<1>1. /\ pc[h] # "rf_commit" /\ Finish(h) /\ rows' = rows
      /\ users' = users /\ now' = now /\ known' \in SUBSET Token
  BY DEF DeleteNothing, clientVars, IInv, TypeOK, Request, LocalsSet
<1>2. QED BY <1>1, FinishedQuietly

\* The client gets its token.
LEMMA RespondStep ==
    ASSUME IInv, NEW h \in Handlers, Respond(h)
    PROVE  IInv'
<1>1. /\ pc[h] # "rf_commit" /\ Finish(h) /\ rows' = rows
      /\ users' = users /\ now' = now /\ known' \in SUBSET Token
  BY DEF Respond, clientVars, IInv, TypeOK, Request, LocalsSet
<1>2. QED BY <1>1, FinishedQuietly

\* The user was deleted between the commit and the answer.
LEMMA RespondUserGoneStep ==
    ASSUME IInv, NEW h \in Handlers, RespondUserGone(h)
    PROVE  IInv'
<1>1. /\ pc[h] # "rf_commit" /\ Finish(h) /\ rows' = rows
      /\ users' = users /\ now' = now /\ known' \in SUBSET Token
  BY DEF RespondUserGone, clientVars, IInv, TypeOK, Request, LocalsSet
<1>2. QED BY <1>1, FinishedQuietly

(* ... those that end a request and revoke sessions ...                     *)

\* refresh: the expired session is revoked.
LEMMA RefreshExpiredStep ==
    ASSUME IInv, NEW h \in Handlers, RefreshExpired(h)
    PROVE  IInv'
<1>1. tok[h] \in Token /\ Committed(tok[h]) /\ lock[tok[h]] \in {None, h}
  BY DEF RefreshExpired, FoundRow, IInv, Request, LocalsSet, HasToken, HoldsRow, Rotating
<1>2. RevokeRows({tok[h]})
  BY <1>1 DEF RefreshExpired, RevokeRows, IInv, TypeOK
<1>3. pc[h] # "rf_commit" /\ Finish(h) /\ UNCHANGED clientVars
  BY DEF RefreshExpired
<1>4. QED BY <1>1, <1>2, <1>3, FinishedRevoking

\* refresh: the session of an inactive user is revoked.
LEMMA RefreshInactiveStep ==
    ASSUME IInv, NEW h \in Handlers, RefreshInactive(h)
    PROVE  IInv'
<1>1. tok[h] \in Token /\ Committed(tok[h]) /\ lock[tok[h]] \in {None, h}
  BY DEF RefreshInactive, FoundRow, IInv, Request, LocalsSet, HasToken, HoldsRow, Rotating
<1>2. RevokeRows({tok[h]})
  BY <1>1 DEF RefreshInactive, RevokeRows, IInv, TypeOK
<1>3. pc[h] # "rf_commit" /\ Finish(h) /\ UNCHANGED clientVars
  BY DEF RefreshInactive
<1>4. QED BY <1>1, <1>2, <1>3, FinishedRevoking

\* logout: the session is revoked.
LEMMA LogoutRevokeStep ==
    ASSUME IInv, NEW h \in Handlers, LogoutRevoke(h)
    PROVE  IInv'
<1>1. tok[h] \in Token /\ Committed(tok[h]) /\ lock[tok[h]] \in {None, h}
  BY DEF LogoutRevoke, FoundRow, IInv, Request, LocalsSet, HasToken, HoldsRow, Rotating
<1>2. RevokeRows({tok[h]})
  BY <1>1 DEF LogoutRevoke, RevokeRows, IInv, TypeOK
<1>3. pc[h] # "rf_commit" /\ Finish(h) /\ UNCHANGED clientVars
  BY DEF LogoutRevoke
<1>4. QED BY <1>1, <1>2, <1>3, FinishedRevoking

\* The replay's revocations are committed.
LEMMA RevokeCommitStep ==
    ASSUME IInv, NEW h \in Handlers, RevokeCommit(h)
    PROVE  IInv'
<1>1. scan[h] \in SUBSET Token /\ \A t \in scan[h] : Committed(t) /\ lock[t] = h
  BY DEF RevokeCommit, ToRevoke, IInv, TypeOK, Request, Scanned
<1>2. RevokeRows(scan[h])
  BY DEF RevokeCommit, RevokeRows
<1>3. pc[h] # "rf_commit" /\ Finish(h) /\ UNCHANGED clientVars
  BY DEF RevokeCommit
<1>4. QED BY <1>1, <1>2, <1>3, FinishedRevoking

(* ... and those that insert, rotate, roll back or delete sessions.         *)

\* A free row is nobody's: its insertion disturbs no other request.
LEMMA InsertKeeps ==
    ASSUME IInv, NEW h \in Handlers, NEW n \in Token, rows[n].st = "free",
           \A t \in Token : t # n => rows'[t] = rows[t] /\ lock'[t] = lock[t],
           \A g \in Handlers \ {h} :
              /\ pc'[g] = pc[g] /\ tok'[g] = tok[g] /\ usr'[g] = usr[g]
              /\ new'[g] = new[g] /\ scan'[g] = scan[g]
    PROVE  Keeps(h)
BY DEF IInv, Keeps, Request, LocalsSet, HoldsRow, HoldsNew, Scanned, HasToken,
       Rotating, Revoking, Committed, TypeOK

\* login: the commit of a new session.
LEMMA LoginCommitStep ==
    ASSUME IInv, NEW h \in Handlers, LoginCommit(h)
    PROVE  IInv'
<1> USE DEF IInv, clientVars
<1>1. PICK n \in Token : /\ rows[n].st = "free"
                         /\ rows' = [rows EXCEPT ![n] = NewSession(usr[h], n, "committed")]
                         /\ new' = [new EXCEPT ![h] = n]
  BY DEF LoginCommit
<1>2. /\ pc[h] = "lg_commit" /\ usr[h] \in Users /\ users[usr[h]] # "deleted"
      /\ pc' = [pc EXCEPT ![h] = "respond"]
      /\ UNCHANGED <<now, users, known, lock, userLock, tok, usr, scan>>
  BY DEF LoginCommit, Request, LocalsSet, HasUser
<1>3. InsertRow(n, usr[h], n, "committed")
  BY <1>1 DEF InsertRow, TypeOK
<1>4. rows' \in [Token -> Row] /\ Table'
  BY <1>1, <1>2, <1>3, TableLogin
<1>5. TypeOK'
  BY <1>1, <1>2, <1>4 DEF TypeOK, Pc
<1>6. Keeps(h)
  BY <1>1, <1>2, InsertKeeps DEF TypeOK
<1>7. Request(h)'
  BY <1>1, <1>2 DEF Request, LocalsSet, HoldsRow, HoldsNew, Scanned, HasToken,
                    HasUser, Rotating, Revoking, TypeOK
<1>8. PendingHasWriter'
  <2>1. \A t \in Token : rows'[t].st = "pending" => rows[t].st = "pending"
    BY <1>1 DEF NewSession, TypeOK
  <2>2. QED BY <2>1, <1>1, <1>2 DEF PendingHasWriter, TypeOK
<1>9. QED BY <1>4, <1>5, <1>6, <1>7, <1>8, KeepsRequests

\* refresh: the successor is inserted behind the locks of both rows.
LEMMA RefreshInsertStep ==
    ASSUME IInv, NEW h \in Handlers, RefreshInsert(h)
    PROVE  IInv'
<1> USE DEF IInv, clientVars
<1>1. PICK n \in Token :
          /\ rows[n].st = "free"
          /\ rows' = [rows EXCEPT
                        ![n] = NewSession(usr[h], rows[tok[h]].family, "pending")]
          /\ lock' = [lock EXCEPT ![n] = h]
          /\ new' = [new EXCEPT ![h] = n]
  BY DEF RefreshInsert
<1>2. /\ pc[h] = "rf_insert" /\ pc' = [pc EXCEPT ![h] = "rf_commit"]
      /\ UNCHANGED <<now, users, known, userLock, tok, usr, scan>>
  BY DEF RefreshInsert
<1>3. /\ tok[h] \in Token /\ usr[h] \in Users /\ Committed(tok[h])
      /\ lock[tok[h]] = h /\ rows[tok[h]].user = usr[h]
      /\ ~rows[tok[h]].revoked /\ ~rows[tok[h]].rotated
      /\ users[usr[h]] # "deleted"
  BY <1>2 DEF Request, LocalsSet, HoldsRow, HasToken, HasUser, Rotating, Table,
              DeletedUserLeavesNothing, Committed
<1>4. InsertRow(n, rows[tok[h]].user, rows[tok[h]].family, "pending")
  BY <1>1, <1>3 DEF InsertRow, TypeOK
<1>5. rows' \in [Token -> Row] /\ Table' /\ rows'[tok[h]].expires <= rows'[n].expires
  BY <1>1, <1>2, <1>3, <1>4, TableInsert
<1>6. TypeOK'
  BY <1>1, <1>2, <1>5 DEF TypeOK, Pc
<1>7. Keeps(h)
  BY <1>1, <1>2, InsertKeeps DEF TypeOK
<1>8. n # tok[h]
  BY <1>1, <1>3 DEF Committed
<1>9. /\ rows'[tok[h]] = rows[tok[h]]
      /\ rows'[n].st = "pending" /\ rows'[n].user = usr[h]
      /\ rows'[n].family = rows[tok[h]].family
  BY <1>1, <1>3, <1>8 DEF NewSession, TypeOK
<1>10. Request(h)'
  BY <1>1, <1>2, <1>3, <1>5, <1>8, <1>9
     DEF Request, LocalsSet, HoldsRow, HoldsNew, Scanned, HasToken,
         HasUser, Rotating, Revoking, Committed, TypeOK
<1>11. PendingHasWriter'
  BY <1>1, <1>2 DEF PendingHasWriter, TypeOK
<1>12. QED BY <1>5, <1>6, <1>7, <1>10, <1>11, KeepsRequests

\* refresh: the exchange is committed.
LEMMA RefreshCommitStep ==
    ASSUME IInv, NEW h \in Handlers, RefreshCommit(h)
    PROVE  IInv' /\ RotateRows(tok[h], new[h])
<1> USE DEF IInv, clientVars
<1>1. /\ pc[h] = "rf_commit" /\ pc' = [pc EXCEPT ![h] = "respond"]
      /\ tok' = [tok EXCEPT ![h] = None] /\ ReleaseLocks(h)
      /\ UNCHANGED <<now, users, known, usr, new, scan>>
      /\ rows' = [rows EXCEPT ![tok[h]] = ReplacedBy(@, new[h]),
                              ![new[h]] = Visible(@)]
  BY DEF RefreshCommit, CommitRotation
<1>2. /\ tok[h] \in Token /\ new[h] \in Token /\ usr[h] \in Users
      /\ Committed(tok[h]) /\ lock[tok[h]] = h /\ rows[tok[h]].user = usr[h]
      /\ ~rows[tok[h]].revoked /\ ~rows[tok[h]].rotated
      /\ rows[new[h]].st = "pending" /\ lock[new[h]] = h
      /\ rows[new[h]].user = rows[tok[h]].user
      /\ rows[new[h]].family = rows[tok[h]].family
      /\ rows[tok[h]].expires <= rows[new[h]].expires
  BY <1>1 DEF Request, LocalsSet, HoldsRow, HoldsNew, HasToken, HasUser, Rotating
<1>3. tok[h] # new[h]
  BY <1>2 DEF Committed
<1>4. RotateRows(tok[h], new[h])
  BY <1>1, <1>2, <1>3 DEF RotateRows, TypeOK
<1>5. rows' \in [Token -> Row] /\ Table'
  BY <1>1, <1>2, <1>4, TableRotate
<1>6. TypeOK'
  BY <1>1, <1>5 DEF ReleaseLocks, TypeOK, Pc
<1>7. \A t \in Token : /\ t \notin {tok[h], new[h]} => rows'[t] = rows[t]
                       /\ rows'[t].user = rows[t].user
                       /\ Committed(t) => Committed(t)'
                       /\ rows'[t].st = "pending" => rows[t].st = "pending" /\ t # new[h]
  <2>1. rows[tok[h]] \in Row /\ rows[new[h]] \in Row
    BY <1>2 DEF TypeOK
  <2>2. ReplacedBy(rows[tok[h]], new[h]).st = rows[tok[h]].st
    BY <1>2, <2>1, ReplacedRow
  <2>3. ReplacedBy(rows[tok[h]], new[h]).user = rows[tok[h]].user
    BY <1>2, <2>1, ReplacedRow
  <2>4. rows'[tok[h]] = ReplacedBy(rows[tok[h]], new[h])
    BY <1>2, <1>3, <1>4 DEF RotateRows
  <2>5. /\ rows'[new[h]].st = "committed"
        /\ rows'[new[h]].user = rows[new[h]].user
    BY <1>2, <1>3, <1>4, <2>1, VisibleRow DEF RotateRows
  <2>6. \A t \in Token : t \notin {tok[h], new[h]} => rows'[t] = rows[t]
    BY <1>4 DEF RotateRows
  <2>7. QED BY <1>2, <2>2, <2>3, <2>4, <2>5, <2>6 DEF Committed
<1>8. Keeps(h)
  BY <1>1, <1>2, <1>7 DEF ReleaseLocks, Keeps, Request, LocalsSet, HoldsRow, HoldsNew,
     Scanned, HasToken, Rotating, Revoking, TypeOK
<1>9. Request(h)'
  BY <1>1, <1>2 DEF Request, LocalsSet, HoldsRow, HoldsNew, Scanned, HasToken,
                    HasUser, Rotating, Revoking, TypeOK
<1>10. PendingHasWriter'
  BY <1>1, <1>7 DEF PendingHasWriter, TypeOK
<1>11. QED BY <1>4, <1>5, <1>6, <1>8, <1>9, <1>10, KeepsRequests

\* A rollback takes an uncommitted successor with it.
LEMMA AbortStep ==
    ASSUME IInv, NEW h \in Handlers, Abort(h)
    PROVE  IInv'
<1> USE DEF IInv, clientVars
<1>1. Finish(h) /\ UNCHANGED clientVars
  BY DEF Abort
<1>2. CASE pc[h] # "rf_commit"
  <2>1. rows' = rows
    BY <1>2 DEF Abort, TypeOK
  <2>2. QED BY <1>1, <1>2, <2>1, FinishedQuietly DEF TypeOK
<1>3. CASE pc[h] = "rf_commit"
  <2>1. /\ new[h] \in Token /\ rows[new[h]].st = "pending" /\ lock[new[h]] = h
    BY <1>3 DEF Request, LocalsSet, HoldsNew
  <2>2. RollbackRow(new[h])
    BY <1>3 DEF Abort, RollbackRow
  <2>3. rows' \in [Token -> Row] /\ Table'
    BY <1>1, <2>1, <2>2, TableRollback
  <2>4. TypeOK'
    BY <1>1, <2>3, Finished DEF TypeOK
  <2>5. \A t \in Token : /\ t # new[h] => rows'[t] = rows[t]
                         /\ rows'[t].st = "pending" => t # new[h]
    BY <2>2, BlankRow DEF RollbackRow
  <2>6. \A t \in Token : Committed(t) \/ lock[t] # h =>
           rows'[t] = rows[t] /\ (lock[t] # h => lock'[t] = lock[t])
    BY <1>1, <2>1, <2>5, Finished DEF Committed
  <2> HIDE DEF clientVars
  <2>7. Keeps(h)
    <3> SUFFICES ASSUME NEW g \in Handlers \ {h}
                 PROVE  /\ pc'[g] = pc[g] /\ tok'[g] = tok[g] /\ usr'[g] = usr[g]
                        /\ new'[g] = new[g] /\ scan'[g] = scan[g]
                        /\ pc[g] \in Rotating \cup Revoking =>
                             lock'[tok[g]] = g /\ rows'[tok[g]] = rows[tok[g]]
                        /\ pc[g] = "rf_commit" =>
                             lock'[new[g]] = g /\ rows'[new[g]] = rows[new[g]]
                        /\ \A t \in scan[g] :
                             Committed(t)' /\ rows'[t].user = rows[t].user
      BY DEF Keeps
    <3>1. /\ pc'[g] = pc[g] /\ tok'[g] = tok[g] /\ usr'[g] = usr[g]
          /\ new'[g] = new[g] /\ scan'[g] = scan[g]
      BY <1>1, Finished DEF TypeOK
    <3>2. Request(g)
      OBVIOUS
    <3>3. pc[g] \in Rotating \cup Revoking =>
             lock'[tok[g]] = g /\ rows'[tok[g]] = rows[tok[g]]
      BY <3>2, <2>6 DEF Request, LocalsSet, HoldsRow, HasToken, Rotating, Revoking
    <3>4. pc[g] = "rf_commit" => lock'[new[g]] = g /\ rows'[new[g]] = rows[new[g]]
      BY <3>2, <2>6 DEF Request, LocalsSet, HoldsNew
    <3>5. \A t \in scan[g] : Committed(t)' /\ rows'[t].user = rows[t].user
      BY <3>2, <2>6 DEF Request, Scanned, Committed, TypeOK
    <3>6. QED BY <3>1, <3>3, <3>4, <3>5
  <2>8. PendingHasWriter'
    BY <1>1, <2>5, Finished DEF PendingHasWriter, TypeOK
  <2>9. QED BY <1>1, <2>3, <2>4, <2>7, <2>8, Finished, KeepsRequests
<1>4. QED BY <1>2, <1>3

\* The cascade has locked every session of the user, so no other request holds
\* or has selected one, or is about to add one.
LEMMA NobodyElseUses ==
    ASSUME IInv, NEW h \in Handlers, NEW u \in Users,
           \A t \in SessionsOf(u) : lock[t] = h
    PROVE  /\ \A g \in Handlers \ {h} :
                 /\ pc[g] \in Rotating \cup Revoking => usr[g] # u
                 /\ \A t \in scan[g] : rows[t].user # u
           /\ pc[h] \notin Rotating => \A t \in Token : rows[t].st = "pending" => rows[t].user # u
<1>1. ASSUME NEW g \in Handlers, g # h, pc[g] \in Rotating \cup Revoking
      PROVE  usr[g] # u
  BY <1>1 DEF IInv, Request, LocalsSet, HasToken, HoldsRow, SessionsOf, Rotating, Revoking
<1>2. ASSUME NEW g \in Handlers, g # h, NEW t \in scan[g]
      PROVE  rows[t].user # u
  BY <1>1, <1>2 DEF IInv, Request, Scanned, Revoking
<1>3. ASSUME pc[h] \notin Rotating, NEW t \in Token, rows[t].st = "pending"
      PROVE  rows[t].user # u
  BY <1>1, <1>3 DEF IInv, PendingHasWriter, Request, HoldsNew, Rotating
<1>4. QED BY <1>1, <1>2, <1>3

\* The deletion is committed with its cascade.
LEMMA DeleteCommitStep ==
    ASSUME IInv, NEW h \in Handlers, DeleteCommit(h)
    PROVE  IInv' /\ DeleteRows(usr[h])
<1> USE DEF IInv, clientVars
<1>1. /\ pc[h] = "de_rows" /\ usr[h] \in Users /\ Finish(h) /\ DeleteRows(usr[h])
      /\ users' = [users EXCEPT ![usr[h]] = "deleted"]
      /\ now' = now /\ known' = known
  BY DEF DeleteCommit, DeleteRows, Request, LocalsSet, HasUser
<1>2. \A t \in SessionsOf(usr[h]) : lock[t] = h
  BY DEF DeleteCommit, ToDelete
<1>3. /\ \A g \in Handlers \ {h} :
            /\ pc[g] \in Rotating \cup Revoking => usr[g] # usr[h]
            /\ \A t \in scan[g] : rows[t].user # usr[h]
      /\ \A t \in Token : rows[t].st = "pending" => rows[t].user # usr[h]
  BY <1>1, <1>2, NobodyElseUses DEF Rotating
<1>4. rows' \in [Token -> Row] /\ Table'
  BY <1>1, <1>3, TableDelete
<1>5. TypeOK'
  BY <1>1, <1>4, Finished DEF TypeOK
<1>6. \A t \in Token : /\ rows[t].user # usr[h] => rows'[t] = rows[t]
                       /\ rows'[t].st = "pending" => rows[t].st = "pending"
  BY <1>1, BlankRow DEF DeleteRows, SessionsOf
<1>7. Keeps(h)
  BY <1>1, <1>3, <1>6, Finished
     DEF Keeps, Request, LocalsSet, HoldsRow, HoldsNew, Scanned, HasToken,
         Rotating, Revoking, Committed, TypeOK
<1>8. PendingHasWriter'
  BY <1>1, <1>6, Finished DEF PendingHasWriter, TypeOK
<1>9. QED BY <1>1, <1>4, <1>5, <1>7, <1>8, Finished, KeepsRequests

\* A step that changes neither the requests nor the rows.
LEMMA EnvironmentStep ==
    ASSUME IInv, TypeOK', rows' = rows, lock' = lock, UNCHANGED locals,
           now <= now', \A u \in Users : users'[u] = "deleted" => users[u] = "deleted"
    PROVE  IInv'
<1>1. Table'
  BY TableUnchanged DEF IInv, TypeOK
<1>2. \A h \in Handlers : Request(h)'
  BY DEF IInv, Request, LocalsSet, HoldsRow, HoldsNew, Scanned, Committed, locals
<1>3. PendingHasWriter'
  BY DEF IInv, PendingHasWriter, locals
<1>4. QED BY <1>1, <1>2, <1>3 DEF IInv

\* It holds in the empty table.
LEMMA InitIInv == Init => IInv
<1> SUFFICES ASSUME Init PROVE IInv
  OBVIOUS
<1> USE DEF Init
<1>1. TypeOK
  BY TimeAssumption, BlankRow DEF TypeOK, Pc
<1>2. \A h \in Handlers : Request(h)
  BY DEF Request, LocalsSet, HoldsRow, HoldsNew, Scanned, HasToken, HasUser,
         Rotating, Revoking
<1>3. \A t \in Token : rows[t].st = "free" /\ ~rows[t].revoked /\ ~rows[t].rotated
                       /\ rows[t].next = None
  BY BlankRow
<1>4. PendingHasWriter
  BY <1>3 DEF PendingHasWriter
<1>5. Table
  BY <1>3 DEF Table, OwnersSet, RowShape, OneTipPerLogin, ChainLinks,
              DeletedUserLeavesNothing, Committed
<1>6. QED BY <1>1, <1>2, <1>4, <1>5 DEF IInv

\* Every step keeps it.
LEMMA NextIInv == IInv /\ [Next]_vars => IInv'
<1> SUFFICES ASSUME IInv, [Next]_vars PROVE IInv'
  OBVIOUS
<1>1. CASE UNCHANGED vars
  <2>1. TypeOK'
    BY <1>1 DEF IInv, TypeOK, vars
  <2>2. now <= now'
    BY <1>1, TimeAssumption DEF IInv, TypeOK, vars
  <2>3. QED BY <1>1, <2>1, <2>2, EnvironmentStep DEF vars, locals
<1>2. ASSUME NEW h \in Handlers, Arrive(h) PROVE IInv'
  BY <1>2, LoginBeginStep, RefreshStartStep, LogoutStartStep, DeleteStartStep DEF Arrive
<1>3. ASSUME NEW h \in Handlers, Step(h) PROVE IInv'
  BY <1>3, LoginCommitStep, LoginUserGoneStep, RefreshNotFoundStep,
     RefreshReplayedStep, RefreshExpiredStep, RefreshAcceptedStep,
     RefreshInactiveStep, RefreshUserStep, RefreshInsertStep, RefreshCommitStep,
     RevokeScanStep, RevokeUpdateStep, RevokeCommitStep, LogoutNothingStep,
     LogoutRevokeStep, DeleteLockStep, DeleteNothingStep, DeleteRowStep,
     DeleteCommitStep, RespondStep, RespondUserGoneStep DEF Step
<1>4. ASSUME NEW h \in Handlers, Abort(h) PROVE IInv'
  BY <1>4, AbortStep
<1>5. ASSUME NEW u \in Users, SetActive(u) PROVE IInv'
  <2>1. TypeOK'
    BY <1>5 DEF SetActive, IInv, TypeOK, locals
  <2>2. now <= now'
    BY <1>5, TimeAssumption DEF SetActive, IInv, TypeOK
  <2>3. \A v \in Users : users'[v] = "deleted" => users[v] = "deleted"
    BY <1>5 DEF SetActive, IInv, TypeOK
  <2>4. QED BY <1>5, <2>1, <2>2, <2>3, EnvironmentStep DEF SetActive
<1>6. CASE Tick
  <2>1. TypeOK' /\ now <= now'
    BY <1>6, TimeAssumption DEF Tick, IInv, TypeOK, locals
  <2>2. QED BY <1>6, <2>1, EnvironmentStep DEF Tick
<1>7. QED BY <1>1, <1>2, <1>3, <1>4, <1>5, <1>6 DEF Next

-----------------------------------------------------------------------------
(* Safety, for every instance. *)

\* Every request relies on what is there, and the table is sound, at every step.
THEOREM InductiveInvariant == Spec => []IInv
BY InitIInv, NextIInv, PTL DEF Spec

\* The variables keep their types.
THEOREM TypeCorrect == Spec => []TypeOK
<1>1. IInv => TypeOK
  BY DEF IInv
<1>2. QED BY <1>1, InductiveInvariant, PTL

\* No interleaving of refreshes, logins, replays, logouts, deletions and crashes
\* leaves a login with two sessions that work.
THEOREM OneLive == Spec => []OneLivePerLogin
<1>1. IInv => OneLivePerLogin
  BY DEF IInv, Table, OneTipPerLogin, RowShape, OneLivePerLogin, Live
<1>2. QED BY <1>1, InductiveInvariant, PTL

\* A login whose newest session was revoked has no session that works.
THEOREM EndedLogin == Spec => []EndedLoginStaysEnded
<1>1. IInv => EndedLoginStaysEnded
  BY DEF IInv, Table, OneTipPerLogin, RowShape, EndedLoginStaysEnded, Live
<1>2. QED BY <1>1, InductiveInvariant, PTL

\* replaced_by_id links the sessions of a login into one chain.
THEOREM Chains == Spec => []ChainLinks
<1>1. IInv => ChainLinks
  BY DEF IInv, Table
<1>2. QED BY <1>1, InductiveInvariant, PTL

\* A deleted user has no session, committed or about to be.
THEOREM DeletedUser == Spec => []DeletedUserLeavesNothing
<1>1. IInv => DeletedUserLeavesNothing
  BY DEF IInv, Table
<1>2. QED BY <1>1, InductiveInvariant, PTL

\* No UPDATE of a request misses its row, and session.get finds the user.
THEOREM RowsOutlive == Spec => []RowsOutliveTheirReaders
<1>1. IInv => RowsOutliveTheirReaders
  <2> SUFFICES ASSUME IInv, NEW h \in Handlers
               PROVE  /\ pc[h] \in Rotating \cup Revoking =>
                           /\ Committed(tok[h]) /\ rows[tok[h]].user = usr[h]
                           /\ users[usr[h]] # "deleted"
                      /\ \A t \in scan[h] : Committed(t) /\ rows[t].user = usr[h]
    BY DEF RowsOutliveTheirReaders, Rotating, Revoking
  <2>1. Request(h) /\ DeletedUserLeavesNothing
    BY DEF IInv, Table
  <2>2. ASSUME pc[h] \in Rotating \cup Revoking
        PROVE  /\ Committed(tok[h]) /\ rows[tok[h]].user = usr[h]
               /\ tok[h] \in Token /\ usr[h] \in Users
    BY <2>1, <2>2 DEF Request, LocalsSet, HoldsRow, HasToken, HasUser, Rotating, Revoking
  <2>3. ASSUME pc[h] \in Rotating \cup Revoking
        PROVE  users[usr[h]] # "deleted"
    BY <2>1, <2>2, <2>3 DEF DeletedUserLeavesNothing, Committed
  <2>4. QED BY <2>1, <2>2, <2>3 DEF Request, Scanned
<1>2. QED BY <1>1, InductiveInvariant, PTL

-----------------------------------------------------------------------------
(* What a step does to the table: it commits one of the five changes, or    *)
(* leaves the committed rows alone.                                         *)

\* What a step does to the rows is one of these changes, or none.
LEMMA StepEffect ==
    ASSUME IInv, [Next]_vars
    PROVE  \/ \E n \in Token : \E u \in Users :
                 rows[n].st = "free" /\ InsertRow(n, u, n, "committed")
           \/ \E n \in Token : \E u \in Users : \E f \in Token :
                 rows[n].st = "free" /\ InsertRow(n, u, f, "pending")
           \/ \E o, n \in Token :
                 /\ Live(o) /\ ~rows[o].rotated /\ rows[n].st = "pending"
                 /\ rows[n].family = rows[o].family
                 /\ RotateRows(o, n)
           \/ \E S \in SUBSET Token : (\A t \in S : Committed(t)) /\ RevokeRows(S)
           \/ \E u \in Users : DeleteRows(u)
           \/ \E n \in Token : rows[n].st = "pending" /\ RollbackRow(n)
           \/ rows' = rows
<1> USE DEF IInv
<1> DEFINE Goal ==
           \/ \E n \in Token : \E u \in Users :
                 rows[n].st = "free" /\ InsertRow(n, u, n, "committed")
           \/ \E n \in Token : \E u \in Users : \E f \in Token :
                 rows[n].st = "free" /\ InsertRow(n, u, f, "pending")
           \/ \E o, n \in Token :
                 /\ Live(o) /\ ~rows[o].rotated /\ rows[n].st = "pending"
                 /\ rows[n].family = rows[o].family
                 /\ RotateRows(o, n)
           \/ \E S \in SUBSET Token : (\A t \in S : Committed(t)) /\ RevokeRows(S)
           \/ \E u \in Users : DeleteRows(u)
           \/ \E n \in Token : rows[n].st = "pending" /\ RollbackRow(n)
           \/ rows' = rows
<1> SUFFICES Goal
  OBVIOUS
<1>1. ASSUME NEW h \in Handlers, LoginCommit(h) PROVE Goal
  <2>1. PICK n \in Token : /\ rows[n].st = "free"
                           /\ rows' = [rows EXCEPT ![n] = NewSession(usr[h], n, "committed")]
    BY <1>1 DEF LoginCommit
  <2>2. usr[h] \in Users
    BY <1>1 DEF LoginCommit, Request, LocalsSet, HasUser
  <2>3. InsertRow(n, usr[h], n, "committed")
    BY <2>1 DEF InsertRow, TypeOK
  <2>4. QED BY <2>1, <2>2, <2>3
<1>2. ASSUME NEW h \in Handlers, RefreshInsert(h) PROVE Goal
  <2>1. PICK n \in Token :
            /\ rows[n].st = "free"
            /\ rows' = [rows EXCEPT
                          ![n] = NewSession(usr[h], rows[tok[h]].family, "pending")]
    BY <1>2 DEF RefreshInsert
  <2>2. usr[h] \in Users /\ rows[tok[h]].family \in Token
    BY <1>2 DEF RefreshInsert, Request, LocalsSet, HoldsRow, HasUser, HasToken,
                Rotating, Committed, Table, OwnersSet
  <2>3. InsertRow(n, usr[h], rows[tok[h]].family, "pending")
    BY <2>1 DEF InsertRow, TypeOK
  <2>4. QED BY <2>1, <2>2, <2>3
<1>3. ASSUME NEW h \in Handlers, RefreshCommit(h) PROVE Goal
  <2>1. RotateRows(tok[h], new[h])
    BY <1>3, RefreshCommitStep
  <2>2. /\ tok[h] \in Token /\ new[h] \in Token /\ Live(tok[h]) /\ ~rows[tok[h]].rotated
        /\ rows[new[h]].st = "pending" /\ rows[new[h]].family = rows[tok[h]].family
    BY <1>3 DEF RefreshCommit, CommitRotation, Request, LocalsSet, HoldsRow, HoldsNew,
                HasToken, Rotating, Live
  <2>3. QED BY <2>1, <2>2
<1>4. ASSUME NEW h \in Handlers,
             RefreshExpired(h) \/ RefreshInactive(h) \/ LogoutRevoke(h)
      PROVE  Goal
  <2>1. tok[h] \in Token /\ Committed(tok[h])
    BY <1>4 DEF RefreshExpired, RefreshInactive, LogoutRevoke, FoundRow, Request,
                LocalsSet, HasToken, HoldsRow, Rotating
  <2>2. RevokeRows({tok[h]})
    BY <1>4, <2>1 DEF RefreshExpired, RefreshInactive, LogoutRevoke, RevokeRows, TypeOK
  <2>3. QED BY <2>1, <2>2
<1>5. ASSUME NEW h \in Handlers, RevokeCommit(h) PROVE Goal
  <2>1. scan[h] \in SUBSET Token /\ \A t \in scan[h] : Committed(t)
    BY DEF TypeOK, Request, Scanned
  <2>2. RevokeRows(scan[h])
    BY <1>5 DEF RevokeCommit, RevokeRows
  <2>3. QED BY <2>1, <2>2
<1>6. ASSUME NEW h \in Handlers, DeleteCommit(h) PROVE Goal
  <2>1. DeleteRows(usr[h]) /\ usr[h] \in Users
    BY <1>6, DeleteCommitStep DEF DeleteCommit, Request, LocalsSet, HasUser
  <2>2. QED BY <2>1
<1>7. ASSUME NEW h \in Handlers, Abort(h) PROVE Goal
  <2>1. CASE pc[h] = "rf_commit"
    BY <1>7, <2>1 DEF Abort, RollbackRow, Request, LocalsSet, HoldsNew
  <2>2. CASE pc[h] # "rf_commit"
    BY <1>7, <2>2 DEF Abort, TypeOK
  <2>3. QED BY <2>1, <2>2
<1>8. ASSUME NEW h \in Handlers, Arrive(h) PROVE rows' = rows
  BY <1>8 DEF Arrive, LoginBegin, RefreshStart, LogoutStart, DeleteStart
<1>9. ASSUME NEW h \in Handlers, Step(h) PROVE Goal
  <2>1. CASE \/ LoginUserGone(h) \/ RefreshNotFound(h) \/ RefreshReplayed(h)
             \/ RefreshAccepted(h) \/ RefreshUser(h) \/ RevokeScan(h)
             \/ RevokeUpdate(h) \/ LogoutNothing(h) \/ DeleteLock(h)
             \/ DeleteNothing(h) \/ DeleteRow(h) \/ Respond(h) \/ RespondUserGone(h)
    BY <2>1 DEF LoginUserGone, RefreshNotFound, RefreshReplayed, RefreshAccepted,
        RefreshUser, RevokeScan, RevokeUpdate, LogoutNothing, DeleteLock,
        DeleteNothing, DeleteRow, Respond, RespondUserGone
  <2> HIDE DEF Goal
  <2>2. QED BY <1>9, <1>1, <1>2, <1>3, <1>4, <1>5, <1>6, <2>1 DEF Step
<1>10. ASSUME (\E u \in Users : SetActive(u)) \/ Tick \/ UNCHANGED vars PROVE rows' = rows
  BY <1>10 DEF SetActive, Tick, vars
<1> HIDE DEF Goal
<1>11. rows' = rows => Goal
  BY DEF Goal
<1>12. QED BY <1>7, <1>8, <1>9, <1>10, <1>11 DEF Next

\* A session revoked without being exchanged, by a logout for example, is never
\* exchanged.
THEOREM NeverExchanged == Spec => RevokedIsNeverExchanged
<1> DEFINE A == \A t \in Token :
          Committed(t) /\ rows[t].revoked /\ ~rows[t].rotated => ~rows'[t].rotated
<1>1. IInv /\ [Next]_vars => [A]_vars
  <2> SUFFICES ASSUME IInv, [Next]_vars, NEW t \in Token,
                      Committed(t), rows[t].revoked, ~rows[t].rotated
               PROVE  ~rows'[t].rotated
    OBVIOUS
  <2>1. rows[t] \in Row
    BY DEF IInv, TypeOK
  <2>2. ASSUME NEW n \in Token, NEW u \in Users, NEW f \in Token,
               NEW st \in {"pending", "committed"},
               rows[n].st = "free", InsertRow(n, u, f, st)
        PROVE  ~rows'[t].rotated
    BY <2>2 DEF InsertRow, Committed
  <2>3. ASSUME NEW o \in Token, NEW n \in Token, Live(o), rows[n].st = "pending",
               RotateRows(o, n)
        PROVE  ~rows'[t].rotated
    BY <2>3 DEF RotateRows, Live, Committed
  <2>4. ASSUME NEW S \in SUBSET Token, RevokeRows(S) PROVE ~rows'[t].rotated
    BY <2>1, <2>4, RevokedRow DEF RevokeRows
  <2>5. ASSUME NEW u \in Users, DeleteRows(u) PROVE ~rows'[t].rotated
    BY <2>5, BlankRow DEF DeleteRows
  <2>6. ASSUME NEW n \in Token, RollbackRow(n) PROVE ~rows'[t].rotated
    BY <2>6, BlankRow DEF RollbackRow
  <2>7. CASE rows' = rows
    BY <2>7
  <2>8. QED BY <2>2, <2>3, <2>4, <2>5, <2>6, <2>7, StepEffect
<1>2. QED BY <1>1, InductiveInvariant, PTL DEF Spec, RevokedIsNeverExchanged

-----------------------------------------------------------------------------
(* Refinement *)

\* The database starts with no token issued.
LEMMA RefinesInit == Init => Abs!Init
BY BlankRow DEF Init, Abs!Init, AbsStatus, AbsLogin, Live, Committed

\* Each change of the table is a step of the abstract rotation, or none.
LEMMA RefinesStep == IInv /\ [Next]_vars => [Abs!Next]_(Abs!vars)
<1> SUFFICES ASSUME IInv, [Next]_vars PROVE [Abs!Next]_(Abs!vars)
  OBVIOUS
<1>0. rows \in [Token -> Row] /\ TypeOK /\ Table
  BY DEF IInv, TypeOK
<1>1. ASSUME NEW n \in Token, NEW u \in Users, rows[n].st = "free",
             InsertRow(n, u, n, "committed")
      PROVE  Abs!Issue(n)
  <2>1. /\ \A t \in Token : t # n => rows'[t] = rows[t]
        /\ rows'[n].st = "committed" /\ rows'[n].family = n /\ ~rows'[n].revoked
    BY <1>0, <1>1, InsertedRow
  <2>2. AbsStatus' = [AbsStatus EXCEPT ![n] = "live"]
    BY <2>1 DEF AbsStatus, Live, Committed
  <2>3. AbsLogin' = [AbsLogin EXCEPT ![n] = n]
    BY <2>1 DEF AbsLogin, Committed
  <2>4. AbsStatus[n] = "unissued"
    BY <1>1 DEF AbsStatus, Live, Committed
  <2>5. QED BY <2>2, <2>3, <2>4 DEF Abs!Issue
<1>2. ASSUME NEW n \in Token, NEW u \in Users, NEW f \in Token, rows[n].st = "free",
             InsertRow(n, u, f, "pending")
      PROVE  UNCHANGED Abs!vars
  <2>1. /\ \A t \in Token : t # n => rows'[t] = rows[t]
        /\ rows'[n].st = "pending"
    BY <1>0, <1>2, InsertedRow
  <2>2. AbsStatus' = AbsStatus
    BY <1>2, <2>1 DEF AbsStatus, Live, Committed
  <2>3. AbsLogin' = AbsLogin
    BY <1>2, <2>1 DEF AbsLogin, Committed
  <2>4. QED BY <2>2, <2>3 DEF Abs!vars
<1>3. ASSUME NEW o \in Token, NEW n \in Token, Live(o), ~rows[o].rotated,
             rows[n].st = "pending", rows[n].family = rows[o].family,
             RotateRows(o, n)
      PROVE  Abs!Rotate(o, n)
  <2>0. o # n /\ rows[o] \in Row /\ rows[n] \in Row
    BY <1>0, <1>3 DEF Live, Committed
  <2>1. /\ \A t \in Token : t \notin {o, n} => rows'[t] = rows[t]
        /\ rows'[o] = ReplacedBy(rows[o], n)
        /\ rows'[n] = Visible(rows[n])
    BY <1>3, <2>0 DEF RotateRows
  <2>2. /\ rows'[o].st = "committed" /\ rows'[o].revoked = TRUE
        /\ rows'[o].family = rows[o].family
    <3>1. /\ ReplacedBy(rows[o], n).st = rows[o].st
          /\ ReplacedBy(rows[o], n).revoked = TRUE
          /\ ReplacedBy(rows[o], n).family = rows[o].family
      BY <2>0, ReplacedRow
    <3>2. QED BY <1>3, <2>1, <3>1 DEF Live, Committed
  <2>3. /\ rows'[n].st = "committed" /\ rows'[n].family = rows[n].family
        /\ rows'[n].revoked = rows[n].revoked
    BY <2>0, <2>1, VisibleRow
  <2>4. ~rows[n].revoked
    BY <1>0, <1>3 DEF Table, RowShape, Committed
  <2>5. AbsStatus' = [AbsStatus EXCEPT ![o] = "spent", ![n] = "live"]
    BY <1>3, <2>0, <2>1, <2>2, <2>3, <2>4 DEF AbsStatus, Live, Committed
  <2>6. AbsLogin' = [AbsLogin EXCEPT ![n] = AbsLogin[o]]
    BY <1>3, <2>0, <2>1, <2>2, <2>3 DEF AbsLogin, Live, Committed
  <2>7. AbsStatus[o] = "live" /\ AbsStatus[n] = "unissued"
    BY <1>3 DEF AbsStatus, Live, Committed
  <2>8. QED BY <2>5, <2>6, <2>7 DEF Abs!Rotate
<1>4. ASSUME NEW S \in SUBSET Token, \A t \in S : Committed(t), RevokeRows(S)
      PROVE  \E R \in SUBSET Token : Abs!Revoke(R)
  <2> DEFINE R == {t \in S : ~rows[t].revoked}
  <2>1. \A t \in Token : /\ rows'[t].st = rows[t].st /\ rows'[t].family = rows[t].family
                         /\ t \in S => rows'[t].revoked
                         /\ t \notin S => rows'[t] = rows[t]
    BY <1>0, <1>4, RevokedRow DEF RevokeRows
  <2>2. AbsStatus' = [t \in Token |-> IF t \in R THEN "spent" ELSE AbsStatus[t]]
    BY <1>4, <2>1 DEF AbsStatus, Live, Committed
  <2>3. AbsLogin' = AbsLogin
    BY <2>1 DEF AbsLogin, Committed
  <2>4. ASSUME NEW t \in R PROVE AbsStatus[t] = "live"
    <3>1. t \in Token /\ Live(t)
      BY <1>4 DEF Live
    <3>2. QED BY <3>1 DEF AbsStatus
  <2>5. Abs!Revoke(R)
    BY <2>2, <2>3, <2>4 DEF Abs!Revoke
  <2>6. QED BY <2>5
<1>5. ASSUME NEW u \in Users, DeleteRows(u)
      PROVE  \E R \in SUBSET Token : Abs!Purge(R)
  <2>1. /\ \A t \in SessionsOf(u) : rows'[t].st = "deleted"
        /\ \A t \in Token \ SessionsOf(u) : rows'[t] = rows[t]
    BY <1>5, BlankRow DEF DeleteRows, SessionsOf
  <2>2. AbsStatus' = [t \in Token |-> IF t \in SessionsOf(u) THEN "gone" ELSE AbsStatus[t]]
    BY <2>1 DEF AbsStatus, Live, Committed
  <2>3. AbsLogin' = [t \in Token |-> IF t \in SessionsOf(u) THEN None ELSE AbsLogin[t]]
    BY <2>1 DEF AbsLogin, Committed
  <2>4. ASSUME NEW t \in SessionsOf(u) PROVE AbsStatus[t] \in {"live", "spent"}
    <3>1. t \in Token /\ Committed(t)
      BY DEF SessionsOf
    <3>2. CASE Live(t)
      BY <3>1, <3>2 DEF AbsStatus
    <3>3. CASE ~Live(t)
      BY <3>1, <3>3 DEF AbsStatus, Live
    <3>4. QED BY <3>2, <3>3
  <2>5. Abs!Purge(SessionsOf(u))
    BY <2>2, <2>3, <2>4 DEF Abs!Purge
  <2>6. QED BY <2>5 DEF SessionsOf
<1>6. ASSUME NEW n \in Token, rows[n].st = "pending", RollbackRow(n)
      PROVE  UNCHANGED Abs!vars
  <2>1. /\ \A t \in Token : t # n => rows'[t] = rows[t]
        /\ rows'[n].st = "free"
    BY <1>6, BlankRow DEF RollbackRow
  <2>2. AbsStatus' = AbsStatus
    BY <1>6, <2>1 DEF AbsStatus, Live, Committed
  <2>3. AbsLogin' = AbsLogin
    BY <1>6, <2>1 DEF AbsLogin, Committed
  <2>4. QED BY <2>2, <2>3 DEF Abs!vars
<1>7. CASE rows' = rows
  BY <1>7 DEF Abs!vars, AbsStatus, AbsLogin, Live, Committed
<1>8. QED
  BY <1>1, <1>2, <1>3, <1>4, <1>5, <1>6, <1>7, StepEffect DEF Abs!Next

\* The database implements the abstract token rotation, for every instance.
THEOREM Refinement == Spec => ImplementsRotation
BY RefinesInit, RefinesStep, InductiveInvariant, PTL DEF Spec, Abs!Spec, ImplementsRotation

-----------------------------------------------------------------------------
(* One request at a time *)

\* With one request at a time, nothing changes between the query and the UPDATEs
\* of _revoke_user_refresh_sessions.
ScanIsExact ==
    \A h \in Handlers : pc[h] = "rv_update" =>
        scan[h] = {t \in SessionsOf(usr[h]) : ~rows[t].revoked}

\* With a single handler every step keeps that.
LEMMA ScanIsExactStep ==
    ASSUME \A g, h \in Handlers : g = h, IInv, ScanIsExact, [Next]_vars
    PROVE  ScanIsExact'
<1> SUFFICES ASSUME NEW h \in Handlers, pc'[h] = "rv_update"
             PROVE  scan'[h] = {t \in SessionsOf(usr[h])' : ~rows'[t].revoked}
  BY DEF ScanIsExact
<1> USE DEF IInv, TypeOK
<1>1. CASE RevokeScan(h)
  BY <1>1 DEF RevokeScan, SessionsOf, Committed, clientVars
<1>2. CASE pc[h] = "rv_update" /\ UNCHANGED <<rows, pc, usr, scan>>
  BY <1>2 DEF ScanIsExact, SessionsOf, Committed
<1>3. CASE RevokeUpdate(h) \/ Tick \/ (\E u \in Users : SetActive(u)) \/ UNCHANGED vars
  BY <1>2, <1>3 DEF RevokeUpdate, Tick, SetActive, locals, vars
<1>4. ASSUME Arrive(h) PROVE FALSE
  BY <1>4 DEF Arrive, LoginBegin, RefreshStart, LogoutStart, DeleteStart
<1>5. ASSUME Step(h), ~RevokeScan(h), ~RevokeUpdate(h) PROVE FALSE
  BY <1>5, Finished
     DEF Step, LoginCommit, LoginUserGone, RefreshNotFound, RefreshReplayed,
         RefreshExpired, RefreshAccepted, RefreshInactive, RefreshUser,
         RefreshInsert, RefreshCommit, CommitRotation, RevokeCommit,
         LogoutNothing, LogoutRevoke, DeleteLock, DeleteNothing, DeleteRow,
         DeleteCommit, Respond, RespondUserGone
<1>6. ASSUME Abort(h) PROVE FALSE
  BY <1>6, Finished DEF Abort
<1>7. QED BY <1>1, <1>3, <1>4, <1>5, <1>6 DEF Next

\* With one request at a time, the replay of a spent token revokes every session
\* of its user and no other.
THEOREM SequentialReplay ==
    ASSUME \A g, h \in Handlers : g = h
    PROVE  Spec => ReplayRevokesTheUser
<1>1. Init => ScanIsExact
  BY DEF Init, ScanIsExact
<1>2. IInv /\ ScanIsExact /\ [Next]_vars => ScanIsExact'
  BY ScanIsExactStep
<1>3. IInv /\ ScanIsExact /\ [Next]_vars => [\A h \in Handlers : ReplayIsComplete(h)]_vars
  <2> SUFFICES ASSUME IInv, ScanIsExact, NEW h \in Handlers, RevokeCommit(h),
                      NEW t \in Token, Committed(t)
               PROVE  rows'[t].revoked <=> rows[t].revoked \/ rows[t].user = usr[h]
    BY DEF ReplayIsComplete
  <2>1. t \in scan[h] <=> rows[t].user = usr[h] /\ ~rows[t].revoked
    BY DEF RevokeCommit, ScanIsExact, SessionsOf
  <2>2. CASE t \in scan[h]
    <3>1. rows'[t] = Revoked(rows[t]) /\ rows[t] \in Row
      BY <2>2 DEF RevokeCommit, IInv, TypeOK
    <3>2. QED BY <2>1, <2>2, <3>1, RevokedRow
  <2>3. CASE t \notin scan[h]
    <3>1. rows'[t] = rows[t]
      BY <2>3 DEF RevokeCommit
    <3>2. QED BY <2>1, <2>3, <3>1
  <2>4. QED BY <2>2, <2>3
<1>4. QED BY <1>1, <1>2, <1>3, InductiveInvariant, PTL DEF Spec, ReplayRevokesTheUser

-----------------------------------------------------------------------------
(* Any number of requests: what a replay can miss *)

\* The query of a replay that was not overtaken has every session that works.
ScanIsWhole ==
    \A h \in Handlers \ raced : pc[h] = "rv_update" =>
        \A t \in Token : Live(t) /\ rows[t].user = usr[h] => t \in scan[h]

\* A revoker has either made its query in this step, or keeps its locals.
LEMMA RevokerStays ==
    ASSUME IInv, [Next]_vars, NEW h \in Handlers, pc'[h] = "rv_update"
    PROVE  \/ RevokeScan(h)
           \/ pc[h] = "rv_update" /\ usr'[h] = usr[h] /\ scan'[h] = scan[h]
<1> USE DEF IInv, TypeOK
<1>1. ASSUME NEW g \in Handlers, g # h, Arrive(g) \/ Step(g) \/ Abort(g)
      PROVE  pc'[h] = pc[h] /\ usr'[h] = usr[h] /\ scan'[h] = scan[h]
  <2>1. CASE Finish(g)
    BY <1>1, <2>1, Finished
  <2>2. CASE Arrive(g)
    BY <1>1, <2>2 DEF Arrive, LoginBegin, RefreshStart, LogoutStart, DeleteStart
  <2>3. CASE \/ LoginCommit(g) \/ RefreshReplayed(g) \/ RefreshAccepted(g)
             \/ RefreshUser(g) \/ RefreshInsert(g) \/ RefreshCommit(g)
    BY <1>1, <2>3 DEF LoginCommit, RefreshReplayed, RefreshAccepted, RefreshUser,
                      RefreshInsert, RefreshCommit, CommitRotation
  <2>4. CASE RevokeScan(g) \/ RevokeUpdate(g) \/ DeleteLock(g) \/ DeleteRow(g)
    BY <1>1, <2>4 DEF RevokeScan, RevokeUpdate, DeleteLock, DeleteRow, locals
  <2>5. QED
    BY <1>1, <2>1, <2>2, <2>3, <2>4
       DEF Step, LoginUserGone, RefreshNotFound, RefreshExpired, RefreshInactive,
           RevokeCommit, LogoutNothing, LogoutRevoke, DeleteNothing, DeleteCommit,
           Respond, RespondUserGone, Abort
<1>2. ASSUME Step(h), ~RevokeScan(h), ~RevokeUpdate(h) PROVE FALSE
  BY <1>2, Finished
     DEF Step, LoginCommit, LoginUserGone, RefreshNotFound, RefreshReplayed,
         RefreshExpired, RefreshAccepted, RefreshInactive, RefreshUser,
         RefreshInsert, RefreshCommit, CommitRotation, RevokeCommit,
         LogoutNothing, LogoutRevoke, DeleteLock, DeleteNothing, DeleteRow,
         DeleteCommit, Respond, RespondUserGone
<1>3. ASSUME Arrive(h) \/ Abort(h) PROVE FALSE
  BY <1>3, Finished DEF Arrive, LoginBegin, RefreshStart, LogoutStart, DeleteStart,
                        Abort
<1>4. CASE RevokeUpdate(h) \/ Tick \/ (\E u \in Users : SetActive(u)) \/ UNCHANGED vars
  BY <1>4 DEF RevokeUpdate, Tick, SetActive, locals, vars
<1>5. QED BY <1>1, <1>2, <1>3, <1>4 DEF Next

\* A session that works before and after a step is still that of its user.
LEMMA OwnerStays ==
    ASSUME IInv, [Next]_vars, NEW t \in Token, Live(t), Live(t)'
    PROVE  rows'[t].user = rows[t].user
<1>0. TypeOK /\ Table /\ rows[t] \in Row
  BY DEF IInv, TypeOK
<1>1. ASSUME NEW n \in Token, NEW u \in Users, NEW f \in Token,
             NEW st \in {"pending", "committed"},
             rows[n].st = "free", InsertRow(n, u, f, st)
      PROVE  rows'[t].user = rows[t].user
  BY <1>1 DEF InsertRow, Live, Committed
<1>2. ASSUME NEW o \in Token, NEW n \in Token, RotateRows(o, n)
      PROVE  rows'[t].user = rows[t].user
  BY <1>0, <1>2, ReplacedRow, VisibleRow DEF RotateRows
<1>3. ASSUME NEW S \in SUBSET Token, RevokeRows(S) PROVE rows'[t].user = rows[t].user
  BY <1>0, <1>3, RevokedRow DEF RevokeRows
<1>4. ASSUME NEW u \in Users, DeleteRows(u) PROVE rows'[t].user = rows[t].user
  BY <1>4, BlankRow DEF DeleteRows, Live, Committed
<1>5. ASSUME NEW n \in Token, RollbackRow(n) PROVE rows'[t].user = rows[t].user
  BY <1>5, BlankRow DEF RollbackRow, Live, Committed
<1>6. QED BY <1>1, <1>2, <1>3, <1>4, <1>5, StepEffect

\* Every step keeps what a query has whole, or is recorded as overtaking it.
LEMMA ScanIsWholeStep ==
    ASSUME IInv, ScanIsWhole, [RaceNext]_raceVars
    PROVE  ScanIsWhole'
<1>1. [Next]_vars
  BY DEF RaceNext, raceVars
<1>2. SUFFICES ASSUME NEW h \in Handlers, h \notin raced', pc'[h] = "rv_update",
                      NEW t \in Token, Live(t)', rows'[t].user = usr'[h]
               PROVE  t \in scan'[h]
  BY DEF ScanIsWhole
<1>3. CASE RevokeScan(h)
  <2>1. scan'[h] = {s \in SessionsOf(usr[h]) : ~rows[s].revoked} /\ usr' = usr
        /\ rows' = rows
    BY <1>3 DEF RevokeScan, IInv, TypeOK
  <2>2. QED BY <1>2, <2>1 DEF Live, SessionsOf, Committed
<1>4. CASE pc[h] = "rv_update" /\ usr'[h] = usr[h] /\ scan'[h] = scan[h]
  <2>1. h \notin raced /\ ~Overtakes(h)
    <3>1. CASE RaceNext
      BY <1>2, <1>4, <3>1 DEF RaceNext
    <3>2. CASE UNCHANGED raceVars
      BY <1>2, <3>2 DEF raceVars, vars, Overtakes, Live, Committed
    <3>3. QED BY <3>1, <3>2
  <2>2. Live(t)
    BY <1>2, <1>4, <2>1 DEF Overtakes
  <2>3. rows[t].user = usr[h]
    BY <1>1, <1>2, <1>4, <2>2, OwnerStays
  <2>4. QED BY <1>4, <2>1, <2>2, <2>3 DEF ScanIsWhole
<1>5. QED BY <1>1, <1>2, <1>3, <1>4, RevokerStays

\* However many requests interleave, a replay misses a session only if another
\* request has committed one of the same user since the query of the replay.
THEOREM RacedReplays == RaceSpec => OnlyRacedReplaysMiss
<1>1. RaceSpec => Spec
  <2>1. RaceInit => Init
    BY DEF RaceInit
  <2>2. [RaceNext]_raceVars => [Next]_vars
    BY DEF RaceNext, raceVars
  <2>3. QED BY <2>1, <2>2, PTL DEF RaceSpec, Spec
<1>2. RaceInit => ScanIsWhole
  BY DEF RaceInit, Init, ScanIsWhole
<1>3. IInv /\ ScanIsWhole /\ [RaceNext]_raceVars => ScanIsWhole'
  BY ScanIsWholeStep
<1>4. IInv /\ ScanIsWhole /\ [RaceNext]_raceVars
        => [\A h \in Handlers \ raced : ReplayIsComplete(h)]_raceVars
  <2> SUFFICES ASSUME IInv, ScanIsWhole, NEW h \in Handlers \ raced, RevokeCommit(h),
                      NEW t \in Token, Committed(t)
               PROVE  rows'[t].revoked <=> rows[t].revoked \/ rows[t].user = usr[h]
    BY DEF ReplayIsComplete
  <2>1. /\ rows[t] \in Row
        /\ rows'[t] = IF t \in scan[h] THEN Revoked(rows[t]) ELSE rows[t]
        /\ pc[h] = "rv_update"
    BY DEF RevokeCommit, IInv, TypeOK
  <2>2. CASE t \in scan[h]
    <3>1. rows[t].user = usr[h]
      BY <2>2 DEF IInv, Request, Scanned
    <3>2. QED BY <2>1, <2>2, <3>1, RevokedRow
  <2>3. CASE t \notin scan[h]
    <3>1. rows[t].user = usr[h] => rows[t].revoked
      BY <2>1, <2>3 DEF ScanIsWhole, Live
    <3>2. QED BY <2>1, <2>3, <3>1
  <2>4. QED BY <2>2, <2>3
<1>5. QED
  BY <1>1, <1>2, <1>3, <1>4, InductiveInvariant, PTL DEF RaceSpec, OnlyRacedReplaysMiss

=============================================================================
