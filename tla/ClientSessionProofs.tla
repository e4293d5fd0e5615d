------------------------ MODULE ClientSessionProofs ------------------------
(* Proofs about ClientSession, for any number of browsers, calls and tokens. *)
EXTENDS ClientSession, TLAPS

\* What TokenRotation keeps of its tokens.
TokensOK ==
    /\ \A t \in Token : status[t] \in {"live", "spent"} =>
          login[t] \in Token /\ status[login[t]] # "unissued"
    /\ \A t \in Token : status[t] \in {"unissued", "gone"} => login[t] = None
    /\ \A s, t \in Token :
          Live(s) /\ Live(t) /\ login[s] = login[t] => s = t

\* Token t is in the hands of browser b, or on the way.
Holds(b, t) ==
    \/ jar[b] = t
    \/ \E x \in Call : request[x] # None /\ request[x].from = b /\ request[x].token = t
    \/ \E x \in Call : answer[x] # None /\ answer[x].to = b /\ answer[x].cookie = t

\* Nobody holds a token that was not issued, and the tokens of one login are
\* all with one browser.
HeldWasIssued ==
    \A b \in Browser, t \in Token : Holds(b, t) => status[t] # "unissued"

OneHolder ==
    \A b, c \in Browser, s, t \in Token :
        Holds(b, s) /\ Holds(c, t) /\ login[s] = login[t] /\ login[s] # None => b = c

\* A call is a request or an answer; a calm browser has one at most.
OneMessage == \A x \in Call : request[x] = None \/ answer[x] = None

OneCall ==
    \A b \in calm, x, y \in Call : CallOf(x, b) /\ CallOf(y, b) => x = y

\* What works of the login of t is t itself.
Newest(t) == \A s \in LiveTokens : login[s] = login[t] => s = t

\* A calm browser presents, and receives, the newest token of its login.
RequestIsNewest ==
    \A x \in Call : request[x] # None /\ request[x].from \in calm
                    /\ request[x].token # None => Newest(request[x].token)

AnswerIsNewest ==
    \A x \in Call : answer[x] # None /\ answer[x].to \in calm
                    /\ answer[x].cookie \in Token => Newest(answer[x].cookie)

\* An access token is for a login that worked when its token was committed, and
\* made after that; logins that have ended do not come back.
AccessOK(a) ==
    /\ status[a.login] # "unissued"
    /\ a.since <= now
    /\ endedAt[a.login] # None => a.since <= endedAt[a.login]
    /\ a.exp # None => a.iat \in Nat /\ a.since <= a.iat /\ a.exp = a.iat + AccessLifetime

AccessTokensOK ==
    /\ \A b \in Browser : access[b] # None => AccessOK(access[b]) /\ access[b].exp # None
    /\ \A x \in Call : answer[x] # None /\ answer[x].access # None
                       => AccessOK(answer[x].access)

EndsOK == \A l \in Token : endedAt[l] # None => Ended(l)

\* The inductive invariant.
IInv ==
    /\ TypeOK
    /\ TokensOK
    /\ HeldWasIssued
    /\ OneHolder
    /\ OneMessage
    /\ OneCall
    /\ RequestIsNewest
    /\ AnswerIsNewest
    /\ ClientKeepsUp
    /\ AccessTokensOK
    /\ EndsOK

-----------------------------------------------------------------------------
(* Types *)

LEMMA InitIInv == Init => IInv
  <1> SUFFICES ASSUME Init PROVE IInv
    OBVIOUS
  <1> USE ValueAssumption, LifetimeAssumption, TimeAssumption
  <1>1. TypeOK
    BY DEF Init, TypeOK, Rotation!Init, Rotation!TypeOK
  <1>2. TokensOK
    BY DEF Init, Rotation!Init, TokensOK, Live
  <1>3. \A b \in Browser, t \in Token : ~Holds(b, t)
    BY DEF Init, Holds
  <1>4. HeldWasIssued /\ OneHolder
    BY <1>3 DEF HeldWasIssued, OneHolder
  <1>5. OneMessage /\ OneCall /\ RequestIsNewest /\ AnswerIsNewest
    BY DEF Init, OneMessage, OneCall, CallOf, RequestIsNewest, AnswerIsNewest
  <1>6. ClientKeepsUp
    BY DEF Init, ClientKeepsUp
  <1>7. AccessTokensOK /\ EndsOK
    BY DEF Init, AccessTokensOK, EndsOK
  <1> QED
    BY <1>1, <1>2, <1>4, <1>5, <1>6, <1>7 DEF IInv

\* The types of the server, and of the clients.
ServerOK == user \in {"active", "inactive", "deleted"} /\ Rotation!TypeOK
            /\ expires \in [Token -> Nat]

ClientOK ==
    /\ now \in 0..MaxTime
    /\ jar \in [Browser -> Token \cup {None}]
    /\ access \in [Browser -> Access \cup {None}]
    /\ request \in [Call -> Request \cup {None}]
    /\ answer \in [Call -> Answer \cup {None}]
    /\ calm \subseteq Browser

LEMMA ReplyType ==
  ASSUME ClientOK, NEW x \in Call, request[x] # None,
         NEW cookie \in Token \cup {None, Keep}, NEW jwt \in Access \cup {None},
         Reply(x, cookie, jwt)
  PROVE  ClientOK'
  <1>1. request[x].from \in Browser
    BY DEF ClientOK, Request
  <1>2. request' \in [Call -> Request \cup {None}]
    BY DEF Reply, ClientOK
  <1>3. answer' \in [Call -> Answer \cup {None}]
    BY <1>1 DEF Reply, ClientOK, Answer
  <1> QED
    BY <1>2, <1>3 DEF Reply, ClientOK, client

LEMMA GrantType ==
  ASSUME ClientOK, NEW l \in Token
  PROVE  Grant(l) \in Access
  BY TimeAssumption DEF ClientOK, Grant, Access

LEMMA RevokeType ==
  ASSUME ServerOK, NEW S \in SUBSET Token, Rotation!Revoke(S),
         UNCHANGED <<user, expires>>
  PROVE  ServerOK'
  BY DEF ServerOK, Rotation!Revoke, Rotation!TypeOK

\* What is presented is a token of the table or nothing.
LEMMA PresentedType ==
  ASSUME ClientOK, NEW x \in Call, request[x] # None
  PROVE  Presented(x) \in Token \cup {None} /\ request[x].from \in Browser
  BY DEF ClientOK, Request, Presented

LEMMA TypeParts ==
  ASSUME IInv
  PROVE  ServerOK /\ ClientOK /\ now \in Nat /\ endedAt \in [Token -> Nat \cup {None}]
  BY TimeAssumption DEF IInv, TypeOK, ServerOK, ClientOK

LEMMA LoginType ==
  ASSUME IInv, NEW x \in Call, Login(x)
  PROVE  ServerOK' /\ ClientOK'
  <1>1. PICK n \in Token : /\ Rotation!Issue(n)
                           /\ expires' = [expires EXCEPT ![n] = now + Lifetime]
                           /\ Reply(x, n, Grant(n))
    BY DEF Login
  <1>2. request[x] # None /\ user' = user
    BY DEF Login, Asks
  <1>3. ServerOK'
    BY <1>1, <1>2, TypeParts, LifetimeAssumption
    DEF ServerOK, Rotation!Issue, Rotation!TypeOK
  <1>4. ClientOK'
    BY <1>1, <1>2, TypeParts, ReplyType, GrantType
  <1> QED
    BY <1>3, <1>4

\* What a rotation works on.
LEMMA Exchanged ==
  ASSUME IInv, NEW x \in Call, NEW n \in Token, Exchange(x, n, n)
  PROVE  /\ request[x] # None /\ user' = user
         /\ Presented(x) \in Token /\ Works(Presented(x)) /\ Live(Presented(x))
         /\ login[Presented(x)] \in Token /\ status[login[Presented(x)]] # "unissued"
         /\ status[n] = "unissued" /\ n # Presented(x)
  <1>1. request[x] # None /\ user' = user /\ Presented(x) \in Token
    BY TypeParts, PresentedType DEF Exchange, Asks
  <1>2. Works(Presented(x)) /\ Live(Presented(x))
    BY DEF Exchange, Works
  <1>3. login[Presented(x)] \in Token /\ status[login[Presented(x)]] # "unissued"
    BY <1>1, <1>2 DEF IInv, TokensOK, Live
  <1> QED
    BY <1>1, <1>2, <1>3 DEF Exchange, Rotation!Rotate, Live

LEMMA RefreshType ==
  ASSUME IInv, NEW x \in Call, NEW n \in Token, Exchange(x, n, n)
  PROVE  ServerOK' /\ ClientOK'
  <1>1. Rotation!Rotate(Presented(x), n)
        /\ expires' = [expires EXCEPT ![n] = now + Lifetime]
    BY DEF Exchange
  <1>3. Presented(x) \in Token /\ login[Presented(x)] \in Token /\ user' = user
    BY Exchanged
  <1>4. Rotation!TypeOK'
    BY <1>1, <1>3, TypeParts DEF ServerOK, Rotation!Rotate, Rotation!TypeOK
  <1>5. ServerOK'
    BY <1>1, <1>3, <1>4, TypeParts, LifetimeAssumption DEF ServerOK
  <1>2. ClientOK'
    BY Exchanged, TypeParts, ReplyType, GrantType DEF Exchange
  <1> QED
    BY <1>2, <1>5

-----------------------------------------------------------------------------
(* Most steps issue no token and bring no client one. *)

Shrinks(t) ==
    \/ status'[t] = status[t] /\ login'[t] = login[t]
    \/ status[t] = "live" /\ status'[t] = "spent" /\ login'[t] = login[t]
    \/ status[t] \in {"live", "spent"} /\ status'[t] = "gone" /\ login'[t] = None

\* The message of call x is on its way, lost, or refused; or it has arrived and
\* was without a cookie; or its access token is made, or fails to be.
Fades(x) ==
    /\ request'[x] = request[x] \/ request'[x] = None
    /\ \/ answer'[x] = answer[x]
       \/ /\ answer[x] # None
          /\ answer'[x] = None
          /\ answer[x].to \notin calm' \/ answer[x].cookie \notin Token
       \/ /\ request[x] # None
          /\ request'[x] = None
          /\ answer'[x] # None
          /\ answer'[x].to = request[x].from
          /\ answer'[x].cookie \notin Token
          /\ answer'[x].access = None
       \/ /\ answer[x] # None /\ answer[x].access # None /\ answer'[x] # None
          /\ answer'[x].to = answer[x].to /\ answer'[x].cookie = answer[x].cookie
          /\ answer'[x].access = AccessToken(answer[x].access)
       \/ /\ answer[x] # None /\ answer'[x] # None
          /\ answer'[x].to = answer[x].to /\ answer[x].to \notin calm'
          /\ answer'[x].cookie \notin Token
          /\ answer'[x].access = None

Quiet ==
    /\ ServerOK' /\ ClientOK'
    /\ now' >= now
    /\ expires' = expires
    /\ \A t \in Token : Shrinks(t)
    /\ calm' \subseteq calm
    /\ \A b \in Browser : jar'[b] = jar[b] \/ jar'[b] = None
    /\ \A b \in Browser :
          \/ access'[b] = access[b] \/ access'[b] = None
          \/ \E x \in Call : answer[x] # None /\ ~Minting(x) /\ access'[b] = answer[x].access
    /\ \A x \in Call : Fades(x)

LEMMA RefusalIsQuiet ==
  ASSUME IInv, NEW x \in Call, request[x] # None, expires' = expires,
         ServerOK', \A t \in Token : Shrinks(t),
         NEW cookie \in {Keep, None}, Reply(x, cookie, None)
  PROVE  Quiet
  <1> USE TypeParts, ValueAssumption
  <1>1. ClientOK'
    BY ReplyType
  <1>2. now' >= now /\ calm' \subseteq calm /\ jar' = jar /\ access' = access
    BY DEF Reply, client
  <1>3. ASSUME NEW y \in Call PROVE Fades(y)
    <2>1. CASE y # x
      BY <2>1 DEF Reply, Fades, ClientOK
    <2>2. CASE y = x
      <3>1. answer'[x] = [to |-> request[x].from, cookie |-> cookie, access |-> None]
            /\ request'[x] = None
        BY DEF Reply, ClientOK
      <3>2. answer'[x] # None
        BY <1>1, <3>1, MessageAssumption, PresentedType DEF Answer
      <3> QED
        BY <2>2, <3>1, <3>2 DEF Fades
    <2> QED
      BY <2>1, <2>2
  <1> QED
    BY <1>1, <1>2, <1>3 DEF Quiet

\* The revocation of some live tokens.
LEMMA RevokeIsQuiet ==
  ASSUME IInv, NEW x \in Call, request[x] # None, NEW S \in SUBSET Token,
         Rotation!Revoke(S), UNCHANGED <<user, expires>>,
         NEW cookie \in {Keep, None}, Reply(x, cookie, None)
  PROVE  Quiet
  <1>1. ServerOK'
    BY TypeParts, RevokeType
  <1>2. \A t \in Token : Shrinks(t)
    BY TypeParts DEF Rotation!Revoke, Shrinks, ServerOK, Rotation!TypeOK
  <1> QED
    BY <1>1, <1>2, RefusalIsQuiet

\* A request that changes nothing.
LEMMA NothingIsQuiet ==
  ASSUME IInv, NEW x \in Call, request[x] # None, UNCHANGED server,
         Reply(x, Keep, None)
  PROVE  Quiet
  <1>1. ServerOK' /\ expires' = expires
    BY TypeParts DEF server, ServerOK, Rotation!TypeOK
  <1>2. \A t \in Token : Shrinks(t)
    BY DEF server, Shrinks
  <1> QED
    BY <1>1, <1>2, RefusalIsQuiet

\* An access token that is made from what was committed.
LEMMA AccessTokenIs ==
  ASSUME IInv, NEW a \in Access, AccessOK(a)
  PROVE  AccessToken(a) \in Access /\ AccessOK(AccessToken(a)) /\ AccessToken(a).exp # None
  <1>1. now \in Nat /\ now + AccessLifetime \in Nat /\ None \notin Nat
    BY TypeParts, LifetimeAssumption, ValueAssumption
  <1>2. /\ AccessToken(a) \in Access /\ AccessToken(a).login = a.login
        /\ AccessToken(a).since = a.since /\ AccessToken(a).iat = now
        /\ AccessToken(a).exp = now + AccessLifetime
    BY <1>1 DEF AccessToken, Access
  <1> QED
    BY <1>1, <1>2 DEF AccessOK

\* The access token is made, or fails to be.
LEMMA MintIsQuiet ==
  ASSUME IInv, NEW x \in Call, Mint(x) \/ MintFails(x)
  PROVE  Quiet
  <1> USE TypeParts, ValueAssumption, MessageAssumption
  <1>1. /\ answer[x] # None /\ answer[x].access # None /\ answer[x] \in Answer
        /\ answer[x].access \in Access /\ answer[x].to \in Browser
    BY DEF Mint, MintFails, Minting, ClientOK, Answer
  <1>2. ServerOK' /\ expires' = expires /\ now' = now /\ \A t \in Token : Shrinks(t)
    BY DEF Mint, MintFails, server, ServerOK, Rotation!TypeOK, Shrinks
  <1>3. jar' = jar /\ access' = access /\ request' = request /\ calm' \subseteq calm
    BY DEF Mint, MintFails, client
  <1>4. CASE Mint(x)
    <2> DEFINE a == [answer[x] EXCEPT !.access = AccessToken(@)]
    <2>1. AccessToken(answer[x].access) \in Access
      BY <1>1, AccessTokenIs DEF AccessTokensOK, IInv
    <2>2. /\ a \in Answer /\ a.to = answer[x].to /\ a.cookie = answer[x].cookie
          /\ a.access = AccessToken(answer[x].access)
      BY <1>1, <2>1 DEF Answer
    <2>3. answer' = [answer EXCEPT ![x] = a]
      BY <1>4 DEF Mint
    <2> HIDE DEF a
    <2>4. answer'[x] = a /\ \A y \in Call : y # x => answer'[y] = answer[y]
      BY <2>3 DEF ClientOK
    <2>5. answer' \in [Call -> Answer \cup {None}]
      BY <2>2, <2>3 DEF ClientOK
    <2>6. \A y \in Call : Fades(y)
      BY <1>1, <1>3, <2>2, <2>4 DEF Fades
    <2>7. ClientOK'
      BY <1>2, <1>3, <2>5 DEF ClientOK
    <2> QED
      BY <1>2, <1>3, <2>6, <2>7 DEF Quiet
  <1>5. CASE MintFails(x)
    <2> DEFINE a == [answer[x] EXCEPT !.cookie = Keep, !.access = None]
    <2>2. a \in Answer /\ a.to = answer[x].to /\ a.cookie = Keep /\ a.access = None
      BY <1>1 DEF Answer
    <2>3. answer' = [answer EXCEPT ![x] = a] /\ calm' = calm \ {answer[x].to}
      BY <1>5 DEF MintFails
    <2> HIDE DEF a
    <2>4. answer'[x] = a /\ \A y \in Call : y # x => answer'[y] = answer[y]
      BY <2>3 DEF ClientOK
    <2>5. answer' \in [Call -> Answer \cup {None}]
      BY <2>2, <2>3 DEF ClientOK
    <2>6. \A y \in Call : Fades(y)
      BY <1>1, <1>3, <2>2, <2>3, <2>4 DEF Fades
    <2>7. ClientOK'
      BY <1>2, <1>3, <2>5 DEF ClientOK
    <2> QED
      BY <1>2, <1>3, <2>6, <2>7 DEF Quiet
  <1> QED
    BY <1>4, <1>5

LEMMA HandleIsQuiet ==
  ASSUME IInv, NEW x \in Call, Handle(x), ~Login(x), ~Refresh(x)
  PROVE  Quiet
  <1>1. CASE LoginRefused(x)
    BY <1>1, NothingIsQuiet DEF LoginRefused, Refuse, Asks
  <1>2. CASE RefreshUnknown(x)
    BY <1>2, NothingIsQuiet DEF RefreshUnknown, Refuse, Asks
  <1>3. CASE RefreshReplayed(x)
    <2>1. LiveTokens \in SUBSET Token
      BY DEF LiveTokens
    <2> QED
      BY <1>3, <2>1, RevokeIsQuiet DEF RefreshReplayed, Refuse, Asks
  <1>4. CASE RefreshRefused(x)
    <2>1. request[x] # None /\ {Presented(x)} \in SUBSET Token
      BY <1>4, TypeParts, PresentedType DEF RefreshRefused, Asks
    <2> QED
      BY <1>4, <2>1, RevokeIsQuiet DEF RefreshRefused, Refuse
  <1>5. CASE Logout(x)
    <2>1. {Presented(x)} \cap LiveTokens \in SUBSET Token
      BY DEF LiveTokens
    <2> QED
      BY <1>5, <2>1, RevokeIsQuiet DEF Logout, Asks
  <1> QED
    BY <1>1, <1>2, <1>3, <1>4, <1>5, MintIsQuiet DEF Handle

\* What of a message is lost, or arrives without a cookie.
LEMMA NetworkIsQuiet ==
  ASSUME IInv, NEW x \in Call,
         \/ Receive(x) /\ answer[x].cookie \notin Token
         \/ LoseRequest(x) \/ LoseAnswer(x)
  PROVE  Quiet
  <1> USE TypeParts, ValueAssumption
  <1>1. ServerOK' /\ expires' = expires /\ now' = now /\ \A t \in Token : Shrinks(t)
    BY DEF Receive, LoseRequest, LoseAnswer, server, ServerOK, Rotation!TypeOK, Shrinks
  <1>2. CASE Receive(x) /\ answer[x].cookie \notin Token
    <2>1. /\ answer[x] # None /\ ~Minting(x) /\ answer[x] \in Answer
          /\ answer[x].to \in Browser /\ answer[x].cookie \in {None, Keep}
          /\ answer[x].access \in Access \cup {None}
      BY <1>2 DEF Receive, ClientOK, Answer
    <2>2. jar' \in [Browser -> Token \cup {None}]
          /\ \A b \in Browser : jar'[b] = jar[b] \/ jar'[b] = None
      BY <1>2, <2>1 DEF Receive, ClientOK
    <2>3. access' \in [Browser -> Access \cup {None}]
          /\ \A b \in Browser : access'[b] = access[b] \/ access'[b] = answer[x].access
      BY <1>2, <2>1 DEF Receive, ClientOK
    <2>4. answer' \in [Call -> Answer \cup {None}]
          /\ request' = request /\ calm' = calm
      BY <1>2 DEF Receive, ClientOK
    <2>5. \A y \in Call : Fades(y)
      BY <1>2, <2>1, <2>4 DEF Receive, ClientOK, Fades
    <2>6. ClientOK'
      BY <1>1, <2>2, <2>3, <2>4 DEF ClientOK
    <2> QED
      BY <1>1, <2>1, <2>2, <2>3, <2>4, <2>5, <2>6 DEF Quiet
  <1>3. CASE LoseRequest(x)
    <2>1. jar' = jar /\ access' = access /\ answer' = answer /\ calm' = calm
      BY <1>3 DEF LoseRequest, client
    <2>2. request' \in [Call -> Request \cup {None}] /\ \A y \in Call : Fades(y)
      BY <1>3 DEF LoseRequest, ClientOK, Fades
    <2>3. ClientOK'
      BY <1>1, <2>1, <2>2 DEF ClientOK
    <2> QED
      BY <1>1, <2>1, <2>2, <2>3 DEF Quiet
  <1>4. CASE LoseAnswer(x)
    <2>1. jar' = jar /\ access' = access /\ request' = request
          /\ calm' = calm \ {answer[x].to} /\ answer[x] # None
      BY <1>4 DEF LoseAnswer, client
    <2>2. answer' \in [Call -> Answer \cup {None}] /\ \A y \in Call : Fades(y)
      BY <1>4 DEF LoseAnswer, ClientOK, Fades
    <2>3. ClientOK'
      BY <1>1, <2>1, <2>2 DEF ClientOK
    <2> QED
      BY <1>1, <2>1, <2>2, <2>3 DEF Quiet
  <1> QED
    BY <1>2, <1>3, <1>4

\* The client's cookie expires, the console acts, time passes, nothing happens.
LEMMA OthersAreQuiet ==
  ASSUME IInv,
         \/ \E b \in Browser : CookieExpires(b)
         \/ SetActive \/ DeleteUser \/ Tick \/ UNCHANGED vars
  PROVE  Quiet
  <1> USE TypeParts, ValueAssumption
  <1>0. UNCHANGED network => \A y \in Call : Fades(y)
    BY DEF network, Fades
  <1>1. CASE \E b \in Browser : CookieExpires(b)
    <2>1. PICK b \in Browser : CookieExpires(b)
      BY <1>1
    <2>2. /\ ServerOK' /\ expires' = expires /\ now' = now /\ access' = access
          /\ calm' = calm /\ request' = request /\ answer' = answer
          /\ \A t \in Token : Shrinks(t)
      BY <2>1 DEF CookieExpires, server, network, ServerOK, Rotation!TypeOK, Shrinks
    <2>3. jar' \in [Browser -> Token \cup {None}]
          /\ \A c \in Browser : jar'[c] = jar[c] \/ jar'[c] = None
      BY <2>1 DEF CookieExpires, ClientOK
    <2>4. ClientOK'
      BY <2>2, <2>3 DEF ClientOK
    <2>5. UNCHANGED network
      BY <2>2 DEF network
    <2> QED
      BY <1>0, <2>2, <2>3, <2>4, <2>5 DEF Quiet
  <1>2. CASE SetActive \/ DeleteUser \/ Tick \/ UNCHANGED vars
    <2>1. /\ jar' = jar /\ access' = access /\ calm' = calm /\ UNCHANGED network
          /\ expires' = expires
      BY <1>2 DEF SetActive, DeleteUser, Tick, vars, client, network, server
    <2>2. now' \in 0..MaxTime /\ now' >= now
      BY <1>2, TimeAssumption DEF SetActive, DeleteUser, Tick, vars, ClientOK
    <2>3. ClientOK'
      BY <2>1, <2>2 DEF ClientOK, network
    <2>4. ServerOK' /\ \A t \in Token : Shrinks(t)
      <3>1. CASE DeleteUser
        <4>1. \A t \in Token : login[t] \in Token \cup {None}
          BY DEF ServerOK, Rotation!TypeOK
        <4>2. ServerOK'
          BY <3>1, <4>1 DEF DeleteUser, ServerOK, Rotation!TypeOK, Rotation!Purge
        <4>3. \A t \in Token : Shrinks(t)
          BY <3>1 DEF DeleteUser, Rotation!Purge, Rows, Shrinks
        <4> QED
          BY <4>2, <4>3
      <3>2. CASE SetActive \/ Tick \/ UNCHANGED vars
        BY <3>2 DEF SetActive, Tick, vars, server, ServerOK, Rotation!TypeOK, Shrinks
      <3> QED
        BY <1>2, <3>1, <3>2
    <2> QED
      BY <1>0, <2>1, <2>2, <2>3, <2>4 DEF Quiet
  <1> QED
    BY <1>1, <1>2

-----------------------------------------------------------------------------
(* What every step keeps *)

LEMMA TypeStep ==
  ASSUME IInv, ServerOK', ClientOK', RecordEnds
  PROVE  TypeOK'
  <1>1. now' \in Nat
    BY TimeAssumption DEF ClientOK
  <1>2. endedAt' \in [Token -> Nat \cup {None}]
    BY <1>1, TypeParts DEF RecordEnds
  <1> QED
    BY <1>2 DEF TypeOK, ServerOK, ClientOK

\* Logins that have ended are not begun again.
LEMMA EndsStep ==
  ASSUME IInv, RecordEnds, \A l \in Token : Ended(l) => Ended(l)'
  PROVE  EndsOK'
  BY DEF RecordEnds, EndsOK, IInv

\* An access token that was in order stays so.
LEMMA AccessStep ==
  ASSUME IInv, RecordEnds, now' \in Nat, now' >= now, NEW a \in Access, AccessOK(a),
         \A t \in Token : status[t] # "unissued" => status'[t] # "unissued"
  PROVE  AccessOK(a)'
  <1>1. a.login \in Token /\ a.since \in Nat
    BY DEF Access
  <1>2. endedAt[a.login] \in Nat \cup {None} /\ now \in Nat
    BY <1>1, TypeParts
  <1>3. endedAt'[a.login] = endedAt[a.login] \/ endedAt'[a.login] = now'
    BY <1>1 DEF RecordEnds
  <1> QED
    BY <1>1, <1>2, <1>3, LifetimeAssumption DEF AccessOK

LEMMA QuietTokens ==
  ASSUME IInv, Quiet
  PROVE  /\ TokensOK'
         /\ \A t \in Token : status[t] # "unissued" => status'[t] # "unissued"
         /\ \A t \in Token : Live(t)' => Live(t) /\ login'[t] = login[t]
         /\ \A t \in Token : login'[t] = login[t] \/ login'[t] = None
  <1>1. \A t \in Token : Shrinks(t)
    BY DEF Quiet
  <1>2. \A t \in Token : Live(t)' => Live(t) /\ login'[t] = login[t]
    BY <1>1 DEF Shrinks, Live
  <1>3. TokensOK
    BY DEF IInv
  <1>4. \A t \in Token : status[t] # "unissued" => status'[t] # "unissued"
    BY <1>1 DEF Shrinks
  <1>5. \A t \in Token : login'[t] = login[t] \/ login'[t] = None
    BY <1>1 DEF Shrinks
  <1>6. ASSUME NEW t \in Token, status'[t] \in {"live", "spent"}
        PROVE  login'[t] \in Token /\ status'[login'[t]] # "unissued"
    <2>1. status[t] \in {"live", "spent"} /\ login'[t] = login[t]
      BY <1>1, <1>6 DEF Shrinks
    <2> QED
      BY <1>3, <1>4, <2>1 DEF TokensOK
  <1>7. ASSUME NEW t \in Token, status'[t] \in {"unissued", "gone"}
        PROVE  login'[t] = None
    BY <1>1, <1>3, <1>7 DEF Shrinks, TokensOK
  <1>8. \A t, u \in Token : Live(t)' /\ Live(u)' /\ login'[t] = login'[u] => t = u
    BY <1>2, <1>3 DEF TokensOK
  <1> QED
    BY <1>2, <1>4, <1>5, <1>6, <1>7, <1>8 DEF TokensOK

\* Nobody comes to hold a token in a quiet step, and no message appears.
LEMMA QuietMessages ==
  ASSUME IInv, Quiet
  PROVE  /\ \A b \in Browser, t \in Token : Holds(b, t)' => Holds(b, t)
         /\ \A b \in Browser, x \in Call : CallOf(x, b)' => CallOf(x, b)
         /\ \A x \in Call : request'[x] # None => request'[x] = request[x]
         /\ \A x \in Call : answer'[x] # None /\ answer'[x].cookie \in Token
                            => /\ answer[x] # None /\ answer'[x].to = answer[x].to
                               /\ answer'[x].cookie = answer[x].cookie
         /\ OneMessage'
  <1>1. \A x \in Call : Fades(x)
    BY DEF Quiet
  <1>2. \A b \in Browser : jar'[b] = jar[b] \/ jar'[b] = None
    BY DEF Quiet
  <1>3. \A x \in Call : request'[x] # None => request'[x] = request[x]
    BY <1>1 DEF Fades
  <1>4. \A x \in Call : answer'[x] # None /\ answer'[x].cookie \in Token
                            => /\ answer[x] # None /\ answer'[x].to = answer[x].to
                               /\ answer'[x].cookie = answer[x].cookie
    BY <1>1 DEF Fades
  <1>5. \A b \in Browser, x \in Call : CallOf(x, b)' => CallOf(x, b)
    BY <1>1 DEF Fades, CallOf
  <1>6. ASSUME NEW b \in Browser, NEW t \in Token, Holds(b, t)' PROVE Holds(b, t)
    <2>1. CASE jar'[b] = t
      BY <1>2, <2>1, ValueAssumption DEF Holds
    <2>2. CASE \E x \in Call : request'[x] # None /\ request'[x].from = b /\ request'[x].token = t
      BY <1>3, <2>2 DEF Holds
    <2>3. CASE \E x \in Call : answer'[x] # None /\ answer'[x].to = b /\ answer'[x].cookie = t
      BY <1>4, <2>3 DEF Holds
    <2> QED
      BY <1>6, <2>1, <2>2, <2>3 DEF Holds
  <1>7. OneMessage'
    BY <1>1 DEF Fades, OneMessage, IInv
  <1> QED
    BY <1>3, <1>4, <1>5, <1>6, <1>7

LEMMA NewestStays ==
  ASSUME IInv, Quiet, NEW t \in Token, Newest(t)
  PROVE  Newest(t)'
  <1> SUFFICES ASSUME NEW s \in Token, Live(s)', login'[s] = login'[t]
               PROVE  s = t
    BY DEF Newest, LiveTokens
  <1>1. Live(s) /\ login'[s] = login[s] /\ login[s] \in Token
    BY QuietTokens DEF IInv, TokensOK, Live
  <1>2. login[t] = login[s]
    BY <1>1, QuietTokens, ValueAssumption
  <1> QED
    BY <1>1, <1>2 DEF Newest, LiveTokens

LEMMA QuietInv ==
  ASSUME IInv, Quiet, RecordEnds
  PROVE  IInv'
  <1>1. TypeOK'
    BY TypeStep DEF Quiet
  <1>2. calm' \subseteq calm /\ calm \subseteq Browser
    BY TypeParts DEF Quiet, ClientOK
  <1>3. HeldWasIssued'
    BY QuietTokens, QuietMessages DEF HeldWasIssued, IInv
  <1>4. OneHolder'
    <2> SUFFICES ASSUME NEW b \in Browser, NEW c \in Browser, NEW s \in Token, NEW t \in Token,
                        Holds(b, s)', Holds(c, t)', login'[s] = login'[t], login'[s] # None
                 PROVE  b = c
      BY DEF OneHolder
    <2>1. Holds(b, s) /\ Holds(c, t)
      BY QuietMessages
    <2>2. login[s] = login[t] /\ login[s] # None
      BY QuietTokens
    <2> QED
      BY <2>1, <2>2 DEF OneHolder, IInv
  <1>5. OneCall'
    BY <1>2, QuietMessages DEF OneCall, IInv
  <1>6. RequestIsNewest'
    <2> SUFFICES ASSUME NEW x \in Call, request'[x] # None, request'[x].from \in calm',
                        request'[x].token # None
                 PROVE  Newest(request[x].token)'
      BY DEF RequestIsNewest
    <2>1. request'[x] = request[x]
      BY QuietMessages
    <2>2. Newest(request[x].token)
      BY <1>2, <2>1 DEF RequestIsNewest, IInv
    <2>3. PICK t \in Token : t = request[x].token
      BY <2>1, TypeParts, PresentedType DEF Presented
    <2>4. Newest(t)'
      BY <2>2, <2>3, NewestStays
    <2> QED
      BY <2>1, <2>3, <2>4 DEF Newest, LiveTokens
  <1>7. AnswerIsNewest'
    <2> SUFFICES ASSUME NEW x \in Call, answer'[x] # None, answer'[x].to \in calm',
                        answer'[x].cookie \in Token
                 PROVE  Newest(answer[x].cookie)'
      BY DEF AnswerIsNewest
    <2>1. /\ answer[x] # None /\ answer'[x].to = answer[x].to
          /\ answer'[x].cookie = answer[x].cookie
      BY QuietMessages
    <2>2. PICK t \in Token : t = answer[x].cookie
      BY <2>1
    <2>3. Newest(t)
      BY <1>2, <2>1, <2>2 DEF AnswerIsNewest, IInv
    <2>4. Newest(t)'
      BY <2>3, NewestStays
    <2> QED
      BY <2>1, <2>2, <2>4 DEF Newest, LiveTokens
  <1>8. ClientKeepsUp'
    <2> SUFFICES ASSUME NEW b \in calm', jar'[b] # None,
                        NEW t \in Token, Live(t)', login'[t] = login'[jar'[b]], t # jar'[b]
                 PROVE  \E x \in Call : CallOf(x, b)' /\ answer'[x] # None /\ answer'[x].cookie = t
      BY DEF ClientKeepsUp, LiveTokens
    <2>1. b \in calm /\ b \in Browser /\ jar'[b] = jar[b] /\ jar[b] \in Token
      BY <1>2, TypeParts DEF Quiet, ClientOK
    <2>2. Live(t) /\ login'[t] = login[t] /\ login[t] \in Token
      BY QuietTokens DEF IInv, TokensOK, Live
    <2>3. login[t] = login[jar[b]]
      BY <2>1, <2>2, QuietTokens, ValueAssumption
    <2>4. PICK x \in Call : CallOf(x, b) /\ answer[x] # None /\ answer[x].cookie = t
      BY <2>1, <2>2, <2>3 DEF ClientKeepsUp, LiveTokens, IInv
    <2>5. request[x] = None /\ answer[x].to = b
      BY <2>4 DEF OneMessage, IInv, CallOf
    <2>6. answer'[x] # None /\ answer'[x].to = b /\ answer'[x].cookie = t
      BY <2>1, <2>4, <2>5 DEF Quiet, Fades
    <2> QED
      BY <2>4, <2>5, <2>6 DEF CallOf
  <1>9. AccessTokensOK'
    <2>0. now' \in Nat /\ now' >= now
      BY TimeAssumption DEF Quiet, ClientOK
    <2>1. ASSUME NEW a \in Access, AccessOK(a) PROVE AccessOK(a)'
      BY <2>0, <2>1, AccessStep, QuietTokens
    <2>2. ASSUME NEW x \in Call, answer[x] # None, answer[x].access # None
          PROVE  answer[x].access \in Access /\ AccessOK(answer[x].access)
      BY <2>2, TypeParts DEF ClientOK, Answer, AccessTokensOK, IInv
    <2>3. ASSUME NEW b \in Browser, access[b] # None
          PROVE  access[b] \in Access /\ AccessOK(access[b]) /\ access[b].exp # None
      BY <2>3, TypeParts DEF ClientOK, AccessTokensOK, IInv
    <2>4. ASSUME NEW b \in Browser, access'[b] # None
          PROVE  AccessOK(access[b])' /\ access'[b].exp # None
      <3>1. PICK a \in Access : access'[b] = a /\ AccessOK(a) /\ a.exp # None
        BY <2>2, <2>3, <2>4 DEF Quiet, Minting
      <3>2. AccessOK(a)'
        BY <2>1, <3>1
      <3> QED
        BY <3>1, <3>2 DEF AccessOK
    <2>5. ASSUME NEW x \in Call, answer'[x] # None, answer'[x].access # None
          PROVE  AccessOK(answer[x].access)'
      <3>1. PICK a \in Access : answer'[x].access = a /\ AccessOK(a)
        BY <2>2, <2>5, AccessTokenIs DEF Quiet, Fades
      <3>2. AccessOK(a)'
        BY <2>1, <3>1
      <3> QED
        BY <3>1, <3>2 DEF AccessOK
    <2> QED
      BY <2>4, <2>5 DEF AccessTokensOK
  <1>10. EndsOK'
    <2>1. ASSUME NEW l \in Token, Ended(l) PROVE Ended(l)'
      <3>1. status'[l] # "unissued"
        BY <2>1, QuietTokens DEF Ended
      <3>2. ASSUME NEW t \in Token, login'[t] = l, Works(t)' PROVE FALSE
        <4>1. Live(t) /\ login[t] = l
          BY <3>2, QuietTokens DEF Works
        <4>2. now < expires[t]
          BY <3>2, TypeParts, TimeAssumption
          DEF Works, Quiet, ClientOK, ServerOK
        <4> QED
          BY <2>1, <4>1, <4>2 DEF Ended, Works
      <3> QED
        BY <3>1, <3>2 DEF Ended
    <2> QED
      BY <2>1, EndsStep
  <1> QED
    BY <1>1, <1>3, <1>4, <1>5, <1>6, <1>7, <1>8, <1>9, <1>10, QuietTokens, QuietMessages DEF IInv

-----------------------------------------------------------------------------
(* A request is sent, an answer with a cookie arrives *)

\* While the server and the clock stand still.
LEMMA ServerSame ==
  ASSUME IInv, UNCHANGED server, now' = now, RecordEnds
  PROVE  /\ ServerOK' /\ TokensOK' /\ EndsOK'
         /\ \A a \in Access : AccessOK(a) => AccessOK(a)'
         /\ \A t \in Token : Newest(t) => Newest(t)'
  <1>1. user' = user /\ status' = status /\ login' = login /\ expires' = expires
    BY DEF server
  <1>2. ServerOK' /\ TokensOK'
    BY <1>1, TypeParts DEF IInv, ServerOK, Rotation!TypeOK, TokensOK, Live
  <1>3. \A l \in Token : Ended(l) => Ended(l)'
    BY <1>1 DEF Ended, Works, Live
  <1>4. EndsOK'
    BY <1>3, EndsStep
  <1>5. ASSUME NEW a \in Access, AccessOK(a) PROVE AccessOK(a)'
    BY <1>1, <1>5, TypeParts, AccessStep
  <1>6. \A t \in Token : Newest(t) => Newest(t)'
    BY <1>1 DEF Newest, LiveTokens, Live
  <1> QED
    BY <1>2, <1>4, <1>5, <1>6

LEMMA SendInv ==
  ASSUME IInv, RecordEnds,
         NEW x \in Call, NEW b \in Browser, NEW op \in Op, Send(x, b, op)
  PROVE  IInv'
  <1> DEFINE m == [from |-> b, op |-> op, token |-> IF op = "login" THEN None ELSE jar[b]]
  <1> USE TypeParts, ValueAssumption, MessageAssumption
  <1>1. /\ request[x] = None /\ answer[x] = None
        /\ request' = [request EXCEPT ![x] = m]
        /\ calm' = IF \E y \in Call : CallOf(y, b) THEN calm \ {b} ELSE calm
        /\ UNCHANGED server /\ now' = now /\ jar' = jar /\ access' = access
        /\ answer' = answer
    BY DEF Send, Idle, client
  <1>2. m \in Request /\ m.token \in {None, jar[b]}
    BY DEF Request, ClientOK
  <1>3. m # None
    BY <1>2
  <1>4. request'[x] = m /\ \A y \in Call : y # x => request'[y] = request[y]
    BY <1>1 DEF ClientOK
  <1>5. calm' \subseteq calm /\ calm \subseteq Browser
        /\ (b \in calm' => \A y \in Call : ~CallOf(y, b))
    BY <1>1 DEF ClientOK
  <1> HIDE DEF m
  <1>6. ClientOK'
    BY <1>1, <1>2, <1>5 DEF ClientOK
  <1>7. \A t \in Token : login'[t] = login[t] /\ status'[t] = status[t]
    BY <1>1 DEF server
  <1>8. TypeOK' /\ TokensOK' /\ EndsOK'
    BY <1>1, <1>6, ServerSame, TypeStep
  <1>9. m.from = b
    BY DEF m
  <1>10. ASSUME NEW c \in Browser, NEW t \in Token, Holds(c, t)' PROVE Holds(c, t)
    BY <1>1, <1>2, <1>4, <1>9, <1>10 DEF Holds
  <1>11. HeldWasIssued' /\ OneHolder'
    BY <1>7, <1>10 DEF HeldWasIssued, OneHolder, IInv
  <1>12. OneMessage'
    BY <1>1, <1>4 DEF OneMessage, IInv
  <1>13. \A c \in Browser, y \in Call : y # x => (CallOf(y, c)' <=> CallOf(y, c))
    BY <1>1, <1>4 DEF CallOf
  <1>14. \A c \in Browser : CallOf(x, c)' => c = b
    BY <1>1, <1>4, <1>9 DEF CallOf
  <1>15. OneCall'
    <2> SUFFICES ASSUME NEW c \in calm', NEW y \in Call, NEW z \in Call,
                        CallOf(y, c)', CallOf(z, c)'
                 PROVE  y = z
      BY DEF OneCall
    <2>1. c \in calm /\ c \in Browser
      BY <1>5
    <2>2. CASE c = b
      BY <1>5, <1>13, <2>1, <2>2
    <2>3. CASE c # b
      BY <1>13, <1>14, <2>1, <2>3 DEF OneCall, IInv
    <2> QED
      BY <2>2, <2>3
  <1>16. RequestIsNewest'
    <2> SUFFICES ASSUME NEW y \in Call, request'[y] # None, request'[y].from \in calm',
                        request'[y].token # None
                 PROVE  Newest(request[y].token)'
      BY DEF RequestIsNewest
    <2>1. PICK t \in Token : t = request'[y].token
      BY <1>6 DEF ClientOK, Request
    <2>2. CASE y = x
      <3>1. b \in calm' /\ t = jar[b]
        BY <1>2, <1>4, <1>9, <2>1, <2>2
      <3>2. Newest(t)
        BY <1>5, <3>1 DEF Newest, ClientKeepsUp, IInv
      <3>3. Newest(t)'
        BY <1>1, <3>2, ServerSame
      <3> QED
        BY <2>1, <3>3 DEF Newest, LiveTokens
    <2>3. CASE y # x
      <3>1. Newest(t)
        BY <1>4, <1>5, <2>1, <2>3 DEF RequestIsNewest, IInv
      <3>2. Newest(t)'
        BY <1>1, <3>1, ServerSame
      <3> QED
        BY <2>1, <3>2 DEF Newest, LiveTokens
    <2> QED
      BY <2>2, <2>3
  <1>17. AnswerIsNewest'
    BY <1>1, <1>5 DEF AnswerIsNewest, Newest, LiveTokens, Live, server, IInv
  <1>18. ClientKeepsUp'
    <2> SUFFICES ASSUME NEW c \in calm', jar[c] # None,
                        NEW t \in Token, Live(t), login[t] = login[jar[c]], t # jar[c]
                 PROVE  \E y \in Call : CallOf(y, c)' /\ answer[y] # None /\ answer[y].cookie = t
      BY <1>1 DEF ClientKeepsUp, LiveTokens, Live, server
    <2>1. PICK y \in Call : CallOf(y, c) /\ answer[y] # None /\ answer[y].cookie = t
      BY <1>5 DEF ClientKeepsUp, LiveTokens, IInv
    <2> QED
      BY <1>1, <1>5, <1>13, <2>1
  <1>19. AccessTokensOK'
    BY <1>1, ServerSame DEF AccessTokensOK, AccessOK, server, ClientOK, Answer, IInv
  <1> QED
    BY <1>8, <1>11, <1>12, <1>15, <1>16, <1>17, <1>18, <1>19 DEF IInv

LEMMA ReceiveInv ==
  ASSUME IInv, RecordEnds, NEW x \in Call, Receive(x), answer[x].cookie \in Token
  PROVE  IInv'
  <1> DEFINE b == answer[x].to
             n == answer[x].cookie
  <1> USE TypeParts, ValueAssumption, MessageAssumption
  <1>1. /\ answer[x] # None /\ b \in Browser /\ n \in Token
        /\ answer[x].access \in Access \cup {None}
    BY DEF Receive, ClientOK, Answer
  <1>2. /\ jar' = [jar EXCEPT ![b] = n]
        /\ access' = [access EXCEPT ![b] = answer[x].access]
        /\ answer' = [answer EXCEPT ![x] = None]
        /\ UNCHANGED server /\ now' = now /\ request' = request /\ calm' = calm
    BY DEF Receive
  <1> HIDE DEF b, n
  <1>3. /\ jar'[b] = n /\ \A c \in Browser : c # b => jar'[c] = jar[c]
        /\ answer'[x] = None /\ \A y \in Call : y # x => answer'[y] = answer[y]
    BY <1>1, <1>2 DEF ClientOK
  <1>4. ClientOK'
    BY <1>1, <1>2 DEF ClientOK
  <1>5. \A t \in Token : login'[t] = login[t] /\ status'[t] = status[t]
    BY <1>2 DEF server
  <1>6. TypeOK' /\ TokensOK' /\ EndsOK'
    BY <1>2, <1>4, ServerSame, TypeStep
  <1>7. Holds(b, n)
    BY <1>1 DEF b, n, Holds
  <1>8. ASSUME NEW c \in Browser, NEW t \in Token, Holds(c, t)' PROVE Holds(c, t)
    <2>1. CASE jar'[c] = t
      BY <1>3, <1>7, <2>1 DEF Holds
    <2>2. CASE \E y \in Call : request'[y] # None /\ request'[y].from = c /\ request'[y].token = t
      BY <1>2, <2>2 DEF Holds
    <2>3. CASE \E y \in Call : answer'[y] # None /\ answer'[y].to = c /\ answer'[y].cookie = t
      BY <1>3, <2>3 DEF Holds
    <2> QED
      BY <1>8, <2>1, <2>2, <2>3 DEF Holds
  <1>9. HeldWasIssued' /\ OneHolder'
    BY <1>5, <1>8 DEF HeldWasIssued, OneHolder, IInv
  <1>10. OneMessage'
    BY <1>2, <1>3 DEF OneMessage, IInv
  <1>11. \A c \in Browser, y \in Call : CallOf(y, c)' => CallOf(y, c)
    BY <1>2, <1>3 DEF CallOf
  <1>12. OneCall'
    BY <1>2, <1>11 DEF OneCall, IInv, ClientOK
  <1>13. RequestIsNewest'
    BY <1>2 DEF RequestIsNewest, Newest, LiveTokens, Live, server, IInv
  <1>14. AnswerIsNewest'
    <2> SUFFICES ASSUME NEW y \in Call, answer'[y] # None, answer'[y].to \in calm',
                        answer'[y].cookie \in Token
                 PROVE  Newest(answer[y].cookie)'
      BY DEF AnswerIsNewest
    <2>1. PICK t \in Token : t = answer'[y].cookie
      OBVIOUS
    <2>2. Newest(t)
      BY <1>2, <1>3, <2>1 DEF AnswerIsNewest, IInv
    <2>3. Newest(t)'
      BY <1>2, <2>2, ServerSame
    <2> QED
      BY <2>1, <2>3 DEF Newest, LiveTokens
  <1>15. ClientKeepsUp'
    <2> SUFFICES ASSUME NEW c \in calm, jar'[c] # None,
                        NEW t \in Token, Live(t), login[t] = login[jar'[c]], t # jar'[c]
                 PROVE  \E y \in Call : CallOf(y, c)' /\ answer'[y] # None /\ answer'[y].cookie = t
      BY <1>2 DEF ClientKeepsUp, LiveTokens, Live, server
    <2>1. c \in Browser
      BY DEF ClientOK
    <2>2. CASE c = b
      <3>1. Newest(n)
        BY <1>1, <2>2 DEF AnswerIsNewest, IInv, b, n
      <3> QED
        BY <1>3, <2>2, <3>1 DEF Newest, LiveTokens
    <2>3. CASE c # b
      <3>1. PICK y \in Call : CallOf(y, c) /\ answer[y] # None /\ answer[y].cookie = t
        BY <1>3, <2>1, <2>3 DEF ClientKeepsUp, LiveTokens, IInv
      <3>2. answer[y].to = c
        BY <3>1 DEF OneMessage, IInv, CallOf
      <3>3. y # x
        BY <2>3, <3>2 DEF b
      <3> QED
        BY <1>3, <3>1, <3>2, <3>3 DEF CallOf
    <2> QED
      BY <2>2, <2>3
  <1>16. AccessTokensOK'
    <2>1. ASSUME NEW c \in Browser, access'[c] # None
          PROVE  AccessOK(access[c])' /\ access'[c].exp # None
      <3>1. PICK a \in Access : access'[c] = a /\ AccessOK(a) /\ a.exp # None
        BY <1>1, <1>2, <2>1 DEF AccessTokensOK, IInv, ClientOK, Receive, Minting
      <3>2. AccessOK(a)'
        BY <1>2, <3>1, ServerSame
      <3> QED
        BY <3>1, <3>2 DEF AccessOK
    <2>2. ASSUME NEW y \in Call, answer'[y] # None, answer'[y].access # None
          PROVE  AccessOK(answer[y].access)'
      <3>1. PICK a \in Access : answer'[y].access = a /\ AccessOK(a)
        BY <1>2, <1>3, <2>2 DEF AccessTokensOK, IInv, ClientOK, Answer
      <3>2. AccessOK(a)'
        BY <1>2, <3>1, ServerSame
      <3> QED
        BY <3>1, <3>2 DEF AccessOK
    <2> QED
      BY <2>1, <2>2 DEF AccessTokensOK
  <1> QED
    BY <1>6, <1>9, <1>10, <1>12, <1>13, <1>14, <1>15, <1>16 DEF IInv

-----------------------------------------------------------------------------
(* A token is issued *)

\* The answer brings browser b the token n, its access token and nothing else.
LEMMA ReplyIs ==
  ASSUME IInv, NEW x \in Call, request[x] # None, NEW n \in Token, NEW l \in Token,
         Reply(x, n, Grant(l))
  PROVE  /\ request' = [request EXCEPT ![x] = None] /\ request'[x] = None
         /\ answer'[x] # None /\ answer'[x].to = request[x].from
         /\ answer'[x].cookie = n /\ answer'[x].access = Grant(l)
         /\ \A y \in Call : y # x => request'[y] = request[y] /\ answer'[y] = answer[y]
         /\ answer[x] = None
         /\ now' = now /\ jar' = jar /\ access' = access /\ calm' = calm
         /\ OneMessage'
         /\ OneCall'
         /\ Grant(l) \in Access /\ Grant(l).since = now /\ Grant(l).exp = None
         /\ Grant(l).login = l
  <1> DEFINE a == [to |-> request[x].from, cookie |-> n, access |-> Grant(l)]
  <1>1. Grant(l) \in Access /\ Grant(l).since = now /\ Grant(l).exp = None
        /\ Grant(l).login = l
    BY TypeParts, GrantType DEF Grant
  <1>2. a \in Answer
    BY <1>1, TypeParts, PresentedType DEF Answer
  <1>3. a # None
    BY <1>2, MessageAssumption
  <1>4. answer'[x] = a /\ request'[x] = None
        /\ \A y \in Call : y # x => request'[y] = request[y] /\ answer'[y] = answer[y]
    BY TypeParts DEF Reply, ClientOK
  <1>5. answer[x] = None
    BY DEF IInv, OneMessage
  <1>6. OneMessage'
    BY <1>4 DEF OneMessage, IInv
  <1>7. a.to = request[x].from /\ a.cookie = n /\ a.access = Grant(l)
    OBVIOUS
  <1> HIDE DEF a
  <1>8. \A b \in Browser, y \in Call : CallOf(y, b)' <=> CallOf(y, b)
    BY <1>3, <1>4, <1>5, <1>7 DEF CallOf
  <1>9. OneCall' /\ now' = now /\ jar' = jar /\ access' = access /\ calm' = calm
    BY <1>8, TypeParts DEF OneCall, IInv, Reply, client, ClientOK
  <1> QED
    BY <1>1, <1>3, <1>4, <1>5, <1>6, <1>7, <1>9 DEF Reply

\* A token n of login l is issued, and is the only one of it that lives.
LEMMA IssueInv ==
  ASSUME IInv, RecordEnds, ServerOK', ClientOK',
         NEW x \in Call, request[x] # None, NEW n \in Token, NEW l \in Token,
         Reply(x, n, Grant(l)),
         status[n] = "unissued", status'[n] = "live", login'[n] = l,
         \A t \in Token : t # n => /\ login'[t] = login[t]
                                   /\ expires'[t] = expires[t]
                                   /\ \/ status'[t] = status[t]
                                      \/ status[t] = "live" /\ status'[t] = "spent",
         \A t \in Token : t # n /\ Live(t)' => login[t] # l,
         \A c \in Browser, t \in Token :
            Holds(c, t) /\ login[t] = l => c = request[x].from,
         ~Ended(l), status'[l] # "unissued"
  PROVE  IInv'
  <1> DEFINE b == request[x].from
  <1> USE TypeParts, ValueAssumption
  <1>1. b \in Browser
    BY PresentedType
  <1>2. TypeOK'
    BY TypeStep
  <1>3. TokensOK
    BY DEF IInv
  <1>4. \A t \in Token : status[t] # "unissued" => status'[t] # "unissued"
    OBVIOUS
  <1>5. \A t \in Token : t # n /\ Live(t)' => Live(t) /\ login'[t] = login[t] /\ login[t] \in Token
    BY <1>3 DEF Live, TokensOK
  <1>6. TokensOK'
    <2>1. ASSUME NEW t \in Token, status'[t] \in {"live", "spent"}
          PROVE  login'[t] \in Token /\ status'[login'[t]] # "unissued"
      <3>1. CASE t = n
        BY <3>1
      <3>2. CASE t # n
        <4>1. status[t] \in {"live", "spent"} /\ login'[t] = login[t]
          BY <2>1, <3>2
        <4> QED
          BY <1>3, <1>4, <4>1 DEF TokensOK
      <3> QED
        BY <3>1, <3>2
    <2>2. \A t \in Token : status'[t] \in {"unissued", "gone"} => login'[t] = None
      BY <1>3 DEF TokensOK
    <2>3. \A t, u \in Token : Live(t)' /\ Live(u)' /\ login'[t] = login'[u] => t = u
      BY <1>3, <1>5 DEF TokensOK
    <2> QED
      BY <2>1, <2>2, <2>3 DEF TokensOK
  <1>7. \A c \in Browser : ~Holds(c, n)
    BY DEF HeldWasIssued, IInv
  <1>8. ASSUME NEW c \in Browser, NEW t \in Token, Holds(c, t)'
        PROVE  IF t = n THEN c = b ELSE Holds(c, t)
    <2>1. CASE jar'[c] = t
      BY <1>7, <2>1, ReplyIs DEF Holds
    <2>2. CASE \E y \in Call : request'[y] # None /\ request'[y].from = c /\ request'[y].token = t
      BY <1>7, <2>2, ReplyIs DEF Holds
    <2>3. CASE \E y \in Call : answer'[y] # None /\ answer'[y].to = c /\ answer'[y].cookie = t
      BY <1>7, <2>3, ReplyIs DEF Holds
    <2> QED
      BY <1>8, <2>1, <2>2, <2>3 DEF Holds
  <1>9. HeldWasIssued'
    BY <1>4, <1>8 DEF HeldWasIssued, IInv
  <1>10. OneHolder'
    <2> SUFFICES ASSUME NEW c \in Browser, NEW d \in Browser, NEW s \in Token, NEW t \in Token,
                        Holds(c, s)', Holds(d, t)', login'[s] = login'[t], login'[s] # None
                 PROVE  c = d
      BY DEF OneHolder
    <2>1. IF s = n THEN c = b ELSE Holds(c, s)
      BY <1>8
    <2>2. IF t = n THEN d = b ELSE Holds(d, t)
      BY <1>8
    <2> HIDE DEF b
    <2>3. CASE s # n /\ t # n
      BY <2>1, <2>2, <2>3 DEF OneHolder, IInv
    <2>4. CASE s = n \/ t = n
      BY <2>1, <2>2, <2>4 DEF b
    <2> QED
      BY <2>3, <2>4
  <1>11. ASSUME NEW y \in Call, y # x, NEW c \in calm, CallOf(y, c),
                NEW t \in Token, Holds(c, t), Newest(t)
         PROVE  Newest(t)'
    <2> SUFFICES ASSUME NEW s \in Token, Live(s)', login'[s] = login'[t]
                 PROVE  s = t
      BY DEF Newest, LiveTokens
    <2>0. c \in Browser
      BY DEF ClientOK
    <2>1. t # n
      BY <1>7, <1>11, <2>0
    <2>2. CASE s = n
      <3>1. c = b
        BY <1>11, <2>0, <2>1, <2>2
      <3>2. CallOf(x, c)
        BY <3>1 DEF CallOf
      <3> QED
        BY <1>11, <3>2 DEF OneCall, IInv
    <2>3. CASE s # n
      BY <1>5, <1>11, <2>1, <2>3 DEF Newest, LiveTokens
    <2> QED
      BY <2>2, <2>3
  <1>12. RequestIsNewest'
    <2> SUFFICES ASSUME NEW y \in Call, request'[y] # None, request'[y].from \in calm',
                        request'[y].token # None
                 PROVE  Newest(request[y].token)'
      BY DEF RequestIsNewest
    <2>1. y # x /\ request'[y] = request[y] /\ calm' = calm
      BY ReplyIs
    <2>2. PICK t \in Token : t = request[y].token
      BY <2>1 DEF ClientOK, Request
    <2>3. PICK c \in calm : c = request[y].from
      BY <2>1
    <2>4. CallOf(y, c) /\ Holds(c, t)
      BY <2>1, <2>2, <2>3 DEF CallOf, Holds
    <2>5. Newest(t)
      BY <2>1, <2>2, <2>3 DEF RequestIsNewest, IInv
    <2>6. Newest(t)'
      BY <1>11, <2>1, <2>4, <2>5
    <2> QED
      BY <2>1, <2>2, <2>6 DEF Newest, LiveTokens
  <1>13. Newest(n)'
    BY <1>5 DEF Newest, LiveTokens
  <1>14. AnswerIsNewest'
    <2> SUFFICES ASSUME NEW y \in Call, answer'[y] # None, answer'[y].to \in calm',
                        answer'[y].cookie \in Token
                 PROVE  Newest(answer[y].cookie)'
      BY DEF AnswerIsNewest
    <2>1. CASE y = x
      BY <1>13, <2>1, ReplyIs DEF Newest, LiveTokens
    <2>2. CASE y # x
      <3>1. answer'[y] = answer[y] /\ calm' = calm
        BY <2>2, ReplyIs
      <3>2. PICK t \in Token : t = answer[y].cookie
        BY <3>1
      <3>3. PICK c \in calm : c = answer[y].to
        BY <3>1
      <3>4. CallOf(y, c) /\ Holds(c, t)
        BY <3>1, <3>2, <3>3 DEF CallOf, Holds
      <3>5. Newest(t)
        BY <3>1, <3>2, <3>3 DEF AnswerIsNewest, IInv
      <3>6. Newest(t)'
        BY <1>11, <2>2, <3>4, <3>5
      <3> QED
        BY <3>1, <3>2, <3>6 DEF Newest, LiveTokens
    <2> QED
      BY <2>1, <2>2
  <1>15. ClientKeepsUp'
    <2> SUFFICES ASSUME NEW c \in calm, jar[c] # None,
                        NEW t \in Token, Live(t)', login'[t] = login'[jar[c]], t # jar[c]
                 PROVE  \E y \in Call : CallOf(y, c)' /\ answer'[y] # None /\ answer'[y].cookie = t
      BY ReplyIs DEF ClientKeepsUp, LiveTokens
    <2>1. c \in Browser /\ jar[c] \in Token /\ Holds(c, jar[c])
      BY DEF ClientOK, Holds
    <2>2. jar[c] # n /\ login'[jar[c]] = login[jar[c]]
      BY <1>7, <2>1
    <2>3. CASE t = n
      <3>1. c = b
        BY <2>1, <2>2, <2>3
      <3> QED
        BY <2>3, <3>1, ReplyIs DEF CallOf
    <2>4. CASE t # n
      <3>1. PICK y \in Call : CallOf(y, c) /\ answer[y] # None /\ answer[y].cookie = t
        BY <1>5, <2>2, <2>4 DEF ClientKeepsUp, LiveTokens, IInv
      <3>2. y # x /\ request'[y] = request[y] /\ answer'[y] = answer[y]
        BY <3>1, ReplyIs
      <3> QED
        BY <3>1, <3>2 DEF CallOf
    <2> QED
      BY <2>3, <2>4
  <1>16. AccessTokensOK'
    <2>1. ASSUME NEW a \in Access, AccessOK(a) PROVE AccessOK(a)'
      BY <1>4, <2>1, ReplyIs, AccessStep
    <2>2. ASSUME NEW a \in Access, a = Grant(l) PROVE AccessOK(a)'
      <3>1. endedAt[l] = None
        BY DEF EndsOK, IInv
      <3>2. endedAt'[l] = None \/ endedAt'[l] = now
        BY <3>1, ReplyIs DEF RecordEnds
      <3> QED
        BY <2>2, <3>2, ReplyIs, LifetimeAssumption DEF AccessOK
    <2>3. ASSUME NEW c \in Browser, access'[c] # None
          PROVE  AccessOK(access[c])' /\ access'[c].exp # None
      <3>1. PICK a \in Access : access'[c] = a /\ AccessOK(a) /\ a.exp # None
        BY <2>3, ReplyIs DEF AccessTokensOK, IInv, ClientOK
      <3>2. AccessOK(a)'
        BY <2>1, <3>1
      <3> QED
        BY <3>1, <3>2 DEF AccessOK
    <2>4. ASSUME NEW y \in Call, answer'[y] # None, answer'[y].access # None
          PROVE  AccessOK(answer[y].access)'
      <3>1. PICK a \in Access : answer'[y].access = a /\ (AccessOK(a) \/ a = Grant(l))
        <4>1. CASE y = x
          BY <4>1, ReplyIs
        <4>2. CASE y # x
          BY <2>4, <4>2, ReplyIs DEF AccessTokensOK, IInv, ClientOK, Answer
        <4> QED
          BY <4>1, <4>2
      <3>2. AccessOK(a)'
        BY <2>1, <2>2, <3>1
      <3> QED
        BY <3>1, <3>2 DEF AccessOK
    <2> QED
      BY <2>3, <2>4 DEF AccessTokensOK
  <1>17. EndsOK'
    <2>1. ASSUME NEW k \in Token, Ended(k) PROVE Ended(k)'
      <3>1. k # l
        BY <2>1
      <3>2. ASSUME NEW t \in Token, login'[t] = k, Works(t)' PROVE FALSE
        BY <1>5, <2>1, <3>1, <3>2, ReplyIs DEF Ended, Works
      <3> QED
        BY <1>4, <2>1, <3>2 DEF Ended
    <2> QED
      BY <2>1, EndsStep
  <1> QED
    BY <1>2, <1>6, <1>9, <1>10, <1>12, <1>14, <1>15, <1>16, <1>17, ReplyIs DEF IInv

LEMMA LoginInv ==
  ASSUME IInv, RecordEnds, NEW x \in Call, Login(x)
  PROVE  IInv'
  <1>1. PICK n \in Token : /\ Rotation!Issue(n)
                           /\ expires' = [expires EXCEPT ![n] = now + Lifetime]
                           /\ Reply(x, n, Grant(n))
    BY DEF Login
  <1>2. request[x] # None
    BY DEF Login, Asks
  <1>3. ServerOK' /\ ClientOK'
    BY LoginType
  <1>4. /\ status[n] = "unissued" /\ status'[n] = "live" /\ login'[n] = n
        /\ \A t \in Token : t # n => /\ login'[t] = login[t]
                                     /\ expires'[t] = expires[t]
                                     /\ status'[t] = status[t]
    BY <1>1, TypeParts DEF Rotation!Issue, ServerOK, Rotation!TypeOK
  <1>5. \A t \in Token : login[t] # n
    BY <1>4, TypeParts, ValueAssumption
    DEF TokensOK, IInv, ServerOK, Rotation!TypeOK
  <1>6. ~Ended(n) /\ status'[n] # "unissued"
    BY <1>4 DEF Ended
  <1> QED
    BY <1>1, <1>2, <1>3, <1>4, <1>5, <1>6, IssueInv

LEMMA RefreshInv ==
  ASSUME IInv, RecordEnds, NEW x \in Call, Refresh(x)
  PROVE  IInv'
  <1>1. PICK n \in Token : Exchange(x, n, n)
    BY DEF Refresh
  <1> DEFINE o == Presented(x)
  <1>2. PICK l \in Token : l = login[o]
    BY <1>1, Exchanged
  <1>3. /\ request[x] # None /\ o \in Token /\ Works(o) /\ Live(o)
        /\ status[l] # "unissued" /\ status[n] = "unissued" /\ n # o
    BY <1>1, <1>2, Exchanged
  <1>4. ServerOK' /\ ClientOK'
    BY <1>1, RefreshType
  <1>5. /\ Rotation!Rotate(o, n)
        /\ expires' = [expires EXCEPT ![n] = now + Lifetime]
        /\ Reply(x, n, Grant(l))
    BY <1>1, <1>2 DEF Exchange
  <1> HIDE DEF o
  <1>6. /\ status'[n] = "live" /\ login'[n] = l /\ status'[o] = "spent"
        /\ \A t \in Token : t # n => /\ login'[t] = login[t]
                                     /\ expires'[t] = expires[t]
                                     /\ \/ status'[t] = status[t]
                                        \/ status[t] = "live" /\ status'[t] = "spent"
    BY <1>2, <1>3, <1>5, TypeParts DEF Rotation!Rotate, ServerOK, Rotation!TypeOK, Live
  <1>7. ASSUME NEW t \in Token, t # n, Live(t)' PROVE login[t] # l
    <2>1. Live(t) /\ t # o
      BY <1>6, <1>7 DEF Live
    <2> QED
      BY <1>2, <1>3, <2>1 DEF TokensOK, IInv
  <1>8. ASSUME NEW c \in Browser, NEW t \in Token, Holds(c, t), login[t] = l
        PROVE  c = request[x].from
    <2>1. Holds(request[x].from, o)
      BY <1>3 DEF o, Presented, Holds
    <2>2. request[x].from \in Browser
      BY <1>3, TypeParts, PresentedType
    <2> QED
      BY <1>2, <1>3, <1>8, <2>1, <2>2, ValueAssumption DEF OneHolder, IInv
  <1>9. ~Ended(l) /\ status'[l] # "unissued"
    BY <1>2, <1>3, <1>6 DEF Ended
  <1> QED
    BY <1>3, <1>4, <1>5, <1>6, <1>7, <1>8, <1>9, IssueInv

-----------------------------------------------------------------------------
(* The theorems *)

LEMMA StepCases ==
  ASSUME IInv, [Next]_vars
  PROVE  \/ Quiet
         \/ \E x \in Call : \/ \E b \in Browser, op \in Op : Send(x, b, op)
                            \/ Receive(x) /\ answer[x].cookie \in Token
                            \/ Login(x) \/ Refresh(x)
  <1>1. CASE Next
    <2>1. CASE \E x \in Call : Handle(x)
      BY <2>1, HandleIsQuiet
    <2>2. CASE \E x \in Call : Network(x)
      BY <2>2, NetworkIsQuiet DEF Network
    <2>3. CASE (\E b \in Browser : CookieExpires(b)) \/ SetActive \/ DeleteUser \/ Tick
      BY <2>3, OthersAreQuiet
    <2> QED
      BY <1>1, <2>1, <2>2, <2>3 DEF Next
  <1>2. CASE UNCHANGED vars
    BY <1>2, OthersAreQuiet
  <1> QED
    BY <1>1, <1>2

\* Every step that is not a stutter keeps the history.
LEMMA EndsRecorded ==
  ASSUME IInv, [Next]_vars
  PROVE  RecordEnds \/ UNCHANGED vars
  BY DEF Next

LEMMA StutterInv ==
  ASSUME IInv, UNCHANGED vars
  PROVE  IInv'
  BY DEF IInv, vars, server, client, network, TypeOK, Rotation!TypeOK, TokensOK, Live,
     LiveTokens, HeldWasIssued, Holds, OneHolder, OneMessage, OneCall, CallOf,
     RequestIsNewest, AnswerIsNewest, Newest, ClientKeepsUp, AccessTokensOK, AccessOK,
     EndsOK, Ended, Works

LEMMA StepIInv ==
  ASSUME IInv, [Next]_vars
  PROVE  IInv'
  BY StepCases, EndsRecorded, StutterInv, QuietInv, SendInv, ReceiveInv, LoginInv, RefreshInv

\* The inductive invariant: whatever holds a token of a login is one browser, and
\* what a calm browser holds, sends or receives is the newest token of its login.
THEOREM ClientInvariant == Spec => []IInv
  <1>1. Init => IInv
    BY InitIInv
  <1>2. IInv /\ [Next]_vars => IInv'
    BY StepIInv
  <1> QED
    BY <1>1, <1>2, PTL DEF Spec

\* The variables keep their types.
THEOREM ClientTypes == Spec => []TypeOK
  <1>1. IInv => TypeOK
    BY DEF IInv
  <1> QED
    BY <1>1, ClientInvariant, PTL

\* For any number of browsers, calls and tokens: the cookie of a calm browser is
\* the only token of its login that works.
THEOREM ClientsKeepUp == Spec => []ClientKeepsUp
  <1>1. IInv => ClientKeepsUp
    BY DEF IInv
  <1> QED
    BY <1>1, ClientInvariant, PTL

\* However long the handlers take and whatever ends a login meanwhile: no access
\* token is accepted AccessLifetime, and the time it took to make it, after that.
THEOREM AccessEnds == Spec => []AccessEndsWithItsLogin
  <1>1. ASSUME IInv PROVE AccessEndsWithItsLogin
    <2> SUFFICES ASSUME NEW b \in Browser, access[b] # None, Accepts(access[b]),
                        endedAt[access[b].login] # None
                 PROVE  now < endedAt[access[b].login] + AccessLifetime
                              + (access[b].iat - access[b].since)
      BY DEF AccessEndsWithItsLogin
    <2>1. PICK a \in Access : a = access[b] /\ AccessOK(a) /\ a.exp # None
      BY <1>1, TypeParts DEF AccessTokensOK, IInv, ClientOK
    <2>2. a.login \in Token /\ a.exp \in Nat /\ a.since \in Nat
      BY <2>1 DEF Access
    <2>3. endedAt[a.login] \in Nat
      BY <1>1, <2>1, <2>2, TypeParts
    <2> QED
      BY <1>1, <2>1, <2>2, <2>3, TypeParts, LifetimeAssumption DEF AccessOK, Accepts
  <1> QED
    BY <1>1, ClientInvariant, PTL

\* The logout of a calm browser ends its login.
THEOREM LogoutEnds == Spec => LogoutEndsTheLogin
  <1> DEFINE A ==
        \A x \in Call : Logout(x) /\ Presented(x) # None /\ request[x].from \in calm =>
           \A t \in Token : Live(t)' => login'[t] # login[Presented(x)]
  <1>1. IInv /\ [Next]_vars => [A]_vars
    <2> SUFFICES ASSUME IInv, NEW x \in Call, Logout(x), Presented(x) # None, request[x].from \in calm,
                        NEW t \in Token, Live(t)', login'[t] = login[Presented(x)]
                 PROVE  FALSE
      OBVIOUS
    <2>1. request[x] # None
      BY DEF Logout, Asks
    <2>2. Presented(x) \in Token
      BY <2>1, TypeParts, PresentedType
    <2>3. Newest(Presented(x))
      BY <2>1 DEF RequestIsNewest, IInv, Presented
    <2>4. Live(t) /\ login[t] = login[Presented(x)] /\ t \notin {Presented(x)} \cap LiveTokens
      BY TypeParts DEF Logout, Rotation!Revoke, Live
    <2> QED
      BY <2>2, <2>3, <2>4 DEF Newest, LiveTokens
  <1> QED
    BY <1>1, ClientInvariant, PTL DEF Spec, LogoutEndsTheLogin

\* A token that was refused never works again.
THEOREM RefusalIsFinal == Spec => RefusedIsFinal
  <1> DEFINE Refused(x) == Asks(x, "refresh") /\ answer'[x] # None /\ answer'[x].access = None
  <1>1. ASSUME IInv, Next, NEW x \in Call, Refused(x)
        PROVE  Presented(x) \notin LiveTokens'
    <2>1. request[x] # None /\ request[x].op = "refresh" /\ answer[x] = None
      BY <1>1 DEF Asks, OneMessage, IInv
    <2>2. Handle(x)
      <3>1. ASSUME NEW y \in Call, Handle(y), y # x PROVE FALSE
        BY <1>1, <2>1, <3>1, TypeParts
        DEF Handle, Login, LoginRefused, RefreshUnknown, RefreshReplayed, RefreshRefused,
            Refresh, Exchange, Logout, Mint, MintFails, Minting, Refuse, Reply, ClientOK
      <3>2. ASSUME NEW y \in Call, Network(y) PROVE FALSE
        BY <1>1, <2>1, <3>2, TypeParts
        DEF Network, Send, Receive, LoseRequest, LoseAnswer, ClientOK
      <3>3. CASE (\E b \in Browser : CookieExpires(b)) \/ SetActive \/ DeleteUser \/ Tick
        BY <1>1, <2>1, <3>3 DEF CookieExpires, SetActive, DeleteUser, Tick, network
      <3> QED
        BY <1>1, <3>1, <3>2, <3>3 DEF Next
    <2>3. CASE RefreshUnknown(x)
      BY <2>3 DEF RefreshUnknown, Rows, LiveTokens, Live, server
    <2>4. CASE RefreshReplayed(x)
      BY <1>1, <2>4, TypeParts
      DEF RefreshReplayed, Rotation!Revoke, LiveTokens, Live
    <2>5. CASE RefreshRefused(x)
      BY <1>1, <2>5, TypeParts DEF RefreshRefused, Rotation!Revoke, LiveTokens, Live
    <2>6. CASE Refresh(x)
      <3>1. PICK n \in Token : Exchange(x, n, n)
        BY <2>6 DEF Refresh
      <3>2. PICK l \in Token : l = login[Presented(x)]
        BY <1>1, <3>1, Exchanged
      <3>3. answer'[x].access = Grant(l) /\ Grant(l) \in Access
        BY <1>1, <2>1, <3>1, <3>2, ReplyIs DEF Exchange
      <3> QED
        BY <1>1, <3>3, MessageAssumption
    <2> QED
      BY <2>1, <2>2, <2>3, <2>4, <2>5, <2>6 DEF Handle, Login, LoginRefused, Logout, Asks, Mint,
         MintFails, Minting
  <1>2. ASSUME IInv, Next, NEW t \in Token, status[t] \in {"spent", "gone"}
        PROVE  ~Live(t)'
    <2>1. CASE Quiet
      BY <1>2, <2>1 DEF Quiet, Shrinks, Live
    <2>2. CASE \E x \in Call : \/ \E b \in Browser, op \in Op : Send(x, b, op)
                               \/ Receive(x)
      BY <1>2, <2>2 DEF Send, Receive, server, Live
    <2>3. CASE \E x \in Call : Login(x)
      BY <1>2, <2>3, TypeParts DEF Login, Rotation!Issue, Live, ServerOK, Rotation!TypeOK
    <2>4. CASE \E x \in Call : Refresh(x)
      <3>1. PICK x \in Call, n \in Token : Exchange(x, n, n)
        BY <2>4 DEF Refresh
      <3> QED
        BY <1>2, <3>1, TypeParts, Exchanged
        DEF Exchange, Rotation!Rotate, Live, ServerOK, Rotation!TypeOK
    <2> QED
      BY <1>2, <2>1, <2>2, <2>3, <2>4, StepCases
  <1> DEFINE A ==
        /\ \A x \in Call :
              Asks(x, "refresh") /\ answer'[x] # None /\ answer'[x].access = None
              => Presented(x) \notin LiveTokens'
        /\ \A t \in Token : status[t] \in {"spent", "gone"} => ~Live(t)'
  <1>3. IInv /\ [Next]_vars => [A]_vars
    BY <1>1, <1>2
  <1> QED
    BY <1>3, ClientInvariant, PTL DEF Spec, RefusedIsFinal

-----------------------------------------------------------------------------
(* The protocol *)

\* Whatever clients, network, console and clock do, the tokens only move as
\* TokenRotation has them: a handler whose request is late, whose answer is lost, or
\* that refuses, is one step of the protocol that RefreshSessions implements, or none.
THEOREM ClientsRotate == Spec => Rotation!Spec
  <1>1. Init => Rotation!Init
    BY DEF Init
  <1>2. ASSUME IInv, NEW x \in Call, Handle(x) PROVE [Rotation!Next]_(Rotation!vars)
    <2>1. CASE Login(x)
      BY <2>1 DEF Login, Rotation!Next
    <2>2. CASE LoginRefused(x) \/ RefreshUnknown(x)
      BY <2>2 DEF LoginRefused, RefreshUnknown, server, Rotation!vars
    <2>3. CASE RefreshReplayed(x)
      <3>1. LiveTokens \in SUBSET Token
        BY DEF LiveTokens
      <3> QED
        BY <2>3, <3>1 DEF RefreshReplayed, Rotation!Next
    <2>4. CASE RefreshRefused(x)
      <3>1. {Presented(x)} \in SUBSET Token
        BY <1>2, <2>4, TypeParts, PresentedType DEF RefreshRefused, Asks
      <3> QED
        BY <2>4, <3>1 DEF RefreshRefused, Rotation!Next
    <2>5. CASE Refresh(x)
      <3>1. PICK n \in Token : Exchange(x, n, n)
        BY <2>5 DEF Refresh
      <3>2. Presented(x) \in Token
        BY <1>2, <3>1, TypeParts, PresentedType DEF Exchange, Asks
      <3> QED
        BY <3>1, <3>2 DEF Exchange, Rotation!Next
    <2>6. CASE Logout(x)
      <3>1. {Presented(x)} \cap LiveTokens \in SUBSET Token
        BY DEF LiveTokens
      <3> QED
        BY <2>6, <3>1 DEF Logout, Rotation!Next
    <2>7. CASE Mint(x) \/ MintFails(x)
      BY <2>7 DEF Mint, MintFails, server, Rotation!vars
    <2> QED
      BY <1>2, <2>1, <2>2, <2>3, <2>4, <2>5, <2>6, <2>7 DEF Handle
  <1>3. ASSUME NEW x \in Call, Network(x) PROVE UNCHANGED Rotation!vars
    BY <1>3 DEF Network, Send, Receive, LoseRequest, LoseAnswer, server, Rotation!vars
  <1>4. ASSUME (\E b \in Browser : CookieExpires(b)) \/ SetActive \/ Tick
        PROVE  UNCHANGED Rotation!vars
    BY <1>4 DEF CookieExpires, SetActive, Tick, server, Rotation!vars
  <1>5. ASSUME DeleteUser PROVE Rotation!Next
    <2>1. Rows \in SUBSET Token
      BY DEF Rows
    <2> QED
      BY <1>5, <2>1 DEF DeleteUser, Rotation!Next
  <1>6. UNCHANGED vars => UNCHANGED Rotation!vars
    BY DEF vars, Rotation!vars
  <1>7. IInv /\ [Next]_vars => [Rotation!Next]_(Rotation!vars)
    BY <1>2, <1>3, <1>4, <1>5, <1>6 DEF Next
  <1> QED
    BY <1>1, <1>7, ClientInvariant, PTL DEF Spec, Rotation!Spec

=============================================================================
