------------------------ MODULE TokenRotationProofs ------------------------
(***************************************************************************)
(* Theorems about TokenRotation, for every set of tokens.                  *)
(***************************************************************************)
EXTENDS TokenRotation, TLAPS

\* Only a login that was issued has tokens: its first token was issued.  Without
\* this, issuing a token could join a login that already has a live one.
FirstTokenIssued ==
    \A t \in Token : status[t] \in {"live", "spent"} =>
        login[t] \in Token /\ status[login[t]] # "unissued"

\* The inductive invariant.
IInv == TypeOK /\ OneLiveToken /\ FirstTokenIssued

\* It holds before the first login.
LEMMA RotationInit == Init => IInv
BY DEF Init, IInv, TypeOK, OneLiveToken, FirstTokenIssued

\* Every step keeps it.
LEMMA RotationStep == IInv /\ [Next]_vars => IInv'
<1> SUFFICES ASSUME IInv, [Next]_vars PROVE IInv'
  OBVIOUS
<1> USE DEF IInv
<1>1. CASE UNCHANGED vars
  BY <1>1 DEF vars, TypeOK, OneLiveToken, FirstTokenIssued
<1>2. ASSUME NEW t \in Token, Issue(t) PROVE IInv'
  <2>1. TypeOK'
    BY <1>2 DEF Issue, TypeOK
  <2>2. OneLiveToken'
    BY <1>2 DEF Issue, TypeOK, OneLiveToken, FirstTokenIssued
  <2>3. FirstTokenIssued'
    BY <1>2 DEF Issue, TypeOK, FirstTokenIssued
  <2>4. QED BY <2>1, <2>2, <2>3
<1>3. ASSUME NEW t \in Token, NEW n \in Token, Rotate(t, n) PROVE IInv'
  <2>1. TypeOK'
    BY <1>3 DEF Rotate, TypeOK
  <2>2. OneLiveToken'
    BY <1>3 DEF Rotate, TypeOK, OneLiveToken
  <2>3. FirstTokenIssued'
    BY <1>3 DEF Rotate, TypeOK, FirstTokenIssued
  <2>4. QED BY <2>1, <2>2, <2>3
<1>4. ASSUME NEW S \in SUBSET Token, Revoke(S) PROVE IInv'
  BY <1>4 DEF Revoke, TypeOK, OneLiveToken, FirstTokenIssued
<1>5. ASSUME NEW S \in SUBSET Token, Purge(S) PROVE IInv'
  BY <1>5 DEF Purge, TypeOK, OneLiveToken, FirstTokenIssued
<1>6. QED BY <1>1, <1>2, <1>3, <1>4, <1>5 DEF Next

\* The types of the variables, a login's first token issued, at most one live
\* token per login.
THEOREM RotationInvariant == Spec => []IInv
BY RotationInit, RotationStep, PTL DEF Spec

\* A login never has two tokens that work.
THEOREM RotationOneLiveToken == Spec => []OneLiveToken
<1>1. IInv => OneLiveToken
  BY DEF IInv
<1>2. QED BY <1>1, RotationInvariant, PTL

\* A login that lost its last live token never gets another.
THEOREM RotationEndedLoginIsFinal == Spec => EndedLoginIsFinal
<1> DEFINE A == \A l \in Token :
                   status[l] # "unissued" /\ LiveTokens(l) = {} => LiveTokens(l)' = {}
<1>1. IInv /\ [Next]_vars => [A]_vars
  <2> SUFFICES ASSUME IInv, Next, NEW l \in Token,
                      status[l] # "unissued", LiveTokens(l) = {}
               PROVE  LiveTokens(l)' = {}
    OBVIOUS
  <2> USE DEF LiveTokens, IInv, TypeOK
  <2>1. ASSUME NEW t \in Token, Issue(t) PROVE LiveTokens(l)' = {}
    BY <2>1 DEF Issue
  <2>2. ASSUME NEW t \in Token, NEW n \in Token, Rotate(t, n) PROVE LiveTokens(l)' = {}
    BY <2>2 DEF Rotate
  <2>3. ASSUME NEW S \in SUBSET Token, Revoke(S) PROVE LiveTokens(l)' = {}
    BY <2>3 DEF Revoke
  <2>4. ASSUME NEW S \in SUBSET Token, Purge(S) PROVE LiveTokens(l)' = {}
    BY <2>4 DEF Purge
  <2>5. QED BY <2>1, <2>2, <2>3, <2>4 DEF Next
<1>2. QED BY <1>1, RotationInvariant, PTL DEF Spec, EndedLoginIsFinal

=============================================================================
