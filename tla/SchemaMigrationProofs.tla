----------------------- MODULE SchemaMigrationProofs -----------------------
(* Proofs about SchemaMigration, for any number of processes, revisions,   *)
(* resets and crashes.                                                     *)
EXTENDS SchemaMigration, TLAPS

\* What p has applied continues the committed revision without a gap, in the
\* transaction it runs; when it is about to commit, up to the head.
Continues(p) ==
    /\ made[p] # {} =>
         /\ pc[p] \in {"apply", "commit"}
         /\ version = seen[p]
         /\ \E k \in seen[p] + 1..Head : made[p] = seen[p] + 1..k
    /\ pc[p] = "commit" => Pending(p) = {}

\* Only one transaction at a time has tables that are not committed.
OneWriter == \A p, q \in Proc : p # q => made[p] = {} \/ made[q] = {}

\* A version that was read is not ahead: a reset waits for who has read one.
ReadsBehind(p) == pc[p] \in {"apply", "commit"} => seen[p] <= version

\* The inductive invariant.
IInv ==
    /\ TypeOK
    /\ TablesMatchVersion
    /\ DoneMeansMigrated
    /\ OneWriter
    /\ \A p \in Proc : Continues(p) /\ ReadsBehind(p)

\* It holds before anybody has started.
LEMMA InitIInv == Init => IInv
  BY HeadAssumption, BoundAssumption
  DEF Init, IInv, TypeOK, TablesMatchVersion, DoneMeansMigrated, OneWriter,
      Continues, ReadsBehind, Pc, InTransaction

\* The tables a process may create are the next ones after those it has, and
\* its transaction started from the committed version.
LEMMA CreatesNext ==
  ASSUME IInv, NEW p \in Proc, NEW r \in Pending(p), NextRevision(p, r),
         CanCreate(p, r)
  PROVE  /\ version = seen[p]
         /\ made[p] \cup {r} = seen[p] + 1..r
         /\ r \in seen[p] + 1..Head
         /\ \A q \in Proc \ {p} : made[q] = {}
  <1> USE HeadAssumption
  <1>1. /\ version \in 0..Head /\ seen[p] \in 0..Head
        /\ tables = 1..version
        /\ r \in seen[p] + 1..Head /\ r \notin made[p]
        /\ \A s \in Pending(p) : r <= s
    BY DEF IInv, TypeOK, TablesMatchVersion, Pending, NextRevision
  <1>2. r \notin 1..version /\ 1..(r - 1) \subseteq 1..version \cup made[p]
    BY <1>1 DEF CanCreate
  <1>3. CASE made[p] = {}
    <2>1. r = seen[p] + 1
      <3>1. seen[p] + 1 \in Pending(p)
        BY <1>1, <1>3 DEF Pending
      <3> QED
        BY <1>1, <3>1
    <2>2. version = seen[p]
      <3>1. version <= seen[p]
        BY <1>1, <1>2, <2>1
      <3>2. seen[p] # 0 => seen[p] \in 1..(r - 1)
        BY <1>1, <2>1
      <3> QED
        BY <1>1, <1>2, <1>3, <3>1, <3>2
    <2>3. ASSUME NEW q \in Proc \ {p}, made[q] # {}
          PROVE  FALSE
      <3>1. version = seen[q] /\ \E k \in seen[q] + 1..Head : made[q] = seen[q] + 1..k
        BY <2>3 DEF IInv, Continues
      <3>2. r \in made[q]
        BY <1>1, <2>1, <2>2, <3>1
      <3> QED
        BY <3>2 DEF NextRevision
    <2> QED
      BY <1>1, <1>3, <2>1, <2>2, <2>3
  <1>4. CASE made[p] # {}
    <2>1. version = seen[p]
      BY <1>4 DEF IInv, Continues
    <2>2. PICK k \in seen[p] + 1..Head : made[p] = seen[p] + 1..k
      BY <1>4 DEF IInv, Continues
    <2>3. r = k + 1
      <3>1. k < r
        BY <1>1, <2>2
      <3>2. k + 1 \in Pending(p)
        BY <1>1, <2>2, <3>1 DEF Pending
      <3> QED
        BY <1>1, <2>2, <3>1, <3>2
    <2>4. made[p] \cup {r} = seen[p] + 1..r
      BY <1>1, <2>2, <2>3
    <2> QED
      BY <1>1, <1>4, <2>1, <2>4 DEF IInv, OneWriter
  <1> QED
    BY <1>3, <1>4

\* Every step keeps the invariant.
LEMMA NextIInv == IInv /\ [Next]_vars => IInv'
  <1> SUFFICES ASSUME IInv, [Next]_vars PROVE IInv'
    OBVIOUS
  <1> USE HeadAssumption, BoundAssumption, ProcAssumption
  <1>0. TypeOK /\ TablesMatchVersion /\ OneWriter /\ DoneMeansMigrated
    BY DEF IInv
  \* Steps of p that touch neither the schema nor anybody's tables.
  <1>1. ASSUME NEW p \in Proc,
               Start(p) \/ TakeLock(p) \/ ReadVersion(p) \/ Unlock(p)
        PROVE  IInv'
    <2>1. /\ tables' = tables /\ version' = version /\ made' = made
          /\ resets' = resets /\ crashes' = crashes
          /\ \A q \in Proc \ {p} : pc'[q] = pc[q] /\ seen'[q] = seen[q]
      BY <1>0, <1>1 DEF Start, TakeLock, ReadVersion, Unlock, Goto, TypeOK
    <2>2. TypeOK' /\ pc'[p] # "done"
      BY <1>0, <1>1
      DEF Start, TakeLock, ReadVersion, Unlock, Goto, TypeOK, Pc, InTransaction
    <2>3. ASSUME NEW q \in Proc \ {p} PROVE Continues(q)' /\ ReadsBehind(q)'
      BY <2>1 DEF IInv, Continues, ReadsBehind, Pending
    <2>4. Continues(p)' /\ ReadsBehind(p)'
      BY <1>0, <1>1
      DEF IInv, Continues, ReadsBehind, Pending, Start, TakeLock, ReadVersion,
          Unlock, Goto, TypeOK
    <2>5. (TablesMatchVersion /\ DoneMeansMigrated /\ OneWriter)'
      BY <1>0, <2>1, <2>2 DEF TablesMatchVersion, DoneMeansMigrated, OneWriter
    <2> QED
      BY <2>2, <2>3, <2>4, <2>5 DEF IInv
  <1>2. ASSUME NEW p \in Proc, Apply(p) PROVE IInv'
    <2>1. PICK r \in Pending(p) : /\ NextRevision(p, r) /\ CanCreate(p, r)
                                  /\ made' = [made EXCEPT ![p] = @ \cup {r}]
      BY <1>2 DEF Apply
    <2>2. UNCHANGED <<tables, version, advisory, pc, seen, resets, crashes>>
      BY <1>2 DEF Apply
    <2>3. /\ version = seen[p]
          /\ made[p] \cup {r} = seen[p] + 1..r
          /\ r \in seen[p] + 1..Head
          /\ \A q \in Proc \ {p} : made[q] = {}
      BY <2>1, CreatesNext
    <2>4. /\ made'[p] = seen[p] + 1..r
          /\ \A q \in Proc \ {p} : made'[q] = {}
      BY <1>0, <2>1, <2>3 DEF TypeOK
    <2>5. TypeOK'
      BY <1>0, <2>1, <2>2, <2>3 DEF TypeOK
    <2>6. (TablesMatchVersion /\ DoneMeansMigrated /\ OneWriter)'
      BY <1>0, <2>2, <2>4 DEF TablesMatchVersion, DoneMeansMigrated, OneWriter
    <2>7. Continues(p)'
      BY <2>1, <2>2, <2>3, <2>4 DEF Continues, NextRevision
    <2>8. ASSUME NEW q \in Proc PROVE Continues(q)' /\ ReadsBehind(q)'
      BY <2>2, <2>3, <2>4, <2>7 DEF IInv, Continues, ReadsBehind, Pending
    <2> QED
      BY <2>5, <2>6, <2>8 DEF IInv
  \* Steps that end p's transaction without a commit.
  <1>3. ASSUME NEW p \in Proc, ApplyFails(p) \/ Exit(p) \/ Crash(p) PROVE IInv'
    <2>1. /\ UNCHANGED <<tables, version, seen, resets>>
          /\ made' = [made EXCEPT ![p] = {}]
          /\ pc' = [pc EXCEPT ![p] = IF ApplyFails(p) THEN "failed" ELSE "down"]
      BY <1>3 DEF ApplyFails, Exit, Crash, EndSession, Goto, NextRevision
    <2>2. TypeOK'
      BY <1>0, <1>3, <2>1
      DEF ApplyFails, Exit, Crash, EndSession, TypeOK, Pc, InTransaction
    <2>3. made'[p] = {} /\ pc'[p] \in {"failed", "down"}
      BY <1>0, <2>1 DEF TypeOK
    <2>4. \A q \in Proc \ {p} : made'[q] = made[q] /\ pc'[q] = pc[q]
      BY <1>0, <2>1 DEF TypeOK
    <2>5. (TablesMatchVersion /\ DoneMeansMigrated /\ OneWriter)'
      BY <1>0, <2>1, <2>3, <2>4 DEF TablesMatchVersion, DoneMeansMigrated, OneWriter
    <2>6. ASSUME NEW q \in Proc PROVE Continues(q)' /\ ReadsBehind(q)'
      BY <2>1, <2>3, <2>4 DEF IInv, Continues, ReadsBehind, Pending
    <2> QED
      BY <2>2, <2>5, <2>6 DEF IInv
  <1>4. ASSUME NEW p \in Proc, Commit(p) PROVE IInv'
    <2>1. /\ pc[p] = "commit"
          /\ tables' = tables \cup made[p]
          /\ version' = IF made[p] = {} THEN version ELSE Head
          /\ made' = [made EXCEPT ![p] = {}]
          /\ pc' = [pc EXCEPT ![p] = "done"]
          /\ UNCHANGED <<advisory, seen, resets, crashes>>
      BY <1>4 DEF Commit, Goto
    <2>2. /\ made'[p] = {} /\ pc'[p] = "done"
          /\ \A q \in Proc \ {p} : made'[q] = made[q] /\ pc'[q] = pc[q]
      BY <1>0, <2>1 DEF TypeOK
    <2>3. TypeOK'
      <3>1. made[p] \subseteq 1..Head /\ tables' \subseteq 1..Head
        BY <1>0, <2>1 DEF TypeOK
      <3>2. version' \in 0..Head
        BY <1>0, <2>1 DEF TypeOK
      <3>3. made' \in [Proc -> SUBSET (1..Head)] /\ pc' \in [Proc -> Pc]
        BY <1>0, <2>1 DEF TypeOK, Pc, InTransaction
      <3> QED
        BY <1>0, <2>1, <3>1, <3>2, <3>3 DEF TypeOK
    <2>4. CASE made[p] = {}
      <3>1. tables' = tables /\ version' = version
        BY <2>1, <2>4
      <3>2. seen[p] = Head
        BY <1>0, <2>1, <2>4 DEF IInv, Continues, Pending, TypeOK
      <3>3. version = Head
        BY <1>0, <2>1, <3>2 DEF IInv, ReadsBehind, TypeOK
      <3>4. (TablesMatchVersion /\ DoneMeansMigrated /\ OneWriter)'
        BY <1>0, <2>1, <2>2, <3>1, <3>3
        DEF TablesMatchVersion, DoneMeansMigrated, OneWriter
      <3>5. ASSUME NEW q \in Proc PROVE Continues(q)' /\ ReadsBehind(q)'
        BY <2>1, <2>2, <3>1 DEF IInv, Continues, ReadsBehind, Pending
      <3> QED
        BY <2>3, <3>4, <3>5 DEF IInv
    <2>5. CASE made[p] # {}
      <3>1. version = seen[p] /\ seen[p] \in 0..Head /\ version' = Head
        BY <1>0, <2>1, <2>5 DEF IInv, Continues, TypeOK
      <3>2. PICK k \in seen[p] + 1..Head : made[p] = seen[p] + 1..k
        BY <2>5 DEF IInv, Continues
      <3>3. k = Head
        <4>1. Head \notin Pending(p)
          BY <2>1 DEF IInv, Continues
        <4> QED
          BY <3>1, <3>2, <4>1 DEF Pending
      <3>4. TablesMatchVersion'
        BY <1>0, <2>1, <3>1, <3>2, <3>3 DEF TablesMatchVersion
      <3>5. \A q \in Proc : made'[q] = {}
        BY <1>0, <2>2, <2>5 DEF OneWriter
      <3>6. (DoneMeansMigrated /\ OneWriter)'
        BY <3>1, <3>5 DEF DoneMeansMigrated, OneWriter
      <3>7. ASSUME NEW q \in Proc PROVE Continues(q)' /\ ReadsBehind(q)'
        <4>1. seen[q] \in 0..Head
          BY <1>0 DEF TypeOK
        <4>2. ReadsBehind(q)'
          BY <2>1, <3>1, <4>1 DEF ReadsBehind
        <4>3. CASE q = p
          BY <2>2, <3>5, <4>2, <4>3 DEF Continues
        <4>4. CASE q # p
          BY <2>1, <2>2, <2>5, <3>5, <4>2, <4>4, <1>0
          DEF IInv, Continues, Pending, OneWriter
        <4> QED
          BY <4>3, <4>4
      <3> QED
        BY <2>3, <3>4, <3>6, <3>7 DEF IInv
    <2> QED
      BY <2>4, <2>5
  <1>5. ASSUME NEW p \in Proc, Reset(p) PROVE IInv'
    <2>1. /\ pc[p] = "down" /\ resets < MaxResets
          /\ \A q \in Proc : ~UsesSchema(q)
          /\ tables' = {} /\ version' = 0 /\ resets' = resets + 1
          /\ pc' = [pc EXCEPT ![p] = "lock"]
          /\ UNCHANGED <<advisory, seen, made, crashes>>
      BY <1>5 DEF Reset, Goto
    <2>2. \A q \in Proc : made[q] = {}
      BY <2>1 DEF IInv, Continues, UsesSchema
    <2>3. TypeOK' /\ resets' # 0
      BY <1>0, <2>1 DEF TypeOK, Pc, InTransaction
    <2>4. (TablesMatchVersion /\ DoneMeansMigrated /\ OneWriter)'
      BY <2>1, <2>2, <2>3 DEF TablesMatchVersion, DoneMeansMigrated, OneWriter
    <2>5. ASSUME NEW q \in Proc PROVE Continues(q)' /\ ReadsBehind(q)'
      BY <1>0, <2>1, <2>2, <2>3
      DEF IInv, Continues, ReadsBehind, Pending, TypeOK, UsesSchema
    <2> QED
      BY <2>3, <2>4, <2>5 DEF IInv
  <1>6. CASE UNCHANGED vars
    BY <1>6
    DEF vars, IInv, TypeOK, TablesMatchVersion, DoneMeansMigrated, OneWriter,
        Continues, ReadsBehind, Pending
  <1> QED
    BY <1>1, <1>2, <1>3, <1>4, <1>5, <1>6 DEF Next, Step

\* The invariant of the specification.
THEOREM SchemaInvariant == Spec => []IInv
  BY InitIInv, NextIInv, PTL DEF Spec

\* The variables keep their types.
THEOREM SchemaTypes == Spec => []TypeOK
  <1>1. IInv => TypeOK
    BY DEF IInv
  <1> QED
    BY SchemaInvariant, <1>1, PTL

\* However upgrades, resets and crashes interleave, the committed tables are
\* those of the committed revision.
THEOREM SchemaTables == Spec => []TablesMatchVersion
  <1>1. IInv => TablesMatchVersion
    BY DEF IInv
  <1> QED
    BY SchemaInvariant, <1>1, PTL

\* Without a reset, a process that got through ensure_auth_schema finds the
\* latest revision.
THEOREM SchemaDone == Spec => []DoneMeansMigrated
  <1>1. IInv => DoneMeansMigrated
    BY DEF IInv
  <1> QED
    BY SchemaInvariant, <1>1, PTL

-----------------------------------------------------------------------------
(* Refinement *)

\* The process that moves is the only one whose place in SchemaUpgrade may change.
LEMMA AbsMoves ==
  ASSUME TypeOK, NEW p \in Proc, NEW l \in Pc, pc' = [pc EXCEPT ![p] = l]
  PROVE  AbsState' = [AbsState EXCEPT ![p] =
                        IF l \in {"down", "failed"} THEN "away"
                        ELSE IF l = "done" THEN "through" ELSE "busy"]
  BY DEF AbsState, TypeOK

\* The database starts at some revision, with nobody at work.
LEMMA RefinesInit == Init => Abs!Init
  BY DEF Init, Abs!Init, AbsState

\* When an upgrade commits, the latest revision is what is committed: either it has
\* applied all that was missing, or it has found the latest, which nobody resets as
\* long as its transaction is open.
LEMMA CommitReachesHead ==
  ASSUME IInv, NEW p \in Proc, Commit(p)
  PROVE  version' = Head /\ tables' = 1..Head
  <1>1. TypeOK /\ Continues(p) /\ ReadsBehind(p)
    BY DEF IInv
  <1>2. version' = Head
    <2>1. CASE made[p] = {}
      <3>1. pc[p] = "commit" /\ version' = version
        BY <2>1 DEF Commit
      <3>2. Head \notin seen[p] + 1..Head
        BY <1>1, <2>1, <3>1 DEF Continues, Pending
      <3>3. seen[p] <= version /\ seen[p] \in 0..Head /\ version \in 0..Head
        BY <1>1, <3>1 DEF ReadsBehind, TypeOK
      <3> QED
        BY <3>1, <3>2, <3>3, HeadAssumption
    <2>2. CASE made[p] # {}
      BY <2>2 DEF Commit
    <2> QED
      BY <2>1, <2>2
  <1>3. TablesMatchVersion'
    BY NextIInv DEF IInv, Next, Step
  <1> QED
    BY <1>2, <1>3 DEF TablesMatchVersion

\* Each step is one of SchemaUpgrade, or none.
LEMMA RefinesStep == IInv /\ [Next]_vars => [Abs!Next]_(Abs!vars)
  <1> SUFFICES ASSUME IInv, [Next]_vars PROVE [Abs!Next]_(Abs!vars)
    OBVIOUS
  <1>0. TypeOK
    BY DEF IInv
  <1>1. ASSUME NEW p \in Proc, Start(p) PROVE Abs!Begin(p)
    <2>1. pc' = [pc EXCEPT ![p] = "lock"] /\ UNCHANGED <<tables, version>>
      BY <1>1 DEF Start, Goto
    <2>2. AbsState[p] = "away" /\ AbsState' = [AbsState EXCEPT ![p] = "busy"]
      BY <1>0, <1>1, <2>1, AbsMoves DEF Start, AbsState, Pc, InTransaction
    <2> QED
      BY <2>1, <2>2 DEF Abs!Begin
  <1>2. ASSUME NEW p \in Proc, Commit(p) PROVE Abs!Upgrade(p)
    <2>1. pc[p] = "commit" /\ pc' = [pc EXCEPT ![p] = "done"]
      BY <1>2 DEF Commit, Goto
    <2>2. AbsState[p] = "busy" /\ AbsState' = [AbsState EXCEPT ![p] = "through"]
      BY <1>0, <2>1, AbsMoves DEF AbsState, Pc, InTransaction
    <2> QED
      BY <1>2, <2>2, CommitReachesHead DEF Abs!Upgrade
  <1>3. ASSUME NEW p \in Proc, Reset(p) PROVE Abs!Reset(p)
    <2>1. /\ pc[p] = "down" /\ pc' = [pc EXCEPT ![p] = "lock"]
          /\ tables' = {} /\ version' = 0
      BY <1>3 DEF Reset, Goto
    <2>2. AbsState[p] = "away" /\ AbsState' = [AbsState EXCEPT ![p] = "busy"]
      BY <1>0, <2>1, AbsMoves DEF AbsState, Pc, InTransaction
    <2> QED
      BY <2>1, <2>2 DEF Abs!Reset
  <1>4. ASSUME NEW p \in Proc, ApplyFails(p) \/ Exit(p) \/ Crash(p)
        PROVE  Abs!Leave(p) \/ UNCHANGED Abs!vars
    <2>1. /\ UNCHANGED <<tables, version>>
          /\ \E l \in {"failed", "down"} : pc' = [pc EXCEPT ![p] = l]
      BY <1>4 DEF ApplyFails, Exit, Crash, EndSession, Goto
    <2>2. AbsState' = [AbsState EXCEPT ![p] = "away"]
      BY <1>0, <2>1, AbsMoves DEF Pc
    <2>3. CASE AbsState[p] = "away"
      BY <2>1, <2>2, <2>3 DEF Abs!vars, AbsState
    <2>4. CASE AbsState[p] \in {"busy", "through"}
      BY <2>1, <2>2, <2>4 DEF Abs!Leave
    <2> QED
      BY <2>3, <2>4 DEF AbsState
  <1>5. ASSUME NEW p \in Proc,
               TakeLock(p) \/ ReadVersion(p) \/ Apply(p) \/ Unlock(p)
        PROVE  UNCHANGED Abs!vars
    <2>1. UNCHANGED <<tables, version>>
      BY <1>5 DEF TakeLock, ReadVersion, Apply, Unlock
    <2>2. AbsState' = AbsState
      <3>1. CASE Apply(p)
        BY <3>1 DEF Apply, AbsState
      <3>2. CASE TakeLock(p) \/ ReadVersion(p) \/ Unlock(p)
        <4>1. PICK l \in InTransaction : pc' = [pc EXCEPT ![p] = l]
          BY <3>2 DEF TakeLock, ReadVersion, Unlock, Goto, InTransaction
        <4>2. AbsState[p] = "busy"
          BY <3>2 DEF TakeLock, ReadVersion, Unlock, AbsState
        <4>3. AbsState' = [AbsState EXCEPT ![p] = "busy"]
          BY <1>0, <4>1, AbsMoves DEF Pc, InTransaction
        <4> QED
          BY <4>2, <4>3 DEF AbsState
      <3> QED
        BY <1>5, <3>1, <3>2
    <2> QED
      BY <2>1, <2>2 DEF Abs!vars
  <1>6. CASE UNCHANGED vars
    BY <1>6 DEF vars, Abs!vars, AbsState
  <1> QED
    BY <1>1, <1>2, <1>3, <1>4, <1>5, <1>6 DEF Next, Step, Abs!Next

\* The statements around the advisory lock implement upgrades that are whole, for any
\* number of processes and revisions.
THEOREM SchemaRefines == Spec => ImplementsUpgrade
  BY RefinesInit, RefinesStep, SchemaInvariant, PTL DEF Spec, Abs!Spec, ImplementsUpgrade

=============================================================================
