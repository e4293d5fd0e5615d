-------------------------- MODULE SchemaMigration --------------------------
(***************************************************************************)
(* Upgrading and resetting the auth schema (auth/db.py).                   *)
(*                                                                         *)
(* A process is a gateway that migrates on startup, or the CLI commands    *)
(* init-db and reset-db.  Each upgrades in one transaction, the one        *)
(* engine.begin() opened around the advisory lock; Alembic, handed a       *)
(* connection inside a transaction, does not commit by itself.             *)
(***************************************************************************)
EXTENDS Naturals, FiniteSets

CONSTANTS Proc,        \* gateways and CLI processes
          Head,        \* the packaged revisions are 1..Head
          MaxResets,   \* bound: reset-db runs
          MaxCrashes,  \* bound: processes killed
          None

ASSUME HeadAssumption == Head \in Nat \ {0}
ASSUME BoundAssumption == MaxResets \in Nat /\ MaxCrashes \in Nat
ASSUME ProcAssumption == None \notin Proc

VARIABLES
    tables,    \* committed: the revisions whose tables exist
    version,   \* committed: alembic_version, 0 when the table is missing
    advisory,  \* the session that holds pg_advisory_lock(912301407)
    pc,        \* pc[p]: what p does next
    seen,      \* seen[p]: the version p has read in its transaction
    made,      \* made[p]: the revisions p has applied, not yet committed
    resets, crashes

vars == <<tables, version, advisory, pc, seen, made, resets, crashes>>

InTransaction == {"read", "apply", "commit"}
Pc == {"down", "lock", "failed", "done"} \cup InTransaction

Init ==
    /\ \E v \in 0..Head : version = v /\ tables = 1..v
    /\ advisory = None
    /\ pc = [p \in Proc |-> "down"]
    /\ seen = [p \in Proc |-> 0]
    /\ made = [p \in Proc |-> {}]
    /\ resets = 0
    /\ crashes = 0

Goto(p, l) == pc' = [pc EXCEPT ![p] = l]

-----------------------------------------------------------------------------
\* ensure_auth_schema at startup, or init-db
Start(p) ==
    /\ pc[p] = "down"
    /\ Goto(p, "lock")
    /\ UNCHANGED <<tables, version, advisory, seen, made, resets, crashes>>

\* SELECT pg_advisory_lock: the lock of the session, not of the transaction.
TakeLock(p) ==
    /\ pc[p] = "lock"
    /\ advisory = None
    /\ advisory' = p
    /\ Goto(p, "read")
    /\ UNCHANGED <<tables, version, seen, made, resets, crashes>>

\* command.upgrade: the revisions still to apply follow from the committed
\* version.
ReadVersion(p) ==
    /\ pc[p] = "read"
    /\ seen' = [seen EXCEPT ![p] = version]
    /\ Goto(p, "apply")
    /\ UNCHANGED <<tables, version, advisory, made, resets, crashes>>

Pending(p) == (seen[p] + 1)..Head \ made[p]

\* The CREATE statements of revision r wait for a transaction that has created
\* the same tables and not ended.
NextRevision(p, r) ==
    /\ pc[p] = "apply"
    /\ r \in Pending(p)
    /\ \A s \in Pending(p) : r <= s
    /\ \A q \in Proc \ {p} : r \notin made[q]

CanCreate(p, r) == r \notin tables /\ 1..(r - 1) \subseteq tables \cup made[p]

\* Fault: a transaction for every revision.
ApplyCommitting(p) ==
    /\ \E r \in Pending(p) :
          /\ NextRevision(p, r) /\ CanCreate(p, r)
          /\ tables' = tables \cup {r}
          /\ version' = r
          /\ seen' = [seen EXCEPT ![p] = r]
    /\ UNCHANGED <<advisory, pc, made, resets, crashes>>

Apply(p) ==
    /\ \E r \in Pending(p) : /\ NextRevision(p, r)
                             /\ CanCreate(p, r)
                             /\ made' = [made EXCEPT ![p] = @ \cup {r}]
    /\ UNCHANGED <<tables, version, advisory, pc, seen, resets, crashes>>

\* The table exists, or one it refers to does not.  The transaction is aborted,
\* so pg_advisory_unlock fails too and the session keeps the lock.
ApplyFails(p) ==
    /\ \E r \in Pending(p) : NextRevision(p, r) /\ ~CanCreate(p, r)
    /\ made' = [made EXCEPT ![p] = {}]
    /\ Goto(p, "failed")
    /\ UNCHANGED <<tables, version, advisory, seen, resets, crashes>>

\* pg_advisory_unlock, the last statement inside engine.begin().
Unlock(p) ==
    /\ pc[p] = "apply"
    /\ Pending(p) = {}
    /\ advisory' = None
    /\ Goto(p, "commit")
    /\ UNCHANGED <<tables, version, seen, made, resets, crashes>>

\* Fault: engine.connect(), which rolls back when it is left.
CommitForgotten(p) ==
    /\ pc[p] = "commit"
    /\ made' = [made EXCEPT ![p] = {}]
    /\ Goto(p, "done")
    /\ UNCHANGED <<tables, version, advisory, seen, resets, crashes>>

\* COMMIT at the end of engine.begin(): a gateway serves, init-db is done.
Commit(p) ==
    /\ pc[p] = "commit"
    /\ tables' = tables \cup made[p]
    /\ version' = IF made[p] = {} THEN version ELSE Head
    /\ made' = [made EXCEPT ![p] = {}]
    /\ Goto(p, "done")
    /\ UNCHANGED <<advisory, seen, resets, crashes>>

-----------------------------------------------------------------------------
\* A transaction that has read alembic_version, or created a table, holds a lock
\* that DROP SCHEMA waits for.
UsesSchema(q) == pc[q] \in {"apply", "commit"} /\ (seen[q] > 0 \/ made[q] # {})

\* Fault: the schema goes while a migration is under way.
ResetAtOnce(p) ==
    /\ pc[p] = "down"
    /\ resets < MaxResets
    /\ tables' = {}
    /\ version' = 0
    /\ resets' = resets + 1
    /\ Goto(p, "lock")
    /\ UNCHANGED <<advisory, seen, made, crashes>>

\* reset_auth_schema: DROP SCHEMA ... CASCADE and CREATE SCHEMA, committed without
\* the advisory lock; then ensure_auth_schema.
Reset(p) ==
    /\ pc[p] = "down"
    /\ resets < MaxResets
    /\ \A q \in Proc : ~UsesSchema(q)
    /\ tables' = {}
    /\ version' = 0
    /\ resets' = resets + 1
    /\ Goto(p, "lock")
    /\ UNCHANGED <<advisory, seen, made, crashes>>

-----------------------------------------------------------------------------
\* The end of a process ends its session and its transaction.
EndSession(p) ==
    /\ advisory' = IF advisory = p THEN None ELSE advisory
    /\ made' = [made EXCEPT ![p] = {}]
    /\ Goto(p, "down")

\* Fault: the process stays, and its pooled connection with it.
ExitKeepingSession(p) ==
    /\ pc[p] = "failed"
    /\ Goto(p, "down")
    /\ UNCHANGED <<tables, version, advisory, seen, made, resets, crashes>>

\* The exception ends the CLI, and the startup of the gateway.
Exit(p) ==
    /\ pc[p] = "failed"
    /\ EndSession(p)
    /\ UNCHANGED <<tables, version, seen, resets, crashes>>

Crash(p) ==
    /\ pc[p] # "down"
    /\ crashes < MaxCrashes
    /\ crashes' = crashes + 1
    /\ EndSession(p)
    /\ UNCHANGED <<tables, version, seen, resets>>

Step(p) ==
    \/ TakeLock(p) \/ ReadVersion(p) \/ Apply(p) \/ ApplyFails(p)
    \/ Unlock(p) \/ Commit(p) \/ Exit(p)

Next == \E p \in Proc : Start(p) \/ Step(p) \/ Reset(p) \/ Crash(p)

Spec == Init /\ [][Next]_vars

\* A process that has started keeps executing; PostgreSQL serves the waiters of
\* the advisory lock in order.  Nobody is made to start, or to start again.
FairSpec == Spec /\ \A p \in Proc : SF_vars(Step(p))

-----------------------------------------------------------------------------
(* Properties *)

\* The types of the variables.
TypeOK ==
    /\ tables \subseteq 1..Head
    /\ version \in 0..Head
    /\ advisory \in Proc \cup {None}
    /\ pc \in [Proc -> Pc]
    /\ seen \in [Proc -> 0..Head]
    /\ made \in [Proc -> SUBSET (1..Head)]
    /\ resets \in 0..MaxResets
    /\ crashes \in 0..MaxCrashes

\* The tables are those of the recorded revision: concurrent upgrades, resets and
\* crashes never commit a table without its version, or the other way round.
TablesMatchVersion == tables = 1..version

\* A process that got through ensure_auth_schema, with no reset since the start,
\* finds the schema at the latest revision.
DoneMeansMigrated ==
    \A p \in Proc : pc[p] = "done" /\ resets = 0 => version = Head

\* Two processes that upgrade at the same time both succeed: the advisory lock
\* keeps each from repeating what the other has done.
NobodyCollides == \A p \in Proc : pc[p] # "failed"

\* Every attempt ends, also behind one that failed with the lock in its hands.
AttemptsEnd ==
    \A p \in Proc : pc[p] \notin {"down", "done"} ~> pc[p] \in {"down", "done"}

-----------------------------------------------------------------------------
(* Refinement: each attempt is one step of SchemaUpgrade, or none. *)

AbsState ==
    [p \in Proc |-> IF pc[p] \in {"down", "failed"} THEN "away"
                    ELSE IF pc[p] = "done" THEN "through"
                    ELSE "busy"]

Abs == INSTANCE SchemaUpgrade WITH state <- AbsState

\* However locks, transactions, failures and resets interleave, the committed
\* schema only moves to the latest revision as a whole, or to nothing by a reset, and
\* a process gets through ensure_auth_schema in a step that leaves the latest behind.
ImplementsUpgrade == Abs!Spec

=============================================================================
