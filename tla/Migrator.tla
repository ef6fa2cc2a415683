------------------------------ MODULE Migrator ------------------------------
(***************************************************************************)
(* postgres.Migrator and cmd/migrate: processes that migrate one database  *)
(* up or down, or report its status, each from its own copy of the files.  *)
(* An advisory lock, held by a connection of its own, is to keep them      *)
(* apart; every migration is one transaction with its row of               *)
(* schema_migrations.  Processes crash, connections are lost, contexts     *)
(* end: a COMMIT that was given up may be executed later, after the lock   *)
(* has been released on the other connection.  One action is one statement *)
(* the database runs.                                                      *)
(***************************************************************************)
EXTENDS Naturals, FiniteSets

CONSTANTS
    Migrators,      \* the processes
    Commands,       \* which of "up", "down" and "status" each may be given
    Steps,          \* how many versions its "down" asks for
    Versions, Sums,
    Up, Down,       \* its files: the checksum of each .up.sql, the set of
                    \* versions that have a .down.sql
    MaxConns,       \* DB_MAX_CONNS
    None

ASSUME MigratorAssumption ==
    /\ Versions \subseteq Nat /\ IsFiniteSet(Versions)
    /\ None \notin Migrators \cup Sums
    /\ Commands \in [Migrators -> SUBSET {"up", "down", "status"}]
    /\ Steps \in [Migrators -> Nat \ {0}]
    /\ Up \in [Migrators -> [Versions -> Sums \cup {None}]]
    /\ Down \in [Migrators -> SUBSET Versions]
    /\ MaxConns \in Nat \ {0}

VARIABLES
    table,      \* schema_migrations exists
    recorded,   \* its rows: the checksum of each version
    schema,     \* which script's objects are there, by version
    lock,       \* who holds the advisory lock
    pc,         \* the next statement of each process
    loc,        \* its local variables
    answer,     \* how it ended
    late,       \* COMMITs the database has received and whose process has gone
    lost,       \* history: a process went on without its lock
    stale       \* history: a process read the table while a COMMIT was late

db == <<table, recorded, schema>>
history == <<lost, stale>>
vars == <<table, recorded, schema, lock, pc, loc, answer, late, lost, stale>>

Row == Sums \cup {None}
NoRow == [v \in Versions |-> None]
NoLocals == [command |-> None, applied |-> NoRow, v |-> None, ran |-> {}]
Change == [v : Versions, row : Row]     \* what a transaction does
Files(m) == {v \in Versions : Up[m][v] # None}

Labels == {"start", "lock", "ensure", "read", "next", "commit", "unlock",
           "applied", "pending", "done"}
Answers == {"none", "ok", "edited", "missing", "irreversible", "failed", "crashed"}

TypeOK ==
    /\ table \in BOOLEAN /\ lost \in BOOLEAN /\ stale \in BOOLEAN
    /\ recorded \in [Versions -> Row]
    /\ schema \in [Versions -> Row]
    /\ lock \in Migrators \cup {None}
    /\ pc \in [Migrators -> Labels]
    /\ loc \in [Migrators -> [command : {"up", "down", "status", None},
                              applied : [Versions -> Row],      \* what it has read
                              v       : Versions \cup {None},   \* being migrated
                              ran     : SUBSET Versions]]
    /\ answer \in [Migrators -> Answers]
    /\ late \subseteq Change

Init ==
    /\ table = FALSE
    /\ recorded = NoRow /\ schema = NoRow
    /\ lock = None
    /\ pc = [m \in Migrators |-> "start"]
    /\ loc = [m \in Migrators |-> NoLocals]
    /\ answer = [m \in Migrators |-> "none"]
    /\ late = {} /\ lost = FALSE /\ stale = FALSE

-----------------------------------------------------------------------------
Goto(m, label) == pc' = [pc EXCEPT ![m] = label]

\* The result is known; the deferred unlock still runs.
Return(m, a) ==
    /\ Goto(m, "unlock")
    /\ answer' = [answer EXCEPT ![m] = a]

\* Every statement but the lock's own wants a second connection.
Connected == MaxConns > 1

-----------------------------------------------------------------------------
(* Up and Down: lock, ensureVersionTable, Applied.                         *)

Start(m) ==
    /\ pc[m] = "start"
    /\ \E c \in Commands[m] :
         /\ loc' = [loc EXCEPT ![m].command = c]
         /\ Goto(m, IF c = "status" THEN "applied" ELSE "lock")
    /\ UNCHANGED <<db, lock, answer, late, history>>

\* Mutant: pg_try_advisory_lock, and its answer is not looked at.
TryLock(m) ==
    /\ pc[m] = "lock"
    /\ lock' = IF lock = None THEN m ELSE lock
    /\ Goto(m, "ensure")
    /\ UNCHANGED <<db, loc, answer, late, history>>

TakeLock(m) ==
    /\ pc[m] = "lock" /\ lock = None
    /\ lock' = m
    /\ Goto(m, "ensure")
    /\ UNCHANGED <<db, loc, answer, late, history>>

EnsureVersionTable(m) ==
    /\ pc[m] = "ensure" /\ Connected
    /\ table' = TRUE
    /\ Goto(m, "read")
    /\ UNCHANGED <<recorded, schema, lock, loc, answer, late, history>>

ReadApplied(m) ==
    /\ pc[m] = "read" /\ Connected
    /\ loc' = [loc EXCEPT ![m].applied = recorded]
    /\ stale' = (stale \/ late # {})
    /\ Goto(m, "next")
    /\ UNCHANGED <<db, lock, answer, late, lost>>

-----------------------------------------------------------------------------
(* The loops.                                                              *)

\* Mutant: nobody compares checksums.
UnappliedByVersion(m) == {v \in Files(m) : loc[m].applied[v] = None} \ loc[m].ran
\* The files that are not recorded as they are, in Up's order the first one.
Unapplied(m) == {v \in Files(m) : loc[m].applied[v] # Up[m][v]} \ loc[m].ran

\* Mutant: the loop does not leave what it has reverted behind.
AppliedAgain(m) == {v \in Versions : loc[m].applied[v] # None}
\* What Down has read and not reverted yet.
Applied(m) == {v \in Versions : loc[m].applied[v] # None} \ loc[m].ran

\* Mutant: from the oldest.
OldestApplied(m) == {v \in Applied(m) : \A w \in Applied(m) : v <= w}
NewestApplied(m) == {v \in Applied(m) : \A w \in Applied(m) : v >= w}

\* A transaction keeps its locks until the database has ended it, whether or
\* not its process still waits.
MayRun(m, v) ==
    /\ \A q \in Migrators \ {m} : ~(pc[q] = "commit" /\ loc[q].v = v)
    /\ \A c \in late : c.v # v

\* The script runs in its transaction.  An Up that finds its objects or its row
\* there fails; a Down that finds nothing (IF EXISTS) changes nothing.
RunScript(m, v) ==
    /\ Connected
    /\ \/ /\ loc[m].command = "up" <=> schema[v] = None
          /\ MayRun(m, v)
          /\ Goto(m, "commit")
          /\ loc' = [loc EXCEPT ![m].v = v]
          /\ UNCHANGED answer
       \/ /\ loc[m].command = "up" /\ schema[v] # None
          /\ Return(m, "failed")
          /\ UNCHANGED loc
       \/ /\ loc[m].command = "down" /\ schema[v] = None
          /\ loc' = [loc EXCEPT ![m].ran = loc[m].ran \cup {v}]
          /\ UNCHANGED <<pc, answer>>
    /\ UNCHANGED <<db, lock, late, history>>

Stop(m, a) == Return(m, a) /\ UNCHANGED <<db, lock, loc, late, history>>

NextUp(m) ==
    /\ pc[m] = "next" /\ loc[m].command = "up"
    /\ \/ Unapplied(m) = {} /\ Stop(m, "ok")
       \/ \E v \in Unapplied(m) :
             /\ \A u \in Unapplied(m) : v <= u
             /\ \/ loc[m].applied[v] # None /\ Stop(m, "edited")
                \/ loc[m].applied[v] = None /\ RunScript(m, v)

NextDown(m) ==
    /\ pc[m] = "next" /\ loc[m].command = "down"
    /\ \/ /\ Applied(m) = {} \/ Cardinality(loc[m].ran) = Steps[m]
          /\ Stop(m, "ok")
       \/ /\ Cardinality(loc[m].ran) < Steps[m]
          /\ \E v \in NewestApplied(m) :
             \/ v \notin Files(m) /\ Stop(m, "missing")
             \/ v \in Files(m) \ Down[m] /\ Stop(m, "irreversible")
             \/ v \in Files(m) \cap Down[m] /\ RunScript(m, v)

\* What the open transaction does: the row is Up's checksum, or gone.
RowOf(m, v) == IF loc[m].command = "up" THEN Up[m][v] ELSE None
ChangeOf(m) == [v |-> loc[m].v, row |-> RowOf(m, loc[m].v)]

\* Mutant: the row is written after the transaction, and fails or a crash comes
\* between.
ApplyUnrecorded(c) ==
    /\ schema' = [schema EXCEPT ![c.v] = c.row]
    /\ recorded' \in {recorded, [recorded EXCEPT ![c.v] = c.row]}
    /\ UNCHANGED table

\* The script and its row commit together.
Apply(c) ==
    /\ schema' = [schema EXCEPT ![c.v] = c.row]
    /\ recorded' = [recorded EXCEPT ![c.v] = c.row]
    /\ UNCHANGED table

Commit(m) ==
    /\ pc[m] = "commit"
    /\ Apply(ChangeOf(m))
    /\ Goto(m, "next")
    /\ loc' = [loc EXCEPT ![m].ran = loc[m].ran \cup {loc[m].v}]
    /\ UNCHANGED <<lock, answer, late, history>>

\* The context ends, or the connection breaks, after COMMIT was sent: the driver
\* does not wait for the answer.
GiveUpCommit(m) ==
    /\ pc[m] = "commit"
    /\ late' = late \cup {ChangeOf(m)}
    /\ Return(m, "failed")
    /\ loc' = [loc EXCEPT ![m].v = None]
    /\ UNCHANGED <<db, lock, history>>

\* The database executes such a COMMIT, or drops it with its session.
Land(c) ==
    /\ late' = late \ {c}
    /\ Apply(c)
    /\ UNCHANGED <<lock, pc, loc, answer, history>>

Drop(c) ==
    /\ late' = late \ {c}
    /\ UNCHANGED <<db, lock, pc, loc, answer, history>>

Settle(c) == c \in late /\ (Land(c) \/ Drop(c))

-----------------------------------------------------------------------------
(* The lock is given up on its own connection.                             *)

\* A failed pg_advisory_unlock is logged, and its connection discarded.
Unlock(m) ==
    /\ pc[m] = "unlock"
    /\ lock' \in {lock} \cup (IF lock = m THEN {None} ELSE {})
    /\ Goto(m, "done")
    /\ loc' = [loc EXCEPT ![m] = NoLocals]
    /\ UNCHANGED <<db, answer, late, history>>

\* The database ends the session of a process that is gone.
EndSession(m) ==
    /\ pc[m] = "done" /\ lock = m
    /\ lock' = None
    /\ UNCHANGED <<db, pc, loc, answer, late, history>>

-----------------------------------------------------------------------------
(* status: Applied, then Pending, without the lock.                        *)

Finish(m, a) ==
    /\ Goto(m, "done")
    /\ loc' = [loc EXCEPT ![m] = NoLocals]
    /\ answer' = [answer EXCEPT ![m] = a]

StatusApplied(m) ==
    /\ pc[m] = "applied"
    /\ \/ ~table /\ Finish(m, "failed")
       \/ /\ table
          /\ loc' = [loc EXCEPT ![m].applied = recorded]
          /\ Goto(m, "pending")
          /\ UNCHANGED answer
    /\ UNCHANGED <<db, lock, late, history>>

\* What is pending is computed from a second read.
StatusPending(m) ==
    /\ pc[m] = "pending"
    /\ table' = TRUE
    /\ Finish(m, "ok")
    /\ UNCHANGED <<recorded, schema, lock, late, history>>

-----------------------------------------------------------------------------
(* What goes wrong.                                                        *)

Busy(m) == pc[m] \in {"ensure", "read", "next", "commit"}

\* The CREATE TABLE of a process that gives up may be executed all the same.
MayHaveEnsured(m) ==
    table' \in {table} \cup (IF pc[m] \in {"ensure", "pending"} THEN {TRUE} ELSE {})

\* A statement fails or the context ends: the transaction is rolled back.  The
\* lock may have been granted all the same.
Fail(m) ==
    /\ \/ /\ Busy(m) /\ Return(m, "failed")
          /\ loc' = [loc EXCEPT ![m].v = None]
          /\ UNCHANGED lock
       \/ /\ pc[m] = "lock" /\ Finish(m, "failed")
          /\ lock' \in {lock} \cup (IF lock = None THEN {m} ELSE {})
       \/ /\ pc[m] \in {"applied", "pending"} /\ Finish(m, "failed")
          /\ UNCHANGED lock
    /\ MayHaveEnsured(m)
    /\ UNCHANGED <<recorded, schema, late, history>>

\* The process dies.  Its sessions end one by one: the lock goes with the one,
\* a COMMIT on its way with the other.
Crash(m) ==
    /\ pc[m] \notin {"start", "done"}
    /\ Finish(m, "crashed")
    /\ late' \in {late} \cup (IF pc[m] = "commit" THEN {late \cup {ChangeOf(m)}} ELSE {})
    /\ MayHaveEnsured(m)
    /\ UNCHANGED <<recorded, schema, lock, history>>

\* The connection that holds the lock breaks; its process does not notice.
LoseLock(m) ==
    /\ lock = m /\ Busy(m)
    /\ lock' = None /\ lost' = TRUE
    /\ UNCHANGED <<db, pc, loc, answer, late, stale>>

-----------------------------------------------------------------------------
Step(m) ==
    \/ Start(m) \/ TakeLock(m) \/ EnsureVersionTable(m) \/ ReadApplied(m)
    \/ NextUp(m) \/ NextDown(m) \/ Commit(m) \/ Unlock(m)
    \/ StatusApplied(m) \/ StatusPending(m)

Terminating ==
    /\ \A m \in Migrators : pc[m] = "done" /\ lock # m
    /\ late = {}
    /\ UNCHANGED vars

Next ==
    \/ \E m \in Migrators :
          \/ Step(m) \/ GiveUpCommit(m) \/ Fail(m) \/ Crash(m)
          \/ LoseLock(m) \/ EndSession(m)
    \/ \E c \in late : Settle(c)
    \/ Terminating

Spec == Init /\ [][Next]_vars

\* A statement the database can run is run, a COMMIT it has received is executed
\* or dropped, and the session of a process that is gone ends; nothing has to fail.
FairSpec ==
    /\ Spec
    /\ \A m \in Migrators : WF_vars(Step(m)) /\ WF_vars(EndSession(m))
    /\ WF_vars(\E c \in late : Settle(c))

-----------------------------------------------------------------------------
(* What must hold.                                                         *)

\* "a failing statement leaves the database on the previous version rather than
\* half-migrated": what is recorded is what is there, at every moment a process
\* can die, with or without the lock.
RecordedIsApplied == recorded = schema

\* The lock is enough only for what its holder has seen to the end: no connection
\* with a lock was lost, and nobody read the table while a COMMIT was late.
Kept == ~lost /\ ~stale

\* Nobody applies what another process has applied: an Up that relies on what it
\* has read never meets the objects of a version it is to apply.
NeverAppliedTwice ==
    Kept => \A m \in Migrators :
        pc[m] \in {"next", "commit"} => \A v \in Unapplied(m) :
            loc[m].applied[v] = None => schema[v] = None

\* An Up that succeeds leaves every one of its files recorded as it is: an
\* edited one is refused, and nobody reverts one before the lock is given up.
UpMeansUpToDate ==
    Kept => \A m \in Migrators :
        pc[m] = "unlock" /\ loc[m].command = "up" /\ answer[m] = "ok"
            => \A v \in Files(m) : recorded[v] = Up[m][v]

\* "roll back from the newest": a version is reverted only when no newer one is
\* recorded, by a COMMIT that lands late as well.
NewestFirst(kept) ==
    \A v \in Versions :
        recorded[v] # None /\ recorded'[v] = None /\ kept
            => \A w \in Versions : w > v => recorded[w] = None
NewestRevertedFirst == [][NewestFirst(Kept)]_vars

\* Every process that starts ends, with more than one connection to its pool:
\* again and again there is a moment at which none is on its way.
EveryRunEnds == []<>(\A m \in Migrators : pc[m] \in {"start", "done"})

-----------------------------------------------------------------------------
(* What the repository says of the program and TLC refutes; see README.md. *)

\* "Down rolls back the newest applied migrations", under the lock that "every
\* migrator process takes before touching schema_migrations": only the loss of
\* a lock could excuse another order.
DownRevertsNewest == [][NewestFirst(~lost)]_vars
=============================================================================
