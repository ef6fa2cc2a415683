--------------------------- MODULE MigratorProofs ---------------------------
(***************************************************************************)
(* Proofs about Migrator, for any number of processes, files and versions. *)
(* While no process has lost its lock and none has read the table before a *)
(* late COMMIT had settled, the one that holds the lock knows what         *)
(* schema_migrations records: what it has read, and what it has done.      *)
(***************************************************************************)
EXTENDS Migrator, TLAPS

Held(m) == pc[m] \in {"ensure", "read", "next", "commit", "unlock"}

\* An Up that has reported success and still has the lock.
UpOk(m) == pc[m] = "unlock" /\ loc[m].command = "up" /\ answer[m] = "ok"

\* What the locals of a process say.
ProcInv(m) ==
    /\ pc[m] \in {"start", "lock", "ensure", "read"} => loc[m].ran = {}
    /\ pc[m] = "lock" \/ Held(m) => loc[m].command \in {"up", "down"}
    /\ pc[m] = "commit" =>
         /\ loc[m].v \in Versions \ loc[m].ran
         /\ loc[m].command = "up" => loc[m].v \in Files(m)
         /\ loc[m].command = "down" => loc[m].v \in NewestApplied(m)

\* What the lock is worth: whoever relies on what it has read is alone, and no
\* COMMIT of another is on its way.
LockInv(m) ==
    Kept =>
        /\ Held(m) => lock = m
        /\ pc[m] \in {"next", "commit"} \/ UpOk(m) => late = {}
        /\ pc[m] \in {"next", "commit"} =>
             \A v \in Versions :
                 recorded[v] = IF v \in loc[m].ran THEN RowOf(m, v) ELSE loc[m].applied[v]
        /\ UpOk(m) => \A v \in Files(m) : recorded[v] = Up[m][v]

\* At most one COMMIT is late, and if it takes a row away, the newest.
LateInv ==
    Kept => \A c, d \in late :
        /\ c = d
        /\ c.row = None => \A w \in Versions : w > c.v => recorded[w] = None

Inv == TypeOK /\ RecordedIsApplied /\ LateInv /\ \A m \in Migrators : ProcInv(m) /\ LockInv(m)

LEMMA InvSafe == Inv => NeverAppliedTwice /\ UpMeansUpToDate
  <1> SUFFICES ASSUME Inv PROVE NeverAppliedTwice /\ UpMeansUpToDate
    OBVIOUS
  <1>1. NeverAppliedTwice
    BY DEF Inv, LockInv, RecordedIsApplied, NeverAppliedTwice, Unapplied, Files
  <1>2. UpMeansUpToDate
    BY DEF Inv, LockInv, UpOk, UpMeansUpToDate
  <1> QED BY <1>1, <1>2

LEMMA InvInit == Init => Inv
  <1> SUFFICES ASSUME Init PROVE Inv
    OBVIOUS
  <1>1. TypeOK
    BY DEF Init, TypeOK, NoRow, NoLocals, Row, Labels, Answers
  <1>2. RecordedIsApplied /\ LateInv /\ \A m \in Migrators : ProcInv(m) /\ LockInv(m)
    BY DEF Init, RecordedIsApplied, LateInv, ProcInv, LockInv, Held, UpOk, NoLocals
  <1> QED BY <1>1, <1>2 DEF Inv

-----------------------------------------------------------------------------
(* What one process does to the others.                                    *)

Locals == [command : {"up", "down", "status", None}, applied : [Versions -> Row],
           v : Versions \cup {None}, ran : SUBSET Versions]

\* Only m has moved, to label and with locals l.
Moved(m, label, l, a) ==
    /\ pc' = [pc EXCEPT ![m] = label] /\ label \in Labels
    /\ loc' = [loc EXCEPT ![m] = l] /\ l \in Locals
    /\ answer' = [answer EXCEPT ![m] = a] /\ a \in Answers

\* What m may change under the eyes of the others: nothing they rely on, unless
\* it holds the lock, or nobody does.
Discreet(m) ==
    /\ Kept' => Kept
    /\ \/ UNCHANGED <<recorded, lock, late>>
       \/ lock \in {m, None}
       \/ ~Kept'

LEMMA OthersKept ==
    ASSUME Inv, NEW m \in Migrators, NEW label, NEW l, NEW a, Moved(m, label, l, a),
           Discreet(m)
    PROVE  \A q \in Migrators \ {m} : ProcInv(q)' /\ LockInv(q)'
  <1> SUFFICES ASSUME NEW q \in Migrators \ {m} PROVE ProcInv(q)' /\ LockInv(q)'
    OBVIOUS
  <1>1. /\ pc'[q] = pc[q] /\ loc'[q] = loc[q] /\ answer'[q] = answer[q] /\ q # None
        /\ ProcInv(q) /\ LockInv(q)
    BY MigratorAssumption DEF Moved, Inv, TypeOK
  <1>2. ProcInv(q)'
    BY <1>1 DEF ProcInv, Held, NewestApplied, Applied
  <1>3. LockInv(q)'
    <2>1. Kept' /\ Held(q)' => UNCHANGED <<recorded, lock, late>>
      BY <1>1 DEF LockInv, Held, Discreet
    <2>2. UpOk(q)' = UpOk(q)
      BY <1>1 DEF UpOk
    <2> QED BY <1>1, <2>1, <2>2 DEF LockInv, Held, UpOk, RowOf, Discreet
  <1> QED BY <1>2, <1>3

\* A step that neither applies nor gives up a COMMIT leaves the late ones as they are.
LEMMA LateKept ==
    ASSUME Inv, UNCHANGED <<recorded, late>>, Kept' => Kept
    PROVE  LateInv' /\ late' \subseteq Change
  BY DEF Inv, TypeOK, LateInv

\* What m itself has to show.
LEMMA ProcessStep ==
    ASSUME Inv, NEW m \in Migrators, NEW label, NEW l, NEW a, Moved(m, label, l, a),
           Discreet(m),
           table' \in BOOLEAN, lost' \in BOOLEAN, stale' \in BOOLEAN,
           lock' \in Migrators \cup {None},
           recorded' \in [Versions -> Row], schema' = recorded',
           late' \subseteq Change, LateInv',
           ProcInv(m)', LockInv(m)'
    PROVE  Inv'
  <1>1. TypeOK'
    BY DEF Inv, TypeOK, RecordedIsApplied, Moved, Locals
  <1>2. \A q \in Migrators : ProcInv(q)' /\ LockInv(q)'
    BY OthersKept
  <1> QED BY <1>1, <1>2 DEF Inv, RecordedIsApplied

\* The state of a process.
LEMMA OwnState ==
    ASSUME Inv, NEW m \in Migrators
    PROVE  /\ loc[m] \in Locals /\ pc[m] \in Labels /\ answer[m] \in Answers
           /\ recorded \in [Versions -> Row] /\ schema = recorded
           /\ table \in BOOLEAN /\ lost \in BOOLEAN /\ stale \in BOOLEAN
           /\ lock \in Migrators \cup {None}
           /\ ProcInv(m) /\ LockInv(m)
           /\ loc = [loc EXCEPT ![m] = loc[m]] /\ pc = [pc EXCEPT ![m] = pc[m]]
           /\ answer = [answer EXCEPT ![m] = answer[m]]
  BY DEF Inv, TypeOK, RecordedIsApplied, Locals

\* The locals after a step, field by field.
LEMMA MovedState ==
    ASSUME Inv, NEW m \in Migrators, NEW label, NEW l, NEW a, Moved(m, label, l, a)
    PROVE  pc'[m] = label /\ loc'[m] = l /\ answer'[m] = a
  BY DEF Moved, Inv, TypeOK

\* A process stops with its lock to give up: only an "ok" of Up has to show something.
LEMMA ReturnStep ==
    ASSUME Inv, NEW m \in Migrators, Held(m), NEW a \in Answers, Return(m, a),
           UNCHANGED <<recorded, schema, lock, lost, stale>>, table' \in BOOLEAN,
           late' \subseteq Change, LateInv', Discreet(m),
           \/ UNCHANGED loc
           \/ loc' = [loc EXCEPT ![m].v = None],
           a = "ok" /\ loc[m].command = "up" /\ Kept =>
             late' = {} /\ \A v \in Files(m) : recorded[v] = Up[m][v]
    PROVE  Inv'
  <1> USE OwnState
  <1>1. PICK l \in Locals : /\ l \in {loc[m], [loc[m] EXCEPT !.v = None]}
                            /\ Moved(m, "unlock", l, a)
                            /\ l.command = loc[m].command
    <2>1. CASE UNCHANGED loc
      <3>1. Moved(m, "unlock", loc[m], a)
        BY <2>1 DEF Moved, Return, Goto, Labels
      <3> QED BY <3>1
    <2>2. CASE loc' = [loc EXCEPT ![m].v = None]
      <3>1. [loc[m] EXCEPT !.v = None] \in Locals
        BY DEF Locals
      <3>2. Moved(m, "unlock", [loc[m] EXCEPT !.v = None], a)
        BY <2>2, <3>1 DEF Moved, Return, Goto, Labels
      <3>3. [loc[m] EXCEPT !.v = None].command = loc[m].command
        BY DEF Locals
      <3> QED BY <3>1, <3>2, <3>3
    <2> QED BY <2>1, <2>2
  <1>2. pc'[m] = "unlock" /\ loc'[m] = l /\ answer'[m] = a
    BY <1>1, MovedState
  <1>3. ProcInv(m)'
    BY <1>1, <1>2 DEF ProcInv, Held
  <1>4. LockInv(m)'
    BY <1>1, <1>2 DEF LockInv, Held, UpOk, Kept
  <1> QED BY <1>1, <1>3, <1>4, ProcessStep

\* The same where nothing but the process has moved.
LEMMA StopStep ==
    ASSUME Inv, NEW m \in Migrators, Held(m), NEW a \in Answers, Return(m, a),
           UNCHANGED <<recorded, schema, lock, late, history>>, table' \in BOOLEAN,
           \/ UNCHANGED loc
           \/ loc' = [loc EXCEPT ![m].v = None],
           a = "ok" /\ loc[m].command = "up" /\ Kept =>
             late = {} /\ \A v \in Files(m) : recorded[v] = Up[m][v]
    PROVE  Inv'
  <1>1. Discreet(m) /\ (Kept' => Kept)
    BY DEF Discreet, history, Kept
  <1>2. LateInv' /\ late' \subseteq Change
    BY <1>1, LateKept
  <1> QED BY <1>1, <1>2, ReturnStep DEF history

\* A process that is done owes nothing.
LEMMA DoneStep ==
    ASSUME Inv, NEW m \in Migrators, NEW a \in Answers, Goto(m, "done"),
           loc' = [loc EXCEPT ![m] = NoLocals], answer' = [answer EXCEPT ![m] = a],
           UNCHANGED <<recorded, schema, history>>, table' \in BOOLEAN,
           late' \subseteq Change, LateInv',
           late' = late \/ lock = m \/ ~Kept,
           lock' = lock \/ (lock = m /\ lock' = None) \/ (lock = None /\ lock' = m)
    PROVE  Inv'
  <1> USE OwnState DEF history
  <1>0. Discreet(m)
    BY DEF Discreet, Kept
  <1>1. Moved(m, "done", NoLocals, a)
    BY DEF Moved, Goto, Labels, NoLocals, Locals, NoRow, Row
  <1>2. pc'[m] = "done"
    BY <1>1, MovedState
  <1>3. ProcInv(m)' /\ LockInv(m)'
    BY <1>2 DEF ProcInv, LockInv, Held, UpOk
  <1> QED BY <1>0, <1>1, <1>3, ProcessStep

LEMMA StartStep == ASSUME Inv, NEW m \in Migrators, Start(m) PROVE Inv'
  <1> USE OwnState DEF db
  <1>1. PICK c \in Commands[m] :
          /\ loc' = [loc EXCEPT ![m].command = c]
          /\ Goto(m, IF c = "status" THEN "applied" ELSE "lock")
    BY DEF Start
  <1> DEFINE l == [loc[m] EXCEPT !.command = c]
             label == IF c = "status" THEN "applied" ELSE "lock"
  <1>2. c \in {"up", "down", "status"} /\ pc[m] = "start" /\ loc[m].ran = {}
        /\ UNCHANGED <<table, recorded, schema, lock, answer, late, lost, stale>>
    BY MigratorAssumption DEF Start, ProcInv, history
  <1>3. l \in Locals /\ l.ran = {} /\ l.command = c /\ label \in {"applied", "lock"}
        /\ (label = "lock" => c \in {"up", "down"})
    BY <1>2 DEF Locals
  <1>4. Moved(m, label, l, answer[m])
    BY <1>1, <1>2, <1>3 DEF Moved, Goto, Labels
  <1> HIDE DEF l, label
  <1>5. \E x, y : /\ Moved(m, x, y, answer[m]) /\ y.ran = {} /\ x \in {"applied", "lock"}
                  /\ x = "lock" => y.command \in {"up", "down"}
    BY <1>3, <1>4
  <1>6. PICK x, y : /\ Moved(m, x, y, answer[m]) /\ y.ran = {} /\ x \in {"applied", "lock"}
                    /\ x = "lock" => y.command \in {"up", "down"}
    BY <1>5
  <1>7. pc'[m] = x /\ loc'[m] = y
    BY <1>6, MovedState
  <1>8. ProcInv(m)' /\ LockInv(m)'
    BY <1>6, <1>7 DEF ProcInv, LockInv, Held, UpOk
  <1>9. Discreet(m) /\ LateInv' /\ late' \subseteq Change
    BY <1>2, LateKept DEF Discreet, Kept
  <1> QED BY <1>2, <1>6, <1>8, <1>9, ProcessStep

LEMMA LockedSteps ==
    ASSUME Inv, NEW m \in Migrators, TakeLock(m) \/ EnsureVersionTable(m)
    PROVE  Inv'
  <1> USE OwnState DEF db
  <1>1. PICK label \in {"ensure", "read"} : Moved(m, label, loc[m], answer[m])
    BY DEF TakeLock, EnsureVersionTable, Goto, Moved, Labels
  <1>2. pc'[m] = label /\ loc'[m] = loc[m]
    BY <1>1, MovedState
  <1>3. /\ UNCHANGED <<recorded, schema, late, lost, stale>> /\ table' \in BOOLEAN
        /\ \/ pc[m] = "lock" /\ lock = None /\ lock' = m
           \/ pc[m] = "ensure" /\ lock' = lock
    <2>1. table \in BOOLEAN
      BY OwnState
    <2> QED BY <2>1 DEF TakeLock, EnsureVersionTable, history
  <1>4. ProcInv(m)'
    BY <1>2, <1>3 DEF ProcInv, Held
  <1>5. LockInv(m)'
    BY <1>2, <1>3 DEF LockInv, Held, UpOk, Kept
  <1>6. Discreet(m) /\ LateInv' /\ late' \subseteq Change
    BY <1>3, LateKept DEF Discreet, Kept
  <1> QED BY <1>1, <1>3, <1>4, <1>5, <1>6, ProcessStep

LEMMA ReadStep == ASSUME Inv, NEW m \in Migrators, ReadApplied(m) PROVE Inv'
  <1> USE OwnState DEF db
  <1>1. /\ UNCHANGED <<table, recorded, schema, lock, answer, late, lost>> /\ pc[m] = "read"
        /\ stale' = (stale \/ late # {}) /\ stale' \in BOOLEAN
        /\ loc[m].ran = {} /\ loc[m].command \in {"up", "down"}
    BY DEF ReadApplied, ProcInv, Held
  <1>2. PICK l \in Locals : /\ l = [loc[m] EXCEPT !.applied = recorded]
                            /\ l.ran = {} /\ l.command \in {"up", "down"}
                            /\ l.applied = recorded
    <2>1. loc[m] \in Locals /\ recorded \in [Versions -> Row]
      BY OwnState
    <2>2. [loc[m] EXCEPT !.applied = recorded] \in Locals
      BY <2>1 DEF Locals
    <2>3. [loc[m] EXCEPT !.applied = recorded].applied = recorded
      BY <2>1 DEF Locals
    <2>4. /\ [loc[m] EXCEPT !.applied = recorded].ran = loc[m].ran
          /\ [loc[m] EXCEPT !.applied = recorded].command = loc[m].command
      BY <2>1 DEF Locals
    <2> QED BY <1>1, <2>2, <2>3, <2>4
  <1>3. Moved(m, "next", l, answer[m])
    BY <1>1, <1>2 DEF ReadApplied, Goto, Moved, Labels
  <1>4. pc'[m] = "next" /\ loc'[m] = l
    BY <1>3, MovedState
  <1>5. Kept' => Kept /\ late = {}
    BY <1>1 DEF Kept
  <1>6. ProcInv(m)' /\ LockInv(m)'
    BY <1>1, <1>2, <1>4, <1>5 DEF ProcInv, LockInv, Held, UpOk
  <1>7. Discreet(m) /\ LateInv' /\ late' \subseteq Change
    BY <1>1, <1>5, LateKept DEF Discreet
  <1> QED BY <1>1, <1>3, <1>6, <1>7, ProcessStep

-----------------------------------------------------------------------------
(* The loops and the transactions.                                         *)

\* A process that has done v.
LEMMA RanFields ==
    ASSUME NEW l \in Locals, NEW v \in Versions
    PROVE  \E k \in Locals :
             /\ k = [l EXCEPT !.ran = l.ran \cup {v}]
             /\ k.ran = l.ran \cup {v} /\ k.command = l.command /\ k.applied = l.applied
  <1>1. [l EXCEPT !.ran = l.ran \cup {v}] \in Locals
    BY DEF Locals
  <1>2. [l EXCEPT !.ran = l.ran \cup {v}].ran = l.ran \cup {v}
    BY DEF Locals
  <1>3. /\ [l EXCEPT !.ran = l.ran \cup {v}].command = l.command
        /\ [l EXCEPT !.ran = l.ran \cup {v}].applied = l.applied
    BY DEF Locals
  <1> QED BY <1>1, <1>2, <1>3

\* The transaction of v is open, or there was nothing to revert.
LEMMA ScriptStep ==
    ASSUME Inv, NEW m \in Migrators, NEW v \in Versions \ loc[m].ran, pc[m] = "next",
           RunScript(m, v),
           loc[m].command = "up" => v \in Files(m),
           loc[m].command = "down" => v \in NewestApplied(m)
    PROVE  Inv'
  <1> USE OwnState
  <1>0. /\ UNCHANGED <<table, recorded, schema, lock, late, lost, stale>>
        /\ Discreet(m) /\ LateInv' /\ late' \subseteq Change
        /\ loc[m] \in Locals /\ loc[m].command \in {"up", "down"}
    <2>1. UNCHANGED <<table, recorded, schema, lock, late, lost, stale>>
      BY DEF RunScript, db, history
    <2> QED BY <2>1, LateKept DEF Discreet, Kept, ProcInv, Held
  <1>1. CASE Return(m, "failed") /\ UNCHANGED loc
    <2>1. Held(m) /\ "failed" \in Answers
      BY DEF Held, Answers
    <2> QED BY <1>0, <1>1, <2>1, StopStep DEF history
  <1>2. CASE /\ Goto(m, "commit") /\ loc' = [loc EXCEPT ![m].v = v] /\ UNCHANGED answer
    <2>1. PICK l \in Locals : /\ l = [loc[m] EXCEPT !.v = v]
                              /\ l.v = v /\ l.ran = loc[m].ran /\ l.command = loc[m].command
                              /\ l.applied = loc[m].applied
      <3>1. [loc[m] EXCEPT !.v = v] \in Locals
        BY <1>0 DEF Locals
      <3>2. [loc[m] EXCEPT !.v = v].v = v
        BY <1>0 DEF Locals
      <3>3. /\ [loc[m] EXCEPT !.v = v].ran = loc[m].ran
            /\ [loc[m] EXCEPT !.v = v].command = loc[m].command
            /\ [loc[m] EXCEPT !.v = v].applied = loc[m].applied
        BY <1>0 DEF Locals
      <3> QED BY <3>1, <3>2, <3>3
    <2>2. Moved(m, "commit", l, answer[m])
      BY <1>2, <2>1 DEF Goto, Moved, Labels
    <2>3. pc'[m] = "commit" /\ loc'[m] = l
      BY <2>2, MovedState
    <2>4. Applied(m)' = Applied(m) /\ Files(m)' = Files(m)
      BY <2>1, <2>3 DEF Applied, Files
    <2>5. ProcInv(m)'
      BY <1>0, <2>1, <2>3, <2>4 DEF ProcInv, Held, NewestApplied
    <2>6. LockInv(m)'
      BY <1>0, <2>1, <2>3 DEF LockInv, Held, UpOk, RowOf, Kept
    <2> QED BY <1>0, <2>2, <2>5, <2>6, ProcessStep
  <1>3. CASE /\ loc[m].command = "down" /\ schema[v] = None
             /\ loc' = [loc EXCEPT ![m].ran = loc[m].ran \cup {v}]
             /\ UNCHANGED <<pc, answer>>
    <2>1. PICK l \in Locals : /\ l = [loc[m] EXCEPT !.ran = loc[m].ran \cup {v}]
                              /\ l.ran = loc[m].ran \cup {v} /\ l.command = loc[m].command
                              /\ l.applied = loc[m].applied
      BY <1>0, RanFields
    <2>2. Moved(m, "next", l, answer[m])
      BY <1>3, <2>1 DEF Moved, Labels
    <2>3. pc'[m] = "next" /\ loc'[m] = l
      BY <2>2, MovedState
    <2>4. ProcInv(m)'
      BY <1>0, <2>1, <2>3 DEF ProcInv, Held
    <2>5. LockInv(m)'
      BY <1>0, <1>3, <2>1, <2>3 DEF LockInv, Held, UpOk, RowOf, Kept
    <2> QED BY <1>0, <2>2, <2>4, <2>5, ProcessStep
  <1> QED BY <1>1, <1>2, <1>3 DEF RunScript

LEMMA NextUpStep == ASSUME Inv, NEW m \in Migrators, NextUp(m) PROVE Inv'
  <1>1. /\ pc[m] = "next" /\ loc[m].command = "up" /\ Held(m) /\ LockInv(m)
        /\ {"ok", "edited"} \subseteq Answers
    BY OwnState DEF NextUp, Held, Answers
  <1>2. CASE Unapplied(m) = {} /\ Stop(m, "ok")
    <2>1. Kept => late = {} /\ \A v \in Files(m) : recorded[v] = Up[m][v]
      BY <1>1, <1>2 DEF LockInv, Unapplied, RowOf, Files
    <2> QED BY <1>1, <1>2, <2>1, StopStep, OwnState DEF Stop, db
  <1>3. ASSUME NEW v \in Unapplied(m), Stop(m, "edited") PROVE Inv'
    BY <1>1, <1>3, StopStep, OwnState DEF Stop, db
  <1>4. ASSUME NEW v \in Unapplied(m), RunScript(m, v) PROVE Inv'
    BY <1>1, <1>4, ScriptStep DEF Unapplied, Files
  <1> QED BY <1>2, <1>3, <1>4 DEF NextUp

LEMMA NextDownStep == ASSUME Inv, NEW m \in Migrators, NextDown(m) PROVE Inv'
  <1>1. /\ pc[m] = "next" /\ loc[m].command = "down" /\ Held(m)
        /\ {"ok", "missing", "irreversible"} \subseteq Answers
    BY DEF NextDown, Held, Answers
  <1>2. ASSUME NEW a \in {"ok", "missing", "irreversible"}, Stop(m, a) PROVE Inv'
    BY <1>1, <1>2, StopStep, OwnState DEF Stop, db
  <1>3. ASSUME NEW v \in NewestApplied(m), RunScript(m, v) PROVE Inv'
    BY <1>1, <1>3, ScriptStep DEF NewestApplied, Applied
  <1> QED BY <1>2, <1>3 DEF NextDown

\* The script and its row are committed together; what the process knows of the
\* table stays true as long as it knows that it has run.
LEMMA CommitStep == ASSUME Inv, NEW m \in Migrators, Commit(m) PROVE Inv'
  <1> USE OwnState
  <1>0. PICK v \in Versions \ loc[m].ran : v = loc[m].v
    BY DEF Commit, ProcInv
  <1>1. /\ pc[m] = "commit" /\ Held(m) /\ RowOf(m, v) \in Row /\ loc[m] \in Locals
        /\ loc[m].command \in {"up", "down"}
        /\ UNCHANGED <<table, lock, answer, late, lost, stale>>
        /\ recorded' = [recorded EXCEPT ![v] = RowOf(m, v)]
        /\ schema' = [schema EXCEPT ![v] = RowOf(m, v)]
    BY <1>0, MigratorAssumption
       DEF Commit, Apply, ChangeOf, Held, ProcInv, RowOf, Row, history
  <1>2. /\ recorded' \in [Versions -> Row] /\ schema' = recorded' /\ recorded'[v] = RowOf(m, v)
        /\ \A u \in Versions \ {v} : recorded'[u] = recorded[u]
    BY <1>1
  <1>3. /\ Kept' => Kept /\ lock = m /\ late' = {}
        /\ Discreet(m) /\ LateInv' /\ late' \subseteq Change
    <2>1. Kept' => Kept /\ lock = m /\ late' = {}
      BY <1>1 DEF LockInv, Kept
    <2> QED BY <1>1, <2>1 DEF Discreet, LateInv, Inv, TypeOK
  <1>4. PICK l \in Locals : /\ l = [loc[m] EXCEPT !.ran = loc[m].ran \cup {v}]
                            /\ l.ran = loc[m].ran \cup {v} /\ l.command = loc[m].command
                            /\ l.applied = loc[m].applied
    BY <1>1, RanFields
  <1>5. Moved(m, "next", l, answer[m])
    BY <1>0, <1>1, <1>4 DEF Commit, Goto, Moved, Labels
  <1>6. pc'[m] = "next" /\ loc'[m] = l
    BY <1>5, MovedState
  <1>7. ProcInv(m)'
    BY <1>1, <1>4, <1>6 DEF ProcInv, Held
  <1>8. LockInv(m)'
    BY <1>1, <1>2, <1>3, <1>4, <1>6 DEF LockInv, Held, UpOk, RowOf
  <1> QED BY <1>1, <1>2, <1>3, <1>5, <1>7, <1>8, ProcessStep

\* What a process that stops waiting for its COMMIT leaves behind: the only late
\* one, and of a Down the newest version, as it has just been alone.
LEMMA Abandoned ==
    ASSUME Inv, NEW m \in Migrators, pc[m] = "commit", late' = late \cup {ChangeOf(m)},
           UNCHANGED <<recorded, history>>
    PROVE  late' \subseteq Change /\ LateInv' /\ Discreet(m) /\ (Kept => lock = m)
  <1> USE OwnState
  <1>1. /\ loc[m].v \in Versions /\ loc[m].command \in {"up", "down"} /\ ProcInv(m)
        /\ Kept => /\ late = {} /\ lock = m
                   /\ \A w \in Versions :
                        recorded[w] = IF w \in loc[m].ran THEN RowOf(m, w) ELSE loc[m].applied[w]
    BY DEF ProcInv, LockInv, Held
  <1>2. RowOf(m, loc[m].v) \in Row
    BY <1>1, MigratorAssumption DEF RowOf, Row
  <1>3. ChangeOf(m) \in Change /\ ChangeOf(m).v = loc[m].v
        /\ ChangeOf(m).row = RowOf(m, loc[m].v)
    BY <1>1, <1>2 DEF ChangeOf, Change
  <1>4. ASSUME Kept, ChangeOf(m).row = None, NEW w \in Versions, w > ChangeOf(m).v
        PROVE  recorded[w] = None
    <2>1. loc[m].command = "down" /\ loc[m].v \in NewestApplied(m)
      BY <1>1, <1>3, <1>4 DEF RowOf, ProcInv, Files
    <2>2. recorded[w] # None => w \in Applied(m)
      BY <1>1, <1>4, <2>1 DEF Applied, RowOf
    <2>3. w \notin Applied(m)
      BY <1>1, <1>3, <1>4, <2>1, MigratorAssumption DEF NewestApplied
    <2> QED BY <2>2, <2>3
  <1>5. Kept' = Kept
    BY DEF Kept, history
  <1>6. LateInv'
    BY <1>1, <1>4, <1>5 DEF LateInv
  <1> QED BY <1>1, <1>3, <1>5, <1>6 DEF Discreet, Inv, TypeOK

LEMMA GiveUpStep == ASSUME Inv, NEW m \in Migrators, GiveUpCommit(m) PROVE Inv'
  <1>1. /\ pc[m] = "commit" /\ Held(m) /\ "failed" \in Answers /\ Return(m, "failed")
        /\ UNCHANGED <<table, recorded, schema, lock, lost, stale>>
        /\ loc' = [loc EXCEPT ![m].v = None]
    BY DEF GiveUpCommit, Held, Answers, db, history
  <1>2. late' \subseteq Change /\ LateInv' /\ Discreet(m)
    BY <1>1, Abandoned DEF GiveUpCommit, history
  <1> QED BY <1>1, <1>2, ReturnStep, OwnState

\* The database settles a late COMMIT: nobody relies on the rows meanwhile.
LEMMA SettleStep == ASSUME Inv, NEW c \in late, Settle(c) PROVE Inv'
  <1>1. /\ c \in Change /\ late' = late \ {c}
        /\ UNCHANGED <<table, lock, pc, loc, answer, lost, stale>>
    BY DEF Settle, Land, Drop, Apply, db, history, Inv, TypeOK
  <1>2. /\ recorded' \in [Versions -> Row] /\ schema' = recorded'
        /\ Land(c) \/ recorded' = recorded
    BY <1>1 DEF Settle, Land, Drop, Apply, db, Inv, TypeOK, RecordedIsApplied, Change
  <1>3. TypeOK'
    BY <1>1, <1>2 DEF Inv, TypeOK
  <1>4. LateInv'
    <2>1. Kept' => Kept /\ \A d \in late : d = c
      BY <1>1 DEF Kept, Inv, LateInv
    <2> QED BY <1>1, <2>1 DEF LateInv
  <1>5. ASSUME NEW q \in Migrators PROVE ProcInv(q)' /\ LockInv(q)'
    <2>1. ProcInv(q) /\ LockInv(q)
      BY DEF Inv
    <2>2. ProcInv(q)'
      BY <1>1, <2>1 DEF ProcInv, Held, NewestApplied, Applied
    <2>3. Kept' => Kept /\ ~(pc'[q] \in {"next", "commit"}) /\ ~UpOk(q)'
      BY <1>1, <2>1 DEF Kept, LockInv, UpOk
    <2>4. LockInv(q)'
      BY <1>1, <2>1, <2>3 DEF LockInv, Held
    <2> QED BY <2>2, <2>4
  <1> QED BY <1>2, <1>3, <1>4, <1>5 DEF Inv, RecordedIsApplied

-----------------------------------------------------------------------------
(* Unlock, status and what goes wrong.                                     *)

\* A process that ends gives up its lock, if it has it, or leaves it to its session.
LEMMA EndStep ==
    ASSUME Inv, NEW m \in Migrators,
           Unlock(m) \/ StatusPending(m) \/ Crash(m)
             \/ (Finish(m, "failed") /\ UNCHANGED <<recorded, schema, late, history>>
                  /\ table' \in BOOLEAN
                  /\ (lock' = lock \/ (lock = None /\ lock' = m)))
    PROVE  Inv'
  <1> USE OwnState
  <1>1. PICK a \in Answers : /\ Goto(m, "done")
                             /\ loc' = [loc EXCEPT ![m] = NoLocals]
                             /\ answer' = [answer EXCEPT ![m] = a]
    <2>1. CASE Unlock(m)
      BY <2>1 DEF Unlock
    <2>2. CASE ~Unlock(m)
      BY <2>2 DEF StatusPending, Crash, Finish, Answers
    <2> QED BY <2>1, <2>2
  <1>2. /\ UNCHANGED <<recorded, schema, history>> /\ table' \in BOOLEAN
        /\ lock' = lock \/ (lock = m /\ lock' = None) \/ (lock = None /\ lock' = m)
    <2>1. table \in BOOLEAN
      BY OwnState
    <2> QED BY <2>1 DEF Unlock, StatusPending, Crash, MayHaveEnsured, db
  <1>3. /\ late' \subseteq Change /\ LateInv'
        /\ late' = late \/ lock = m \/ ~Kept
    <2>1. CASE late' = late
      <3>1. Kept' => Kept
        BY <1>2 DEF Kept, history
      <3> QED BY <1>2, <2>1, <3>1, LateKept
    <2>2. CASE late' # late
      <3>1. pc[m] = "commit" /\ late' = late \cup {ChangeOf(m)}
        BY <2>2 DEF Unlock, StatusPending, Crash
      <3> QED BY <1>2, <3>1, Abandoned
    <2> QED BY <2>1, <2>2
  <1> QED BY <1>1, <1>2, <1>3, DoneStep

LEMMA StatusStep == ASSUME Inv, NEW m \in Migrators, StatusApplied(m) PROVE Inv'
  <1> USE OwnState
  <1>1. /\ UNCHANGED <<table, recorded, schema, lock, late, lost, stale>> /\ pc[m] = "applied"
        /\ table' \in BOOLEAN
    BY DEF StatusApplied, db, history
  <1>2. CASE Finish(m, "failed")
    BY <1>1, <1>2, EndStep DEF history
  <1>3. CASE /\ loc' = [loc EXCEPT ![m].applied = recorded] /\ Goto(m, "pending")
             /\ UNCHANGED answer
    <2>1. loc[m] \in Locals /\ recorded \in [Versions -> Row]
      BY OwnState
    <2>2. PICK l \in Locals : l = [loc[m] EXCEPT !.applied = recorded]
      BY <2>1 DEF Locals
    <2>3. Moved(m, "pending", l, answer[m])
      BY <1>3, <2>2 DEF Goto, Moved, Labels
    <2>4. pc'[m] = "pending"
      BY <2>3, MovedState
    <2>5. ProcInv(m)' /\ LockInv(m)'
      BY <2>4 DEF ProcInv, LockInv, Held, UpOk
    <2>6. Discreet(m) /\ LateInv' /\ late' \subseteq Change
      BY <1>1, LateKept DEF Discreet, Kept
    <2> QED BY <1>1, <2>3, <2>5, <2>6, ProcessStep
  <1> QED BY <1>2, <1>3 DEF StatusApplied

LEMMA FailStep == ASSUME Inv, NEW m \in Migrators, Fail(m) PROVE Inv'
  <1>0. UNCHANGED <<recorded, schema, late, history>> /\ table' \in BOOLEAN
    <2>1. table \in BOOLEAN
      BY OwnState
    <2> QED BY <2>1 DEF Fail, MayHaveEnsured
  <1>1. CASE Busy(m) /\ Return(m, "failed") /\ loc' = [loc EXCEPT ![m].v = None]
             /\ UNCHANGED lock
    <2>1. Held(m) /\ "failed" \in Answers
      BY <1>1 DEF Held, Busy, Answers
    <2> QED BY <1>0, <1>1, <2>1, StopStep
  <1>2. CASE Finish(m, "failed") /\ (lock' = lock \/ (lock = None /\ lock' = m))
    BY <1>0, <1>2, EndStep
  <1> QED BY <1>1, <1>2 DEF Fail

\* The lock goes, noticed by nobody or with the session of a process that is gone.
LEMMA SessionStep ==
    ASSUME Inv, NEW m \in Migrators, LoseLock(m) \/ EndSession(m) PROVE Inv'
  <1> USE OwnState
  <1>1. Moved(m, pc[m], loc[m], answer[m])
    BY DEF LoseLock, EndSession, Moved
  <1>2. /\ lock = m /\ lock' = None
        /\ UNCHANGED <<table, recorded, schema, pc, loc, answer, late, stale>>
        /\ lost' \in BOOLEAN
        /\ Kept' => Kept /\ pc[m] = "done"
    <2>1. CASE LoseLock(m)
      BY <2>1 DEF LoseLock, db, Kept
    <2>2. CASE EndSession(m)
      <3>1. lost \in BOOLEAN
        BY OwnState
      <3>2. Kept' = Kept
        BY <2>2 DEF EndSession, history, Kept
      <3> QED BY <2>2, <3>1, <3>2 DEF EndSession, db, history
    <2> QED BY <2>1, <2>2
  <1>3. ProcInv(m)' /\ LockInv(m)'
    BY <1>2 DEF ProcInv, LockInv, Held, UpOk, NewestApplied, Applied
  <1>4. Discreet(m) /\ LateInv' /\ late' \subseteq Change
    BY <1>2, LateKept DEF Discreet
  <1> QED BY <1>1, <1>2, <1>3, <1>4, ProcessStep

LEMMA InvNext == Inv /\ [Next]_vars => Inv'
  <1> SUFFICES ASSUME Inv, [Next]_vars PROVE Inv'
    OBVIOUS
  <1>1. ASSUME UNCHANGED vars PROVE Inv'
    BY <1>1 DEF vars, Inv, TypeOK, RecordedIsApplied, LateInv, Kept, ProcInv, LockInv,
                Held, UpOk, RowOf, NewestApplied, Applied
  <1>2. ASSUME NEW m \in Migrators, Step(m) PROVE Inv'
    BY <1>2, StartStep, LockedSteps, ReadStep, NextUpStep, NextDownStep, CommitStep,
       EndStep, StatusStep DEF Step
  <1>3. ASSUME NEW m \in Migrators,
               GiveUpCommit(m) \/ Fail(m) \/ Crash(m) \/ LoseLock(m) \/ EndSession(m)
        PROVE  Inv'
    BY <1>3, GiveUpStep, FailStep, EndStep, SessionStep
  <1>4. ASSUME NEW c \in late, Settle(c) PROVE Inv'
    BY <1>4, SettleStep
  <1> QED BY <1>1, <1>2, <1>3, <1>4 DEF Next, Terminating

-----------------------------------------------------------------------------
(* The theorems.                                                           *)

\* The inductive invariant: what every process has read and done, and what the
\* holder of the lock may conclude from it.
THEOREM Invariance == Spec => []Inv
  BY InvInit, InvNext, PTL DEF Spec

\* Every reachable state of the migrator has its type.
THEOREM TypeCorrect == Spec => []TypeOK
  <1>1. Inv => TypeOK
    BY DEF Inv
  <1> QED BY <1>1, Invariance, PTL

\* What schema_migrations records is what the scripts have left, whatever
\* crashes, fails, loses its lock or commits late.
THEOREM TransactionalMigrations == Spec => []RecordedIsApplied
  <1>1. Inv => RecordedIsApplied
    BY DEF Inv
  <1> QED BY <1>1, Invariance, PTL

\* As long as the locks are kept and no COMMIT is late when the table is read, no
\* migration is applied twice: what an Up has not seen applied is not there.
THEOREM AppliedOnce == Spec => []NeverAppliedTwice
  BY InvSafe, Invariance, PTL

\* As long as the locks are kept and no COMMIT is late when the table is read, an
\* Up that reports success has left every file recorded as it is.
THEOREM SuccessMeansUpToDate == Spec => []UpMeansUpToDate
  BY InvSafe, Invariance, PTL

\* Only the transaction of the newest recorded version takes a row away, whether
\* its process still waits for it or not.
LEMMA RevertStep ==
    ASSUME Inv, [Next]_vars, Kept,
           NEW v \in Versions, recorded[v] # None, recorded'[v] = None
    PROVE  \A w \in Versions : w > v => recorded[w] = None
  <1>1. (\E m \in Migrators : Commit(m)) \/ (\E c \in late : Land(c))
    BY DEF Next, Step, vars, db, Terminating, Start, TakeLock, EnsureVersionTable,
           ReadApplied, NextUp, NextDown, RunScript, Stop, Unlock, StatusApplied,
           StatusPending, GiveUpCommit, Settle, Drop, Fail, Crash, LoseLock, EndSession
  <1>2. ASSUME NEW m \in Migrators, Commit(m)
        PROVE  \A w \in Versions : w > v => recorded[w] = None
    <2>1. /\ pc[m] = "commit" /\ recorded' = [recorded EXCEPT ![loc[m].v] = RowOf(m, loc[m].v)]
          /\ ProcInv(m) /\ LockInv(m) /\ recorded \in [Versions -> Row]
          /\ loc[m].ran \in SUBSET Versions /\ loc[m].command \in {"up", "down"}
          /\ loc[m].v \in Versions
      BY <1>2, OwnState DEF Commit, Apply, ChangeOf, Locals, ProcInv, Held
    <2>2. loc[m].v = v /\ RowOf(m, v) = None
      BY <2>1
    <2>3. loc[m].command = "down" /\ v \in NewestApplied(m)
      BY <2>1, <2>2 DEF ProcInv, RowOf, Files
    <2>4. \A w \in Versions : recorded[w] = IF w \in loc[m].ran THEN None ELSE loc[m].applied[w]
      BY <2>1, <2>3 DEF LockInv, RowOf
    <2>5. ASSUME NEW w \in Versions, w > v, recorded[w] # None PROVE FALSE
      <3>1. w \in Applied(m)
        BY <2>4, <2>5 DEF Applied
      <3>2. v >= w
        BY <2>3, <3>1 DEF NewestApplied
      <3> QED BY <2>5, <3>2, MigratorAssumption
    <2> QED BY <2>5
  <1>3. ASSUME NEW c \in late, Land(c)
        PROVE  \A w \in Versions : w > v => recorded[w] = None
    <2>1. /\ c \in Change /\ recorded' = [recorded EXCEPT ![c.v] = c.row]
          /\ recorded \in [Versions -> Row]
      BY <1>3 DEF Land, Apply, Inv, TypeOK
    <2>2. c.v = v /\ c.row = None
      BY <2>1
    <2> QED BY <1>3, <2>2 DEF Inv, LateInv
  <1> QED BY <1>1, <1>2, <1>3

\* As long as the locks are kept and no COMMIT is late when the table is read,
\* Down reverts from the newest, late COMMITs included.
THEOREM RevertsNewestFirst == Spec => NewestRevertedFirst
  <1>1. Inv /\ [Next]_vars => [NewestFirst(Kept)]_vars
    BY RevertStep DEF NewestFirst
  <1> QED BY <1>1, Invariance, PTL DEF Spec, NewestRevertedFirst
=============================================================================
