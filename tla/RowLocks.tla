------------------------------ MODULE RowLocks ------------------------------
(***************************************************************************)
(* Row locks of PostgreSQL at READ COMMITTED, as the statements of the     *)
(* repositories meet them.  An UPDATE or DELETE locks each row it changes  *)
(* until its transaction ends; a statement that meets a row locked by      *)
(* another transaction waits for it.  Foreign-key checks take KEY SHARE    *)
(* locks, which no statement here conflicts with, so they are left out.    *)
(***************************************************************************)

CONSTANTS
    Requests,   \* the requests, each with at most one open transaction
    NoRow       \* NULL

VARIABLES
    held,       \* rows locked by the transaction of each request
    want        \* the locked row each request's statement is waiting for

\* r may lock x, one of the rows its statement has to lock.
Grants(r, x, rows) ==
    /\ x \in rows
    /\ want[r] \in {NoRow, x}
    /\ \A q \in Requests : x \notin held[q]

\* The statement of r meets a row another transaction has locked.
Waits(r, rows) ==
    /\ want[r] = NoRow
    /\ \E x \in rows :
         /\ \E q \in Requests \ {r} : x \in held[q]
         /\ want' = [want EXCEPT ![r] = x]
    /\ UNCHANGED held

Locks(r, rows) ==
    /\ held' = [held EXCEPT ![r] = @ \cup rows]
    /\ want' = [want EXCEPT ![r] = NoRow]

\* The transaction of r ends.
Unlocks(r) ==
    /\ held' = [held EXCEPT ![r] = {}]
    /\ want' = [want EXCEPT ![r] = NoRow]

\* r waits in a cycle: every member of S waits for a row another one holds.
InDeadlock(r) ==
    \E S \in SUBSET {q \in Requests : want[q] # NoRow} :
        /\ r \in S
        /\ S = {h \in Requests : \E q \in S : want[q] \in held[h]}

\* Two transactions never hold the same row.
OneHolder == \A r, q \in Requests : r # q => held[r] \cap held[q] = {}
=============================================================================
