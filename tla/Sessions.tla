------------------------------ MODULE Sessions ------------------------------
(***************************************************************************)
(* Refresh tokens: login, rotation, logout, logout everywhere and reuse    *)
(* detection, over the refresh_tokens table at READ COMMITTED.             *)
(*                                                                         *)
(* `token' holds the COMMITTED rows.  A row a transaction has inserted or  *)
(* changed stays invisible, and locked, until Commit.  Clients may present *)
(* any token that was ever handed out, at any time and more than once: a   *)
(* retry, a second device and a replayed copy look alike to the server.    *)
(***************************************************************************)
EXTENDS Naturals, FiniteSets, RowLocks

CONSTANTS
    Tokens,         \* primary keys of refresh_tokens, and the tokens themselves
    Users,
    Kind, Actor,    \* what each request asks for; the account of login and logoutAll
    NewId,          \* the token each login or refresh draws (NewRefreshToken)
    SeedUser,       \* the owners of the sessions open at the start
    MaxArrivals     \* bound: how many of the requests come at all

Kinds == {"login", "refresh", "logout", "logoutAll", "purge"}
Issuers == {r \in Requests : Kind[r] \in {"login", "refresh"}}

ASSUME TokensAssumption ==
    /\ NoRow \notin Tokens \cup Users
    /\ Kind \in [Requests -> Kinds]
    /\ Actor \in [Requests -> Users]
    /\ NewId \in [Issuers -> Tokens]
    /\ \A r, q \in Issuers : NewId[r] = NewId[q] => r = q
    /\ SeedUser \in [Tokens -> Users \cup {NoRow}]
    /\ \A r \in Issuers : SeedUser[NewId[r]] = NoRow
    /\ MaxArrivals \in Nat

VARIABLES
    token,      \* committed rows of refresh_tokens
    family,     \* history: the login each token descends from
    pc,         \* the statement each request is about to run
    req,        \* arguments and local variables of each request
    answer      \* the response

vars == <<token, family, pc, req, held, want, answer>>

TokenRow == [state    : {"absent", "active", "revoked"},   \* revoked_at
             user     : Users \cup {NoRow},
             replaced : Tokens \cup {NoRow},                \* replaced_by
             expired  : BOOLEAN]                            \* expires_at <= now()
NoToken == [state |-> "absent", user |-> NoRow, replaced |-> NoRow,
            expired |-> FALSE]
\* Mutant: two columns of the INSERT change places.
FreshSwapped(u) == [NoToken EXCEPT !.state = u, !.user = "active"]
Fresh(u) == [NoToken EXCEPT !.state = "active", !.user = u]

Request == [token : Tokens \cup {NoRow},   \* the presented token
            user  : Users \cup {NoRow},    \* session.UserID, or the actor
            late  : BOOLEAN,               \* it had expired when the transaction began
            saw   : SUBSET Tokens,         \* snapshot of RevokeAllForUser
            todo  : SUBSET Tokens,         \* rows of it not locked yet
            hit   : SUBSET Tokens]         \* rows the statement updates
NoRequest == [token |-> NoRow, user |-> NoRow, late |-> FALSE,
              saw |-> {}, todo |-> {}, hit |-> {}]

Labels == {"new", "insert", "rotate", "revoke", "scan", "rows", "commit", "done"}
Answers == {"none", "ok", "401", "500"}

Active == {t \in Tokens : token[t].state = "active"}

TypeOK ==
    /\ token \in [Tokens -> TokenRow]
    /\ family \in [Tokens -> Tokens \cup {NoRow}]
    /\ pc \in [Requests -> Labels]
    /\ req \in [Requests -> Request]
    /\ held \in [Requests -> SUBSET Tokens]
    /\ want \in [Requests -> Tokens \cup {NoRow}]
    /\ answer \in [Requests -> Answers]

Init ==
    /\ token = [t \in Tokens |-> IF SeedUser[t] = NoRow THEN NoToken
                                                        ELSE Fresh(SeedUser[t])]
    /\ family = [t \in Tokens |-> IF SeedUser[t] = NoRow THEN NoRow ELSE t]
    /\ pc = [r \in Requests |-> "new"]
    /\ req = [r \in Requests |-> NoRequest]
    /\ held = [r \in Requests |-> {}]
    /\ want = [r \in Requests |-> NoRow]
    /\ answer = [r \in Requests |-> "none"]

-----------------------------------------------------------------------------
\* The rows the current statement of r still has to lock.
Wanted(r) ==
    CASE pc[r] \in {"rotate", "revoke"} -> {req[r].token}
      [] pc[r] = "rows" -> req[r].todo
      [] OTHER -> {}

Granted(r, t) == Grants(r, t, Wanted(r))

Block(r) ==
    /\ Waits(r, Wanted(r))
    /\ UNCHANGED <<token, family, pc, req, answer>>

Advance(r, label, q, rows) ==
    /\ pc' = [pc EXCEPT ![r] = label]
    /\ req' = [req EXCEPT ![r] = q]
    /\ Locks(r, rows)
    /\ UNCHANGED answer

\* r answers a; its transaction, if any, has ended.
Finish(r, a) ==
    /\ pc' = [pc EXCEPT ![r] = "done"]
    /\ req' = [req EXCEPT ![r] = [@ EXCEPT !.todo = {}, !.hit = {}]]
    /\ Unlocks(r)
    /\ answer' = [answer EXCEPT ![r] = a]

Reject(r, a) == Finish(r, a) /\ UNCHANGED <<token, family>>

-----------------------------------------------------------------------------
(* Login, logout and rotation.                                             *)

\* The credentials do not match, or issue stores a new session.
Login(r) ==
    /\ pc[r] = "new" /\ Kind[r] = "login"
    /\ \/ Reject(r, "401")
       \/ /\ token' = [token EXCEPT ![NewId[r]] = Fresh(Actor[r])]
          /\ family' = [family EXCEPT ![NewId[r]] = NewId[r]]
          /\ \E a \in {"ok", "500"} : Finish(r, a)

\* Refresh reads the presented session (ByHash, Active): unknown or expired is
\* a 401, active is rotated, revoked is a reuse that ends every session.
Lookup(r) ==
    /\ pc[r] = "new" /\ Kind[r] = "refresh"
    /\ \E t \in Tokens \ {NewId[r]} :
         LET q == [NoRequest EXCEPT !.token = t, !.user = token[t].user] IN
         \/ /\ \/ token[t].state = "absent"
               \/ token[t].state = "active" /\ token[t].expired
            /\ Reject(r, "401")
         \/ /\ token[t].state = "active" /\ ~token[t].expired
            /\ Advance(r, "insert", q, {})
            /\ UNCHANGED <<token, family>>
         \/ /\ token[t].state = "revoked"
            /\ Advance(r, "scan", q, {})
            /\ UNCHANGED <<token, family>>

\* Rotate begins, fixing now(), and inserts the replacement.
InsertNext(r) ==
    /\ pc[r] = "insert"
    /\ Advance(r, "rotate", [req[r] EXCEPT !.late = token[req[r].token].expired], {})
    /\ UNCHANGED <<token, family>>

\* Mutant: the revoking UPDATE forgets revoked_at IS NULL.
RotatePresentedAgain(r) ==
    /\ pc[r] = "rotate"
    /\ Granted(r, req[r].token)
    /\ Advance(r, "commit", req[r], {req[r].token})
    /\ UNCHANGED <<token, family>>

\* UPDATE ... WHERE token_hash = $1 AND revoked_at IS NULL AND expires_at > now()
RotatePresented(r) ==
    LET t == req[r].token
        fresh == token[t].state = "active" /\ ~req[r].late IN
    /\ pc[r] = "rotate"
    /\ Granted(r, t)
    /\ \/ /\ fresh
          /\ Advance(r, "commit", req[r], {t})
          /\ UNCHANGED <<token, family>>
       \/ /\ ~fresh
          /\ Reject(r, "401")

\* Mutant: the replacement is stored and the presented token stays.
CommitRotateBoth(r) ==
    /\ pc[r] = "commit"
    /\ token' = [token EXCEPT ![NewId[r]] = Fresh(req[r].user)]
    /\ family' = [family EXCEPT ![NewId[r]] = family[req[r].token]]
    /\ Finish(r, "ok")

CommitRotate(r) ==
    LET t == req[r].token IN
    /\ pc[r] = "commit"
    /\ token' = [token EXCEPT ![t].state = "revoked", ![t].replaced = NewId[r],
                              ![NewId[r]] = Fresh(req[r].user)]
    /\ family' = [family EXCEPT ![NewId[r]] = family[t]]
    /\ \E a \in {"ok", "500"} : Finish(r, a)

\* Logout revokes the presented session; an unknown token is no error.
PresentForLogout(r) ==
    /\ pc[r] = "new" /\ Kind[r] = "logout"
    /\ \E t \in Tokens :
         \/ /\ t \notin Active
            /\ Reject(r, "ok")
         \/ /\ t \in Active
            /\ Advance(r, "revoke", [NoRequest EXCEPT !.token = t], {})
            /\ UNCHANGED <<token, family>>

Revoke(r) ==
    LET t == req[r].token IN
    /\ pc[r] = "revoke"
    /\ Granted(r, t)
    /\ \/ /\ t \in Active
          /\ token' = [token EXCEPT ![t].state = "revoked"]
          /\ \E a \in {"ok", "500"} : Finish(r, a)
          /\ UNCHANGED family
       \/ /\ t \notin Active
          /\ Reject(r, "ok")

-----------------------------------------------------------------------------
(* RevokeAllForUser, for logout everywhere and after a reuse.              *)

\* The service's answer once RevokeAllForUser has returned; after a reuse it is
\* 401, and an error of RevokeAllForUser is only logged.
Revoked(r) == IF Kind[r] = "logoutAll" THEN "ok" ELSE "401"
Failed(r) ==
    IF Kind[r] = "refresh" /\ pc[r] \in {"scan", "rows"} THEN "401" ELSE "500"

LogoutAll(r) ==
    /\ pc[r] = "new" /\ Kind[r] = "logoutAll"
    /\ Advance(r, "scan", [NoRequest EXCEPT !.user = Actor[r]], {})
    /\ UNCHANGED <<token, family>>

\* The snapshot of UPDATE ... WHERE user_id = $1 AND revoked_at IS NULL: a
\* replacement that is not committed yet is not in it.
ScanSessions(r) ==
    LET rows == {t \in Active : token[t].user = req[r].user} IN
    /\ pc[r] = "scan"
    /\ Advance(r, "rows", [req[r] EXCEPT !.saw = rows, !.todo = rows, !.hit = {}], {})
    /\ UNCHANGED <<token, family>>

\* Mutant: the UPDATE skips the rows others have locked.
LockSessionOrSkip(r) ==
    /\ pc[r] = "rows"
    /\ \E t \in req[r].todo :
         LET q == [req[r] EXCEPT !.todo = @ \ {t}] IN
         \/ /\ Granted(r, t)
            /\ Advance(r, "rows", [q EXCEPT !.hit = (@ \cup {t}) \cap Active], {t})
         \/ /\ \E o \in Requests : t \in held[o] \ held[r]
            /\ Advance(r, "rows", q, {})
    /\ UNCHANGED <<token, family>>

\* One row of it; revoked_at IS NULL is evaluated again after a wait.
LockSession(r) ==
    /\ pc[r] = "rows"
    /\ \E t \in req[r].todo :
         /\ Granted(r, t)
         /\ Advance(r, "rows", [req[r] EXCEPT !.todo = @ \ {t},
                                               !.hit = (@ \cup {t}) \cap Active], {t})
    /\ UNCHANGED <<token, family>>

CommitRevokeAll(r) ==
    /\ pc[r] = "rows" /\ req[r].todo = {}
    /\ token' = [t \in Tokens |->
                   IF t \in req[r].hit THEN [token[t] EXCEPT !.state = "revoked"]
                                       ELSE token[t]]
    /\ \E a \in {Revoked(r), Failed(r)} : Finish(r, a)
    /\ UNCHANGED family

-----------------------------------------------------------------------------
(* Time, maintenance and failures.                                         *)

Expire(t) ==
    /\ token[t].state # "absent" /\ ~token[t].expired
    /\ token' = [token EXCEPT ![t].expired = TRUE]
    /\ UNCHANGED <<family, pc, req, held, want, answer>>

\* DeleteExpired(now()), with replaced_by ON DELETE SET NULL.  It waits for
\* locked rows and holds no lock anyone could wait for: one step.
Purge(r) ==
    LET old == {t \in Tokens : token[t].expired} IN
    /\ pc[r] = "new" /\ Kind[r] = "purge"
    /\ \A q \in Requests : held[q] \cap old = {}
    /\ token' = [t \in Tokens |->
                   IF t \in old THEN NoToken
                   ELSE [token[t] EXCEPT !.replaced = IF @ \in old THEN NoRow ELSE @]]
    /\ Finish(r, "ok")
    /\ UNCHANGED family

\* The context ends, or the connection or the process is lost: rollback.
Abort(r) ==
    /\ pc[r] \notin {"new", "done"}
    /\ Reject(r, Failed(r))

DeadlockAbort(r) ==
    /\ InDeadlock(r)
    /\ Reject(r, Failed(r))

-----------------------------------------------------------------------------
Arrive(r) ==
    /\ Cardinality({q \in Requests : pc[q] # "new"}) < MaxArrivals
    /\ \/ Login(r) \/ Lookup(r) \/ PresentForLogout(r) \/ LogoutAll(r) \/ Purge(r)

Statement(r) ==
    \/ InsertNext(r) \/ RotatePresented(r) \/ CommitRotate(r)
    \/ Revoke(r)
    \/ ScanSessions(r) \/ LockSession(r) \/ CommitRevokeAll(r)

Terminating ==
    /\ \A r \in Requests : pc[r] \in {"new", "done"}
    /\ UNCHANGED vars

Next ==
    \/ \E r \in Requests : Arrive(r) \/ Statement(r) \/ Block(r)
                          \/ Abort(r) \/ DeadlockAbort(r)
    \/ \E t \in Tokens : Expire(t)
    \/ Terminating

Spec == Init /\ [][Next]_vars

-----------------------------------------------------------------------------
(* What must hold.                                                         *)

\* However refreshes, logouts, retries and rollbacks interleave, the tokens that
\* descend from one login never include two that are live: Rotate revokes the
\* presented token and stores its replacement together or not at all.
OneLiveTokenPerLogin ==
    \A t, n \in Active : family[t] = family[n] => t = n

\* Two concurrent refreshes with one token cannot both succeed: exactly one
\* updates the row (Rotate's guard on revoked_at).
RotatedAtMostOnce ==
    \A r, q \in Requests :
        /\ r # q
        /\ Kind[r] = "refresh" /\ answer[r] = "ok"
        /\ Kind[q] = "refresh" /\ answer[q] = "ok"
        => req[r].token # req[q].token

\* A login that has been logged out, or whose reuse was punished, does not come
\* back to life: no rotation revives it.
EndedLoginStaysEnded ==
    [][\A f \in Tokens :
         /\ family[f] = f
         /\ \A t \in Active : family[t] # f
         => \A t \in Tokens : family'[t] = f => token'[t].state # "active"]_vars

\* An acknowledged logout-everywhere leaves none of the sessions its statement
\* saw active, including those a concurrent transaction had locked.
LogoutAllRevokesWhatItSaw ==
    \A r \in Requests :
        Kind[r] = "logoutAll" /\ answer[r] = "ok" => req[r].saw \cap Active = {}

\* Whatever interleaves, the table implements LoginLedger: an open login has one
\* token, Rotate exchanges it for an unused one in a single step, and neither a
\* login that has ended nor a token that was spent comes back.
Ledger == INSTANCE LoginLedger WITH
    live  <- {<<family[t], t>> : t \in Active},
    spent <- {t \in Tokens : family[t] # NoRow} \ Active
KeepsLedger == Ledger!LSpec

-----------------------------------------------------------------------------
(* What the repository says of the program and TLC refutes; see README.md. *)

\* RevokeAllForUser ends every live session: none of the logins that were live
\* when it began has a live token afterwards.
LogoutAllEndsEverySession ==
    \A r \in Requests :
        Kind[r] = "logoutAll" /\ answer[r] = "ok" =>
            \A t \in req[r].saw, n \in Active : family[t] # family[n]

\* Reuse is the presentation of an already-rotated token, which replaced_by
\* records.
ReuseMeansRotated ==
    \A r \in Requests :
        Kind[r] = "refresh" /\ pc[r] = "scan" => token[req[r].token].replaced # NoRow
=============================================================================
