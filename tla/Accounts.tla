------------------------------ MODULE Accounts ------------------------------
(***************************************************************************)
(* Accounts: registration, login and profiles, with the reads, the probes  *)
(* and one transaction, over the request path of Pipeline.                 *)
(*                                                                         *)
(* Every statement here but those of the transaction commits by itself,    *)
(* so the database executes it in one step: when its request has already   *)
(* been answered 504, too.                                                 *)
(***************************************************************************)
EXTENDS Pipeline

CONSTANTS
    Names,          \* e-mail addresses and usernames as people type them
    Folded,         \* [Names -> Names]: trimmed and in lower case
    Passwords,
    Long,           \* passwords of more than 72 bytes, in at most 72 characters
    Menu,           \* the calls each request may turn out to be
    Seeds,          \* the accounts there are at the start
    Erasable,       \* bound: the accounts an operator may delete
    None

Kinds == {"register", "login", "updateMe", "user", "change", "ready", "live"}

\* A body that has been decoded and validated, and the actor of the token.
Call == [kind     : Kinds,
         email    : Names,
         username : Names,
         blank    : BOOLEAN,        \* the display name is nothing but spaces
         password : Passwords,
         id       : Requests \cup {s.id : s \in Seeds}]

User == [id       : Requests \cup {s.id : s \in Seeds},
         email    : Names,
         username : Names,
         password : Passwords]      \* what password_hash verifies

ASSUME AccountsAssumption ==
    /\ Folded \in [Names -> Names]
    /\ \A n \in Names : Folded[Folded[n]] = Folded[n]
    /\ Menu \in [Requests -> SUBSET Call]
    /\ None \notin User
    /\ Seeds \subseteq User
    /\ \A s \in Seeds : s.id \notin Requests
    /\ \A s \in Seeds : Folded[s.email] = s.email /\ Folded[s.username] = s.username
    /\ \A s, u \in Seeds :
         s.id = u.id \/ s.email = u.email \/ s.username = u.username => s = u

VARIABLES
    call,       \* what each request asks for
    users,      \* the rows of users
    row,        \* the row login has read
    applied,    \* history: the requests whose change has been committed
    announced,  \* the requests that have published their event
    known       \* history: the registrations acknowledged before a login came

avars == <<call, users, row, applied, announced, known>>
vars == <<pvars, avars>>

\* The statements that change something when they are executed.
Changes == {"insertUser", "insertSession", "updateUser", "commit"}

TypeOK ==
    /\ PipelineTypeOK
    /\ call \in [Requests -> Call \cup {None}]
    /\ users \subseteq User
    /\ row \in [Requests -> User \cup {None}]
    /\ applied \subseteq Requests /\ announced \subseteq Requests
    /\ known \in [Requests -> SUBSET Requests]

Init ==
    /\ PipelineInit
    /\ call = [r \in Requests |-> None]
    /\ users = Seeds
    /\ row = [r \in Requests |-> None]
    /\ applied = {} /\ announced = {}
    /\ known = [r \in Requests |-> {}]

-----------------------------------------------------------------------------
(* A request comes in.                                                     *)

FirstPart == [register |-> "hash", login |-> "selectUser", updateMe |-> "updateUser",
              user |-> "userById", change |-> "begin", ready |-> "ping"]

\* The registrations that have been answered 201.
Acknowledged ==
    {r \in Requests : at[r] = "insertUser" /\ phase[r] = "done" /\ answer[r] = "201"}

\* The limiter (429), Require (401), DecodeJSON (400, 413, 415) or the validator
\* (422) answers before the service is called.
TurnAway(r) == Finish(r, "4xx", "none")

\* It is turned away, or its handler begins; /healthz needs nothing.
Arrive(r) ==
    /\ phase[r] = "new"
    /\ Cardinality({q \in Requests : phase[q] # "new"}) < MaxArrivals
    /\ \E c \in Menu[r] :
         /\ call' = [call EXCEPT ![r] = c]
         /\ \/ TurnAway(r)
            \/ c.kind = "live" /\ Finish(r, "200", "none")
            \/ c.kind # "live" /\ Enter(r, FirstPart[c.kind], "none")
         /\ known' = IF c.kind = "login" THEN [known EXCEPT ![r] = Acknowledged] ELSE known
    /\ UNCHANGED <<users, row, applied, announced>>

-----------------------------------------------------------------------------
(* The code between the statements.                                        *)

NormalizeEmail(e) == Folded[e]
NormalizeUsername(n) == Folded[n]

\* Hash looks at bytes, the validator has looked at characters.
Hash(r) ==
    /\ at[r] = "hash" /\ phase[r] = "run"
    /\ \/ call[r].password \in Long /\ Finish(r, "500", "none")
       \/ call[r].password \notin Long /\ Enter(r, "insertUser", "none")
    /\ UNCHANGED avars

\* An unknown address costs a comparison and is answered like a wrong password.
Matches(r) == row[r] # None /\ row[r].password = call[r].password
Verify(r) ==
    /\ at[r] = "verify" /\ phase[r] = "run"
    /\ \/ ~Matches(r) /\ Finish(r, "401", "none")
       \/ Matches(r) /\ Enter(r, "insertSession", "none")
    /\ UNCHANGED avars

\* The function InTx was given refuses the request or goes on to its statement.
Fn(r) ==
    /\ at[r] = "fn" /\ phase[r] = "run"
    /\ \/ StartRollback(r, "404")
       \/ Enter(r, "change", "held")
    /\ UNCHANGED avars

-----------------------------------------------------------------------------
(* What the database does with a statement.                                *)

Executed(r, outcome) ==
    /\ statement' = [statement EXCEPT ![r] = outcome]
    /\ UNCHANGED <<at, phase, ctx, conn, answer, call, announced, known>>

\* The row Register builds from a call.
NewUser(r) == [id       |-> r,
               email    |-> NormalizeEmail(call[r].email),
               username |-> NormalizeUsername(call[r].username),
               password |-> call[r].password]

\* Mutant: the migration lacks users_username_unique.
TakenEmail(u) == \E v \in users : v.email = u.email

\* users_email_unique, users_username_unique
Taken(u) == \E v \in users : v.email = u.email \/ v.username = u.username

\* users_email_lowercase, users_username_lowercase, users_display_name_length
Refused(u, blank) == blank \/ Folded[u.email] # u.email \/ Folded[u.username] # u.username

InsertUser(r) ==
    LET u == NewUser(r) IN
    /\ at[r] = "insertUser"
    /\ \/ Refused(u, call[r].blank) /\ Executed(r, "check") /\ UNCHANGED <<users, applied>>
       \/ /\ ~Refused(u, call[r].blank) /\ Taken(u)
          /\ Executed(r, "unique") /\ UNCHANGED <<users, applied>>
       \/ /\ ~Refused(u, call[r].blank) /\ ~Taken(u)
          /\ users' = users \cup {u}
          /\ applied' = applied \cup {r}
          /\ Executed(r, "ok")
    /\ UNCHANGED row

\* Mutant: Login looks the address up as it was typed.
LookedUpAsTyped(r) == call[r].email

LookedUp(r) == NormalizeEmail(call[r].email)

\* Mutant: two columns are scanned in the wrong order.
SelectSwapped(r) ==
    /\ at[r] = "selectUser"
    /\ \E u \in users :
         /\ u.email = LookedUp(r)
         /\ row' = [row EXCEPT ![r] = [u EXCEPT !.username = u.password,
                                              !.password = u.username]]
    /\ Executed(r, "ok")
    /\ UNCHANGED <<users, applied>>

\* SELECT ... WHERE email = $1
SelectUser(r) ==
    /\ at[r] = "selectUser"
    /\ \/ \E u \in users : /\ u.email = LookedUp(r)
                           /\ row' = [row EXCEPT ![r] = u]
                           /\ Executed(r, "ok")
       \/ /\ \A u \in users : u.email # LookedUp(r)
          /\ Executed(r, "norow") /\ UNCHANGED row
    /\ UNCHANGED <<users, applied>>

\* The session refers to its account, which may have gone since it was read.
InsertSession(r) ==
    /\ at[r] = "insertSession"
    /\ \/ row[r].id \in {u.id : u \in users} /\ applied' = applied \cup {r} /\ Executed(r, "ok")
       \/ row[r].id \notin {u.id : u \in users} /\ Executed(r, "foreign") /\ UNCHANGED applied
    /\ UNCHANGED <<users, row>>

\* UPDATE users SET display_name = $2 WHERE id = $1
UpdateUser(r) ==
    LET there == call[r].id \in {u.id : u \in users} IN
    /\ at[r] = "updateUser"
    /\ \/ ~there /\ Executed(r, "norow") /\ UNCHANGED applied
       \/ there /\ call[r].blank /\ Executed(r, "check") /\ UNCHANGED applied
       \/ there /\ ~call[r].blank /\ applied' = applied \cup {r} /\ Executed(r, "ok")
    /\ UNCHANGED <<users, row>>

\* Reads, the ping, and the statements of a transaction before its COMMIT.
Read(r) ==
    /\ at[r] \in {"userById", "ping", "begin", "change"}
    /\ Executed(r, IF at[r] = "userById" /\ call[r].id \notin {u.id : u \in users}
                     THEN "norow" ELSE "ok")
    /\ UNCHANGED <<users, row, applied>>

\* The COMMIT of a transaction whose connection is gone has been sent as well.
CommitTx(r) ==
    /\ at[r] = "commit"
    /\ applied' = applied \cup {r}
    /\ Executed(r, "ok")
    /\ UNCHANGED <<users, row>>

Execute(r) ==
    /\ statement[r] = "running"
    /\ \/ InsertUser(r) \/ SelectUser(r) \/ InsertSession(r) \/ UpdateUser(r)
       \/ Read(r) \/ CommitTx(r)

-----------------------------------------------------------------------------
(* The reply reaches the handler.                                          *)

\* The status of a reply that ends its handler.
Status(p, outcome) ==
    CASE outcome = "ok"                   -> IF p = "insertUser" THEN "201" ELSE "200"
      [] outcome = "norow"                -> "404"
      [] outcome = "unique"               -> "409"
      [] outcome \in {"check", "foreign"} -> "500"

\* Register and Login publish once their row is stored.
Announces(r) == at[r] \in {"insertUser", "insertSession"} /\ statement[r] = "ok"

Receive(r) ==
    /\ phase[r] = "sent" /\ statement[r] # "running"
    /\ \/ at[r] = "selectUser" /\ Enter(r, "verify", "none")
       \/ at[r] = "begin" /\ Enter(r, "fn", "held")
       \/ at[r] = "change" /\ Enter(r, "commit", "held")
       \/ /\ at[r] \notin {"selectUser", "begin", "change"}
          /\ Finish(r, Status(at[r], statement[r]), "none")
    /\ announced' = IF Announces(r) THEN announced \cup {r} ELSE announced
    /\ UNCHANGED <<call, users, row, applied, known>>

\* An operator deletes an account; its sessions go with it.
Erase(u) ==
    /\ u.id \in Erasable
    /\ users' = users \ {u}
    /\ UNCHANGED <<pvars, call, row, applied, announced, known>>

-----------------------------------------------------------------------------
Handler(r) == Hash(r) \/ Verify(r) \/ Fn(r) \/ Receive(r)

Terminating ==
    /\ \A r \in Requests : phase[r] \in {"new", "done"} /\ conn[r] = "none"
    /\ UNCHANGED vars

Next ==
    \/ \E r \in Requests : \/ Arrive(r) \/ Handler(r) \/ Execute(r)
                           \/ Transport(r) /\ UNCHANGED avars
    \/ \E u \in users : Erase(u)
    \/ Terminating

Spec == Init /\ [][Next]_vars

\* Goroutines are scheduled and bcrypt ends.  The database need not do anything.
FairSpec ==
    /\ Spec
    /\ \A r \in Requests : WF_vars(Handler(r) \/ (Progress(r) /\ UNCHANGED avars))

-----------------------------------------------------------------------------
(* What must hold.                                                         *)

\* However it is spelled, an address or a username belongs to one account, though
\* registrations race and may be executed after they have been given up: what
\* Register's folding, the unique constraints and the CHECKs are for.
OneAccountPerIdentity ==
    \A u, v \in users :
        \/ Folded[u.email] = Folded[v.email]
        \/ Folded[u.username] = Folded[v.username]
        => u = v

\* Once a registration has been answered 201, a login that comes later with the
\* same password and any spelling of the address is not refused while the account
\* exists.
AcknowledgedAccountWorks ==
    \A r \in Requests :
        at[r] = "verify" /\ answer[r] = "401" =>
            \A q \in known[r] :
                /\ Folded[call[q].email] = Folded[call[r].email]
                /\ call[q].password = call[r].password
                => \A u \in users : u.id # q

\* A success has been committed and announced; a refusal has changed nothing and
\* never will.  Only 499, 500, 503 and 504 leave it open, because the statement
\* of an abandoned request may still be executed.
AnswerMatchesEffect ==
    \A r \in Requests :
        /\ r \in announced => r \in applied
        /\ phase[r] = "done" /\ answer[r] \in Success /\ at[r] \in Changes
             => r \in applied
        /\ phase[r] = "done" /\ answer[r] = "201" => r \in announced
        /\ phase[r] = "done" /\ answer[r] \in Refusals
             => r \notin applied /\ ~(statement[r] = "running" /\ at[r] \in Changes)

\* Every request is answered and gives its connection back, though the database
\* may hang, the client may go and a handler may panic inside InTx.
EveryRequestEnds ==
    \A r \in Requests :
        phase[r] # "new" ~> phase[r] = "done" /\ conn[r] = "none"
=============================================================================
