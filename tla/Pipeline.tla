------------------------------ MODULE Pipeline ------------------------------
(***************************************************************************)
(* The way of a request: the middleware, the deadline on its context, the  *)
(* connections of the pool, the answer.                                    *)
(*                                                                         *)
(* The database is another process: it executes a statement it was sent    *)
(* when it likes, or never, and does not learn that the request which sent *)
(* it has given up.  What the statements do is left to the module that     *)
(* extends this one.                                                       *)
(***************************************************************************)
EXTENDS Naturals, FiniteSets

CONSTANTS
    Requests,
    MaxConns,       \* DB_MAX_CONNS
    MaxArrivals     \* bound: how many of the requests come at all

ASSUME PipelineAssumption == MaxConns \in Nat \ {0} /\ MaxArrivals \in Nat

VARIABLES
    at,         \* the part of its handler a request is in, or died in
    phase,      \* whether that part runs, waits for a connection or for a reply
    ctx,        \* whether the request's context has ended
    conn,       \* the connection of the request
    statement,  \* the statement sent last: running, or what came of it
    answer      \* the status the request is or will be answered with

pvars == <<at, phase, ctx, conn, statement, answer>>

\* One part per statement, and the Go code that runs before some of them.
Statements == {"insertUser", "selectUser", "insertSession", "updateUser", "userById",
               "ping", "begin", "change", "commit"}
Code == {"hash", "verify", "fn"}
Parts == {"middleware"} \cup Statements \cup Code

Outcomes == {"ok", "norow", "unique", "check", "foreign"}

Success == {"200", "201"}
Refusals == {"4xx", "401", "404", "409"}    \* 4xx: before the handler has begun
Unclear == {"ended", "500", "503"}          \* ended: 504 or 499

Phases == {"new", "run", "queue", "sent", "rollback", "done"}

PipelineTypeOK ==
    /\ at \in [Requests -> Parts]
    /\ phase \in [Requests -> Phases]
    /\ ctx \in [Requests -> {"live", "ended"}]
    /\ conn \in [Requests -> {"none", "held", "closing"}]
    /\ statement \in [Requests -> {"none", "running"} \cup Outcomes]
    /\ answer \in [Requests -> {"none"} \cup Success \cup Refusals \cup Unclear]

PipelineInit ==
    /\ at = [r \in Requests |-> "middleware"]
    /\ phase = [r \in Requests |-> "new"]
    /\ ctx = [r \in Requests |-> "live"]
    /\ conn = [r \in Requests |-> "none"]
    /\ statement = [r \in Requests |-> "none"]
    /\ answer = [r \in Requests |-> "none"]

-----------------------------------------------------------------------------
(* Going on and answering.                                                 *)

\* r goes on with part p, which keeps the connection it has within InTx.
Enter(r, p, c) ==
    /\ at' = [at EXCEPT ![r] = p]
    /\ phase' = [phase EXCEPT ![r] = IF p \in Code THEN "run" ELSE "queue"]
    /\ conn' = [conn EXCEPT ![r] = c]
    /\ statement' = [statement EXCEPT ![r] = "none"]
    /\ UNCHANGED <<ctx, answer>>

\* r answers a and leaves its connection in state c.  Timeout cancels the context
\* when the handler returns; a statement that is running goes on running.
Finish(r, a, c) ==
    /\ phase' = [phase EXCEPT ![r] = "done"]
    /\ ctx' = [ctx EXCEPT ![r] = "ended"]
    /\ conn' = [conn EXCEPT ![r] = c]
    /\ statement' = [statement EXCEPT ![r] = IF @ = "running" THEN @ ELSE "none"]
    /\ answer' = [answer EXCEPT ![r] = a]
    /\ UNCHANGED at

\* fn has failed or panicked with the transaction open: InTx rolls back on a
\* context of its own before the answer goes out.
StartRollback(r, a) ==
    /\ phase' = [phase EXCEPT ![r] = "rollback"]
    /\ answer' = [answer EXCEPT ![r] = a]
    /\ UNCHANGED <<at, ctx, conn, statement>>

Fail(r, a) == IF conn[r] = "held" THEN StartRollback(r, a) ELSE Finish(r, a, "none")

\* apierr.Internal tells an ended context, 504 or 499, from a fault of the server;
\* the readiness probe answers 503 to any error.
Classify(r, cause) == IF at[r] = "ping" THEN "503" ELSE cause

-----------------------------------------------------------------------------
(* The pool and the driver.                                                *)

Busy == {r \in Requests : conn[r] # "none"}
HasConnection(r) == conn[r] = "held" \/ Cardinality(Busy) < MaxConns

Send(r) ==
    /\ phase[r] = "queue" /\ ctx[r] = "live" /\ HasConnection(r)
    /\ phase' = [phase EXCEPT ![r] = "sent"]
    /\ conn' = [conn EXCEPT ![r] = "held"]
    /\ statement' = [statement EXCEPT ![r] = "running"]
    /\ UNCHANGED <<at, ctx, answer>>

\* Mutant: the query runs on a context that never ends.
GiveUpQueued(r) ==
    /\ phase[r] = "queue" /\ ctx[r] # "live"
    /\ Fail(r, Classify(r, "ended"))

\* The context has ended.  Nothing is sent any more; a statement already sent is
\* abandoned with its connection, and the database may still execute it.
GiveUp(r) ==
    /\ ctx[r] # "live"
    /\ \/ phase[r] = "queue" /\ Fail(r, Classify(r, "ended"))
       \/ phase[r] = "sent" /\ Finish(r, Classify(r, "ended"), "closing")

\* Mutant: a statement whose connection broke is sent once more.
BreakAndRetry(r) ==
    /\ phase[r] = "sent"
    /\ Enter(r, at[r], "none")

\* The connection breaks before the reply has come.
Break(r) ==
    /\ phase[r] = "sent"
    /\ Finish(r, Classify(r, "500"), "none")

\* ROLLBACK has been answered or its five seconds are over: the connection goes
\* back to the pool or is discarded, and the answer goes out.
EndRollback(r) ==
    /\ phase[r] = "rollback"
    /\ Finish(r, answer[r], "none")

\* The pool has closed an abandoned connection.
CloseConn(r) ==
    /\ conn[r] = "closing"
    /\ conn' = [conn EXCEPT ![r] = "none"]
    /\ UNCHANGED <<at, phase, ctx, statement, answer>>

-----------------------------------------------------------------------------
(* The context and panics.                                                 *)

\* The deadline of Timeout passes, or the two seconds of the readiness probe; or,
\* before that, the client hangs up.
EndContext(r) ==
    /\ phase[r] \notin {"new", "done"} /\ ctx[r] = "live"
    /\ ctx' = [ctx EXCEPT ![r] = "ended"]
    /\ UNCHANGED <<at, phase, conn, statement, answer>>

\* The handler's own code panics: InTx rolls back and panics again, Recoverer
\* answers.
Panic(r) ==
    /\ phase[r] = "run"
    /\ Fail(r, "500")

Transport(r) ==
    \/ Send(r) \/ GiveUp(r) \/ Break(r) \/ EndRollback(r) \/ CloseConn(r)
    \/ EndContext(r) \/ Panic(r)

\* What the driver, the timers and the pool do whatever the database, the network
\* and the client do.
Progress(r) == GiveUp(r) \/ EndRollback(r) \/ CloseConn(r) \/ EndContext(r)
=============================================================================
