----------------------------- MODULE Lifecycle -----------------------------
(***************************************************************************)
(* The process: cmd/api.run, Server.Run and stopBackground, with the HTTP  *)
(* server, the requests it serves, the event bus, the limiters' janitors   *)
(* and the database pool they all depend on.  The bus is BestEffortBus,    *)
(* which module EventBus implements; each request publishes one event once *)
(* its transaction has committed.                                          *)
(***************************************************************************)
EXTENDS Naturals, FiniteSets

CONSTANTS
    Requests,
    Buffer,     \* of the event bus
    Limiters    \* 0 with RATE_LIMIT_ENABLED=false, else 2

ASSUME LifecycleAssumption ==
    /\ IsFiniteSet(Requests)
    /\ Buffer \in Nat \ {0} /\ Limiters \in Nat

VARIABLES
    signal,     \* the context of signal.NotifyContext is done
    main,       \* where run is
    branch,     \* the case its select took
    server,     \* "open", "shutdown" or, after the deadline, "closed"
    listener,   \* the goroutine in ListenAndServe
    errCh,      \* what it left for run
    conn,       \* each connection and its one request
    pool,       \* "open", "closing" or "closed"
    stopped,    \* how many limiters' stop channels are closed
    janitor,    \* the goroutine of each limiter
    result,     \* what Run returns
    status, phase, report       \* the bus

bus == <<status, phase, report>>
httpVars == <<server, listener, errCh, conn>>
background == <<stopped, janitor>>
vars == <<signal, main, branch, pool, result, httpVars, background, bus>>

Closers == {"run"}
Bus == INSTANCE BestEffortBus WITH Events <- Requests

InFlight == {"running", "querying", "committed"}

TypeOK ==
    /\ signal \in BOOLEAN
    /\ main \in {"select", "draining", "bus", "limiters", "listener", "returned",
                 "exited"}
    /\ branch \in {"none", "signal", "listener"}
    /\ server \in {"open", "shutdown", "closed"}
    /\ listener \in {"running", "failed", "closed"}
    /\ errCh \in {"empty", "nil", "error"}
    /\ conn \in [Requests -> {"none", "connected", "answered", "refused",
                              "unserved"} \cup InFlight]
    /\ pool \in {"open", "closing", "closed"}
    /\ stopped \in 0 .. Limiters
    /\ janitor \in [1 .. Limiters -> {"select", "evict", "done"}]
    /\ result \in {"none", "nil", "error"}
    /\ status \in [Requests -> {"new", "accepted", "dropped", "delivered"}]
    /\ phase \in {"open", "stopping", "closed"}
    /\ report \in [Closers -> {"none", "drained", "truncated"}]

Init ==
    /\ signal = FALSE
    /\ main = "select" /\ branch = "none"
    /\ server = "open" /\ listener = "running" /\ errCh = "empty"
    /\ conn = [r \in Requests |-> "none"]
    /\ pool = "open"
    /\ stopped = 0
    /\ janitor = [l \in 1 .. Limiters |-> "select"]
    /\ result = "none"
    /\ Bus!BInit

-----------------------------------------------------------------------------
(* Connections and their requests.                                         *)

Becomes(r, from, to) ==
    /\ conn[r] = from /\ conn' = [conn EXCEPT ![r] = to]
    /\ UNCHANGED <<signal, main, branch, server, listener, errCh, pool, result,
                   background>>

\* Shutdown closes the listeners before it does anything else.
Connect(r) ==
    /\ server = "open" /\ listener = "running"
    /\ Becomes(r, "none", "connected") /\ UNCHANGED bus

\* A connection that Shutdown has not hung up on may still bring a request.
Begin(r) == Becomes(r, "connected", "running") /\ UNCHANGED bus
HangUp(r) == server = "shutdown" /\ Becomes(r, "connected", "refused") /\ UNCHANGED bus

\* The transaction of the request: a connection from the pool, which a closed
\* pool refuses, and its commit or failure.
Query(r) ==
    /\ \/ pool = "open" /\ Becomes(r, "running", "querying")
       \/ pool # "open" /\ Becomes(r, "running", "unserved")
    /\ UNCHANGED bus
EndQuery(r) ==
    /\ Becomes(r, "querying", "committed") \/ Becomes(r, "querying", "answered")
    /\ UNCHANGED bus

\* The service publishes after the commit, and the handler answers.
Publish(r) ==
    /\ Becomes(r, "committed", "answered")
    /\ Bus!Accept(r) \/ Bus!Drop(r)

Serve(r) == Begin(r) \/ Query(r) \/ EndQuery(r) \/ Publish(r)

-----------------------------------------------------------------------------
(* The goroutines in the background.                                       *)

Deliver(e) ==
    /\ Bus!Deliver(e)
    /\ UNCHANGED <<signal, main, branch, pool, result, httpVars, background>>

JanitorGoes(l, from, to) ==
    /\ janitor[l] = from /\ janitor' = [janitor EXCEPT ![l] = to]
    /\ UNCHANGED <<signal, main, branch, pool, result, httpVars, stopped, bus>>

\* The ticker, the eviction and the stop case of janitor's select.
Wake(l) == JanitorGoes(l, "select", "evict")
EvictIdle(l) == JanitorGoes(l, "evict", "select")
Leave(l) == l <= stopped /\ JanitorGoes(l, "select", "done")

ListenerLeaves(how, err) ==
    /\ listener = "running"
    /\ listener' = how /\ errCh' = err
    /\ UNCHANGED <<signal, main, branch, server, conn, pool, result, background, bus>>

\* ListenAndServe fails by itself, or ends with ErrServerClosed after Shutdown.
ListenFails == server = "open" /\ ListenerLeaves("failed", "error")
ListenReturns == server # "open" /\ ListenerLeaves("closed", "nil")

-----------------------------------------------------------------------------
(* Run.                                                                    *)

Interrupt ==
    /\ ~signal /\ signal' = TRUE
    /\ UNCHANGED <<main, branch, pool, result, httpVars, background, bus>>

\* The two cases of the select; either may be taken when both are ready.
ListenerCase ==
    /\ main = "select" /\ errCh # "empty"
    /\ main' = "bus" /\ branch' = "listener"
    /\ result' = errCh /\ errCh' = "empty"
    /\ UNCHANGED <<signal, pool, server, listener, conn, background, bus>>

SignalCase ==
    /\ main = "select" /\ signal
    /\ main' = "draining" /\ branch' = "signal"
    /\ server' = "shutdown"
    /\ UNCHANGED <<signal, pool, result, listener, errCh, conn, background, bus>>

\* Mutant: Shutdown does not wait.
DrainedAtOnce ==
    /\ main = "draining"
    /\ main' = "bus"
    /\ UNCHANGED <<signal, branch, pool, result, httpVars, background, bus>>

\* http.Server.Shutdown returns when the last connection is idle ...
Drained ==
    /\ main = "draining"
    /\ \A r \in Requests : conn[r] \notin InFlight \cup {"connected"}
    /\ main' = "bus"
    /\ UNCHANGED <<signal, branch, pool, result, httpVars, background, bus>>

\* Mutant: the error of Shutdown is lost.
DrainTimedOutQuietly ==
    /\ main = "draining"
    /\ main' = "bus" /\ server' = "closed"
    /\ conn' = [r \in Requests |-> IF conn[r] = "connected" THEN "refused" ELSE conn[r]]
    /\ UNCHANGED <<signal, branch, pool, result, listener, errCh, background, bus>>

\* ... or at its deadline.  Close then cuts the connections; the handlers in
\* flight go on, without a client.
DrainTimedOut ==
    /\ main = "draining"
    /\ main' = "bus" /\ server' = "closed" /\ result' = "error"
    /\ conn' = [r \in Requests |-> IF conn[r] = "connected" THEN "refused" ELSE conn[r]]
    /\ UNCHANGED <<signal, branch, pool, listener, errCh, background, bus>>

\* stopBackground: the bus first, in the steps of its Shutdown.
ShutdownBus ==
    /\ main = "bus"
    /\ \/ (Bus!Stop \/ Bus!Close) /\ UNCHANGED main
       \/ /\ \E how \in {"drained", "truncated"} : Bus!Report("run", how)
          /\ main' = "limiters"
    /\ UNCHANGED <<signal, branch, pool, result, httpVars, background>>

JanitorsDone(n) == \A l \in 1 .. n : janitor[l] = "done"

\* Mutant: the stop channel is not closed.
CloseLimiterSilently ==
    /\ main = "limiters" /\ stopped < Limiters /\ JanitorsDone(stopped)
    /\ UNCHANGED vars

\* Then each limiter: Close closes its stop channel and waits for the janitor.
CloseLimiter ==
    /\ main = "limiters" /\ stopped < Limiters /\ JanitorsDone(stopped)
    /\ stopped' = stopped + 1
    /\ UNCHANGED <<signal, main, branch, pool, result, httpVars, janitor, bus>>

LimitersClosed ==
    /\ main = "limiters" /\ stopped = Limiters /\ JanitorsDone(Limiters)
    /\ main' = IF branch = "signal" THEN "listener" ELSE "returned"
    /\ UNCHANGED <<signal, branch, pool, result, httpVars, background, bus>>

\* <-errCh, and errors.Join of what went wrong.
ReceiveErr ==
    /\ main = "listener" /\ errCh # "empty"
    /\ main' = "returned" /\ errCh' = "empty"
    /\ result' = IF "error" \in {result, errCh} THEN "error" ELSE "nil"
    /\ UNCHANGED <<signal, branch, pool, server, listener, conn, background, bus>>

\* Mutant: the pool is closed before the background work is stopped.
ClosePoolEarly ==
    /\ main \in {"bus", "limiters", "listener", "returned"} /\ pool = "open"
    /\ pool' = "closing"
    /\ UNCHANGED <<signal, main, branch, result, httpVars, background, bus>>

\* The deferred pool.Close refuses new work, waits for the connections in use;
\* then the process is gone, with every goroutine it still had.
ClosePool ==
    /\ main = "returned" /\ pool = "open"
    /\ pool' = "closing"
    /\ UNCHANGED <<signal, main, branch, result, httpVars, background, bus>>

Exit ==
    /\ main = "returned" /\ pool = "closing"
    /\ \A r \in Requests : conn[r] # "querying"
    /\ pool' = "closed" /\ main' = "exited"
    /\ UNCHANGED <<signal, branch, result, httpVars, background, bus>>

-----------------------------------------------------------------------------
Run ==
    \/ ListenerCase \/ SignalCase \/ Drained \/ DrainTimedOut \/ ShutdownBus
    \/ CloseLimiter \/ LimitersClosed \/ ReceiveErr \/ ClosePool \/ Exit

Alive ==
    \/ \E r \in Requests : Connect(r) \/ HangUp(r) \/ Serve(r) \/ Deliver(r)
    \/ \E l \in 1 .. Limiters : Wake(l) \/ EvictIdle(l) \/ Leave(l)
    \/ ListenFails \/ ListenReturns \/ Interrupt
    \/ Run

Next == \/ main # "exited" /\ Alive
        \/ main = "exited" /\ UNCHANGED vars

Spec == Init /\ [][Next]_vars

\* run goes on, and its two deadlines pass; HANDLER_TIMEOUT ends a query; the
\* goroutines of the listener and the janitors are scheduled, and a select
\* whose stop case stays ready takes it in the end.  Handlers and the bus's
\* workers need not finish.
FairSpec ==
    /\ Spec
    /\ WF_vars(Run)
    /\ WF_vars(ListenReturns)
    /\ \A r \in Requests : WF_vars(EndQuery(r))
    /\ \A l \in 1 .. Limiters : WF_vars(EvictIdle(l)) /\ SF_vars(Leave(l))

-----------------------------------------------------------------------------
(* What must hold.                                                         *)

\* Neither the deadline nor a failed listener spoiled the drain.
Graceful == server # "closed" /\ listener # "failed"

\* "Drain the event bus, so audit work queued by those requests still runs":
\* when the drain is graceful nobody publishes to a bus that is stopping.
GracefulDrainLosesNothing ==
    [][\A r \in Requests :
          status[r] = "new" /\ status'[r] = "dropped" /\ phase # "open"
             => ~Graceful]_vars

\* "The database pool is closed by the caller, after this returns, because
\* draining events may still need it": no request meets a closed pool, and no
\* event is left for it, unless a deadline passed or the listener failed.
PoolOutlivesItsUsers ==
    /\ \A r \in Requests : conn[r] = "unserved" => ~Graceful
    /\ pool # "open" => Bus!Backlog = {} \/ report["run"] = "truncated"

\* Run returns nil only if every request it took was answered and the listener
\* ended by the shutdown, whichever case its select took first.
NilMeansClean ==
    main \in {"returned", "exited"} /\ result = "nil" =>
        /\ listener = "closed"
        /\ \A r \in Requests : conn[r] \in {"none", "refused", "answered"}

\* The process ends after a signal or when the listener fails, although
\* handlers and workers may hang.
ProcessExits == signal \/ listener = "failed" ~> main = "exited"
=============================================================================
