-------------------------- MODULE LifecycleProofs --------------------------
(***************************************************************************)
(* Proofs about Lifecycle, for any number of requests and limiters and any *)
(* capacity of the bus.  Which of the servers, the bus and the pool are    *)
(* still open follows from where run is; once the drain has succeeded no   *)
(* request is in flight, and none comes any more.                          *)
(***************************************************************************)
EXTENDS Lifecycle, TLAPS

\* What the goroutine in ListenAndServe has left in the channel.
ListenerInv ==
    /\ errCh = "nil" => listener = "closed"
    /\ errCh = "error" => listener = "failed"
    /\ listener = "closed" => server # "open"

\* What is open while run is where it is.
OrderInv ==
    /\ main = "select" => /\ server = "open" /\ branch = "none"
    /\ main = "draining" => /\ server = "shutdown" /\ branch = "signal"
    /\ main \in {"select", "draining"} => phase = "open" /\ result = "none"
    /\ main \in {"select", "draining", "bus"} => report["run"] = "none"
    /\ main \notin {"select", "draining", "bus"} => report["run"] # "none"
    /\ main \notin {"select"} => branch # "none"
    /\ main \notin {"returned", "exited"} => pool = "open"
    /\ branch = "listener" => listener = "failed" /\ result = "error"
    /\ branch = "signal" => server # "open"
    /\ server = "closed" => result = "error"
    /\ report["run"] # "none" => phase = "closed"

\* After a drain that met no deadline nothing is in flight.
QuietInv ==
    server = "shutdown" /\ main # "draining" =>
        \A r \in Requests : conn[r] \notin InFlight \cup {"connected"}

\* A complete drain has left nothing in the bus.
BacklogInv == report["run"] = "drained" => \A r \in Requests : status[r] # "accepted"

UnservedInv == \A r \in Requests : conn[r] = "unserved" => ~Graceful

ResultInv == main \in {"returned", "exited"} /\ result = "nil" =>
                 server = "shutdown" /\ listener = "closed"

Inv == /\ TypeOK /\ ListenerInv /\ OrderInv /\ QuietInv /\ BacklogInv /\ UnservedInv
       /\ ResultInv

LEMMA InvSafe == Inv => PoolOutlivesItsUsers /\ NilMeansClean
  <1> SUFFICES ASSUME Inv PROVE PoolOutlivesItsUsers /\ NilMeansClean
    OBVIOUS
  <1> USE DEF Inv
  <1>1. report["run"] \in {"none", "drained", "truncated"}
    BY DEF TypeOK, Closers
  <1>2. PoolOutlivesItsUsers
    BY <1>1 DEF PoolOutlivesItsUsers, UnservedInv, OrderInv, BacklogInv, Bus!Backlog
  <1>3. NilMeansClean
    <2>1. SUFFICES ASSUME main \in {"returned", "exited"}, result = "nil"
                   PROVE  /\ listener = "closed"
                          /\ \A r \in Requests : conn[r] \in {"none", "refused", "answered"}
      BY DEF NilMeansClean
    <2>2. server = "shutdown" /\ listener = "closed" /\ Graceful
      BY <2>1 DEF ResultInv, Graceful
    <2> QED BY <2>1, <2>2 DEF QuietInv, UnservedInv, TypeOK, InFlight
  <1> QED BY <1>2, <1>3

LEMMA InvInit == Init => Inv
  <1> SUFFICES ASSUME Init PROVE Inv
    OBVIOUS
  <1> USE DEF Init, Bus!BInit, Closers
  <1>1. TypeOK
    <2>1. stopped \in 0 .. Limiters /\ janitor \in [1 .. Limiters -> {"select", "evict", "done"}]
      BY LifecycleAssumption
    <2>2. conn \in [Requests -> {"none", "connected", "answered", "refused", "unserved"}
                                \cup InFlight]
      OBVIOUS
    <2>3. /\ status \in [Requests -> {"new", "accepted", "dropped", "delivered"}]
          /\ report \in [Closers -> {"none", "drained", "truncated"}]
      OBVIOUS
    <2> QED BY <2>1, <2>2, <2>3 DEF TypeOK
  <1> QED BY <1>1 DEF Inv, ListenerInv, OrderInv, QuietInv, BacklogInv, UnservedInv, ResultInv

-----------------------------------------------------------------------------
(* The steps.                                                              *)

\* A step of a connection: it does not come up once the server has left "open",
\* and meets a closed pool only after run has returned.
LEMMA ConnectionStep ==
    ASSUME Inv, NEW r \in Requests, NEW from, NEW to, Becomes(r, from, to),
           UNCHANGED phase, UNCHANGED report,
           status' \in [Requests -> {"new", "accepted", "dropped", "delivered"}],
           phase = "closed" => \A q \in Requests : status'[q] = "accepted" => status[q] = "accepted",
           from \in InFlight \cup {"connected"} \/ (server = "open" /\ to = "connected"),
           to \in {"connected", "answered", "refused", "unserved"} \cup InFlight,
           to = "unserved" => pool # "open"
    PROVE  Inv'
  <1> USE DEF Inv
  <1>1. /\ UNCHANGED <<signal, main, branch, server, listener, errCh, pool, result, stopped,
                       janitor, phase, report>>
        /\ conn[r] = from /\ conn' \in [Requests -> {"none", "connected", "answered", "refused",
                                                     "unserved"} \cup InFlight]
        /\ conn'[r] = to /\ \A q \in Requests \ {r} : conn'[q] = conn[q]
    BY DEF Becomes, background, TypeOK
  <1>2. TypeOK'
    BY <1>1 DEF TypeOK
  <1>3. ListenerInv' /\ OrderInv' /\ ResultInv'
    BY <1>1 DEF ListenerInv, OrderInv, ResultInv
  <1>4. BacklogInv'
    BY <1>1 DEF BacklogInv, OrderInv
  <1>5. QuietInv'
    BY <1>1 DEF QuietInv
  <1>6. UnservedInv'
    <2>1. to = "unserved" => ~Graceful
      BY <1>1 DEF Graceful, QuietInv, OrderInv, TypeOK
    <2> QED BY <1>1, <2>1 DEF UnservedInv, Graceful
  <1> QED BY <1>2, <1>3, <1>4, <1>5, <1>6

LEMMA RequestStep ==
    ASSUME Inv, NEW r \in Requests, Connect(r) \/ HangUp(r) \/ Serve(r)
    PROVE  Inv'
  <1> USE DEF InFlight
  <1>1. status \in [Requests -> {"new", "accepted", "dropped", "delivered"}]
    BY DEF Inv, TypeOK
  <1>2. CASE Connect(r)
    BY <1>1, <1>2, ConnectionStep DEF Connect, bus
  <1>3. CASE HangUp(r)
    BY <1>1, <1>3, ConnectionStep DEF HangUp, bus
  <1>4. CASE Begin(r)
    BY <1>1, <1>4, ConnectionStep DEF Begin, bus
  <1>5. CASE Query(r)
    BY <1>1, <1>5, ConnectionStep DEF Query, bus
  <1>6. CASE EndQuery(r)
    BY <1>1, <1>6, ConnectionStep DEF EndQuery, bus
  <1>7. CASE Publish(r)
    BY <1>1, <1>7, ConnectionStep DEF Publish, Bus!Accept, Bus!Drop, Bus!Become
  <1> QED BY <1>2, <1>3, <1>4, <1>5, <1>6, <1>7 DEF Serve

\* Deliveries, janitors, the listener and the signal.
LEMMA BackgroundStep ==
    ASSUME Inv,
           \/ \E e \in Requests : Deliver(e)
           \/ \E l \in 1 .. Limiters : Wake(l) \/ EvictIdle(l) \/ Leave(l)
           \/ ListenFails \/ ListenReturns \/ Interrupt
    PROVE  Inv'
  <1> USE DEF Inv
  <1>1. CASE \E e \in Requests : Deliver(e)
    <2>1. PICK e \in Requests : Deliver(e)
      BY <1>1
    <2>2. /\ UNCHANGED <<signal, main, branch, pool, result, server, listener, errCh, conn, stopped,
                         janitor, phase, report>>
          /\ status' \in [Requests -> {"new", "accepted", "dropped", "delivered"}]
          /\ \A q \in Requests : status'[q] = "accepted" => status[q] = "accepted"
      BY <2>1 DEF Deliver, Bus!Deliver, Bus!Become, httpVars, background, TypeOK
    <2> QED BY <2>2 DEF TypeOK, ListenerInv, OrderInv, QuietInv, BacklogInv, UnservedInv,
                        ResultInv, Graceful
  <1>2. CASE \E l \in 1 .. Limiters : Wake(l) \/ EvictIdle(l) \/ Leave(l)
    <2>1. /\ UNCHANGED <<signal, main, branch, pool, result, server, listener, errCh, conn, stopped,
                         status, phase, report>>
          /\ janitor' \in [1 .. Limiters -> {"select", "evict", "done"}]
      BY <1>2 DEF Wake, EvictIdle, Leave, JanitorGoes, httpVars, bus, TypeOK
    <2> QED BY <2>1 DEF TypeOK, ListenerInv, OrderInv, QuietInv, BacklogInv, UnservedInv,
                        ResultInv, Graceful
  <1>3. CASE ListenFails \/ ListenReturns
    <2>1. /\ UNCHANGED <<signal, main, branch, pool, result, server, conn, stopped, janitor, status,
                         phase, report>>
          /\ listener = "running"
          /\ \/ server = "open" /\ listener' = "failed" /\ errCh' = "error"
             \/ server # "open" /\ listener' = "closed" /\ errCh' = "nil"
      BY <1>3 DEF ListenFails, ListenReturns, ListenerLeaves, background, bus
    <2> QED BY <2>1 DEF TypeOK, ListenerInv, OrderInv, QuietInv, BacklogInv, UnservedInv,
                        ResultInv, Graceful
  <1>4. CASE Interrupt
    BY <1>4 DEF Interrupt, httpVars, background, bus, TypeOK, ListenerInv, OrderInv, QuietInv,
                BacklogInv, UnservedInv, ResultInv, Graceful
  <1> QED BY <1>1, <1>2, <1>3, <1>4

LEMMA RunStep == ASSUME Inv, Run PROVE Inv'
  <1> USE DEF Inv, httpVars, background, bus
  <1>1. CASE ListenerCase
    BY <1>1 DEF ListenerCase, TypeOK, ListenerInv, OrderInv, QuietInv, BacklogInv, UnservedInv,
                ResultInv, Graceful
  <1>2. CASE SignalCase
    BY <1>2 DEF SignalCase, TypeOK, ListenerInv, OrderInv, QuietInv, BacklogInv, UnservedInv,
                ResultInv, Graceful
  <1>3. CASE Drained
    <2>1. QuietInv'
      BY <1>3 DEF Drained, QuietInv
    <2> QED BY <1>3, <2>1 DEF Drained, TypeOK, ListenerInv, OrderInv, BacklogInv, UnservedInv,
                              ResultInv, Graceful
  <1>4. CASE DrainTimedOut
    <2>1. conn' \in [Requests -> {"none", "connected", "answered", "refused", "unserved"}
                                 \cup InFlight]
      BY <1>4 DEF DrainTimedOut, TypeOK
    <2>2. UnservedInv' /\ QuietInv'
      BY <1>4 DEF DrainTimedOut, UnservedInv, QuietInv, Graceful
    <2> QED BY <1>4, <2>1, <2>2 DEF DrainTimedOut, TypeOK, ListenerInv, OrderInv, BacklogInv,
                                    ResultInv
  <1>5. CASE ShutdownBus
    <2>1. /\ main = "bus" /\ UNCHANGED <<signal, branch, pool, result, server, listener, errCh, conn,
                                         stopped, janitor, status>>
      BY <1>5 DEF ShutdownBus, Bus!Stop, Bus!Close, Bus!Report
    <2>2. CASE (Bus!Stop \/ Bus!Close) /\ UNCHANGED main
      <3>1. phase' \in {"stopping", "closed"} /\ report' = report
        BY <2>2 DEF Bus!Stop, Bus!Close
      <3>2. TypeOK' /\ ListenerInv' /\ QuietInv' /\ BacklogInv' /\ UnservedInv' /\ ResultInv'
        BY <2>1, <2>2, <3>1 DEF TypeOK, ListenerInv, QuietInv, BacklogInv, UnservedInv, ResultInv,
                                Graceful
      <3>3. OrderInv'
        BY <2>1, <2>2, <3>1 DEF OrderInv
      <3> QED BY <3>2, <3>3
    <2>3. CASE /\ \E how \in {"drained", "truncated"} : Bus!Report("run", how)
               /\ main' = "limiters"
      <3>1. PICK how \in {"drained", "truncated"} : Bus!Report("run", how)
        BY <2>3
      <3>2. /\ phase = "closed" /\ phase' = phase
            /\ report' = [report EXCEPT !["run"] = how] /\ report'["run"] = how
            /\ how = "drained" => \A r \in Requests : status[r] # "accepted"
        BY <3>1 DEF Bus!Report, Bus!Backlog, TypeOK, Closers
      <3>3. TypeOK'
        <4>1. report' \in [Closers -> {"none", "drained", "truncated"}]
          BY <3>2 DEF TypeOK
        <4> QED BY <2>1, <2>3, <3>2, <4>1 DEF TypeOK
      <3>4. ListenerInv' /\ QuietInv' /\ BacklogInv' /\ UnservedInv' /\ ResultInv'
        BY <2>1, <2>3, <3>2 DEF ListenerInv, QuietInv, BacklogInv, UnservedInv, ResultInv, Graceful
      <3>5. OrderInv'
        BY <2>1, <2>3, <3>2 DEF OrderInv
      <3> QED BY <3>3, <3>4, <3>5
    <2> QED BY <1>5, <2>2, <2>3 DEF ShutdownBus
  <1>6. CASE CloseLimiter
    <2>1. stopped' \in 0 .. Limiters
      BY <1>6, LifecycleAssumption DEF CloseLimiter, TypeOK
    <2> QED BY <1>6, <2>1 DEF CloseLimiter, TypeOK, ListenerInv, OrderInv, QuietInv, BacklogInv,
                              UnservedInv, ResultInv, Graceful
  <1>7. CASE LimitersClosed
    BY <1>7 DEF LimitersClosed, TypeOK, ListenerInv, OrderInv, QuietInv, BacklogInv, UnservedInv,
                ResultInv, Graceful
  <1>8. CASE ReceiveErr
    <2>1. ResultInv' /\ OrderInv'
      BY <1>8 DEF ReceiveErr, ResultInv, OrderInv, ListenerInv, TypeOK
    <2> QED BY <1>8, <2>1 DEF ReceiveErr, TypeOK, ListenerInv, QuietInv, BacklogInv, UnservedInv,
                              Graceful
  <1>9. CASE ClosePool
    BY <1>9 DEF ClosePool, TypeOK, ListenerInv, OrderInv, QuietInv, BacklogInv, UnservedInv,
                ResultInv, Graceful
  <1>10. CASE Exit
    BY <1>10 DEF Exit, TypeOK, ListenerInv, OrderInv, QuietInv, BacklogInv, UnservedInv,
                 ResultInv, Graceful
  <1> QED BY <1>1, <1>2, <1>3, <1>4, <1>5, <1>6, <1>7, <1>8, <1>9, <1>10 DEF Run

LEMMA InvNext == Inv /\ [Next]_vars => Inv'
  <1> SUFFICES ASSUME Inv, [Next]_vars PROVE Inv'
    OBVIOUS
  <1>1. CASE UNCHANGED vars
    BY <1>1 DEF vars, httpVars, background, bus, Inv, TypeOK, ListenerInv, OrderInv, QuietInv,
                BacklogInv, UnservedInv, ResultInv, Graceful
  <1>2. CASE Alive
    BY <1>2, RequestStep, BackgroundStep, RunStep DEF Alive
  <1> QED BY <1>1, <1>2 DEF Next

\* Inv is an inductive invariant of the process.
THEOREM Invariance == Spec => []Inv
  BY InvInit, InvNext, PTL DEF Spec

\* Every part of the process is where its code can be (cmd/api/main.go, run;
\* server.go, Run and stopBackground).
THEOREM TypeCorrect == Spec => []TypeOK
  <1>1. Inv => TypeOK
    BY DEF Inv
  <1> QED BY <1>1, Invariance, PTL

\* For any number of requests and limiters: without a deadline or a failed
\* listener no request meets a closed pool, and the pool closes under no event of
\* a complete drain (server.go, the comment on stopBackground; main.go, run).
THEOREM PoolOutlives == Spec => []PoolOutlivesItsUsers
  <1>1. Inv => PoolOutlivesItsUsers
    BY InvSafe
  <1> QED BY <1>1, Invariance, PTL

\* For any number of requests: Run returns nil only if every request it took was
\* answered and its listener was closed by the shutdown (server.go, Run).
THEOREM NilIsClean == Spec => []NilMeansClean
  <1>1. Inv => NilMeansClean
    BY InvSafe
  <1> QED BY <1>1, Invariance, PTL

-----------------------------------------------------------------------------
(* Nothing is published to a bus that is stopping.                         *)

\* A request in flight while the bus stops has outlived a deadline or a listener.
LEMMA NoOneLeftToPublish ==
    ASSUME Inv, NEW r \in Requests, conn[r] = "committed", phase # "open"
    PROVE  ~Graceful
  BY DEF Inv, OrderInv, QuietInv, TypeOK, Graceful, InFlight

\* For any number of requests and any capacity of the bus, a graceful drain loses
\* no event: only a full buffer drops one (server.go, the order of Run).
THEOREM DrainLosesNothing == Spec => GracefulDrainLosesNothing
  <1>1. ASSUME Inv, Next, NEW r \in Requests,
               status[r] = "new", status'[r] = "dropped", phase # "open"
        PROVE  ~Graceful
    <2>1. status' # status /\ Alive
      BY <1>1 DEF Next, vars, bus
    <2>2. CASE \E q \in Requests : Publish(q)
      <3>1. PICK q \in Requests : Publish(q)
        BY <2>2
      <3>2. q = r
        BY <1>1, <3>1 DEF Publish, Bus!Accept, Bus!Drop, Bus!Become, Inv, TypeOK
      <3> QED BY <1>1, <3>1, <3>2, NoOneLeftToPublish DEF Publish, Becomes
    <2>3. CASE \E e \in Requests : Deliver(e)
      BY <1>1, <2>3 DEF Deliver, Bus!Deliver, Bus!Become, Inv, TypeOK
    <2>4. CASE UNCHANGED status
      BY <2>1, <2>4
    <2>5. CASE Run
      BY <2>1, <2>5 DEF Run, ListenerCase, SignalCase, Drained, DrainTimedOut, ShutdownBus,
             CloseLimiter, LimitersClosed, ReceiveErr, ClosePool, Exit, bus,
             Bus!Stop, Bus!Close, Bus!Report
    <2> QED BY <2>1, <2>2, <2>3, <2>5
            DEF Alive, Connect, HangUp, Serve, Begin, Query, EndQuery, Wake, EvictIdle, Leave,
                JanitorGoes, ListenFails, ListenReturns, ListenerLeaves, Interrupt, bus
  <1>2. ASSUME Inv, [Next]_vars
        PROVE  [\A r \in Requests :
                  status[r] = "new" /\ status'[r] = "dropped" /\ phase # "open" => ~Graceful]_vars
    BY <1>1, <1>2
  <1> QED BY <1>2, Invariance, PTL DEF Spec, GracefulDrainLosesNothing
=============================================================================
