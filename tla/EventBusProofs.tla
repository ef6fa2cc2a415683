--------------------------- MODULE EventBusProofs ---------------------------
(***************************************************************************)
(* Proofs about EventBus, for any number of events, workers, handlers and  *)
(* callers of Shutdown and any capacity of the channel: no event is        *)
(* dispatched twice, and the bus implements BestEffortBus.                 *)
(***************************************************************************)
EXTENDS EventBus, FiniteSetTheorems, SequenceTheorems, TLAPS

\* A worker holds an event and the number of a handler, or has none of either.
WorkerInv ==
    \A w \in Workers :
        /\ worker[w].event # None => worker[w].next \in 1 .. Handlers
        /\ worker[w].event = None => worker[w] \in {Idle, Exited}
        /\ worker[w] = Exited => ~open /\ queue = <<>>

\* One call of Shutdown closes the channel, after it has set the flag.
CloserInv ==
    /\ ~open => closed
    /\ \A s \in Closers : /\ closer[s] = "closing" => closed /\ open
                          /\ closer[s] \notin {"idle", "closing"} => ~open
    /\ \A s, t \in Closers : closer[s] = "closing" /\ closer[t] = "closing" => s = t

Inv == TypeOK /\ WorkerInv /\ CloserInv /\ DispatchedAtMostOnce

-----------------------------------------------------------------------------
(* The invariant.                                                          *)

LEMMA Constants ==
    /\ Idle # Exited /\ Idle.event = None /\ Exited.event = None
    /\ Idle \in [event : Events \cup {None}, next : 0 .. Handlers + 1]
    /\ Exited \in [event : Events \cup {None}, next : 0 .. Handlers + 1]
    /\ <<>> \in Seq(Events) /\ Len(<<>>) = 0 /\ Buffer \in Nat /\ Buffer > 0
    /\ \A e \in Events : e # None
  <1>1. <<>> \in Seq(Events) /\ Len(<<>>) = 0
    BY EmptySeq
  <1> QED BY <1>1, BusAssumption DEF Idle, Exited

LEMMA InvInit == Init => Inv
  <1> SUFFICES ASSUME Init PROVE Inv
    OBVIOUS
  <1>1. TypeOK
    <2>1. queue \in Seq(Events) /\ Len(queue) <= Buffer
      BY Constants DEF Init
    <2>2. worker \in [Workers -> [event : Events \cup {None}, next : 0 .. Handlers + 1]]
      BY Constants DEF Init
    <2> QED BY <2>1, <2>2 DEF Init, TypeOK
  <1>2. WorkerInv /\ CloserInv
    BY Constants DEF Init, WorkerInv, CloserInv
  <1>3. DispatchedAtMostOnce
    BY Constants DEF Init, DispatchedAtMostOnce, Queued, InHand
  <1> QED BY <1>1, <1>2, <1>3 DEF Inv

\* An event goes to the end of the channel.
LEMMA SendStep ==
    ASSUME Inv, NEW e \in Events, publisher[e] = "checked", open, Len(queue) < Buffer,
           queue' = Append(queue, e), publisher' = [publisher EXCEPT ![e] = "sent"],
           UNCHANGED <<open, closed, worker, published, dropped, closer>>
    PROVE  Inv' /\ Queued(e)' /\ \A d \in Events \ {e} : Queued(d)' <=> Queued(d)
  <1> USE DEF Inv
  <1>1. /\ queue \in Seq(Events) /\ Len(queue) \in Nat /\ queue' \in Seq(Events)
        /\ Len(queue') = Len(queue) + 1
        /\ \A i \in 1 .. Len(queue) : queue'[i] = queue[i]
        /\ queue'[Len(queue) + 1] = e
    BY DEF TypeOK
  <1>2. TypeOK'
    BY <1>1, BusAssumption DEF TypeOK
  <1>3. WorkerInv' /\ CloserInv'
    BY DEF WorkerInv, CloserInv
  <1>4. ~Queued(e) /\ ~InHand(e)
    BY DEF DispatchedAtMostOnce, Accepted
  <1>5. Queued(e)' /\ \A d \in Events \ {e} : Queued(d)' <=> Queued(d)
    BY <1>1 DEF Queued
  <1>6. \A d \in Events : InHand(d)' <=> InHand(d)
    BY DEF InHand
  <1>7. \A i, j \in 1 .. Len(queue') : queue'[i] = queue'[j] => i = j
    <2>1. \A i, j \in 1 .. Len(queue) : queue[i] = queue[j] => i = j
      BY <1>1 DEF DispatchedAtMostOnce
    <2>2. \A i \in 1 .. Len(queue) : queue[i] # e
      BY <1>4 DEF Queued
    <2> QED BY <1>1, <2>1, <2>2
  <1>8. \A d \in Events : /\ Accepted(d) => Accepted(d)'
                          /\ Accepted(e)'
    BY DEF Accepted, TypeOK
  <1>9. DispatchedAtMostOnce'
    BY <1>4, <1>5, <1>6, <1>7, <1>8 DEF DispatchedAtMostOnce
  <1> QED BY <1>2, <1>3, <1>5, <1>9

\* The head of the channel goes to a worker.
LEMMA ReceiveStep ==
    ASSUME Inv, NEW w \in Workers, Receive(w)
    PROVE  Inv' /\ \A d \in Events : (Queued(d) \/ InHand(d))' <=> Queued(d) \/ InHand(d)
  <1> USE DEF Inv
  <1>0. PICK e \in Events : e = Head(queue)
    BY HeadTailProperties DEF TypeOK, Receive
  <1>1. /\ queue \in Seq(Events) /\ queue # <<>> /\ queue' = Tail(queue)
        /\ e = queue[1] /\ e # None
        /\ queue' \in Seq(Events) /\ Len(queue) \in Nat \ {0} /\ Len(queue') = Len(queue) - 1
        /\ \A i \in 1 .. Len(queue') : queue'[i] = queue[i + 1]
    BY <1>0, Constants, HeadTailProperties, EmptySeq DEF TypeOK, Receive
  <1>2. /\ worker[w] = Idle /\ UNCHANGED <<open, closed, publisher, published, dropped, closer>>
        /\ worker' \in [Workers -> [event : Events \cup {None}, next : 0 .. Handlers + 1]]
        /\ worker'[w].event = e /\ worker'[w].next = 1
        /\ \A v \in Workers \ {w} : worker'[v] = worker[v]
    BY <1>0, <1>1, BusAssumption DEF TypeOK, Receive
  <1>3. TypeOK'
    BY <1>1, <1>2, Constants DEF TypeOK
  <1>4. WorkerInv'
    <2>1. \A v \in Workers : worker[v] # Exited
      BY <1>1 DEF WorkerInv
    <2>2. worker'[w] # Exited /\ worker'[w].event # None /\ 1 \in 1 .. Handlers
      BY <1>1, <1>2, Constants, BusAssumption
    <2> QED BY <1>2, <2>1, <2>2 DEF WorkerInv
  <1>5. CloserInv'
    BY <1>2 DEF CloserInv
  <1>6. Queued(e) /\ ~InHand(e) /\ ~Queued(e)'
    <2>1. 1 \in 1 .. Len(queue) /\ Queued(e)
      BY <1>1 DEF Queued
    <2>2. \A i \in 1 .. Len(queue) : queue[i] = e => i = 1
      BY <1>1, <2>1 DEF DispatchedAtMostOnce
    <2>3. \A i \in 1 .. Len(queue') : queue'[i] # e
      <3>1. SUFFICES ASSUME NEW i \in 1 .. Len(queue'), queue[i + 1] = e PROVE FALSE
        BY <1>1
      <3>2. i + 1 \in 1 .. Len(queue) /\ i + 1 # 1
        BY <1>1
      <3> QED BY <2>2, <3>1, <3>2
    <2> QED BY <1>1, <2>1, <2>3 DEF Queued, DispatchedAtMostOnce
  <1>7. \A d \in Events \ {e} : Queued(d)' <=> Queued(d)
    <2>1. ASSUME NEW d \in Events \ {e}, Queued(d) PROVE Queued(d)'
      <3>1. PICK i \in 1 .. Len(queue) : queue[i] = d
        BY <2>1 DEF Queued
      <3>2. i - 1 \in 1 .. Len(queue') /\ queue'[i - 1] = d
        BY <1>1, <3>1
      <3> QED BY <3>2 DEF Queued
    <2>2. ASSUME NEW d \in Events \ {e}, Queued(d)' PROVE Queued(d)
      <3>1. PICK i \in 1 .. Len(queue') : queue'[i] = d
        BY <2>2 DEF Queued
      <3>2. i + 1 \in 1 .. Len(queue) /\ queue[i + 1] = d
        BY <1>1, <3>1
      <3> QED BY <3>2 DEF Queued
    <2> QED BY <2>1, <2>2
  <1>8. InHand(e)' /\ \A d \in Events \ {e} : InHand(d)' <=> InHand(d)
    <2>1. worker[w].event = None
      BY <1>2, Constants
    <2> QED BY <1>1, <1>2, <2>1, Constants DEF InHand
  <1>9. DispatchedAtMostOnce'
    <2>1. \A i, j \in 1 .. Len(queue') : queue'[i] = queue'[j] => i = j
      <3>1. \A i, j \in 1 .. Len(queue) : queue[i] = queue[j] => i = j
        BY <1>1 DEF DispatchedAtMostOnce
      <3>2. SUFFICES ASSUME NEW i \in 1 .. Len(queue'), NEW j \in 1 .. Len(queue'),
                            queue'[i] = queue'[j]
                     PROVE  i = j
        OBVIOUS
      <3>3. i + 1 \in 1 .. Len(queue) /\ j + 1 \in 1 .. Len(queue)
        BY <1>1
      <3>4. queue[i + 1] = queue[j + 1]
        BY <1>1, <3>2
      <3> QED BY <3>1, <3>3, <3>4
    <2>2. \A d \in Events, u, v \in Workers :
            worker'[u].event = d /\ worker'[v].event = d => u = v
      BY <1>2, <1>6, Constants DEF DispatchedAtMostOnce, InHand
    <2>3. \A d \in Events : Accepted(d)' <=> Accepted(d)
      BY <1>2 DEF Accepted
    <2>4. ASSUME NEW d \in Events
          PROVE  /\ Queued(d)' \/ InHand(d)' => Accepted(d)'
                 /\ Queued(d)' => ~InHand(d)'
      <3>1. /\ Queued(d) \/ InHand(d) => Accepted(d)
            /\ Queued(d) => ~InHand(d)
        BY DEF DispatchedAtMostOnce
      <3> QED BY <1>6, <1>7, <1>8, <2>3, <3>1
    <2> QED BY <2>1, <2>2, <2>4 DEF DispatchedAtMostOnce
  <1>10. \A d \in Events : (Queued(d) \/ InHand(d))' <=> Queued(d) \/ InHand(d)
    BY <1>6, <1>7, <1>8
  <1> QED BY <1>3, <1>4, <1>5, <1>9, <1>10

\* Steps that leave the channel and the workers alone.
LEMMA OtherSteps ==
    ASSUME Inv, UNCHANGED <<queue, worker>>, TypeOK', CloserInv', open' \in {open, FALSE},
           \A e \in Events : Accepted(e) => Accepted(e)'
    PROVE  Inv'
  <1> USE DEF Inv
  <1>1. WorkerInv'
    BY DEF WorkerInv, TypeOK
  <1>2. \A e \in Events : (Queued(e)' <=> Queued(e)) /\ (InHand(e)' <=> InHand(e))
    BY DEF Queued, InHand
  <1>3. DispatchedAtMostOnce'
    BY <1>2 DEF DispatchedAtMostOnce
  <1> QED BY <1>1, <1>3

LEMMA PublishStep == ASSUME Inv, NEW e \in Events, Publish(e) PROVE Inv'
  <1> USE DEF Inv
  <1>1. CASE CheckClosed(e)
    <2>1. TypeOK'
      BY <1>1 DEF CheckClosed, DropEvent, TypeOK
    <2>3. CloserInv'
      BY <1>1 DEF CheckClosed, CloserInv
    <2>2. \A d \in Events : Accepted(d) => Accepted(d)'
      BY <1>1 DEF CheckClosed, DropEvent, TypeOK, Accepted
    <2> QED BY <1>1, <2>1, <2>2, <2>3, OtherSteps DEF CheckClosed, DropEvent
  <1>2. CASE TrySend(e)
    <2>1. CASE open /\ Len(queue) < Buffer
      <3>1. queue \in Seq(Events) /\ Len(queue) \in Nat /\ Len(queue) # Buffer
        BY <2>1, Constants DEF TypeOK
      <3> QED BY <1>2, <2>1, <3>1, SendStep DEF TrySend
    <2>2. CASE DropEvent(e) /\ UNCHANGED <<open, closed, worker, closer>> /\ publisher[e] = "checked"
      <3>1. TypeOK' /\ CloserInv'
        BY <2>2 DEF DropEvent, TypeOK, CloserInv
      <3>2. \A d \in Events : Accepted(d) => Accepted(d)'
        BY <2>2 DEF DropEvent, TypeOK, Accepted
      <3> QED BY <2>2, <3>1, <3>2, OtherSteps DEF DropEvent
    <2> QED BY <1>2, <2>1, <2>2 DEF TrySend
  <1>3. CASE CountPublished(e)
    <2>1. TypeOK'
      BY <1>3 DEF CountPublished, TypeOK
    <2>3. CloserInv'
      BY <1>3 DEF CountPublished, CloserInv
    <2>2. \A d \in Events : Accepted(d) => Accepted(d)'
      BY <1>3 DEF CountPublished, TypeOK, Accepted
    <2> QED BY <1>3, <2>1, <2>2, <2>3, OtherSteps DEF CountPublished
  <1> QED BY <1>1, <1>2, <1>3 DEF Publish

\* Every event is with the worker that has it until its last handler has returned.
LEMMA InvokeStep == ASSUME Inv, NEW w \in Workers, Invoke(w) PROVE Inv'
  <1> USE DEF Inv
  <1>1. /\ UNCHANGED <<queue, open, closed, publisher, published, dropped, closer>>
        /\ worker[w].event # None /\ worker[w].next \in 1 .. Handlers
        /\ worker[w].event \in Events
        /\ worker'[w] = IF worker[w].next = Handlers THEN Idle
                        ELSE [worker[w] EXCEPT !.next = @ + 1]
        /\ \A v \in Workers \ {w} : worker'[v] = worker[v]
    <2>1. worker[w] \in [event : Events \cup {None}, next : 0 .. Handlers + 1]
      BY DEF TypeOK
    <2>2. worker[w].event \in Events \cup {None}
      BY <2>1
    <2>3. DOMAIN worker = Workers /\ worker = [v \in Workers |-> worker[v]]
      BY DEF TypeOK
    <2>4. worker' = [worker EXCEPT ![w] = IF worker[w].next = Handlers THEN Idle
                                          ELSE [worker[w] EXCEPT !.next = worker[w].next + 1]]
      BY DEF Invoke
    <2>5. worker[w].next \in 1 .. Handlers
      BY DEF Invoke, WorkerInv
    <2>6. \A v \in Workers \ {w} : worker'[v] = worker[v]
      BY <2>3, <2>4
    <2>7. worker'[w] = IF worker[w].next = Handlers THEN Idle
                       ELSE [worker[w] EXCEPT !.next = worker[w].next + 1]
      BY <2>3, <2>4
    <2> QED BY <2>2, <2>5, <2>6, <2>7 DEF Invoke
  <1>2. /\ worker'[w] \in [event : Events \cup {None}, next : 0 .. Handlers + 1]
        /\ worker'[w] = Idle \/ (/\ worker'[w].event = worker[w].event
                                 /\ worker'[w].next \in 1 .. Handlers)
    <2>1. worker[w] \in [event : Events \cup {None}, next : 0 .. Handlers + 1]
      BY DEF TypeOK
    <2>2. CASE worker[w].next = Handlers
      BY <1>1, <2>2, Constants
    <2>3. CASE worker[w].next # Handlers
      BY <1>1, <2>1, <2>3, BusAssumption
    <2> QED BY <2>2, <2>3
  <1>3. TypeOK'
    <2>1. worker' \in [Workers -> [event : Events \cup {None}, next : 0 .. Handlers + 1]]
      <3>1. worker' = [worker EXCEPT ![w] = worker'[w]]
        BY <1>1 DEF Invoke, TypeOK
      <3> QED BY <1>2, <3>1 DEF TypeOK
    <2> QED BY <1>1, <2>1 DEF TypeOK
  <1>4. WorkerInv'
    BY <1>1, <1>2, Constants DEF WorkerInv
  <1>5. CloserInv'
    BY <1>1 DEF CloserInv
  <1>6. \A v \in Workers : worker'[v].event \in {worker[v].event, None}
    BY <1>1, <1>2, Constants
  <1>7. DispatchedAtMostOnce'
    BY <1>1, <1>6, Constants DEF DispatchedAtMostOnce, Queued, InHand, Accepted
  <1> QED BY <1>3, <1>4, <1>5, <1>7

LEMMA LeaveStep == ASSUME Inv, NEW w \in Workers, Leave(w) PROVE Inv'
  <1> USE DEF Inv
  <1>1. /\ UNCHANGED <<queue, open, closed, publisher, published, dropped, closer>>
        /\ queue = <<>> /\ ~open /\ worker[w] = Idle /\ worker'[w] = Exited
        /\ \A v \in Workers \ {w} : worker'[v] = worker[v]
    BY DEF Leave, TypeOK
  <1>2. TypeOK'
    BY <1>1, Constants DEF TypeOK, Leave
  <1>3. WorkerInv' /\ CloserInv'
    BY <1>1, Constants DEF WorkerInv, CloserInv
  <1>4. \A v \in Workers : worker'[v].event = worker[v].event
    BY <1>1, Constants
  <1>5. DispatchedAtMostOnce'
    BY <1>1, <1>4 DEF DispatchedAtMostOnce, Queued, InHand, Accepted
  <1> QED BY <1>2, <1>3, <1>5

LEMMA ShutdownStep == ASSUME Inv, NEW s \in Closers, Shutdown(s) PROVE Inv'
  <1> USE DEF Inv, Shutdown, SetClosed, CloseQueue, JoinShutdown, ReturnDrained, ReturnTruncated
  <1>1. UNCHANGED <<queue, worker, publisher, published, dropped>> /\ open' \in {open, FALSE}
    BY DEF TypeOK
  <1>2. TypeOK'
    BY DEF TypeOK
  <1>3. CloserInv'
    BY DEF TypeOK, CloserInv
  <1>4. \A e \in Events : Accepted(e) => Accepted(e)'
    BY <1>1 DEF Accepted
  <1> QED BY <1>1, <1>2, <1>3, <1>4, OtherSteps

LEMMA InvNext == Inv /\ [Next]_vars => Inv'
  <1> SUFFICES ASSUME Inv, [Next]_vars PROVE Inv'
    OBVIOUS
  <1>1. CASE UNCHANGED vars
    <2>1. /\ UNCHANGED <<queue, open, closed, publisher, worker, published, dropped, closer>>
          /\ Inv
      BY <1>1 DEF vars
    <2> QED BY <2>1 DEF Inv, TypeOK, WorkerInv, CloserInv, DispatchedAtMostOnce, Queued,
                        InHand, Accepted
  <1>2. ASSUME NEW e \in Events, Publish(e) PROVE Inv'
    BY <1>2, PublishStep
  <1>3. ASSUME NEW w \in Workers, Work(w) PROVE Inv'
    BY <1>3, ReceiveStep, InvokeStep, LeaveStep DEF Work
  <1>4. ASSUME NEW s \in Closers, Shutdown(s) PROVE Inv'
    BY <1>4, ShutdownStep
  <1> QED BY <1>1, <1>2, <1>3, <1>4 DEF Next, Terminating

\* Inv is an inductive invariant of the bus.
THEOREM Invariance == Spec => []Inv
  BY InvInit, InvNext, PTL DEF Spec

\* The channel never holds more than its capacity, and every goroutine is where
\* its code can be (events.go, Publish, worker, Shutdown).
THEOREM TypeCorrect == Spec => []TypeOK
  <1>1. Inv => TypeOK
    BY DEF Inv
  <1> QED BY <1>1, Invariance, PTL

\* For any number of publishers and workers, no event is dispatched twice or by
\* two workers, and none that was refused (events.go, Publish and worker).
THEOREM AtMostOnce == Spec => []DispatchedAtMostOnce
  <1>1. Inv => DispatchedAtMostOnce
    BY DEF Inv
  <1> QED BY <1>1, Invariance, PTL

-----------------------------------------------------------------------------
(* EventBus implements BestEffortBus.                                      *)

\* The three variables of BestEffortBus, as Promise maps them.
StatusOf ==
    [e \in Events |->
        CASE publisher[e] = "dropped"     -> "dropped"
          [] publisher[e] \in {"idle", "checked"} -> "new"
          [] Accepted(e) /\ (Queued(e) \/ InHand(e)) -> "accepted"
          [] OTHER -> "delivered"]
PhaseOf == IF ~open THEN "closed" ELSE IF closed THEN "stopping" ELSE "open"
ReportOf ==
    [s \in Closers |-> IF closer[s] \in {"drained", "truncated"} THEN closer[s] ELSE "none"]

LEMMA StatusValues ==
    ASSUME TypeOK, NEW e \in Events
    PROVE  /\ publisher[e] = "dropped" => StatusOf[e] = "dropped"
           /\ publisher[e] \in {"idle", "checked"} => StatusOf[e] = "new"
           /\ Accepted(e) /\ (Queued(e) \/ InHand(e)) => StatusOf[e] = "accepted"
           /\ Accepted(e) /\ ~(Queued(e) \/ InHand(e)) => StatusOf[e] = "delivered"
  <1> USE DEF TypeOK, StatusOf, Accepted
  <1>1. publisher[e] = "dropped" => StatusOf[e] = "dropped"
    OBVIOUS
  <1>2. publisher[e] \in {"idle", "checked"} => StatusOf[e] = "new"
    OBVIOUS
  <1>3. Accepted(e) /\ (Queued(e) \/ InHand(e)) => StatusOf[e] = "accepted"
    OBVIOUS
  <1>4. Accepted(e) /\ ~(Queued(e) \/ InHand(e)) => StatusOf[e] = "delivered"
    OBVIOUS
  <1> QED BY <1>1, <1>2, <1>3, <1>4

LEMMA PromiseInit == Init => Promise!BInit
  <1> SUFFICES ASSUME Init PROVE Promise!BInit
    OBVIOUS
  <1>1. /\ TypeOK
        /\ StatusOf = [e \in Events |-> "new"] /\ PhaseOf = "open"
        /\ ReportOf = [s \in Closers |-> "none"]
    <2>1. TypeOK
      BY InvInit DEF Inv
    <2>2. \A e \in Events : StatusOf[e] = "new"
      BY <2>1, StatusValues DEF Init
    <2>3. StatusOf = [e \in Events |-> StatusOf[e]]
      BY DEF StatusOf
    <2>4. StatusOf = [e \in Events |-> "new"]
      BY <2>2, <2>3
    <2> QED BY <2>1, <2>4 DEF Init, PhaseOf, ReportOf
  <1> QED BY <1>1 DEF Promise!BInit, StatusOf, PhaseOf, ReportOf

\* A step that moves one event from one status to the next, or none.
LEMMA StatusStep ==
    ASSUME TypeOK, TypeOK', NEW e \in Events,
           \A d \in Events \ {e} : /\ publisher'[d] = publisher[d]
                                   /\ (Queued(d) \/ InHand(d))' <=> Queued(d) \/ InHand(d)
    PROVE  StatusOf' = [StatusOf EXCEPT ![e] = StatusOf'[e]]
  <1>1. \A d \in Events \ {e} : StatusOf'[d] = StatusOf[d]
    <2>1. SUFFICES ASSUME NEW d \in Events \ {e} PROVE StatusOf'[d] = StatusOf[d]
      OBVIOUS
    <2>2. publisher'[d] = publisher[d] /\ (Accepted(d)' <=> Accepted(d))
      BY DEF Accepted
    <2> QED BY <2>2 DEF StatusOf
  <1>2. DOMAIN StatusOf = Events /\ DOMAIN StatusOf' = Events
    BY DEF StatusOf
  <1>3. StatusOf' = [d \in Events |-> StatusOf'[d]]
    BY DEF StatusOf
  <1> QED BY <1>1, <1>2, <1>3

\* When the channel is full, its events are a backlog as large as the channel.
LEMMA FullChannel ==
    ASSUME Inv, Len(queue) = Buffer
    PROVE  Cardinality({e \in Events : StatusOf[e] = "accepted"}) >= Buffer
  <1> DEFINE B == {e \in Events : StatusOf[e] = "accepted"}
  <1>1. queue \in [1 .. Buffer -> Events]
    BY LenProperties DEF Inv, TypeOK
  <1>2. \A i \in 1 .. Buffer : queue[i] \in B
    <2>1. \A i \in 1 .. Buffer : Queued(queue[i]) /\ queue[i] \in Events
      BY <1>1 DEF Queued
    <2>2. \A e \in Events : Queued(e) => Accepted(e)
      BY DEF Inv, DispatchedAtMostOnce
    <2>3. \A e \in Events : Queued(e) => StatusOf[e] = "accepted"
      BY <2>2, StatusValues DEF Inv
    <2> QED BY <2>1, <2>3
  <1>3. queue \in Injection(1 .. Buffer, B)
    <2>1. \A i, j \in 1 .. Buffer : queue[i] = queue[j] => i = j
      BY <1>1 DEF Inv, DispatchedAtMostOnce
    <2>2. queue \in [1 .. Buffer -> B]
      BY <1>1, <1>2
    <2> QED BY <2>1, <2>2 DEF Injection, IsInjective
  <1>4. IsFiniteSet(B) /\ IsFiniteSet(1 .. Buffer) /\ Cardinality(1 .. Buffer) = Buffer
    BY BusAssumption, FS_Subset, FS_Interval
  <1>5. Cardinality(B) \in Nat /\ Buffer \in Nat
    BY <1>4, FS_CardinalityType, BusAssumption
  <1>6. Cardinality(1 .. Buffer) <= Cardinality(B)
    BY <1>3, <1>4, FS_Injection
  <1> QED BY <1>4, <1>5, <1>6

\* What a step does to the promise.
Abstractly == [Promise!BNext]_<<StatusOf, PhaseOf, ReportOf>>

\* A step after which every event has the status it had.
LEMMA SameStatus ==
    ASSUME TypeOK, TypeOK',
           \A e \in Events : /\ publisher[e] = "dropped" <=> publisher'[e] = "dropped"
                             /\ Accepted(e) <=> Accepted(e)'
                             /\ (Queued(e) \/ InHand(e))' <=> Queued(e) \/ InHand(e)
    PROVE  StatusOf' = StatusOf
  <1>1. \A e \in Events : StatusOf'[e] = StatusOf[e]
    <2>1. SUFFICES ASSUME NEW e \in Events PROVE StatusOf'[e] = StatusOf[e]
      OBVIOUS
    <2>2. publisher'[e] \in {"idle", "checked"} <=> publisher[e] \in {"idle", "checked"}
      BY DEF TypeOK, Accepted
    <2> QED BY <2>2 DEF StatusOf
  <1>2. StatusOf = [e \in Events |-> StatusOf[e]] /\ StatusOf' = [e \in Events |-> StatusOf'[e]]
    BY DEF StatusOf
  <1> QED BY <1>1, <1>2

\* An event is dropped because the bus is stopping or the channel is full.
LEMMA DropKeepsPromise ==
    ASSUME Inv, Inv', NEW e \in Events, publisher[e] \in {"idle", "checked"}, DropEvent(e),
           UNCHANGED <<open, closed, worker, closer>>,
           closed \/ ~open \/ Len(queue) = Buffer
    PROVE  Abstractly
  <1>1. TypeOK /\ TypeOK' /\ (~open => closed)
    BY DEF Inv, CloserInv
  <1>2. publisher'[e] = "dropped" /\ \A d \in Events \ {e} : publisher'[d] = publisher[d]
    BY <1>1 DEF DropEvent, TypeOK
  <1>3. \A d \in Events : (Queued(d) \/ InHand(d))' <=> Queued(d) \/ InHand(d)
    BY DEF DropEvent, Queued, InHand
  <1>4. StatusOf' = [StatusOf EXCEPT ![e] = StatusOf'[e]]
    BY <1>1, <1>2, <1>3, StatusStep
  <1>5. StatusOf[e] = "new" /\ StatusOf'[e] = "dropped"
    <2>1. StatusOf[e] = "new"
      BY <1>1, StatusValues
    <2>2. StatusOf'[e] = "dropped"
      BY <1>2 DEF StatusOf, Accepted
    <2> QED BY <2>1, <2>2
  <1>6. PhaseOf' = PhaseOf /\ ReportOf' = ReportOf
    BY DEF PhaseOf, ReportOf
  <1>7. PhaseOf # "open" \/ Cardinality({d \in Events : StatusOf[d] = "accepted"}) >= Buffer
    BY <1>1, FullChannel DEF PhaseOf
  <1>8. Promise!Drop(e)
    <2>1. StatusOf' = [StatusOf EXCEPT ![e] = "dropped"]
      BY <1>4, <1>5
    <2>2. Promise!Become(e, "dropped")
      BY <1>6, <2>1 DEF Promise!Become, StatusOf, PhaseOf, ReportOf
    <2>3. Promise!Backlog = {d \in Events : StatusOf[d] = "accepted"}
      BY DEF Promise!Backlog, StatusOf
    <2>4. PhaseOf # "open" \/ Cardinality(Promise!Backlog) >= Buffer
      BY <1>7, <2>3
    <2>5. StatusOf[e] = "new" /\ (PhaseOf # "open" \/ Cardinality(Promise!Backlog) >= Buffer)
      BY <1>5, <2>4
    <2>6. Promise!Cardinality(Promise!Backlog) = Cardinality(Promise!Backlog)
      BY DEF Promise!Cardinality, Cardinality, Promise!IsFiniteSet, IsFiniteSet
    <2>7. Promise!Drop(e) <=> /\ StatusOf[e] = "new"
                              /\ PhaseOf # "open" \/ Cardinality(Promise!Backlog) >= Buffer
                              /\ Promise!Become(e, "dropped")
      BY <2>6 DEF Promise!Drop, StatusOf, PhaseOf
    <2> QED BY <2>2, <2>5, <2>7
  <1> QED BY <1>8 DEF Abstractly, Promise!BNext

LEMMA PublishKeepsPromise ==
    ASSUME Inv, Inv', NEW e \in Events, Publish(e) PROVE Abstractly
  <1>1. TypeOK /\ TypeOK' /\ (~open => closed)
    BY DEF Inv, CloserInv
  <1>2. CASE CheckClosed(e)
    <2>1. CASE closed
      BY <1>2, <2>1, DropKeepsPromise DEF CheckClosed
    <2>2. CASE ~closed
      <3>1. \A d \in Events : /\ publisher[d] = "dropped" <=> publisher'[d] = "dropped"
                              /\ Accepted(d) <=> Accepted(d)'
                              /\ (Queued(d) \/ InHand(d))' <=> Queued(d) \/ InHand(d)
        BY <1>1, <1>2, <2>2 DEF CheckClosed, TypeOK, Accepted, Queued, InHand
      <3>2. StatusOf' = StatusOf
        BY <1>1, <3>1, SameStatus
      <3> QED BY <1>2, <3>2 DEF CheckClosed, Abstractly, PhaseOf, ReportOf
    <2> QED BY <2>1, <2>2
  <1>3. CASE TrySend(e) /\ ~(open /\ Len(queue) < Buffer)
    BY <1>3, DropKeepsPromise DEF TrySend
  <1>4. CASE TrySend(e) /\ open /\ Len(queue) < Buffer
    <2>1. /\ publisher[e] = "checked" /\ queue' = Append(queue, e)
          /\ publisher' = [publisher EXCEPT ![e] = "sent"]
          /\ UNCHANGED <<open, closed, worker, published, dropped, closer>>
      <3>1. Len(queue) \in Nat /\ Len(queue) # Buffer
        BY <1>1, <1>4, Constants DEF TypeOK
      <3> QED BY <1>4, <3>1 DEF TrySend
    <2>2. Queued(e)' /\ \A d \in Events \ {e} : Queued(d)' <=> Queued(d)
      BY <1>4, <2>1, SendStep
    <2>3. /\ Accepted(e)' /\ \A d \in Events \ {e} : publisher'[d] = publisher[d]
          /\ \A d \in Events : InHand(d)' <=> InHand(d)
      BY <1>1, <2>1 DEF Accepted, InHand, TypeOK
    <2>4. StatusOf' = [StatusOf EXCEPT ![e] = StatusOf'[e]]
      BY <1>1, <2>2, <2>3, StatusStep
    <2>5. StatusOf[e] = "new"
      BY <1>1, <2>1, StatusValues
    <2>6. StatusOf'[e] = "accepted"
      BY <1>1, <2>1, <2>2, <2>3 DEF StatusOf, TypeOK
    <2>7. PhaseOf' = PhaseOf /\ ReportOf' = ReportOf /\ PhaseOf # "closed"
      BY <1>4, <2>1 DEF PhaseOf, ReportOf
    <2>8. Promise!Accept(e)
      BY <2>4, <2>5, <2>6, <2>7 DEF Promise!Accept, Promise!Become, StatusOf, PhaseOf, ReportOf
    <2> QED BY <2>8 DEF Abstractly, Promise!BNext
  <1>5. CASE CountPublished(e)
    <2>1. \A d \in Events : /\ publisher[d] = "dropped" <=> publisher'[d] = "dropped"
                            /\ Accepted(d) <=> Accepted(d)'
                            /\ (Queued(d) \/ InHand(d))' <=> Queued(d) \/ InHand(d)
      BY <1>1, <1>5 DEF CountPublished, TypeOK, Accepted, Queued, InHand
    <2>2. StatusOf' = StatusOf
      BY <1>1, <2>1, SameStatus
    <2> QED BY <1>5, <2>2 DEF CountPublished, Abstractly, PhaseOf, ReportOf
  <1> QED BY <1>2, <1>3, <1>4, <1>5 DEF Publish

LEMMA WorkKeepsPromise ==
    ASSUME Inv, Inv', NEW w \in Workers, Work(w) PROVE Abstractly
  <1>1. TypeOK /\ TypeOK'
    BY DEF Inv
  <1>2. /\ UNCHANGED <<open, closed, publisher, closer>>
        /\ \A d \in Events : Accepted(d)' <=> Accepted(d)
        /\ PhaseOf' = PhaseOf /\ ReportOf' = ReportOf
    BY DEF Work, Receive, Invoke, Leave, Accepted, PhaseOf, ReportOf
  <1>3. ASSUME \A d \in Events : (Queued(d) \/ InHand(d))' <=> Queued(d) \/ InHand(d)
        PROVE  Abstractly
    <2>1. StatusOf' = StatusOf
      BY <1>1, <1>2, <1>3, SameStatus
    <2> QED BY <1>2, <2>1 DEF Abstractly
  <1>4. CASE Receive(w)
    BY <1>3, <1>4, ReceiveStep
  <1>5. ASSUME queue' = queue, \A v \in Workers : worker'[v].event = worker[v].event
        PROVE  Abstractly
    BY <1>3, <1>5 DEF Queued, InHand
  <1>6. CASE Leave(w)
    <2>1. \A v \in Workers : worker'[v].event = worker[v].event
      BY <1>1, <1>6, Constants DEF Leave, TypeOK
    <2> QED BY <1>5, <1>6, <2>1 DEF Leave
  <1>7. CASE Invoke(w) /\ worker[w].next # Handlers
    <2>1. \A v \in Workers : worker'[v].event = worker[v].event
      BY <1>1, <1>7 DEF Invoke, TypeOK
    <2> QED BY <1>5, <1>7, <2>1 DEF Invoke
  <1>8. CASE Invoke(w) /\ worker[w].next = Handlers
    <2>1. PICK e \in Events : worker[w].event = e
      BY <1>1, <1>8 DEF Invoke, TypeOK
    <2>2. /\ queue' = queue /\ worker'[w] = Idle
          /\ \A v \in Workers \ {w} : worker'[v] = worker[v]
      BY <1>1, <1>8 DEF Invoke, TypeOK
    <2>3. InHand(e) /\ ~Queued(e) /\ Accepted(e) /\ \A v \in Workers \ {w} : worker[v].event # e
      BY <2>1 DEF Inv, DispatchedAtMostOnce, InHand
    <2>4. ~InHand(e)' /\ ~Queued(e)'
      BY <2>2, <2>3, Constants DEF InHand, Queued
    <2>5. \A d \in Events \ {e} : InHand(d)' <=> InHand(d)
      BY <2>1, <2>2, Constants DEF InHand
    <2>6. \A d \in Events : Queued(d)' <=> Queued(d)
      BY <2>2 DEF Queued
    <2>7. StatusOf' = [StatusOf EXCEPT ![e] = StatusOf'[e]]
      BY <1>1, <1>2, <2>5, <2>6, StatusStep
    <2>8. StatusOf[e] = "accepted"
      BY <1>1, <2>3, StatusValues
    <2>9. StatusOf'[e] = "delivered"
      <3>1. publisher'[e] \notin {"dropped", "idle", "checked"}
        BY <1>2, <2>3 DEF Accepted
      <3> QED BY <2>4, <3>1 DEF StatusOf
    <2>10. Promise!Deliver(e)
      BY <1>2, <2>7, <2>8, <2>9
         DEF Promise!Deliver, Promise!Become, StatusOf, PhaseOf, ReportOf
    <2> QED BY <2>10 DEF Abstractly, Promise!BNext
  <1> QED BY <1>4, <1>6, <1>7, <1>8 DEF Work

\* When every worker has left, the channel is empty and nothing is in hand.
LEMMA NothingLeft ==
    ASSUME Inv, \A w \in Workers : worker[w] = Exited
    PROVE  {e \in Events : StatusOf[e] = "accepted"} = {}
  <1>1. queue = <<>> /\ Len(queue) = 0
    BY BusAssumption, Constants DEF Inv, WorkerInv
  <1>2. \A e \in Events : ~Queued(e) /\ ~InHand(e)
    BY <1>1, Constants DEF Queued, InHand
  <1>3. \A e \in Events : StatusOf[e] # "accepted"
    BY <1>2, StatusValues DEF Inv, TypeOK, Accepted
  <1> QED BY <1>3

LEMMA ShutdownKeepsPromise ==
    ASSUME Inv, Inv', NEW s \in Closers, Shutdown(s) PROVE Abstractly
  <1>1. TypeOK /\ TypeOK' /\ CloserInv
    BY DEF Inv
  <1>2. UNCHANGED <<queue, worker, publisher>>
    BY DEF Shutdown, SetClosed, CloseQueue, JoinShutdown, ReturnDrained, ReturnTruncated
  <1>3. StatusOf' = StatusOf
    <2>1. \A e \in Events : /\ Accepted(e)' <=> Accepted(e)
                            /\ (Queued(e) \/ InHand(e))' <=> Queued(e) \/ InHand(e)
      BY <1>2 DEF Accepted, Queued, InHand
    <2> QED BY <1>1, <1>2, <2>1, SameStatus
  <1>4. ASSUME closer[s] \in {"idle", "closing"},
               \E p \in {"closing", "waiting"} : closer' = [closer EXCEPT ![s] = p]
        PROVE  ReportOf' = ReportOf
    BY <1>1, <1>4 DEF ReportOf, TypeOK
  <1>5. CASE SetClosed(s)
    <2>1. PhaseOf = "open" /\ PhaseOf' = "stopping" /\ ReportOf' = ReportOf
      BY <1>1, <1>4, <1>5 DEF SetClosed, PhaseOf, CloserInv, TypeOK
    <2>2. Promise!Stop
      BY <1>3, <2>1 DEF Promise!Stop, StatusOf, PhaseOf, ReportOf
    <2> QED BY <2>2 DEF Abstractly, Promise!BNext
  <1>6. CASE CloseQueue(s)
    <2>1. PhaseOf = "stopping" /\ PhaseOf' = "closed" /\ ReportOf' = ReportOf
      BY <1>1, <1>4, <1>6 DEF CloseQueue, PhaseOf, CloserInv, TypeOK
    <2>2. Promise!Close
      BY <1>3, <2>1 DEF Promise!Close, StatusOf, PhaseOf, ReportOf
    <2> QED BY <2>2 DEF Abstractly, Promise!BNext
  <1>7. CASE JoinShutdown(s)
    <2>1. PhaseOf' = PhaseOf /\ ReportOf' = ReportOf
      BY <1>4, <1>7 DEF JoinShutdown, PhaseOf
    <2> QED BY <1>3, <2>1 DEF Abstractly
  <1>8. ASSUME NEW how \in {"drained", "truncated"}, closer[s] = "waiting",
               closer' = [closer EXCEPT ![s] = how], UNCHANGED <<open, closed>>,
               how = "drained" => {e \in Events : StatusOf[e] = "accepted"} = {}
        PROVE  Abstractly
    <2>1. PhaseOf = "closed" /\ PhaseOf' = PhaseOf
      BY <1>1, <1>8 DEF PhaseOf, CloserInv
    <2>2. ReportOf[s] = "none" /\ ReportOf' = [ReportOf EXCEPT ![s] = how]
      BY <1>1, <1>8 DEF ReportOf, TypeOK
    <2>3. how = "drained" => Promise!Backlog = {}
      BY <1>8 DEF Promise!Backlog, StatusOf
    <2>4. Promise!Report(s, how)
      BY <1>3, <2>1, <2>2, <2>3 DEF Promise!Report, StatusOf, PhaseOf, ReportOf
    <2> QED BY <2>4 DEF Abstractly, Promise!BNext
  <1>9. CASE ReturnDrained(s)
    BY <1>8, <1>9, NothingLeft DEF ReturnDrained
  <1>10. CASE ReturnTruncated(s)
    BY <1>8, <1>10 DEF ReturnTruncated
  <1> QED BY <1>5, <1>6, <1>7, <1>9, <1>10 DEF Shutdown

LEMMA NextKeepsPromise == Inv /\ Inv' /\ [Next]_vars => Abstractly
  <1> SUFFICES ASSUME Inv, Inv', [Next]_vars PROVE Abstractly
    OBVIOUS
  <1>1. CASE UNCHANGED vars
    <2>1. UNCHANGED <<queue, open, closed, publisher, worker, closer>>
      BY <1>1 DEF vars
    <2>2. StatusOf' = StatusOf /\ PhaseOf' = PhaseOf /\ ReportOf' = ReportOf
      BY <2>1 DEF StatusOf, PhaseOf, ReportOf, Accepted, Queued, InHand
    <2> QED BY <2>2 DEF Abstractly
  <1> QED BY <1>1, PublishKeepsPromise, WorkKeepsPromise, ShutdownKeepsPromise
          DEF Next, Terminating

\* The bus, with its channel, goroutines, flag and recovered panics, implements
\* the best-effort bus: an event is dropped only when the channel is full or the
\* bus stops, delivered at most once, and Shutdown reports a drain only when every
\* accepted event has been dispatched (events.go, Publish, worker, Shutdown).
THEOREM ImplementsPromise == Spec => KeepsPromise
  <1>1. Inv /\ Inv' /\ [Next]_vars => [Promise!BNext]_<<StatusOf, PhaseOf, ReportOf>>
    BY NextKeepsPromise DEF Abstractly
  <1>2. Inv /\ Inv' /\ [Next]_vars => [Promise!BNext]_(Promise!bvars)
    BY <1>1 DEF Promise!bvars, StatusOf, PhaseOf, ReportOf
  <1> QED BY <1>2, PromiseInit, Invariance, PTL DEF Spec, KeepsPromise, Promise!BSpec

-----------------------------------------------------------------------------
(* The counters.                                                           *)

Published == {e \in Events : publisher[e] = "published"}
Dropped == {e \in Events : publisher[e] = "dropped"}

\* Each counter is the number of calls of Publish that ended that way.
CountInv == published = Cardinality(Published) /\ dropped = Cardinality(Dropped)

\* Counting a call that was in neither set.
LEMMA CountOne ==
    ASSUME NEW S \in SUBSET Events, NEW e \in Events \ S
    PROVE  Cardinality(S \cup {e}) = Cardinality(S) + 1
  BY BusAssumption, FS_Subset, FS_AddElement

LEMMA CountNext == Inv /\ CountInv /\ [Next]_vars => CountInv'
  <1> SUFFICES ASSUME Inv, CountInv, [Next]_vars PROVE CountInv'
    OBVIOUS
  <1>1. TypeOK
    BY DEF Inv
  <1>2. ASSUME UNCHANGED <<published, dropped>>, Published' = Published, Dropped' = Dropped
        PROVE  CountInv'
    BY <1>2 DEF CountInv
  <1>3. ASSUME NEW e \in Events, publisher[e] \in {"idle", "checked"}, DropEvent(e)
        PROVE  CountInv'
    <2>1. Dropped' = Dropped \cup {e} /\ Published' = Published /\ e \notin Dropped
      BY <1>1, <1>3 DEF DropEvent, TypeOK, Dropped, Published
    <2>2. Cardinality(Dropped') = Cardinality(Dropped) + 1
      BY <2>1, CountOne DEF Dropped
    <2> QED BY <1>3, <2>1, <2>2 DEF DropEvent, CountInv
  <1>4. ASSUME NEW e \in Events, CountPublished(e) PROVE CountInv'
    <2>1. Published' = Published \cup {e} /\ Dropped' = Dropped /\ e \notin Published
      BY <1>1, <1>4 DEF CountPublished, TypeOK, Dropped, Published
    <2>2. Cardinality(Published') = Cardinality(Published) + 1
      BY <2>1, CountOne DEF Published
    <2> QED BY <1>4, <2>1, <2>2 DEF CountPublished, CountInv
  <1>5. ASSUME NEW e \in Events, NEW s \in {"checked", "sent"}, UNCHANGED <<published, dropped>>,
               publisher[e] \in {"idle", "checked"}, publisher' = [publisher EXCEPT ![e] = s]
        PROVE  CountInv'
    <2>1. Published' = Published /\ Dropped' = Dropped
      BY <1>1, <1>5 DEF TypeOK, Published, Dropped
    <2> QED BY <1>2, <1>5, <2>1
  <1>6. ASSUME NEW e \in Events, Publish(e) PROVE CountInv'
    BY <1>3, <1>4, <1>5, <1>6 DEF Publish, CheckClosed, TrySend
  <1>7. ASSUME UNCHANGED <<published, dropped, publisher>> PROVE CountInv'
    BY <1>2, <1>7 DEF Published, Dropped
  <1>8. ASSUME NEW w \in Workers, Work(w) PROVE CountInv'
    BY <1>7, <1>8 DEF Work, Receive, Invoke, Leave
  <1>9. ASSUME NEW s \in Closers, Shutdown(s) PROVE CountInv'
    BY <1>7, <1>9
       DEF Shutdown, SetClosed, CloseQueue, JoinShutdown, ReturnDrained, ReturnTruncated
  <1> QED BY <1>6, <1>7, <1>8, <1>9 DEF Next, Terminating, vars

LEMMA CountSafe == Inv /\ CountInv => StatsAddUp
  <1> SUFFICES ASSUME Inv, CountInv PROVE StatsAddUp
    OBVIOUS
  <1> DEFINE A == {e \in Events : Accepted(e)}
  <1>1. Published \subseteq A /\ IsFiniteSet(A)
    BY BusAssumption, FS_Subset DEF Published, Accepted
  <1>2. published <= Cardinality(A)
    BY <1>1, FS_Subset DEF CountInv
  <1>3. ASSUME \A e \in Events : publisher[e] \in {"idle", "published", "dropped"}
        PROVE  Published = A
    BY <1>3 DEF Published, Accepted
  <1> QED BY <1>2, <1>3 DEF StatsAddUp, CountInv, Dropped

\* For any number of publishers, Stats never counts more as published than was
\* accepted, and once no Publish is running the two counters account for every
\* event offered (events.go, Publish and Stats).
THEOREM CountersAddUp == Spec => []StatsAddUp
  <1>1. Init => CountInv
    <2>1. Init => Published = {} /\ Dropped = {}
      BY DEF Init, Published, Dropped
    <2> QED BY <2>1, FS_EmptySet DEF Init, CountInv
  <1> QED BY <1>1, CountNext, CountSafe, Invariance, PTL DEF Spec
=============================================================================
