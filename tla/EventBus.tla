------------------------------ MODULE EventBus ------------------------------
(***************************************************************************)
(* events.Bus: publishers that never block, a bounded channel, a fixed     *)
(* pool of workers, and a Shutdown that closes the channel and waits for   *)
(* the workers under a deadline.  Each event is one call of Publish.  One  *)
(* action is one access to state the goroutines share.                     *)
(***************************************************************************)
EXTENDS Naturals, Sequences, FiniteSets

CONSTANTS
    Events,     \* the events offered, each by a Publish of its own
    Workers,    \* the goroutines started by Start
    Buffer,     \* capacity of the channel
    Handlers,   \* number of subscribed handlers, called in order
    Closers,    \* the calls of Shutdown
    None

ASSUME BusAssumption ==
    /\ IsFiniteSet(Events) /\ IsFiniteSet(Workers) /\ Workers # {}
    /\ Buffer \in Nat \ {0} /\ Handlers \in Nat \ {0}
    /\ None \notin Events

VARIABLES
    queue,      \* the channel's buffer
    open,       \* FALSE once the channel is closed
    closed,     \* the closed flag
    publisher,  \* where each Publish call is
    worker,     \* the event each worker dispatches and the handler it is at
    published, dropped,     \* the counters
    closer      \* where each Shutdown call is

vars == <<queue, open, closed, publisher, worker, published, dropped, closer>>

Idle == [event |-> None, next |-> 0]
Exited == [event |-> None, next |-> Handlers + 1]

TypeOK ==
    /\ queue \in Seq(Events) /\ Len(queue) <= Buffer
    /\ open \in BOOLEAN /\ closed \in BOOLEAN
    /\ publisher \in [Events -> {"idle", "checked", "sent", "published", "dropped"}]
    /\ worker \in [Workers -> [event : Events \cup {None}, next : 0..Handlers + 1]]
    /\ published \in Nat /\ dropped \in Nat
    /\ closer \in [Closers -> {"idle", "closing", "waiting", "drained", "truncated"}]

Init ==
    /\ queue = <<>>
    /\ open = TRUE /\ closed = FALSE
    /\ publisher = [e \in Events |-> "idle"]
    /\ worker = [w \in Workers |-> Idle]
    /\ published = 0 /\ dropped = 0
    /\ closer = [s \in Closers |-> "idle"]

-----------------------------------------------------------------------------
(* Publish.                                                                *)

DropEvent(e) ==
    /\ publisher' = [publisher EXCEPT ![e] = "dropped"]
    /\ dropped' = dropped + 1
    /\ UNCHANGED <<queue, published>>

CheckClosed(e) ==
    /\ publisher[e] = "idle"
    /\ \/ /\ closed
          /\ DropEvent(e)
       \/ /\ ~closed
          /\ publisher' = [publisher EXCEPT ![e] = "checked"]
          /\ UNCHANGED <<queue, published, dropped>>
    /\ UNCHANGED <<open, closed, worker, closer>>

\* Mutant: an event refused by a full channel is not counted.
TrySendUncounted(e) ==
    /\ publisher[e] = "checked"
    /\ open => Len(queue) = Buffer
    /\ publisher' = [publisher EXCEPT ![e] = "dropped"]
    /\ UNCHANGED <<queue, open, closed, worker, published, dropped, closer>>

\* The select: a send on the closed channel panics and is recovered as a drop,
\* a full buffer takes the default case.
TrySend(e) ==
    /\ publisher[e] = "checked"
    /\ \/ /\ open /\ Len(queue) < Buffer
          /\ queue' = Append(queue, e)
          /\ publisher' = [publisher EXCEPT ![e] = "sent"]
          /\ UNCHANGED <<published, dropped>>
       \/ /\ open => Len(queue) = Buffer
          /\ DropEvent(e)
    /\ UNCHANGED <<open, closed, worker, closer>>

\* A worker may have dispatched the event before it is counted.
CountPublished(e) ==
    /\ publisher[e] = "sent"
    /\ publisher' = [publisher EXCEPT ![e] = "published"]
    /\ published' = published + 1
    /\ UNCHANGED <<queue, open, closed, worker, dropped, closer>>

-----------------------------------------------------------------------------
(* The workers: range over the channel, dispatch, safeInvoke.              *)

Receive(w) ==
    /\ worker[w] = Idle /\ queue # <<>>
    /\ worker' = [worker EXCEPT ![w] = [event |-> Head(queue), next |-> 1]]
    /\ queue' = Tail(queue)
    /\ UNCHANGED <<open, closed, publisher, published, dropped, closer>>

\* One handler returns, or panics and is recovered; either way the next one
\* is called.  Handlers respect the context of handlerTimeout, so they return.
Invoke(w) ==
    /\ worker[w].event # None
    /\ worker' = [worker EXCEPT ![w] =
                    IF worker[w].next = Handlers THEN Idle
                    ELSE [worker[w] EXCEPT !.next = worker[w].next + 1]]
    /\ UNCHANGED <<queue, open, closed, publisher, published, dropped, closer>>

\* Mutant: the loop stops as soon as the channel is closed.
LeaveAtOnce(w) ==
    /\ worker[w] = Idle /\ ~open
    /\ worker' = [worker EXCEPT ![w] = Exited]
    /\ UNCHANGED <<queue, open, closed, publisher, published, dropped, closer>>

\* The range loop ends when the channel is closed and empty.
Leave(w) ==
    /\ worker[w] = Idle /\ queue = <<>> /\ ~open
    /\ worker' = [worker EXCEPT ![w] = Exited]
    /\ UNCHANGED <<queue, open, closed, publisher, published, dropped, closer>>

-----------------------------------------------------------------------------
(* Shutdown.                                                               *)

\* closeOnce: the first call sets the flag and goes on to close the channel.
SetClosed(s) ==
    /\ closer[s] = "idle" /\ ~closed
    /\ closed' = TRUE
    /\ closer' = [closer EXCEPT ![s] = "closing"]
    /\ UNCHANGED <<queue, open, publisher, worker, published, dropped>>

\* Mutant: the channel is never closed.
CloseQueueForgotten(s) ==
    /\ closer[s] = "closing"
    /\ closer' = [closer EXCEPT ![s] = "waiting"]
    /\ UNCHANGED <<queue, open, closed, publisher, worker, published, dropped>>

CloseQueue(s) ==
    /\ closer[s] = "closing"
    /\ open' = FALSE
    /\ closer' = [closer EXCEPT ![s] = "waiting"]
    /\ UNCHANGED <<queue, closed, publisher, worker, published, dropped>>

\* A later call waits for the first one's closeOnce, then waits like it.
JoinShutdown(s) ==
    /\ closer[s] = "idle" /\ ~open
    /\ closer' = [closer EXCEPT ![s] = "waiting"]
    /\ UNCHANGED <<queue, open, closed, publisher, worker, published, dropped>>

\* Mutant: an empty channel passes for a finished drain.
ReturnWhenEmpty(s) ==
    /\ closer[s] = "waiting"
    /\ queue = <<>>
    /\ closer' = [closer EXCEPT ![s] = "drained"]
    /\ UNCHANGED <<queue, open, closed, publisher, worker, published, dropped>>

\* The wait group is done, or the deadline passes first.
ReturnDrained(s) ==
    /\ closer[s] = "waiting"
    /\ \A w \in Workers : worker[w] = Exited
    /\ closer' = [closer EXCEPT ![s] = "drained"]
    /\ UNCHANGED <<queue, open, closed, publisher, worker, published, dropped>>

ReturnTruncated(s) ==
    /\ closer[s] = "waiting"
    /\ closer' = [closer EXCEPT ![s] = "truncated"]
    /\ UNCHANGED <<queue, open, closed, publisher, worker, published, dropped>>

-----------------------------------------------------------------------------
Publish(e) == CheckClosed(e) \/ TrySend(e) \/ CountPublished(e)
Work(w) == Receive(w) \/ Invoke(w) \/ Leave(w)
Shutdown(s) ==
    SetClosed(s) \/ CloseQueue(s) \/ JoinShutdown(s) \/ ReturnDrained(s) \/ ReturnTruncated(s)

\* Every Publish and every Shutdown returned, every worker left.
Terminating ==
    /\ \A e \in Events : publisher[e] \in {"published", "dropped"}
    /\ \A w \in Workers : worker[w] = Exited
    /\ \A s \in Closers : closer[s] \in {"drained", "truncated"}
    /\ UNCHANGED vars

Next ==
    \/ \E e \in Events : Publish(e)
    \/ \E w \in Workers : Work(w)
    \/ \E s \in Closers : Shutdown(s)
    \/ Terminating

Spec == Init /\ [][Next]_vars

\* The Go scheduler runs every runnable goroutine, and a Shutdown that has
\* begun gets to its select; nobody has to call Publish or Shutdown, and the
\* deadline is no help: it is not assumed to pass.
FairSpec ==
    /\ Spec
    /\ \A e \in Events : WF_vars(TrySend(e) \/ CountPublished(e))
    /\ \A w \in Workers : WF_vars(Work(w))
    /\ \A s \in Closers : WF_vars(CloseQueue(s) \/ ReturnDrained(s))

-----------------------------------------------------------------------------
(* What must hold.                                                         *)

Queued(e) == \E i \in 1..Len(queue) : queue[i] = e
InHand(e) == \E w \in Workers : worker[w].event = e
Accepted(e) == publisher[e] \in {"sent", "published"}

\* The promise of BestEffortBus: an accepted event that is neither in the
\* channel nor with a worker has been through all its handlers.
Promise == INSTANCE BestEffortBus WITH
    status <- [e \in Events |->
                 CASE publisher[e] = "dropped"     -> "dropped"
                   [] publisher[e] \in {"idle", "checked"} -> "new"
                   [] Accepted(e) /\ (Queued(e) \/ InHand(e)) -> "accepted"
                   [] OTHER -> "delivered"],
    phase  <- IF ~open THEN "closed" ELSE IF closed THEN "stopping" ELSE "open",
    report <- [s \in Closers |->
                 IF closer[s] \in {"drained", "truncated"} THEN closer[s] ELSE "none"]

\* The bus keeps the promise of BestEffortBus: among others, Shutdown reports a
\* drain only when every accepted event has been dispatched, even when Publish
\* raced with the closing of the channel.
KeepsPromise == Promise!BSpec

\* No event is dispatched twice or by two workers: it is at most once in the
\* channel or in a worker's hands, and only if it was accepted.
DispatchedAtMostOnce ==
    \A e \in Events :
        /\ Queued(e) \/ InHand(e) => Accepted(e)
        /\ Queued(e) => ~InHand(e)
        /\ \A i, j \in 1..Len(queue) : queue[i] = e /\ queue[j] = e => i = j
        /\ \A v, w \in Workers : worker[v].event = e /\ worker[w].event = e => v = w

\* Stats never counts more events as published than were accepted, and once no
\* Publish is running the two counters account for every event offered.
StatsAddUp ==
    /\ published <= Cardinality({e \in Events : Accepted(e)})
    /\ (\A e \in Events : publisher[e] \in {"idle", "published", "dropped"}) =>
         /\ published = Cardinality({e \in Events : Accepted(e)})
         /\ dropped = Cardinality({e \in Events : publisher[e] = "dropped"})

\* Every accepted event is dispatched to all handlers, whatever panics.
AcceptedIsDispatched ==
    \A e \in Events : Accepted(e) ~> Accepted(e) /\ ~Queued(e) /\ ~InHand(e)

\* A Shutdown that began returns, because the workers leave the closed channel.
ShutdownReturns ==
    \A s \in Closers : closer[s] # "idle" ~> closer[s] \in {"drained", "truncated"}
=============================================================================
