--------------------------- MODULE BestEffortBus ---------------------------
(***************************************************************************)
(* What events.Bus promises its callers, without its channel, goroutines   *)
(* and flags: an event is accepted or dropped, never both; it is dropped   *)
(* only because the backlog is full or the bus is stopping; an accepted    *)
(* one is delivered at most once; and a shutdown that reports a complete   *)
(* drain has delivered every accepted event.                               *)
(***************************************************************************)
EXTENDS Naturals, FiniteSets

CONSTANTS
    Events,     \* the calls of Publish
    Buffer,     \* EVENT_BUFFER
    Closers     \* the calls of Shutdown

VARIABLES
    status,     \* of each event
    phase,      \* "open", "stopping" (may refuse) or "closed" (accepts nothing)
    report      \* the result of each Shutdown

bvars == <<status, phase, report>>

Backlog == {e \in Events : status[e] = "accepted"}

BInit ==
    /\ status = [e \in Events |-> "new"]
    /\ phase = "open"
    /\ report = [s \in Closers |-> "none"]

Become(e, s) ==
    /\ status' = [status EXCEPT ![e] = s]
    /\ UNCHANGED <<phase, report>>

Accept(e) == status[e] = "new" /\ phase # "closed" /\ Become(e, "accepted")

Drop(e) ==
    /\ status[e] = "new"
    /\ phase # "open" \/ Cardinality(Backlog) >= Buffer
    /\ Become(e, "dropped")

Deliver(e) == status[e] = "accepted" /\ Become(e, "delivered")

Stop == phase = "open" /\ phase' = "stopping" /\ UNCHANGED <<status, report>>
Close == phase = "stopping" /\ phase' = "closed" /\ UNCHANGED <<status, report>>

\* Only a full drain may be reported as one.
Report(s, result) ==
    /\ phase = "closed" /\ report[s] = "none"
    /\ result = "drained" => Backlog = {}
    /\ report' = [report EXCEPT ![s] = result]
    /\ UNCHANGED <<status, phase>>

BNext ==
    \/ \E e \in Events : Accept(e) \/ Drop(e) \/ Deliver(e)
    \/ Stop \/ Close
    \/ \E s \in Closers : \E result \in {"drained", "truncated"} : Report(s, result)

BSpec == BInit /\ [][BNext]_bvars
=============================================================================
