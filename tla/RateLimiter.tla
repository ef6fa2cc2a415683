---------------------------- MODULE RateLimiter ----------------------------
(***************************************************************************)
(* middleware.RateLimiter: token buckets keyed by caller, refilled lazily, *)
(* with a janitor that forgets idle ones, and the middleware that asks it. *)
(* Allow reads the clock before it takes the mutex, so readings reach a    *)
(* bucket late and out of order.  A critical section is one action.        *)
(*                                                                         *)
(* Time is counted in the clock's own unit and tokens in fractions: one    *)
(* request costs Unit, and Rate fractions are added per unit of time.      *)
(***************************************************************************)
EXTENDS Integers, FiniteSets, FiniteSetsExt

CONSTANTS
    Requests, Users, Addresses,
    User, Address,          \* of each request; None: not signed in
    Rate, Burst, Unit,
    Second,                 \* a second, the unit of Retry-After
    IdleTTL,
    Horizon,                \* bound on the clock
    MaxLag,                 \* bound on the wait between the clock and the mutex
    None

ASSUME LimiterAssumption ==
    /\ IsFiniteSet(Requests)
    /\ None \notin Users
    /\ User \in [Requests -> Users \cup {None}]
    /\ Address \in [Requests -> Addresses]
    /\ {Rate, Burst, Unit, Second} \subseteq Nat \ {0}
    /\ IdleTTL \in Nat /\ IdleTTL > 1
    /\ {Horizon, MaxLag} \subseteq Nat

\* A bucket that is forgotten was full.  The configuration does not ask for
\* it; the default rates and bursts satisfy it by far.
ASSUME EvictedIsFull == Rate * IdleTTL >= Burst * Unit

VARIABLES
    clock,
    buckets,    \* by key
    req,        \* each request: where it is, its reading, its answer
    janitor,    \* the goroutine and the cutoff it computed
    ticked      \* the ticker's channel holds a tick

vars == <<clock, buckets, req, janitor, ticked>>

Full == Burst * Unit
Keys == ({"user"} \X Users) \cup ({"ip"} \X Addresses)

NoBucket == [tracked |-> FALSE, tokens |-> 0, lastSeen |-> 0]
NewRequest == [pc |-> "new", now |-> 0, at |-> 0, retryAfter |-> 0,
               last |-> FALSE]

TypeOK ==
    /\ clock \in 0 .. Horizon
    /\ buckets \in [Keys -> [tracked : BOOLEAN, tokens : 0 .. Full,
                             lastSeen : 0 .. Horizon]]
    /\ req \in [Requests -> [pc : {"new", "locking", "allowed", "denied"},
                             now : 0 .. Horizon,
                             at : 0 .. Horizon,     \* history: when it was answered
                             retryAfter : Nat,
                             last : BOOLEAN]]       \* history: none passed since
    /\ janitor \in [pc : {"select", "evict"}, cutoff : Int]
    /\ ticked \in BOOLEAN

Init ==
    /\ clock = 0
    /\ buckets = [k \in Keys |-> NoBucket]
    /\ req = [r \in Requests |-> NewRequest]
    /\ janitor = [pc |-> "select", cutoff |-> 0]
    /\ ticked = FALSE

-----------------------------------------------------------------------------
(* Time.                                                                   *)

Running(r) == req[r].pc = "locking"

\* The ticker's channel holds one tick; a tick nobody took is not doubled.
Tick ==
    /\ clock < Horizon
    /\ \A r \in Requests : Running(r) => clock - req[r].now < MaxLag
    /\ clock' = clock + 1
    /\ ticked' = (ticked \/ clock' % (IdleTTL \div 2) = 0)
    /\ UNCHANGED <<buckets, req, janitor>>

-----------------------------------------------------------------------------
(* Middleware and Allow.                                                   *)

\* httpx.Actor in the limiter's middleware: the router mounts both limiters
\* outside every authenticator, so nobody has put an actor in the context.
ActorInContext(r) == None

KeyOf(r) == IF ActorInContext(r) # None THEN <<"user", ActorInContext(r)>>
                                        ELSE <<"ip", Address[r]>>

ReadClock(r) ==
    /\ req[r].pc = "new"
    /\ req' = [req EXCEPT ![r].pc = "locking", ![r].now = clock]
    /\ UNCHANGED <<clock, buckets, janitor, ticked>>

\* Mutant: no cap.
RefilledPastBurst(b, now) ==
    IF now > b.lastSeen THEN b.tokens + (now - b.lastSeen) * Rate ELSE b.tokens
\* Mutant: whole tokens only, and the rest of the time is lost.
RefilledWhole(b, now) ==
    IF now > b.lastSeen
    THEN Min({Full, b.tokens + (((now - b.lastSeen) * Rate) \div Unit) * Unit})
    ELSE b.tokens
Refilled(b, now) ==
    IF now > b.lastSeen THEN Min({Full, b.tokens + (now - b.lastSeen) * Rate})
                        ELSE b.tokens

\* Mutant: rounded down.
RetryAfterFloor(tokens) == Max({1, ((Unit - tokens) \div Rate) \div Second})
\* The wait in whole seconds: to the clock's unit downwards, then up, at least 1.
RetryAfter(tokens) ==
    Max({1, (((Unit - tokens) \div Rate) + Second - 1) \div Second})

\* Mutant: the bucket's time is set on success only.
StoreStale(r, tokens) ==
    buckets' = [buckets EXCEPT ![KeyOf(r)] =
                  [tracked |-> TRUE, tokens |-> tokens,
                   lastSeen |-> IF buckets[KeyOf(r)].tracked /\ tokens < Unit
                                THEN buckets[KeyOf(r)].lastSeen ELSE req[r].now]]

\* The new bucket or the refilled one, after a decision on the request.
Store(r, tokens) ==
    buckets' = [buckets EXCEPT ![KeyOf(r)] =
                  [tracked |-> TRUE, tokens |-> tokens, lastSeen |-> req[r].now]]

Answer(r, pc, retryAfter) ==
    req' = [q \in Requests |->
              IF q = r THEN [pc |-> pc, now |-> req[r].now, at |-> clock,
                             retryAfter |-> retryAfter, last |-> pc = "denied"]
              ELSE [req[q] EXCEPT !.last = @ /\ ~(pc = "allowed" /\ KeyOf(q) = KeyOf(r))]]

Allow(r) ==
    LET b == buckets[KeyOf(r)]
        tokens == IF b.tracked THEN Refilled(b, req[r].now) ELSE Full IN
    /\ Running(r)
    /\ \/ tokens >= Unit /\ Store(r, tokens - Unit) /\ Answer(r, "allowed", 0)
       \/ tokens < Unit /\ Store(r, tokens) /\ Answer(r, "denied", RetryAfter(tokens))
    /\ UNCHANGED <<clock, janitor, ticked>>

-----------------------------------------------------------------------------
(* The janitor; Close, which ends it, is in module Lifecycle.              *)

Wake ==
    /\ janitor.pc = "select" /\ ticked
    /\ ticked' = FALSE
    /\ janitor' = [pc |-> "evict", cutoff |-> clock - IdleTTL]
    /\ UNCHANGED <<clock, buckets, req>>

\* Mutant: idle for twice the time.
IdleTwice(k) == buckets[k].tracked /\ buckets[k].lastSeen < janitor.cutoff - IdleTTL
Idle(k) == buckets[k].tracked /\ buckets[k].lastSeen < janitor.cutoff

EvictIdle ==
    /\ janitor.pc = "evict"
    /\ janitor' = [janitor EXCEPT !.pc = "select"]
    /\ buckets' = [k \in Keys |-> IF Idle(k) THEN NoBucket ELSE buckets[k]]
    /\ UNCHANGED <<clock, req, ticked>>

-----------------------------------------------------------------------------
Next ==
    \/ Tick
    \/ \E r \in Requests : ReadClock(r) \/ Allow(r)
    \/ Wake \/ EvictIdle

Spec == Init /\ [][Next]_vars

-----------------------------------------------------------------------------
(* What must hold.                                                         *)

Answered(k, pc) == {r \in Requests : KeyOf(r) = k /\ req[r].pc = pc}

\* The requests of a key that were let through in a window of time, and how
\* late the readings were that reached its bucket in it: the units of time that
\* its requests waited between the clock and the mutex.
Passed(k, from, to) == {r \in Answered(k, "allowed") : req[r].at \in from .. to}
Lag(k, from, to) ==
    LET late == {r \in Answered(k, "allowed") \cup Answered(k, "denied") :
                   req[r].at \in from .. to} IN
    Cardinality(UNION {{r} \X (req[r].now + 1 .. req[r].at) : r \in late})

\* "allowing rate requests per second with the given burst": over any window a
\* key gets no more than the burst, the refill of the window and what late
\* readings of the clock are worth, across evictions too.
AnyWindowWithinBudget ==
    \A k \in Keys : \A from, to \in 0 .. clock :
        Passed(k, from, to) # {} /\ from <= to =>
            Cardinality(Passed(k, from, to)) * Unit
                <= Full + Rate * (to - from + Lag(k, from, to))

\* A rejected caller had used its budget up since some moment before.
DeniedOnlyWhenSpent ==
    \A k \in Keys : \A r \in Answered(k, "denied") :
        \E from \in 0 .. req[r].at :
            (Cardinality(Passed(k, from, req[r].at)) + 1) * Unit
                > Full + Rate * (req[r].now - from)

\* What the truncation of a wait to the clock's unit may lose.
Resolution == IF Rate = 1 THEN 0 ELSE 1

\* Retry-After is long enough: a caller that comes back after the wait it was
\* told finds a token, unless another request of its key was let through since.
RetryAfterIsEnough ==
    \A k \in Keys : \A r \in Answered(k, "denied") :
        LET back == req[r].at + req[r].retryAfter * Second + Resolution IN
        buckets[k].tracked /\ req[r].last
            => Refilled(buckets[k], back) >= Unit

\* The map does not grow for ever: once the janitor has caught up with its
\* ticker, every bucket was used within the last IdleTTL and one period.
IdleBucketsReclaimed ==
    janitor.pc = "select" /\ ~ticked =>
        \A k \in Keys : buckets[k].tracked =>
            \E r \in Answered(k, "allowed") \cup Answered(k, "denied") :
                req[r].at >= clock - IdleTTL - IdleTTL \div 2

\* "a company behind one NAT address does not throttle itself": a signed-in
\* caller is rejected only if it has used the budget up itself.
NoThrottlingByOthers ==
    \A r \in Requests :
        req[r].pc = "denied" /\ User[r] # None =>
            Cardinality({q \in Requests : User[q] = User[r] /\ req[q].pc = "allowed"})
                >= Burst
=============================================================================
