------------------------- MODULE RateLimiterProofs -------------------------
(***************************************************************************)
(* Proofs about RateLimiter, for any rate, burst, idle time and number of  *)
(* requests, and for readings of the clock however late and out of order.  *)
(***************************************************************************)
EXTENDS RateLimiter, FiniteSetTheorems, TLAPS

Period == IdleTTL \div 2

\* Requests of key k that have been answered, or let through, since `from', and
\* the units of time that the requests of S have waited.
Served(k, from) ==
    {r \in Answered(k, "allowed") \cup Answered(k, "denied") : req[r].at >= from}
PassedSince(k, from) == {r \in Answered(k, "allowed") : req[r].at >= from}
WaitsOf(S) == UNION {{r} \X (req[r].now + 1 .. req[r].at) : r \in S}

\* A reading precedes the answer, and both are past.
TimeInv ==
    /\ \A r \in Requests : /\ req[r].now <= clock /\ req[r].at <= clock
                           /\ req[r].pc \in {"allowed", "denied"} => req[r].now <= req[r].at
    /\ \A k \in Keys : buckets[k].lastSeen <= clock

\* What a bucket is worth: a forgotten one is as good as a full one of now.
Worth(k) == IF buckets[k].tracked THEN buckets[k].tokens ELSE Full
Seen(k) == IF buckets[k].tracked THEN buckets[k].lastSeen ELSE clock

\* Since any moment after which its bucket was used, a key has spent, and has
\* left, no more than the burst and the refill up to the bucket's last reading.
BudgetInv ==
    \A k \in Keys : \A from \in 0 .. clock :
        Served(k, from) # {} =>
            Cardinality(PassedSince(k, from)) * Unit + Worth(k)
                <= Full + Rate * (Seen(k) - from + Cardinality(WaitsOf(Served(k, from))))

\* Since the bucket was last full it has lost nothing but what it gave away.
SpentInv ==
    \A k \in Keys : buckets[k].tracked =>
        \E from \in 0 .. clock :
            Cardinality(PassedSince(k, from)) * Unit + buckets[k].tokens
                >= Full + Rate * (buckets[k].lastSeen - from)

\* The last tick that was due, and what the janitor owes for it.
LastTick == clock - (clock % Period)
SweepInv ==
    /\ \A k \in Keys : buckets[k].tracked => Served(k, buckets[k].lastSeen) # {}
    /\ janitor.pc = "evict" => janitor.cutoff <= clock - IdleTTL
    /\ janitor.pc = "evict" => ticked \/ janitor.cutoff >= LastTick - IdleTTL
    /\ janitor.pc = "select" /\ ~ticked =>
          \A k \in Keys : buckets[k].tracked => Served(k, LastTick - IdleTTL) # {}

Inv == /\ TypeOK /\ TimeInv /\ BudgetInv /\ AnyWindowWithinBudget
       /\ SpentInv /\ DeniedOnlyWhenSpent /\ RetryAfterIsEnough /\ SweepInv

-----------------------------------------------------------------------------
(* Arithmetic.                                                             *)

LEMMA Scaled ==
    ASSUME NEW c \in Nat, NEW a \in Int, NEW b \in Int
    PROVE  /\ c * a \in Int /\ c * (a + b) = c * a + c * b
           /\ a <= b => c * a <= c * b
           /\ a \in Nat => c * a \in Nat
  OBVIOUS

LEMMA Division ==
    ASSUME NEW a \in Nat, NEW b \in Nat \ {0}
    PROVE  /\ a \div b \in Nat /\ a % b \in 0 .. b - 1
           /\ a = b * (a \div b) + (a % b)
  OBVIOUS

LEMMA NextRemainder ==
    ASSUME NEW a \in Nat, NEW b \in Nat \ {0}, (a + 1) % b # 0
    PROVE  (a + 1) - ((a + 1) % b) = a - (a % b)
  <1> DEFINE q == a \div b
             s == a % b
             u == (a + 1) \div b
             t == (a + 1) % b
  <1>0. a + 1 \in Nat
    OBVIOUS
  <1>a. q \in Nat /\ s \in 0 .. b - 1 /\ a = b * q + s
    BY Division
  <1>b. u \in Nat /\ t \in 0 .. b - 1 /\ t # 0 /\ a + 1 = b * u + t
    BY <1>0, Division
  <1>1. /\ q \in Nat /\ s \in 0 .. b - 1 /\ a = b * q + s
        /\ u \in Nat /\ t \in 1 .. b - 1 /\ a + 1 = b * u + t
    <2> HIDE DEF q, s, u, t
    <2> QED BY <1>a, <1>b
  <1> HIDE DEF q, s, u, t
  <1>2. ~(q < u)
    <2> SUFFICES ASSUME q + 1 <= u PROVE FALSE
      BY <1>1
    <2>1. b * q + b <= b * u
      BY <1>1, Scaled
    <2> QED BY <1>1, <2>1
  <1>3. ~(u < q)
    <2> SUFFICES ASSUME u + 1 <= q PROVE FALSE
      BY <1>1
    <2>1. b * u + b <= b * q
      BY <1>1, Scaled
    <2> QED BY <1>1, <2>1
  <1>4. s + 1 = t
    BY <1>1, <1>2, <1>3
  <1> QED BY <1>1, <1>4 DEF s, t

LEMMA Extrema ==
    ASSUME NEW a \in Int, NEW b \in Int
    PROVE  /\ Min({a, b}) = IF a <= b THEN a ELSE b
           /\ Max({a, b}) = IF a <= b THEN b ELSE a
  BY DEF Min, Max

LEMMA Constants ==
    /\ Rate \in Nat \ {0} /\ Unit \in Nat \ {0} /\ Second \in Nat \ {0} /\ Burst \in Nat \ {0}
    /\ Full \in Nat /\ Unit <= Full /\ Full <= Rate * IdleTTL
    /\ IdleTTL \in Nat /\ Period \in Nat \ {0} /\ Horizon \in Nat
  BY LimiterAssumption, EvictedIsFull DEF Full, Period

LEMMA KeyIsKey == ASSUME NEW r \in Requests PROVE KeyOf(r) \in Keys
  BY LimiterAssumption DEF KeyOf, ActorInContext, Keys

-----------------------------------------------------------------------------
(* What a refill adds: at least the rate, up to the burst, at most the rate *)
(* and nothing for time that has been counted before.                      *)

LEMMA Refill ==
    ASSUME NEW b \in [tracked : BOOLEAN, tokens : 0 .. Full, lastSeen : 0 .. Horizon],
           NEW now \in Int
    PROVE  /\ Refilled(b, now) \in b.tokens .. Full
           /\ Refilled(b, now) = Full
                \/ Refilled(b, now) >= b.tokens + Rate * (now - b.lastSeen)
           /\ now > b.lastSeen => Refilled(b, now) <= b.tokens + Rate * (now - b.lastSeen)
           /\ now <= b.lastSeen => Refilled(b, now) = b.tokens
  <1> DEFINE d == now - b.lastSeen
  <1>1. /\ b.tokens \in 0 .. Full /\ b.lastSeen \in 0 .. Horizon
        /\ d \in Int /\ Rate * d = d * Rate /\ Rate * d \in Int /\ Full \in Nat
        /\ d > 0 => Rate * d \in Nat
        /\ d <= 0 => Rate * d <= 0
    BY Constants, Scaled
  <1>2. Min({Full, b.tokens + d * Rate}) =
           IF Full <= b.tokens + d * Rate THEN Full ELSE b.tokens + d * Rate
    BY <1>1, Extrema
  <1>3. /\ now > b.lastSeen <=> d > 0
        /\ Refilled(b, now) = IF d > 0 THEN Min({Full, b.tokens + d * Rate}) ELSE b.tokens
    BY <1>1 DEF Refilled
  <1> HIDE DEF d
  <1>4. d > 0 => b.tokens + Rate * d >= b.tokens
    BY <1>1
  <1>5. /\ Refilled(b, now) \in b.tokens .. Full
        /\ Refilled(b, now) = Full \/ Refilled(b, now) >= b.tokens + Rate * d
        /\ d > 0 => Refilled(b, now) <= b.tokens + Rate * d
        /\ d <= 0 => Refilled(b, now) = b.tokens
    BY <1>1, <1>2, <1>3, <1>4
  <1> QED BY <1>1, <1>3, <1>5 DEF d

LEMMA RetryAfterEnough ==
    ASSUME NEW tokens \in 0 .. Unit - 1
    PROVE  /\ RetryAfter(tokens) \in Nat
           /\ Rate * (RetryAfter(tokens) * Second + Resolution) >= Unit - tokens
  <1> DEFINE missing == Unit - tokens
             wait == missing \div Rate
             secs == (wait + Second - 1) \div Second
  <1>0. missing \in Nat
    BY Constants
  <1>1. missing \in Nat /\ wait \in Nat /\ missing = Rate * wait + (missing % Rate)
        /\ missing % Rate \in 0 .. Rate - 1
    <2> HIDE DEF missing
    <2> QED BY <1>0, Constants, Division
  <1>2. /\ secs \in Nat /\ (wait + Second - 1) % Second \in 0 .. Second - 1
        /\ wait + Second - 1 = Second * secs + ((wait + Second - 1) % Second)
    <2> HIDE DEF wait
    <2>1. wait + Second - 1 \in Nat
      BY <1>1, Constants
    <2> QED BY <2>1, Constants, Division
  <1>3. RetryAfter(tokens) \in Nat /\ RetryAfter(tokens) >= secs
    <2> HIDE DEF secs
    <2>1. RetryAfter(tokens) = Max({1, secs})
      BY Zenon DEF RetryAfter, secs
    <2>2. secs \in Int /\ 1 \in Int
      BY <1>2
    <2>3. Max({1, secs}) = IF 1 <= secs THEN secs ELSE 1
      BY <2>2, Extrema
    <2> QED BY <2>1, <2>2, <2>3, <1>2
  <1> HIDE DEF wait, secs, missing
  <1>4. RetryAfter(tokens) * Second >= wait
    <2>1. Second * secs <= Second * RetryAfter(tokens)
      BY <1>2, <1>3, Constants, Scaled
    <2>2. Second * RetryAfter(tokens) = RetryAfter(tokens) * Second
      BY <1>3, Constants
    <2> QED BY <1>1, <1>2, <2>1, <2>2, <1>3, Constants
  <1>5. Rate * (wait + Resolution) >= missing
    <2>1. CASE Rate = 1
      BY <1>1, <2>1 DEF Resolution
    <2>2. CASE Rate # 1
      BY <1>1, <2>2, Constants, Scaled DEF Resolution
    <2> QED BY <2>1, <2>2
  <1>6. Rate * (wait + Resolution) <= Rate * (RetryAfter(tokens) * Second + Resolution)
    BY <1>1, <1>3, <1>4, Constants, Scaled DEF Resolution
  <1>7. /\ Rate * (wait + Resolution) \in Int /\ missing \in Int
        /\ Rate * (RetryAfter(tokens) * Second + Resolution) \in Int
    BY <1>1, <1>3, Constants DEF Resolution
  <1> QED BY <1>3, <1>5, <1>6, <1>7 DEF missing

-----------------------------------------------------------------------------
(* Counting requests and the time they waited.                             *)

LEMMA RequestType ==
    ASSUME TypeOK, NEW r \in Requests
    PROVE  /\ req[r].pc \in {"new", "locking", "allowed", "denied"}
           /\ req[r].now \in 0 .. Horizon /\ req[r].at \in 0 .. Horizon
           /\ req[r].retryAfter \in Nat /\ req[r].last \in BOOLEAN
  BY DEF TypeOK

LEMMA BucketType ==
    ASSUME TypeOK, NEW k \in Keys
    PROVE  /\ buckets[k] \in [tracked : BOOLEAN, tokens : 0 .. Full, lastSeen : 0 .. Horizon]
           /\ buckets[k].tracked \in BOOLEAN /\ buckets[k].tokens \in 0 .. Full
           /\ buckets[k].lastSeen \in 0 .. Horizon
  BY DEF TypeOK

LEMMA FiniteRequests ==
    ASSUME NEW S \in SUBSET Requests
    PROVE  IsFiniteSet(S) /\ Cardinality(S) \in Nat
  BY LimiterAssumption, FS_Subset, FS_CardinalityType

LEMMA FiniteWaits ==
    ASSUME TypeOK, NEW S \in SUBSET Requests
    PROVE  IsFiniteSet(WaitsOf(S)) /\ Cardinality(WaitsOf(S)) \in Nat
  <1>1. IsFiniteSet(Requests \X (1 .. Horizon))
    <2>1. IsFiniteSet(1 .. Horizon)
      BY Constants, FS_Interval
    <2> QED BY <2>1, LimiterAssumption, FS_Product
  <1>2. WaitsOf(S) \subseteq Requests \X (1 .. Horizon)
    BY RequestType, Constants DEF WaitsOf
  <1> QED BY <1>1, <1>2, FS_Subset, FS_CardinalityType

LEMMA ServedSets ==
    ASSUME NEW k, NEW from
    PROVE  Served(k, from) \in SUBSET Requests /\ PassedSince(k, from) \in SUBSET Requests
  BY DEF Served, PassedSince, Answered

\* Windows that reach up to now.
LEMMA WindowsUpToNow ==
    ASSUME TypeOK, TimeInv, NEW k \in Keys, NEW from \in Int
    PROVE  /\ Passed(k, from, clock) = PassedSince(k, from)
           /\ Lag(k, from, clock) = Cardinality(WaitsOf(Served(k, from)))
  <1>1. \A r \in Requests : req[r].at \in from .. clock <=> req[r].at >= from
    BY RequestType DEF TimeInv, TypeOK
  <1>2. Passed(k, from, clock) = PassedSince(k, from)
    BY <1>1 DEF Passed, PassedSince, Answered
  <1>3. {r \in Answered(k, "allowed") \cup Answered(k, "denied") : req[r].at \in from .. clock}
           = Served(k, from)
    BY <1>1 DEF Served, Answered
  <1> QED BY <1>2, <1>3 DEF Lag, WaitsOf

\* The time one more request has waited.
LEMMA OneMoreWait ==
    ASSUME TypeOK, TypeOK', NEW S \in SUBSET Requests, NEW r \in Requests \ S,
           req'[r].now <= req'[r].at,
           \A q \in S : req'[q].now = req[q].now /\ req'[q].at = req[q].at
    PROVE  Cardinality(WaitsOf(S \cup {r})') =
              Cardinality(WaitsOf(S)) + (req'[r].at - req'[r].now)
  <1> DEFINE I == req'[r].now + 1 .. req'[r].at
  <1>1. req'[r].now \in Nat /\ req'[r].at \in Nat
    BY Constants DEF TypeOK
  <1>2. IsFiniteSet(I) /\ Cardinality(I) = req'[r].at - req'[r].now
    <2>1. req'[r].now + 1 \in Int /\ req'[r].at \in Int
      BY <1>1
    <2>2. /\ IsFiniteSet(I)
          /\ Cardinality(I) = IF req'[r].now + 1 > req'[r].at THEN 0
                              ELSE req'[r].at - (req'[r].now + 1) + 1
      BY <2>1, FS_Interval
    <2> QED BY <1>1, <2>2
  <1> HIDE DEF I
  <1>3. IsFiniteSet({r} \X I) /\ Cardinality({r} \X I) = Cardinality(I)
    <2>1. IsFiniteSet({r}) /\ Cardinality({r}) = 1
      BY FS_Singleton
    <2>2. IsFiniteSet({r} \X I) /\ Cardinality({r} \X I) = Cardinality({r}) * Cardinality(I)
      BY <1>2, <2>1, FS_Product
    <2> QED BY <1>1, <1>2, <2>1, <2>2
  <1>4. WaitsOf(S \cup {r})' = WaitsOf(S) \cup ({r} \X I)
    BY DEF WaitsOf, I
  <1>5. WaitsOf(S) \cap ({r} \X I) = {}
    BY DEF WaitsOf
  <1>6. IsFiniteSet(WaitsOf(S)) /\ Cardinality(WaitsOf(S)) \in Nat
    BY FiniteWaits
  <1>7. Cardinality(WaitsOf(S) \cup ({r} \X I)) =
           Cardinality(WaitsOf(S)) + Cardinality({r} \X I)
    <2> DEFINE A == WaitsOf(S)
               B == {r} \X I
    <2>1. IsFiniteSet(A) /\ Cardinality(A) \in Nat /\ IsFiniteSet(B) /\ A \cap B = {}
      BY <1>3, <1>5, <1>6
    <2> HIDE DEF A, B
    <2>2. Cardinality(A \cap B) = 0 /\ Cardinality(B) \in Nat
      BY <2>1, FS_EmptySet, FS_CardinalityType
    <2>3. Cardinality(A \cup B) = Cardinality(A) + Cardinality(B) - Cardinality(A \cap B)
      BY <2>1, FS_Union
    <2>4. Cardinality(A \cup B) = Cardinality(A) + Cardinality(B)
      BY <2>1, <2>2, <2>3
    <2> QED BY <2>4 DEF A, B
  <1> QED BY <1>2, <1>3, <1>4, <1>7

-----------------------------------------------------------------------------
(* Steps that answer nobody.                                               *)

AnswersKept ==
    \A r \in Requests : IF req[r].pc \in {"allowed", "denied"}
                        THEN req'[r] = req[r]
                        ELSE req'[r].pc \notin {"allowed", "denied"}

LEMMA SameAnswers ==
    ASSUME AnswersKept
    PROVE  /\ \A k : \A pc \in {"allowed", "denied"} : Answered(k, pc)' = Answered(k, pc)
           /\ \A k, from : /\ PassedSince(k, from)' = PassedSince(k, from)
                          /\ Served(k, from)' = Served(k, from)
                          /\ WaitsOf(Served(k, from))' = WaitsOf(Served(k, from))
           /\ \A k : \A from, to \in Int :
                 /\ Passed(k, from, to)' = Passed(k, from, to)
                 /\ Lag(k, from, to)' = Lag(k, from, to)
  <1>1. \A k : \A pc \in {"allowed", "denied"} : Answered(k, pc)' = Answered(k, pc)
    BY DEF AnswersKept, Answered, KeyOf, ActorInContext
  <1>2. \A k : \A pc \in {"allowed", "denied"} : \A r \in Answered(k, pc) : req'[r] = req[r]
    BY DEF AnswersKept, Answered
  <1>3. ASSUME NEW k, NEW from
        PROVE  /\ PassedSince(k, from)' = PassedSince(k, from)
               /\ Served(k, from)' = Served(k, from)
    BY <1>1, <1>2 DEF PassedSince, Served
  <1>4. ASSUME NEW k, NEW from
        PROVE  WaitsOf(Served(k, from))' = WaitsOf(Served(k, from))
    <2>1. \A r \in Served(k, from) : req'[r] = req[r]
      BY <1>2 DEF Served
    <2> QED BY <1>3, <2>1 DEF WaitsOf
  <1>5. ASSUME NEW k, NEW from \in Int, NEW to \in Int
        PROVE  Passed(k, from, to)' = Passed(k, from, to) /\ Lag(k, from, to)' = Lag(k, from, to)
    <2>1. Passed(k, from, to)' = Passed(k, from, to)
      BY <1>1, <1>2 DEF Passed
    <2> DEFINE late == {r \in Answered(k, "allowed") \cup Answered(k, "denied") :
                          req[r].at \in from .. to}
    <2>2. late' = late /\ \A r \in late : req'[r] = req[r]
      BY <1>1, <1>2
    <2> HIDE DEF late
    <2>3. (UNION {{r} \X (req[r].now + 1 .. req[r].at) : r \in late})'
            = UNION {{r} \X (req[r].now + 1 .. req[r].at) : r \in late}
      BY <2>2
    <2> QED BY <2>1, <2>3 DEF Lag, late
  <1> QED BY <1>1, <1>3, <1>4, <1>5

-----------------------------------------------------------------------------
(* Allow.                                                                  *)

\* The tokens that r finds, and those it leaves.
Found(r) == IF buckets[KeyOf(r)].tracked THEN Refilled(buckets[KeyOf(r)], req[r].now) ELSE Full
Passes(r) == Found(r) >= Unit
Left(r) == IF Passes(r) THEN Found(r) - Unit ELSE Found(r)

LEMMA AllowTokens ==
    ASSUME TypeOK, NEW r \in Requests
    PROVE  Found(r) \in 0 .. Full /\ Left(r) \in 0 .. Full /\ Passes(r) \in BOOLEAN
  <1>1. Full \in Nat /\ Unit \in Nat
    BY Constants
  <1>2. /\ buckets[KeyOf(r)] \in [tracked : BOOLEAN, tokens : 0 .. Full, lastSeen : 0 .. Horizon]
        /\ buckets[KeyOf(r)].tokens \in 0 .. Full
    BY KeyIsKey, BucketType
  <1>3. req[r].now \in Int
    BY RequestType, Constants
  <1>4. Found(r) \in 0 .. Full
    BY <1>1, <1>2, <1>3, Refill DEF Found
  <1> QED BY <1>1, <1>4 DEF Left, Passes

LEMMA AllowEffect ==
    ASSUME TypeOK, NEW r \in Requests, Allow(r)
    PROVE  /\ req[r].pc = "locking"
           /\ UNCHANGED <<clock, janitor, ticked>>
           /\ buckets' = [buckets EXCEPT ![KeyOf(r)] =
                 [tracked |-> TRUE, tokens |-> Left(r), lastSeen |-> req[r].now]]
           /\ Answer(r, IF Passes(r) THEN "allowed" ELSE "denied",
                        IF Passes(r) THEN 0 ELSE RetryAfter(Found(r)))
  <1>1. Found(r) \in Int /\ Unit \in Int
    BY AllowTokens, Constants
  <1>2. /\ Running(r)
        /\ \/ /\ Found(r) >= Unit /\ Store(r, Found(r) - Unit)
              /\ Answer(r, "allowed", 0)
           \/ /\ Found(r) < Unit /\ Store(r, Found(r))
              /\ Answer(r, "denied", RetryAfter(Found(r)))
        /\ UNCHANGED <<clock, janitor, ticked>>
    BY DEF Allow, Found
  <1>3. CASE Found(r) >= Unit
    BY <1>1, <1>2, <1>3 DEF Running, Store, Left, Passes
  <1>4. CASE Found(r) < Unit
    BY <1>1, <1>2, <1>4 DEF Running, Store, Left, Passes
  <1> QED BY <1>1, <1>3, <1>4

LEMMA AllowRequests ==
    ASSUME TypeOK, NEW r \in Requests, Allow(r)
    PROVE  /\ req'[r].pc = (IF Passes(r) THEN "allowed" ELSE "denied")
           /\ req'[r].now = req[r].now /\ req'[r].at = clock
           /\ req'[r].retryAfter = (IF Passes(r) THEN 0 ELSE RetryAfter(Found(r)))
           /\ \A q \in Requests \ {r} :
                 /\ req'[q].pc = req[q].pc /\ req'[q].now = req[q].now
                 /\ req'[q].at = req[q].at /\ req'[q].retryAfter = req[q].retryAfter
                 /\ req'[q].last => req[q].last /\ ~(Passes(r) /\ KeyOf(q) = KeyOf(r))
  <1>1. /\ req' = [q \in Requests |->
              IF q = r THEN [pc |-> IF Passes(r) THEN "allowed" ELSE "denied",
                             now |-> req[r].now, at |-> clock,
                             retryAfter |-> IF Passes(r) THEN 0 ELSE RetryAfter(Found(r)),
                             last |-> (IF Passes(r) THEN "allowed" ELSE "denied") = "denied"]
              ELSE [req[q] EXCEPT !.last = @ /\ ~((IF Passes(r) THEN "allowed" ELSE "denied")
                                                     = "allowed" /\ KeyOf(q) = KeyOf(r))]]
    BY AllowEffect DEF Answer
  <1>2. ASSUME NEW q \in Requests \ {r}
        PROVE  /\ req'[q].pc = req[q].pc /\ req'[q].now = req[q].now
               /\ req'[q].at = req[q].at /\ req'[q].retryAfter = req[q].retryAfter
               /\ req'[q].last => req[q].last /\ ~(Passes(r) /\ KeyOf(q) = KeyOf(r))
    BY <1>1 DEF TypeOK
  <1>3. /\ req'[r].pc = (IF Passes(r) THEN "allowed" ELSE "denied")
        /\ req'[r].now = req[r].now /\ req'[r].at = clock
        /\ req'[r].retryAfter = (IF Passes(r) THEN 0 ELSE RetryAfter(Found(r)))
    BY <1>1
  <1> QED BY <1>2, <1>3

LEMMA AllowBuckets ==
    ASSUME TypeOK, NEW r \in Requests, Allow(r)
    PROVE  /\ buckets'[KeyOf(r)].tracked /\ buckets'[KeyOf(r)].tokens = Left(r)
           /\ buckets'[KeyOf(r)].lastSeen = req[r].now
           /\ \A k \in Keys \ {KeyOf(r)} : buckets'[k] = buckets[k]
  BY AllowEffect, KeyIsKey DEF TypeOK

LEMMA AllowType ==
    ASSUME TypeOK, NEW r \in Requests, Allow(r)
    PROVE  TypeOK'
  <1>1. Left(r) \in 0 .. Full /\ Found(r) \in 0 .. Full /\ req[r].now \in 0 .. Horizon
    BY AllowTokens, RequestType
  <1>2. /\ buckets' \in [Keys -> [tracked : BOOLEAN, tokens : 0 .. Full, lastSeen : 0 .. Horizon]]
        /\ UNCHANGED <<clock, janitor, ticked>>
    <2> DEFINE b == [tracked |-> TRUE, tokens |-> Left(r), lastSeen |-> req[r].now]
    <2>1. b \in [tracked : BOOLEAN, tokens : 0 .. Full, lastSeen : 0 .. Horizon]
      BY <1>1
    <2>2. buckets' = [buckets EXCEPT ![KeyOf(r)] = b] /\ UNCHANGED <<clock, janitor, ticked>>
      BY AllowEffect
    <2> HIDE DEF b
    <2> QED BY <2>1, <2>2 DEF TypeOK
  <1>3. (IF Passes(r) THEN 0 ELSE RetryAfter(Found(r))) \in Nat
    <2>1. ASSUME ~Passes(r) PROVE RetryAfter(Found(r)) \in Nat
      <3>1. Found(r) \in 0 .. Unit - 1
        BY <1>1, <2>1, Constants DEF Passes
      <3> QED BY <3>1, RetryAfterEnough
    <2> QED BY <2>1
  <1>4. req' \in [Requests -> [pc : {"new", "locking", "allowed", "denied"}, now : 0 .. Horizon,
                               at : 0 .. Horizon, retryAfter : Nat, last : BOOLEAN]]
    <2> DEFINE wait == IF Passes(r) THEN 0 ELSE RetryAfter(Found(r))
               pc == IF Passes(r) THEN "allowed" ELSE "denied"
    <2>1. req' = [q \in Requests |->
              IF q = r THEN [pc |-> pc, now |-> req[r].now, at |-> clock,
                             retryAfter |-> wait, last |-> pc = "denied"]
              ELSE [req[q] EXCEPT !.last = @ /\ ~(pc = "allowed" /\ KeyOf(q) = KeyOf(r))]]
      BY AllowEffect DEF Answer
    <2>2. wait \in Nat /\ pc \in {"allowed", "denied"}
      BY <1>3
    <2> HIDE DEF wait, pc
    <2> QED BY <1>1, <2>1, <2>2 DEF TypeOK
  <1> QED BY <1>2, <1>4 DEF TypeOK

\* The answer of r joins the windows that reach up to now, and no other.
LEMMA AllowWindows ==
    ASSUME TypeOK, TimeInv, NEW r \in Requests, Allow(r), NEW from \in 0 .. clock
    PROVE  /\ r \notin Served(KeyOf(r), from) /\ r \notin PassedSince(KeyOf(r), from)
           /\ Served(KeyOf(r), from)' = Served(KeyOf(r), from) \cup {r}
           /\ PassedSince(KeyOf(r), from)' =
                 PassedSince(KeyOf(r), from) \cup (IF Passes(r) THEN {r} ELSE {})
           /\ \A k : k # KeyOf(r) =>
                 /\ Served(k, from)' = Served(k, from)
                 /\ PassedSince(k, from)' = PassedSince(k, from)
                 /\ WaitsOf(Served(k, from))' = WaitsOf(Served(k, from))
           /\ \A k : \A to \in Int : to < clock =>
                 Passed(k, from, to)' = Passed(k, from, to) /\ Lag(k, from, to)' = Lag(k, from, to)
  <1>1. clock \in Nat /\ req[r].pc = "locking"
    BY AllowEffect, Constants DEF TypeOK
  <1>2. \A q \in Requests \ {r} :
           req'[q].pc = req[q].pc /\ req'[q].now = req[q].now /\ req'[q].at = req[q].at
    BY AllowRequests
  <1>3. req'[r].pc = (IF Passes(r) THEN "allowed" ELSE "denied") /\ req'[r].at = clock
    BY AllowRequests
  <1>4. \A k, pc : Answered(k, pc)' =
           IF k = KeyOf(r) /\ pc = req'[r].pc THEN Answered(k, pc) \cup {r} ELSE Answered(k, pc) \ {r}
    BY <1>1, <1>2 DEF Answered, KeyOf, ActorInContext
  <1>5. \A k : \A pc \in {"allowed", "denied"} : r \notin Answered(k, pc)
    BY <1>1 DEF Answered
  <1>6. \A k : \A pc \in {"allowed", "denied"} : Answered(k, pc) \subseteq Requests
    BY DEF Answered
  <1>7. r \notin Served(KeyOf(r), from) /\ r \notin PassedSince(KeyOf(r), from)
    BY <1>5 DEF Served, PassedSince
  <1>8. clock >= from
    BY <1>1
  <1>9. Served(KeyOf(r), from)' = Served(KeyOf(r), from) \cup {r}
    BY <1>2, <1>3, <1>4, <1>5, <1>6, <1>8 DEF Served
  <1>10. PassedSince(KeyOf(r), from)' =
            PassedSince(KeyOf(r), from) \cup (IF Passes(r) THEN {r} ELSE {})
    BY <1>2, <1>3, <1>4, <1>5, <1>6, <1>8 DEF PassedSince
  <1>11. ASSUME NEW k, k # KeyOf(r)
         PROVE  /\ Served(k, from)' = Served(k, from)
                /\ PassedSince(k, from)' = PassedSince(k, from)
                /\ WaitsOf(Served(k, from))' = WaitsOf(Served(k, from))
    <2>1. \A pc \in {"allowed", "denied"} : Answered(k, pc)' = Answered(k, pc)
      BY <1>4, <1>5, <1>11
    <2>2. Served(k, from)' = Served(k, from) /\ PassedSince(k, from)' = PassedSince(k, from)
      BY <1>2, <1>5, <1>6, <2>1 DEF Served, PassedSince
    <2>3. \A q \in Served(k, from) : req'[q].now = req[q].now /\ req'[q].at = req[q].at
      BY <1>2, <1>5, <1>6 DEF Served
    <2> QED BY <2>2, <2>3 DEF WaitsOf
  <1>12. ASSUME NEW k, NEW to \in Int, to < clock
         PROVE  Passed(k, from, to)' = Passed(k, from, to) /\ Lag(k, from, to)' = Lag(k, from, to)
    <2>1. clock \notin from .. to
      BY <1>1, <1>12
    <2>2. Passed(k, from, to)' = Passed(k, from, to)
      BY <1>2, <1>3, <1>4, <1>5, <1>6, <2>1 DEF Passed
    <2> DEFINE late == {q \in Answered(k, "allowed") \cup Answered(k, "denied") :
                          req[q].at \in from .. to}
    <2>3. late' = late
      BY <1>2, <1>3, <1>4, <1>5, <1>6, <2>1
    <2>4. \A q \in late : req'[q].now = req[q].now /\ req'[q].at = req[q].at
      BY <1>2, <1>5, <1>6
    <2> HIDE DEF late
    <2>5. (UNION {{q} \X (req[q].now + 1 .. req[q].at) : q \in late})'
            = UNION {{q} \X (req[q].now + 1 .. req[q].at) : q \in late}
      BY <2>3, <2>4
    <2> QED BY <2>2, <2>5 DEF Lag, late
  <1> QED BY <1>7, <1>9, <1>10, <1>11, <1>12

LEMMA AllowTime ==
    ASSUME TypeOK, TimeInv, NEW r \in Requests, Allow(r)
    PROVE  TimeInv'
  <1>1. clock' = clock /\ clock \in Nat /\ req[r].now \in Nat /\ req[r].now <= clock
    BY AllowEffect, RequestType, Constants DEF TypeOK, TimeInv
  <1>2. \A q \in Requests : /\ req'[q].now <= clock /\ req'[q].at <= clock
                            /\ req'[q].pc \in {"allowed", "denied"} => req'[q].now <= req'[q].at
    BY <1>1, AllowRequests DEF TimeInv
  <1>3. \A k \in Keys : buckets'[k].lastSeen <= clock
    BY <1>1, AllowBuckets DEF TimeInv
  <1> QED BY <1>1, <1>2, <1>3 DEF TimeInv

\* How many more requests have passed, and how much more they have waited.
LEMMA AllowCounts ==
    ASSUME TypeOK, TimeInv, NEW r \in Requests, Allow(r), NEW from \in 0 .. clock
    PROVE  LET k == KeyOf(r) IN
           /\ Cardinality(PassedSince(k, from)') =
                 Cardinality(PassedSince(k, from)) + (IF Passes(r) THEN 1 ELSE 0)
           /\ Cardinality(WaitsOf(Served(k, from))') =
                 Cardinality(WaitsOf(Served(k, from))) + (clock - req[r].now)
  <1> DEFINE k == KeyOf(r)
             S == Served(k, from)
             P == PassedSince(k, from)
  <1>1. /\ S \in SUBSET Requests /\ r \notin S /\ S' = S \cup {r}
        /\ P \in SUBSET Requests /\ r \notin P /\ P' = P \cup (IF Passes(r) THEN {r} ELSE {})
    BY AllowWindows, ServedSets
  <1>2. IsFiniteSet(P) /\ Cardinality(P) \in Nat
    BY <1>1, FiniteRequests
  <1>3. Cardinality(P') = Cardinality(P) + (IF Passes(r) THEN 1 ELSE 0)
    <2> HIDE DEF P
    <2>1. CASE Passes(r)
      BY <1>1, <1>2, <2>1, FS_AddElement
    <2>2. CASE ~Passes(r)
      BY <1>1, <1>2, <2>2
    <2> QED BY <2>1, <2>2
  <1>4. Cardinality(WaitsOf(S)') = Cardinality(WaitsOf(S)) + (clock - req[r].now)
    <2>1. /\ TypeOK' /\ req'[r].now = req[r].now /\ req'[r].at = clock
          /\ req'[r].now <= req'[r].at
          /\ \A q \in S : req'[q].now = req[q].now /\ req'[q].at = req[q].at
      BY <1>1, AllowType, AllowRequests DEF TimeInv
    <2>2. WaitsOf(S)' = WaitsOf(S \cup {r})'
      BY <1>1 DEF WaitsOf
    <2> HIDE DEF S
    <2>3. Cardinality(WaitsOf(S \cup {r})') =
              Cardinality(WaitsOf(S)) + (req'[r].at - req'[r].now)
      BY <1>1, <2>1, OneMoreWait
    <2> QED BY <2>1, <2>2, <2>3
  <1> QED BY <1>3, <1>4

LEMMA AllowBudget ==
    ASSUME TypeOK, TimeInv, BudgetInv, NEW r \in Requests, Allow(r)
    PROVE  BudgetInv'
  <1>0. clock' = clock /\ clock \in Nat
    BY AllowEffect, Constants DEF TypeOK
  <1> SUFFICES ASSUME NEW k \in Keys, NEW from \in 0 .. clock, Served(k, from)' # {}
               PROVE  Cardinality(PassedSince(k, from)') * Unit + Worth(k)'
                        <= Full + Rate * (Seen(k)' - from + Cardinality(WaitsOf(Served(k, from))'))
    BY <1>0 DEF BudgetInv
  <1>1. CASE k # KeyOf(r)
    <2>1. Worth(k)' = Worth(k) /\ Seen(k)' = Seen(k)
      BY <1>0, <1>1, AllowBuckets DEF Worth, Seen
    <2>2. /\ Served(k, from)' = Served(k, from) /\ PassedSince(k, from)' = PassedSince(k, from)
          /\ WaitsOf(Served(k, from))' = WaitsOf(Served(k, from))
      BY <1>1, AllowWindows
    <2> QED BY <2>1, <2>2 DEF BudgetInv
  <1>2. CASE k = KeyOf(r)
    <2> DEFINE P == Cardinality(PassedSince(k, from))
               W == Cardinality(WaitsOf(Served(k, from)))
               c == clock
               n == req[r].now
    <2>1. /\ P \in Nat /\ W \in Nat /\ n \in Nat /\ n <= c
          /\ Found(r) \in 0 .. Full /\ Full \in Nat /\ Unit \in Nat /\ Rate \in Nat
      BY ServedSets, FiniteRequests, FiniteWaits, RequestType, AllowTokens, Constants DEF TimeInv
    <2>2. /\ Cardinality(PassedSince(k, from)') = P + (IF Passes(r) THEN 1 ELSE 0)
          /\ Cardinality(WaitsOf(Served(k, from))') = W + (c - n)
      BY <1>2, AllowCounts
    <2>3. Worth(k)' = Left(r) /\ Seen(k)' = n
      BY <1>2, AllowBuckets DEF Worth, Seen
    <2> HIDE DEF P, W, n, c
    <2>4. P * Unit + Found(r) <= Full + Rate * (c - from + W)
      <3>0. c \in Nat /\ from \in 0 .. c /\ P * Unit \in Nat
        BY <1>0, <2>1 DEF c
      <3>1. CASE Served(k, from) = {}
        <4>1. P = 0
          <5>1. PassedSince(k, from) = {}
            BY <3>1 DEF Served, PassedSince
          <5> QED BY <5>1, FS_EmptySet DEF P
        <4>2. Rate * (c - from + W) \in Nat
          BY <2>1, <3>0, Scaled
        <4> QED BY <2>1, <4>1, <4>2
      <3>2. CASE Served(k, from) # {} /\ ~buckets[k].tracked
        <4>1. P * Unit + Full <= Full + Rate * (c - from + W)
          BY <3>2 DEF BudgetInv, Worth, Seen, P, W, c
        <4> QED BY <1>2, <3>2, <4>1 DEF Found
      <3>3. CASE Served(k, from) # {} /\ buckets[k].tracked
        <4> DEFINE t == buckets[k].tokens
                   l == buckets[k].lastSeen
        <4>1. P * Unit + t <= Full + Rate * (l - from + W)
          BY <3>3 DEF BudgetInv, Worth, Seen, P, W
        <4>2. /\ n > l => Found(r) <= t + Rate * (n - l)
              /\ n <= l => Found(r) = t
              /\ t \in Nat /\ l \in Nat /\ l <= c
          <5>1. /\ buckets[k] \in [tracked : BOOLEAN, tokens : 0 .. Full, lastSeen : 0 .. Horizon]
                /\ t \in Nat /\ l \in Nat /\ l <= c
            BY BucketType, Constants DEF TimeInv, c
          <5>2. Found(r) = Refilled(buckets[k], n)
            BY <1>2, <3>3 DEF Found, n
          <5> QED BY <2>1, <5>1, <5>2, Refill
        <4> HIDE DEF t, l
        <4>3. CASE n > l
          <5>1. Rate * ((l - from + W) + (n - l)) = Rate * (l - from + W) + Rate * (n - l)
            BY <2>1, <3>0, <4>2, Scaled
          <5>2. (l - from + W) + (n - l) = n - from + W
            BY <2>1, <3>0, <4>2
          <5>3. Rate * (n - from + W) <= Rate * (c - from + W)
            BY <2>1, <3>0, Scaled
          <5>4. /\ Rate * (l - from + W) \in Int /\ Rate * (n - l) \in Int
                /\ Rate * (n - from + W) \in Int /\ Rate * (c - from + W) \in Int
            BY <2>1, <3>0, <4>2
          <5> QED BY <2>1, <3>0, <4>1, <4>2, <4>3, <5>1, <5>2, <5>3, <5>4
        <4>4. CASE n <= l
          <5>1. Rate * (l - from + W) <= Rate * (c - from + W)
            BY <2>1, <3>0, <4>2, Scaled
          <5>2. Rate * (l - from + W) \in Int /\ Rate * (c - from + W) \in Int
            BY <2>1, <3>0, <4>2
          <5> QED BY <2>1, <3>0, <4>1, <4>2, <4>4, <5>1, <5>2
        <4> QED BY <2>1, <4>2, <4>3, <4>4
      <3> QED BY <3>1, <3>2, <3>3, BucketType
    <2>5. Cardinality(PassedSince(k, from)') * Unit + Left(r) = P * Unit + Found(r)
      <3>1. CASE Passes(r)
        <4>1. (P + 1) * Unit = P * Unit + Unit
          BY <2>1
        <4> QED BY <2>1, <2>2, <3>1, <4>1 DEF Left
      <3>2. CASE ~Passes(r)
        BY <2>1, <2>2, <3>2 DEF Left
      <3> QED BY <3>1, <3>2
    <2>6. n - from + (W + (c - n)) = c - from + W
      BY <1>0, <2>1 DEF c
    <2> QED BY <2>2, <2>3, <2>4, <2>5, <2>6
  <1> QED BY <1>1, <1>2

LEMMA AllowSpent ==
    ASSUME TypeOK, TimeInv, SpentInv, NEW r \in Requests, Allow(r)
    PROVE  SpentInv'
  <1>0. clock' = clock /\ clock \in Nat
    BY AllowEffect, Constants DEF TypeOK
  <1> SUFFICES ASSUME NEW k \in Keys, buckets'[k].tracked
               PROVE  \E from \in 0 .. clock :
                         Cardinality(PassedSince(k, from)') * Unit + buckets'[k].tokens
                             >= Full + Rate * (buckets'[k].lastSeen - from)
    BY <1>0 DEF SpentInv
  <1>1. CASE k # KeyOf(r)
    <2>1. buckets'[k] = buckets[k]
      BY <1>1, AllowBuckets
    <2>2. PICK from \in 0 .. clock :
             Cardinality(PassedSince(k, from)) * Unit + buckets[k].tokens
                 >= Full + Rate * (buckets[k].lastSeen - from)
      BY <2>1 DEF SpentInv
    <2>3. PassedSince(k, from)' = PassedSince(k, from)
      BY <1>1, AllowWindows
    <2> QED BY <2>1, <2>2, <2>3
  <1>2. CASE k = KeyOf(r)
    <2> DEFINE n == req[r].now
               a == IF Passes(r) THEN 1 ELSE 0
    <2>1. /\ n \in Nat /\ n <= clock /\ Found(r) \in 0 .. Full /\ Left(r) \in 0 .. Full
          /\ Full \in Nat /\ Unit \in Nat /\ Rate \in Nat /\ Unit <= Full
      BY RequestType, AllowTokens, Constants DEF TimeInv
    <2>2. /\ buckets'[k].tokens = Left(r) /\ buckets'[k].lastSeen = n
          /\ Left(r) = Found(r) - a * Unit /\ a \in Nat
      BY <1>2, <2>1, AllowBuckets DEF Left
    <2>3. ASSUME NEW from \in 0 .. clock
          PROVE  /\ Cardinality(PassedSince(k, from)) \in Nat
                 /\ Cardinality(PassedSince(k, from)') * Unit + Left(r)
                       = Cardinality(PassedSince(k, from)) * Unit + Found(r)
      <3> DEFINE P == Cardinality(PassedSince(k, from))
      <3>1. P \in Nat /\ Cardinality(PassedSince(k, from)') = P + a
        BY <1>2, AllowCounts, ServedSets, FiniteRequests
      <3> HIDE DEF P, a
      <3>2. (P + a) * Unit = P * Unit + a * Unit /\ P * Unit \in Int /\ a * Unit \in Int
        BY <2>1, <2>2, <3>1
      <3> QED BY <2>1, <2>2, <3>1, <3>2 DEF P
    <2> HIDE DEF a, n
    <2>4. CASE Found(r) = Full
      <3>1. PICK from \in 0 .. clock : from = clock
        BY <1>0
      <3>2. /\ Cardinality(PassedSince(k, from)) * Unit \in Nat
            /\ Rate * (n - from) <= 0 /\ Rate * (n - from) \in Int
        <4>1. Cardinality(PassedSince(k, from)) \in Nat
          BY <2>3
        <4>2. n - from <= 0 /\ n - from \in Int
          BY <1>0, <2>1, <3>1
        <4> QED BY <2>1, <4>1, <4>2, Scaled
      <3>3. Cardinality(PassedSince(k, from)') * Unit + Left(r) >= Full + Rate * (n - from)
        BY <2>1, <2>3, <2>4, <3>2
      <3> QED BY <2>2, <3>3
    <2>5. CASE Found(r) # Full
      <3> DEFINE t == buckets[k].tokens
                 l == buckets[k].lastSeen
      <3>1. buckets[k].tracked /\ Found(r) = Refilled(buckets[k], n)
        BY <1>2, <2>5 DEF Found, n
      <3>2. Found(r) >= t + Rate * (n - l) /\ t \in Nat /\ l \in Nat
        BY <2>1, <2>5, <3>1, BucketType, Refill, Constants
      <3>3. PICK from \in 0 .. clock :
              Cardinality(PassedSince(k, from)) * Unit + t >= Full + Rate * (l - from)
        BY <3>1 DEF SpentInv
      <3> DEFINE P == Cardinality(PassedSince(k, from))
      <3>4. P \in Nat /\ Cardinality(PassedSince(k, from)') * Unit + Left(r) = P * Unit + Found(r)
        BY <2>3
      <3>5. P * Unit + t >= Full + Rate * (l - from)
        BY <3>3
      <3> HIDE DEF t, l, P
      <3>6. Rate * ((l - from) + (n - l)) = Rate * (l - from) + Rate * (n - l)
        BY <1>0, <2>1, <3>2, Scaled
      <3>7. (l - from) + (n - l) = n - from
        BY <1>0, <2>1, <3>2
      <3>8. Rate * (l - from) \in Int /\ Rate * (n - l) \in Int /\ P * Unit \in Int
        BY <1>0, <2>1, <3>2, <3>4
      <3>9. P * Unit + Found(r) >= Full + Rate * (n - from)
        BY <2>1, <3>2, <3>5, <3>6, <3>7, <3>8
      <3> QED BY <2>2, <3>4, <3>9
    <2> QED BY <2>4, <2>5
  <1> QED BY <1>1, <1>2

-----------------------------------------------------------------------------
(* What the invariant says of the properties.                              *)

WindowOK(k, from, to) ==
    Passed(k, from, to) # {} /\ from <= to =>
        Cardinality(Passed(k, from, to)) * Unit <= Full + Rate * (to - from + Lag(k, from, to))

\* The windows that end now are within the budget.
LEMMA WindowsNow ==
    TypeOK /\ TimeInv /\ BudgetInv =>
        \A k \in Keys : \A from, to \in 0 .. clock : to = clock => WindowOK(k, from, to)
  <1> SUFFICES ASSUME TypeOK, TimeInv, BudgetInv, NEW k \in Keys, NEW from \in 0 .. clock,
                      Passed(k, from, clock) # {}
               PROVE  Cardinality(Passed(k, from, clock)) * Unit
                        <= Full + Rate * (clock - from + Lag(k, from, clock))
    BY DEF WindowOK
  <1> DEFINE P == Cardinality(PassedSince(k, from))
             W == Cardinality(WaitsOf(Served(k, from)))
  <1>1. /\ P = Cardinality(Passed(k, from, clock)) /\ W = Lag(k, from, clock)
        /\ PassedSince(k, from) # {}
    BY WindowsUpToNow
  <1>2. /\ P \in Nat /\ W \in Nat /\ clock \in Nat /\ Full \in Nat /\ Unit \in Nat /\ Rate \in Nat
        /\ Worth(k) \in Nat /\ Seen(k) \in Nat /\ Seen(k) <= clock
    BY ServedSets, FiniteRequests, FiniteWaits, BucketType, Constants DEF TypeOK, TimeInv, Worth, Seen
  <1>3. P * Unit + Worth(k) <= Full + Rate * (Seen(k) - from + W)
    BY <1>1 DEF BudgetInv, Served, PassedSince
  <1> HIDE DEF P, W
  <1>4. Rate * (Seen(k) - from + W) <= Rate * (clock - from + W)
    BY <1>2, Scaled
  <1>5. /\ Rate * (Seen(k) - from + W) \in Int /\ Rate * (clock - from + W) \in Int
        /\ P * Unit \in Int
    BY <1>2
  <1>6. P * Unit <= Full + Rate * (clock - from + W)
    BY <1>2, <1>3, <1>4, <1>5
  <1> QED BY <1>1, <1>6

LEMMA AllowAnyWindow ==
    ASSUME TypeOK, TimeInv, BudgetInv, AnyWindowWithinBudget, NEW r \in Requests, Allow(r)
    PROVE  AnyWindowWithinBudget'
  <1>1. clock' = clock /\ clock \in Nat
    BY AllowEffect, Constants DEF TypeOK
  <1>2. TypeOK' /\ TimeInv' /\ BudgetInv'
    BY AllowType, AllowTime, AllowBudget
  <1>3. (\A k \in Keys : \A from, to \in 0 .. clock : to = clock => WindowOK(k, from, to))'
    BY <1>2, WindowsNow, PTL
  <1>4. ASSUME NEW k \in Keys, NEW from \in 0 .. clock, NEW to \in 0 .. clock
        PROVE  WindowOK(k, from, to)'
    <2>1. CASE to = clock
      BY <1>1, <1>3, <2>1
    <2>2. CASE to < clock
      <3>1. Passed(k, from, to)' = Passed(k, from, to) /\ Lag(k, from, to)' = Lag(k, from, to)
        BY <1>1, <2>2, AllowWindows
      <3> QED BY <3>1 DEF WindowOK, AnyWindowWithinBudget
    <2> QED BY <1>1, <2>1, <2>2
  <1> QED BY <1>1, <1>4 DEF AnyWindowWithinBudget, WindowOK

\* Answers are never taken back.
LEMMA AllowKeepsAnswers ==
    ASSUME TypeOK, NEW r \in Requests, Allow(r)
    PROVE  /\ \A k : \A pc \in {"allowed", "denied"} :
                 /\ Answered(k, pc) \subseteq Answered(k, pc)'
                 /\ \A q \in Answered(k, pc) : q # r /\ req'[q].now = req[q].now
                                            /\ req'[q].at = req[q].at
                 /\ \A q \in Answered(k, pc)' : q = r \/ q \in Answered(k, pc)
           /\ \A k : \A from, to \in Int : Passed(k, from, to) \subseteq Passed(k, from, to)'
           /\ \A k, from : Served(k, from) \subseteq Served(k, from)'
           /\ \A from \in Int : from <= clock => r \in Served(KeyOf(r), from)'
  <1>1. req[r].pc = "locking" /\ clock' = clock /\ clock \in Int
    BY AllowEffect, Constants DEF TypeOK
  <1>2. \A q \in Requests \ {r} :
           req'[q].pc = req[q].pc /\ req'[q].now = req[q].now /\ req'[q].at = req[q].at
    BY AllowRequests
  <1>3. req'[r].pc \in {"allowed", "denied"} /\ req'[r].at = clock
    BY AllowRequests
  <1>4. \A k : \A pc \in {"allowed", "denied"} :
           /\ Answered(k, pc) \subseteq Answered(k, pc)'
           /\ \A q \in Answered(k, pc) : /\ q # r /\ req'[q].now = req[q].now
                                       /\ req'[q].at = req[q].at
           /\ \A q \in Answered(k, pc)' : q = r \/ q \in Answered(k, pc)
    BY <1>1, <1>2 DEF Answered, KeyOf, ActorInContext
  <1>5. \A k : \A from, to \in Int : Passed(k, from, to) \subseteq Passed(k, from, to)'
    BY <1>4 DEF Passed
  <1>6. \A k, from : Served(k, from) \subseteq Served(k, from)'
    BY <1>4 DEF Served
  <1>7. \A from \in Int : from <= clock => r \in Served(KeyOf(r), from)'
    <2>1. r \in Answered(KeyOf(r), "allowed")' \cup Answered(KeyOf(r), "denied")'
      BY <1>3 DEF Answered, KeyOf, ActorInContext
    <2> QED BY <1>1, <1>3, <2>1 DEF Served, KeyOf, ActorInContext
  <1> QED BY <1>4, <1>5, <1>6, <1>7

LEMMA PassedType ==
    ASSUME NEW k, NEW from, NEW to
    PROVE  Passed(k, from, to) \in SUBSET Requests
  BY DEF Passed, Answered

\* A request that found the budget spent finds it so for good.
LEMMA AllowDenied ==
    ASSUME TypeOK, TimeInv, SpentInv, DeniedOnlyWhenSpent, NEW r \in Requests, Allow(r)
    PROVE  DeniedOnlyWhenSpent'
  <1>0. /\ clock' = clock /\ clock \in Nat /\ Unit \in Nat /\ Full \in Nat /\ Rate \in Nat
        /\ Unit <= Full
    BY AllowEffect, Constants DEF TypeOK
  <1> SUFFICES ASSUME NEW k \in Keys, NEW q \in Answered(k, "denied")'
               PROVE  \E from \in 0 .. req'[q].at :
                        (Cardinality(Passed(k, from, req[q].at)') + 1) * Unit
                            > Full + Rate * (req'[q].now - from)
    BY DEF DeniedOnlyWhenSpent
  <1>1. CASE q \in Answered(k, "denied")
    <2>1. /\ q \in Requests /\ req'[q].now = req[q].now /\ req'[q].at = req[q].at
          /\ req[q].at \in Nat /\ req[q].now \in Nat
      BY <1>1, AllowKeepsAnswers, RequestType, Constants DEF Answered
    <2>2. PICK from \in 0 .. req[q].at :
            (Cardinality(Passed(k, from, req[q].at)) + 1) * Unit > Full + Rate * (req[q].now - from)
      BY <1>1 DEF DeniedOnlyWhenSpent
    <2> DEFINE to == req[q].at
               A == Passed(k, from, to)
    <2>3. A \subseteq A' /\ A \in SUBSET Requests /\ A' \in SUBSET Requests
      BY <2>1, AllowKeepsAnswers DEF Passed, Answered
    <2>4. Cardinality(A) <= Cardinality(A') /\ Cardinality(A) \in Nat /\ Cardinality(A') \in Nat
      <3> HIDE DEF A
      <3> QED BY <2>3, FiniteRequests, FS_Subset
    <2>5. (Cardinality(A) + 1) * Unit <= (Cardinality(A') + 1) * Unit
      <3> HIDE DEF A
      <3> QED BY <1>0, <2>4, Scaled
    <2>6. /\ (Cardinality(A) + 1) * Unit \in Int /\ (Cardinality(A') + 1) * Unit \in Int
          /\ Full + Rate * (req[q].now - from) \in Int
      <3> HIDE DEF A
      <3> QED BY <1>0, <2>1, <2>4
    <2> QED BY <2>1, <2>2, <2>5, <2>6
  <1>2. CASE q = r
    <2>1. /\ k = KeyOf(r) /\ ~Passes(r) /\ req'[q].at = clock /\ req'[q].now = req[r].now
          /\ req[r].now \in Nat
      BY <1>2, AllowRequests, RequestType, Constants DEF Answered, KeyOf, ActorInContext
    <2>2. TypeOK' /\ TimeInv' /\ SpentInv'
      BY AllowType, AllowTime, AllowSpent
    <2>3. /\ Left(r) \in Nat /\ Left(r) < Unit
          /\ buckets'[k].tracked /\ buckets'[k].tokens = Left(r)
          /\ buckets'[k].lastSeen = req[r].now
      BY <1>0, <2>1, AllowTokens, AllowBuckets DEF Left, Passes
    <2>4. PICK from \in 0 .. clock :
            Cardinality(PassedSince(k, from)') * Unit + Left(r) >= Full + Rate * (req[r].now - from)
      BY <1>0, <2>2, <2>3 DEF SpentInv
    <2>5. Passed(k, from, clock)' = PassedSince(k, from)'
      <3>1. \A i \in Requests : req'[i].at \in Int /\ req'[i].at <= clock
        BY <1>0, <2>2, Constants DEF TypeOK, TimeInv
      <3> QED BY <1>0, <3>1 DEF Passed, PassedSince, Answered
    <2>6. Passed(k, from, req[q].at)' = PassedSince(k, from)'
      BY <1>0, <2>1, <2>5 DEF Passed
    <2> DEFINE P == Cardinality(PassedSince(k, from)')
    <2>7. P \in Nat
      <3>1. PassedSince(k, from)' \in SUBSET Requests
        BY DEF PassedSince, Answered
      <3> QED BY <3>1, FiniteRequests
    <2>8. (P + 1) * Unit > Full + Rate * (req[r].now - from)
      <3> HIDE DEF P
      <3>1. (P + 1) * Unit = P * Unit + Unit /\ P * Unit \in Int
        BY <1>0, <2>7
      <3>2. Rate * (req[r].now - from) \in Int
        BY <1>0, <2>1
      <3>3. P * Unit + Left(r) >= Full + Rate * (req[r].now - from)
        BY <2>4 DEF P
      <3> QED BY <1>0, <2>3, <3>1, <3>2, <3>3
    <2> QED BY <1>0, <2>1, <2>6, <2>8
  <1> QED BY <1>1, <1>2, AllowKeepsAnswers

\* Nobody who waits as long as he was told finds the bucket short.
LEMMA AllowRetry ==
    ASSUME TypeOK, TimeInv, RetryAfterIsEnough, NEW r \in Requests, Allow(r)
    PROVE  RetryAfterIsEnough'
  <1> DEFINE back(q) == req'[q].at + req'[q].retryAfter * Second + Resolution
  <1>0. /\ clock' = clock /\ clock \in Nat /\ Unit \in Nat /\ Full \in Nat /\ Rate \in Nat
        /\ Unit <= Full /\ Second \in Nat /\ Resolution \in Nat
    BY AllowEffect, Constants DEF TypeOK, Resolution
  <1> SUFFICES ASSUME NEW k \in Keys, NEW q \in Answered(k, "denied")',
                      buckets'[k].tracked, req'[q].last
               PROVE  Refilled(buckets'[k], back(q)) >= Unit
    BY DEF RetryAfterIsEnough, Resolution
  <1>1. /\ q \in Requests /\ k = KeyOf(q) /\ req'[q].pc = "denied"
        /\ TypeOK' /\ back(q) \in Int
    <2>1. q \in Requests /\ k = KeyOf(q) /\ req'[q].pc = "denied" /\ TypeOK'
      BY AllowType DEF Answered, KeyOf, ActorInContext
    <2>2. req'[q].at \in Nat /\ req'[q].retryAfter \in Nat
      BY <2>1, Constants DEF TypeOK
    <2> QED BY <1>0, <2>1, <2>2
  <1>2. q # r => /\ q \in Answered(k, "denied") /\ req[q].last
                 /\ back(q) = req[q].at + req[q].retryAfter * Second + Resolution
                 /\ k = KeyOf(r) => ~Passes(r)
    BY <1>1, AllowRequests DEF Answered
  <1>3. q # r /\ buckets[k].tracked => Refilled(buckets[k], back(q)) >= Unit
    BY <1>2 DEF RetryAfterIsEnough
  <1>4. CASE k # KeyOf(r)
    <2>1. buckets'[k] = buckets[k] /\ q # r
      BY <1>1, <1>4, AllowBuckets
    <2> QED BY <1>3, <2>1
  <1>5. CASE k = KeyOf(r)
    <2> DEFINE n == req[r].now
    <2>1. /\ n \in Nat /\ n <= clock /\ Found(r) \in Nat /\ Found(r) <= Full /\ Found(r) < Unit
          /\ buckets'[k].tokens = Found(r) /\ buckets'[k].lastSeen = n
      <3>1. ~Passes(r)
        <4>1. CASE q = r
          BY <1>1, <4>1, AllowRequests
        <4> QED BY <1>2, <1>5, <4>1
      <3> QED BY <1>0, <1>5, <3>1, RequestType, AllowTokens, AllowBuckets, Constants
              DEF TimeInv, Left, Passes
    <2>2. \/ Refilled(buckets'[k], back(q)) = Full
          \/ Refilled(buckets'[k], back(q)) >= Found(r) + Rate * (back(q) - n)
      <3>1. buckets'[k] \in [tracked : BOOLEAN, tokens : 0 .. Full, lastSeen : 0 .. Horizon]
        BY <1>1 DEF TypeOK
      <3> HIDE DEF back
      <3>2. \/ Refilled(buckets'[k], back(q)) = Full
            \/ Refilled(buckets'[k], back(q))
                  >= buckets'[k].tokens + Rate * (back(q) - buckets'[k].lastSeen)
        BY <1>1, <3>1, Refill
      <3> QED BY <2>1, <3>2
    <2>3. Found(r) + Rate * (back(q) - n) >= Unit
      <3>1. CASE q = r
        <4> DEFINE w == RetryAfter(Found(r)) * Second + Resolution
        <4>1. Rate * w >= Unit - Found(r) /\ w \in Int
          BY <1>0, <2>1, RetryAfterEnough
        <4>2. back(q) - n = w + (clock - n)
          <5>1. req'[r].at = clock /\ req'[r].retryAfter = RetryAfter(Found(r))
            BY <1>1, <3>1, AllowRequests
          <5>2. RetryAfter(Found(r)) * Second \in Int
            BY <1>0, <2>1, RetryAfterEnough
          <5> QED BY <1>0, <2>1, <3>1, <5>1, <5>2
        <4> HIDE DEF back, w
        <4>3. w <= back(q) - n /\ back(q) - n \in Int
          BY <1>0, <2>1, <4>1, <4>2
        <4>4. Rate * w <= Rate * (back(q) - n) /\ Rate * w \in Int /\ Rate * (back(q) - n) \in Int
          BY <1>0, <4>1, <4>3, Scaled
        <4> QED BY <1>0, <2>1, <4>1, <4>4
      <3>2. CASE q # r
        <4> DEFINE b == buckets[k]
                   t == buckets[k].tokens
                   l == buckets[k].lastSeen
                   h == back(q)
        <4>1. /\ b.tracked /\ Found(r) = Refilled(b, n) /\ Refilled(b, h) >= Unit
              /\ h \in Int /\ t \in Nat /\ l \in Nat
              /\ b \in [tracked : BOOLEAN, tokens : 0 .. Full, lastSeen : 0 .. Horizon]
          <5>1. b.tracked /\ Found(r) = Refilled(b, n)
            BY <1>0, <1>5, <2>1 DEF Found
          <5> QED BY <1>1, <1>3, <3>2, <5>1, BucketType, Constants
        <4>2. /\ Found(r) >= t + Rate * (n - l)
              /\ t <= Found(r)
              /\ h > l => Refilled(b, h) <= t + Rate * (h - l)
              /\ h <= l => Refilled(b, h) = t
              /\ Refilled(b, h) \in Nat
          <5> HIDE DEF h, n
          <5>1. Found(r) = Refilled(b, n) /\ Found(r) # Full /\ n \in Int
            BY <1>0, <2>1, <4>1 DEF n
          <5> QED BY <1>0, <2>1, <4>1, <5>1, Refill
        <4> HIDE DEF b, t, l, back, n
        <4>3. h > l /\ Unit <= t + Rate * (h - l)
          <5> HIDE DEF h
          <5> QED BY <1>0, <2>1, <4>1, <4>2
        <4>4. Rate * (h - l) = Rate * (n - l) + Rate * (h - n)
          <5>1. h - l = (n - l) + (h - n)
            BY <2>1, <4>1
          <5> QED BY <1>0, <2>1, <4>1, <5>1, Scaled
        <4>5. Rate * (h - l) \in Int /\ Rate * (n - l) \in Int /\ Rate * (h - n) \in Int
          BY <1>0, <2>1, <4>1, Scaled
        <4> QED BY <1>0, <2>1, <4>1, <4>2, <4>3, <4>4, <4>5
      <3> QED BY <3>1, <3>2
    <2> HIDE DEF back
    <2>4. Rate * (back(q) - n) \in Int
      BY <1>0, <1>1, <2>1
    <2>5. Refilled(buckets'[k], back(q)) \in Int
      BY <1>1, Constants, Refill DEF TypeOK
    <2> QED BY <1>0, <2>1, <2>2, <2>3, <2>4, <2>5
  <1> QED BY <1>4, <1>5

\* A bucket that has just been used is not one the janitor owes.
LEMMA AllowSweep ==
    ASSUME TypeOK, TimeInv, SweepInv, NEW r \in Requests, Allow(r)
    PROVE  SweepInv'
  <1>0. /\ UNCHANGED <<clock, janitor, ticked>> /\ clock \in Nat /\ Period \in Nat \ {0}
        /\ IdleTTL \in Nat /\ req[r].now \in Nat /\ req[r].now <= clock
    BY AllowEffect, RequestType, Constants DEF TypeOK, TimeInv
  <1>1. LastTick' = LastTick /\ LastTick \in Int /\ LastTick <= clock
    BY <1>0, Division DEF LastTick, Period
  <1>2. ASSUME NEW k \in Keys, buckets'[k].tracked
        PROVE  Served(k, buckets[k].lastSeen)' # {}
    <2>1. CASE k = KeyOf(r)
      <3>1. PICK n \in Int : n = req[r].now /\ n <= clock
        BY <1>0
      <3>2. buckets'[k].lastSeen = n
        BY <2>1, <3>1, AllowBuckets
      <3>3. r \in Served(KeyOf(r), n)'
        BY <3>1, AllowKeepsAnswers
      <3> QED BY <2>1, <3>2, <3>3 DEF Served
    <2>2. CASE k # KeyOf(r)
      <3>1. buckets'[k] = buckets[k]
        BY <2>2, AllowBuckets
      <3>2. Served(k, buckets[k].lastSeen) # {}
        BY <1>2, <3>1 DEF SweepInv
      <3> QED BY <3>1, <3>2, AllowKeepsAnswers DEF Served
    <2> QED BY <2>1, <2>2
  <1>3. ASSUME janitor.pc = "select", ~ticked, NEW k \in Keys, buckets'[k].tracked
        PROVE  Served(k, LastTick - IdleTTL)' # {}
    <2>1. CASE k = KeyOf(r)
      BY <1>0, <1>1, <2>1, AllowKeepsAnswers
    <2>2. CASE k # KeyOf(r)
      <3>1. Served(k, LastTick - IdleTTL) # {}
        BY <1>3, <2>2, AllowBuckets DEF SweepInv
      <3> QED BY <1>1, <3>1, AllowKeepsAnswers DEF Served
    <2> QED BY <2>1, <2>2
  <1> QED BY <1>0, <1>1, <1>2, <1>3 DEF SweepInv

-----------------------------------------------------------------------------
(* The other steps answer nobody; time passes, and a bucket that has had    *)
(* the time to fill up may be forgotten.                                   *)

QuietStep ==
    /\ AnswersKept
    /\ clock' \in {clock, clock + 1}
    /\ \A k \in Keys :
          \/ buckets'[k] = buckets[k]
          \/ /\ ~buckets'[k].tracked /\ buckets'[k].lastSeen = 0
             /\ buckets[k].tracked /\ buckets[k].lastSeen + IdleTTL <= clock

LEMMA QuietBudget ==
    ASSUME TypeOK, TypeOK', TimeInv, BudgetInv, QuietStep
    PROVE  BudgetInv'
  <1>0. clock \in Nat /\ clock' \in Nat /\ clock <= clock'
    BY Constants DEF TypeOK, QuietStep
  <1> SUFFICES ASSUME NEW k \in Keys, NEW from \in 0 .. clock', Served(k, from)' # {}
               PROVE  Cardinality(PassedSince(k, from)') * Unit + Worth(k)'
                        <= Full + Rate * (Seen(k)' - from + Cardinality(WaitsOf(Served(k, from))'))
    BY DEF BudgetInv
  <1> DEFINE P == Cardinality(PassedSince(k, from))
             W == Cardinality(WaitsOf(Served(k, from)))
  <1>1. /\ Served(k, from) # {}
        /\ Cardinality(PassedSince(k, from)') = P /\ Cardinality(WaitsOf(Served(k, from))') = W
    BY SameAnswers DEF QuietStep
  <1>2. from \in 0 .. clock
    BY <1>0, <1>1, RequestType, Constants DEF Served, Answered, TimeInv
  <1>3. P * Unit + Worth(k) <= Full + Rate * (Seen(k) - from + W)
    BY <1>1, <1>2 DEF BudgetInv
  <1>4. /\ P \in Nat /\ W \in Nat /\ Full \in Nat /\ Unit \in Nat /\ Rate \in Nat
        /\ Worth(k) \in Nat /\ Worth(k) <= Full /\ Seen(k) \in Nat /\ Seen(k) <= clock
        /\ P * Unit \in Nat /\ IdleTTL \in Nat
    <2>1. P \in Nat /\ W \in Nat /\ Full \in Nat /\ Unit \in Nat /\ Rate \in Nat /\ IdleTTL \in Nat
      BY ServedSets, FiniteRequests, FiniteWaits, Constants
    <2>2. Worth(k) \in Nat /\ Worth(k) <= Full /\ Seen(k) \in Nat /\ Seen(k) <= clock
      BY <1>0, <2>1, BucketType, Constants DEF TimeInv, Worth, Seen
    <2> HIDE DEF P, W
    <2> QED BY <2>1, <2>2
  <1> HIDE DEF P, W
  <1>5. CASE buckets'[k] = buckets[k]
    <2>1. Worth(k)' = Worth(k) /\ Seen(k)' \in Nat /\ Seen(k) <= Seen(k)'
      BY <1>0, <1>4, <1>5 DEF Worth, Seen
    <2>2. Rate * (Seen(k) - from + W) <= Rate * (Seen(k)' - from + W)
      BY <1>2, <1>4, <2>1, Scaled
    <2>3. Rate * (Seen(k) - from + W) \in Int /\ Rate * (Seen(k)' - from + W) \in Int
      BY <1>2, <1>4, <2>1
    <2> QED BY <1>1, <1>3, <1>4, <2>1, <2>2, <2>3
  <1>6. CASE buckets'[k] # buckets[k]
    <2>1. /\ Worth(k)' = Full /\ Seen(k)' = clock'
          /\ Seen(k) + IdleTTL <= clock
      BY <1>6 DEF QuietStep, Worth, Seen
    <2>2. Rate * ((Seen(k) - from + W) + IdleTTL) = Rate * (Seen(k) - from + W) + Rate * IdleTTL
      BY <1>2, <1>4, Scaled
    <2>3. Rate * ((Seen(k) - from + W) + IdleTTL) <= Rate * (clock' - from + W)
      BY <1>0, <1>2, <1>4, <2>1, Scaled
    <2>4. /\ Rate * (Seen(k) - from + W) \in Int /\ Rate * (clock' - from + W) \in Int
          /\ Rate * IdleTTL \in Int /\ Full <= Rate * IdleTTL
      BY <1>0, <1>2, <1>4, Constants
    <2> QED BY <1>1, <1>3, <1>4, <2>1, <2>2, <2>3, <2>4
  <1> QED BY <1>5, <1>6

LEMMA QuietAnyWindow ==
    ASSUME TypeOK, TypeOK', TimeInv', BudgetInv', AnyWindowWithinBudget, QuietStep
    PROVE  AnyWindowWithinBudget'
  <1>1. clock \in Nat /\ clock' \in {clock, clock + 1} /\ AnswersKept
    BY Constants DEF TypeOK, QuietStep
  <1>2. (\A k \in Keys : \A from, to \in 0 .. clock : to = clock => WindowOK(k, from, to))'
    BY WindowsNow, PTL
  <1>3. ASSUME NEW k \in Keys, NEW from \in 0 .. clock', NEW to \in 0 .. clock'
        PROVE  WindowOK(k, from, to)'
    <2>1. CASE to = clock'
      BY <1>2, <2>1
    <2>2. CASE to # clock' /\ from \in 0 .. clock
      <3>1. WindowOK(k, from, to)
        BY <1>1, <2>2 DEF WindowOK, AnyWindowWithinBudget
      <3>2. Passed(k, from, to)' = Passed(k, from, to) /\ Lag(k, from, to)' = Lag(k, from, to)
        BY <1>1, SameAnswers
      <3> QED BY <3>1, <3>2 DEF WindowOK
    <2>3. CASE to # clock' /\ from \notin 0 .. clock
      BY <1>1, <2>3 DEF WindowOK
    <2> QED BY <2>1, <2>2, <2>3
  <1> QED BY <1>3 DEF AnyWindowWithinBudget, WindowOK

LEMMA QuietSpent ==
    ASSUME TypeOK, SpentInv, QuietStep
    PROVE  SpentInv'
  <1>1. clock \in Nat /\ clock' \in {clock, clock + 1} /\ AnswersKept
    BY Constants DEF TypeOK, QuietStep
  <1> SUFFICES ASSUME NEW k \in Keys, buckets'[k].tracked
               PROVE  \E from \in 0 .. clock' :
                         Cardinality(PassedSince(k, from)') * Unit + buckets'[k].tokens
                             >= Full + Rate * (buckets'[k].lastSeen - from)
    BY DEF SpentInv
  <1>2. buckets'[k] = buckets[k]
    BY DEF QuietStep
  <1>3. PICK from \in 0 .. clock :
           Cardinality(PassedSince(k, from)) * Unit + buckets[k].tokens
               >= Full + Rate * (buckets[k].lastSeen - from)
    BY <1>2 DEF SpentInv
  <1>4. PassedSince(k, from)' = PassedSince(k, from) /\ from \in 0 .. clock'
    BY <1>1, SameAnswers
  <1> QED BY <1>2, <1>3, <1>4

LEMMA QuietDenied ==
    ASSUME TypeOK, DeniedOnlyWhenSpent, QuietStep
    PROVE  DeniedOnlyWhenSpent'
  <1> SUFFICES ASSUME NEW k \in Keys, NEW q \in Answered(k, "denied")'
               PROVE  \E from \in 0 .. req'[q].at :
                        (Cardinality(Passed(k, from, req[q].at)') + 1) * Unit
                            > Full + Rate * (req'[q].now - from)
    BY DEF DeniedOnlyWhenSpent
  <1>1. q \in Answered(k, "denied") /\ q \in Requests /\ req'[q] = req[q]
    BY SameAnswers DEF QuietStep, AnswersKept, Answered
  <1>2. PICK from \in 0 .. req[q].at :
          (Cardinality(Passed(k, from, req[q].at)) + 1) * Unit > Full + Rate * (req[q].now - from)
    BY <1>1 DEF DeniedOnlyWhenSpent
  <1>3. PICK to \in Int : to = req[q].at
    BY <1>1, RequestType, Constants
  <1>4. Passed(k, from, to)' = Passed(k, from, to)
    BY SameAnswers DEF QuietStep
  <1>5. Passed(k, from, req[q].at)' = Passed(k, from, to)
    BY <1>1, <1>3, <1>4 DEF Passed
  <1> QED BY <1>1, <1>2, <1>3, <1>5

LEMMA QuietRetry ==
    ASSUME RetryAfterIsEnough, QuietStep
    PROVE  RetryAfterIsEnough'
  <1> SUFFICES ASSUME NEW k \in Keys, NEW q \in Answered(k, "denied")',
                      buckets'[k].tracked, req'[q].last
               PROVE  Refilled(buckets'[k], req'[q].at + req'[q].retryAfter * Second + Resolution)
                         >= Unit
    BY DEF RetryAfterIsEnough, Resolution
  <1>1. q \in Answered(k, "denied") /\ req'[q] = req[q]
    BY SameAnswers DEF QuietStep, AnswersKept, Answered
  <1>2. buckets'[k] = buckets[k]
    BY DEF QuietStep
  <1> QED BY <1>1, <1>2 DEF RetryAfterIsEnough

\* What was used since its bucket's last reading is used still.
LEMMA QuietSweep ==
    ASSUME SweepInv, QuietStep, NEW k \in Keys, buckets'[k].tracked
    PROVE  /\ buckets'[k] = buckets[k]
           /\ Served(k, buckets[k].lastSeen)' = Served(k, buckets[k].lastSeen)
           /\ Served(k, buckets[k].lastSeen)' # {}
  <1>1. buckets'[k] = buckets[k]
    BY DEF QuietStep
  <1>2. PICK l : l = buckets[k].lastSeen
    OBVIOUS
  <1>3. Served(k, l)' = Served(k, l) /\ Served(k, l) # {}
    BY <1>1, <1>2, SameAnswers DEF QuietStep, SweepInv
  <1> QED BY <1>1, <1>2, <1>3 DEF Served

-----------------------------------------------------------------------------
(* The steps of the clock, the middleware and the janitor.                 *)

LEMMA TickStep ==
    ASSUME TypeOK, TimeInv, SweepInv, Tick
    PROVE  QuietStep /\ TypeOK' /\ TimeInv' /\ SweepInv'
  <1>0. /\ clock \in Nat /\ clock' = clock + 1 /\ clock < Horizon
        /\ UNCHANGED <<buckets, req, janitor>>
        /\ ticked' = (ticked \/ clock' % Period = 0)
        /\ IdleTTL \in Nat /\ Period \in Nat \ {0} /\ Horizon \in Nat
    BY Constants DEF Tick, TypeOK, Period
  <1>1. QuietStep
    BY <1>0 DEF QuietStep, AnswersKept
  <1>2. TypeOK'
    BY <1>0 DEF TypeOK
  <1>3. TimeInv'
    BY <1>0, RequestType, BucketType, Constants DEF TimeInv
  <1>4. ~ticked' => ~ticked /\ LastTick' = LastTick
    <2>1. (clock + 1) % Period # 0 => LastTick' = LastTick
      BY <1>0, NextRemainder DEF LastTick
    <2> QED BY <1>0, <2>1
  <1>5. SweepInv'
    <2>1. \A k \in Keys : buckets'[k].tracked => Served(k, buckets[k].lastSeen)' # {}
      BY <1>1, QuietSweep
    <2>2. janitor.pc = "evict" => janitor.cutoff <= clock' - IdleTTL
      BY <1>0 DEF SweepInv, TypeOK
    <2>3. janitor.pc = "evict" /\ ~ticked' => janitor.cutoff >= LastTick' - IdleTTL
      BY <1>0, <1>4 DEF SweepInv
    <2>4. ASSUME janitor.pc = "select", ~ticked', NEW k \in Keys, buckets'[k].tracked
          PROVE  Served(k, LastTick - IdleTTL)' # {}
      <3>1. Served(k, LastTick - IdleTTL) # {}
        BY <1>0, <1>4, <2>4 DEF SweepInv
      <3> QED BY <1>0, <1>4, <2>4, <3>1 DEF Served, Answered, KeyOf, ActorInContext
    <2> QED BY <1>0, <2>1, <2>2, <2>3, <2>4 DEF SweepInv
  <1> QED BY <1>1, <1>2, <1>3, <1>5

LEMMA ReadClockStep ==
    ASSUME TypeOK, TimeInv, SweepInv, NEW r \in Requests, ReadClock(r)
    PROVE  QuietStep /\ TypeOK' /\ TimeInv' /\ SweepInv'
  <1>0. /\ req[r].pc = "new" /\ UNCHANGED <<clock, buckets, janitor, ticked>>
        /\ req' = [req EXCEPT ![r].pc = "locking", ![r].now = clock]
        /\ clock \in 0 .. Horizon /\ clock \in Nat
    BY Constants DEF ReadClock, TypeOK
  <1>1. /\ req'[r].pc = "locking" /\ req'[r].now = clock /\ req'[r].at = req[r].at
        /\ \A q \in Requests \ {r} : req'[q] = req[q]
    BY <1>0 DEF TypeOK
  <1>2. QuietStep
    BY <1>0, <1>1 DEF QuietStep, AnswersKept
  <1>3. TypeOK'
    BY <1>0 DEF TypeOK
  <1>4. TimeInv'
    <2>1. ASSUME NEW q \in Requests
          PROVE  /\ req'[q].now <= clock /\ req'[q].at <= clock
                 /\ req'[q].pc \in {"allowed", "denied"} => req'[q].now <= req'[q].at
      <3>1. /\ req[q].now <= clock /\ req[q].at <= clock /\ clock <= clock
            /\ req[q].pc \in {"allowed", "denied"} => req[q].now <= req[q].at
        BY <1>0 DEF TimeInv
      <3>2. CASE q = r
        <4>1. req'[q].pc = "locking" /\ req'[q].now = clock /\ req'[q].at = req[q].at
          BY <1>1, <3>2
        <4> QED BY <3>1, <4>1
      <3>3. CASE q # r
        <4>1. req'[q] = req[q]
          BY <1>1, <3>3
        <4> QED BY <3>1, <4>1
      <3> QED BY <3>2, <3>3
    <2>2. \A k \in Keys : buckets'[k].lastSeen <= clock
      BY <1>0 DEF TimeInv
    <2>3. clock' = clock
      BY <1>0
    <2> QED BY <2>1, <2>2, <2>3 DEF TimeInv
  <1>5. SweepInv'
    <2>1. \A k \in Keys : buckets'[k].tracked => Served(k, buckets[k].lastSeen)' # {}
      BY <1>2, QuietSweep
    <2>2. \A k : Served(k, LastTick - IdleTTL)' = Served(k, LastTick - IdleTTL)
      BY <1>0, <1>1 DEF Served, Answered, KeyOf, ActorInContext, LastTick
    <2>3. LastTick' = LastTick
      BY <1>0 DEF LastTick
    <2> QED BY <1>0, <2>1, <2>2, <2>3 DEF SweepInv
  <1> QED BY <1>2, <1>3, <1>4, <1>5

LEMMA WakeStep ==
    ASSUME TypeOK, TimeInv, SweepInv, Wake
    PROVE  QuietStep /\ TypeOK' /\ TimeInv' /\ SweepInv'
  <1>0. /\ UNCHANGED <<clock, buckets, req>> /\ ticked' = FALSE
        /\ janitor' = [pc |-> "evict", cutoff |-> clock - IdleTTL]
        /\ clock \in Nat /\ IdleTTL \in Nat /\ Period \in Nat \ {0}
    BY Constants DEF Wake, TypeOK
  <1>1. QuietStep
    BY <1>0 DEF QuietStep, AnswersKept
  <1>2. TypeOK' /\ TimeInv'
    <2>1. janitor' \in [pc : {"select", "evict"}, cutoff : Int]
      BY <1>0
    <2>2. ticked' \in BOOLEAN
      BY <1>0, Zenon
    <2>3. TypeOK'
      BY <1>0, <2>1, <2>2 DEF TypeOK
    <2>4. TimeInv'
      BY <1>0 DEF TimeInv
    <2> QED BY <2>3, <2>4
  <1>3. SweepInv'
    <2>1. \A k \in Keys : buckets'[k].tracked => Served(k, buckets[k].lastSeen)' # {}
      BY <1>1, QuietSweep
    <2>2. LastTick \in Int /\ LastTick <= clock /\ LastTick' = LastTick
      BY <1>0, Division DEF LastTick
    <2>3. janitor'.cutoff <= clock - IdleTTL /\ janitor'.cutoff >= LastTick - IdleTTL
      BY <1>0, <2>2
    <2> QED BY <1>0, <2>1, <2>2, <2>3 DEF SweepInv
  <1> QED BY <1>1, <1>2, <1>3

LEMMA EvictIdleStep ==
    ASSUME TypeOK, TimeInv, SweepInv, EvictIdle
    PROVE  QuietStep /\ TypeOK' /\ TimeInv' /\ SweepInv'
  <1>0. /\ janitor.pc = "evict" /\ UNCHANGED <<clock, req, ticked>>
        /\ janitor' = [janitor EXCEPT !.pc = "select"]
        /\ buckets' = [k \in Keys |-> IF Idle(k) THEN NoBucket ELSE buckets[k]]
        /\ clock \in Nat /\ IdleTTL \in Nat /\ Full \in Nat /\ Horizon \in Nat
        /\ janitor.cutoff \in Int /\ janitor.cutoff <= clock - IdleTTL
    BY Constants DEF EvictIdle, TypeOK, SweepInv
  <1>1. \A k \in Keys :
           IF Idle(k) THEN buckets'[k] = NoBucket ELSE buckets'[k] = buckets[k]
    BY <1>0
  <1>2. QuietStep
    <2>1. ASSUME NEW k \in Keys, Idle(k)
          PROVE  buckets[k].tracked /\ buckets[k].lastSeen + IdleTTL <= clock
      BY <1>0, <2>1, BucketType, Constants DEF Idle
    <2> QED BY <1>0, <1>1, <2>1 DEF QuietStep, AnswersKept, NoBucket
  <1>3. TypeOK'
    <2>1. NoBucket \in [tracked : BOOLEAN, tokens : 0 .. Full, lastSeen : 0 .. Horizon]
      BY <1>0 DEF NoBucket
    <2>2. buckets' \in [Keys -> [tracked : BOOLEAN, tokens : 0 .. Full, lastSeen : 0 .. Horizon]]
      BY <1>0, <2>1, BucketType
    <2> QED BY <1>0, <2>2 DEF TypeOK
  <1>4. TimeInv'
    <2>1. \A k \in Keys : buckets'[k].lastSeen <= clock
      BY <1>0, <1>1 DEF TimeInv, NoBucket
    <2> QED BY <1>0, <2>1 DEF TimeInv
  <1>5. SweepInv'
    <2>1. \A k \in Keys : buckets'[k].tracked => Served(k, buckets[k].lastSeen)' # {}
      BY <1>2, QuietSweep
    <2>2. ASSUME ~ticked, NEW k \in Keys, buckets'[k].tracked
          PROVE  Served(k, LastTick - IdleTTL)' # {}
      <3>1. /\ buckets[k].lastSeen >= janitor.cutoff /\ janitor.cutoff >= LastTick - IdleTTL
            /\ buckets[k].tracked /\ buckets[k].lastSeen \in Int
        BY <1>0, <1>1, <2>2, BucketType, Constants DEF Idle, NoBucket, SweepInv
      <3>2. PICK q \in Served(k, buckets[k].lastSeen) : TRUE
        BY <2>2, <3>1 DEF SweepInv
      <3>3. req[q].at >= LastTick - IdleTTL
        <4>1. req[q].at \in Int /\ LastTick \in Int
          BY <1>0, <3>2, RequestType, Constants, Division DEF Served, Answered, LastTick
        <4> QED BY <1>0, <3>1, <3>2, <4>1 DEF Served
      <3>4. q \in Served(k, LastTick - IdleTTL)
        BY <3>2, <3>3 DEF Served
      <3> QED BY <1>0, <3>4 DEF Served, Answered, KeyOf, ActorInContext, LastTick
    <2>3. LastTick' = LastTick /\ janitor'.pc = "select"
      BY <1>0 DEF LastTick, TypeOK
    <2> QED BY <1>0, <2>1, <2>2, <2>3 DEF SweepInv
  <1> QED BY <1>2, <1>3, <1>4, <1>5

LEMMA StutterStep ==
    ASSUME TypeOK, TimeInv, SweepInv, UNCHANGED vars
    PROVE  QuietStep /\ TypeOK' /\ TimeInv' /\ SweepInv'
  <1>1. UNCHANGED <<clock, buckets, req, janitor, ticked>>
    BY DEF vars
  <1>2. QuietStep /\ TypeOK' /\ TimeInv'
    BY <1>1 DEF QuietStep, AnswersKept, TypeOK, TimeInv
  <1>3. SweepInv'
    BY <1>1 DEF SweepInv, LastTick, Served, Answered, KeyOf, ActorInContext
  <1> QED BY <1>2, <1>3

-----------------------------------------------------------------------------
(* The invariant, and what it says of the limiter.                         *)

LEMMA InvInit == Init => Inv
  <1> SUFFICES ASSUME Init PROVE Inv
    OBVIOUS
  <1>1. \A r \in Requests : req[r] = NewRequest
    BY DEF Init
  <1>2. \A k \in Keys : buckets[k] = NoBucket
    BY DEF Init
  <1>3. \A k : \A pc \in {"allowed", "denied"} : Answered(k, pc) = {}
    BY <1>1 DEF Answered, NewRequest
  <1>4. TypeOK
    <2>1. /\ NoBucket \in [tracked : BOOLEAN, tokens : 0 .. Full, lastSeen : 0 .. Horizon]
          /\ NewRequest \in [pc : {"new", "locking", "allowed", "denied"}, now : 0 .. Horizon,
                             at : 0 .. Horizon, retryAfter : Nat, last : BOOLEAN]
      BY Constants DEF NoBucket, NewRequest
    <2>2. clock \in 0 .. Horizon
      BY Constants DEF Init
    <2>6. ticked \in BOOLEAN
      BY Zenon DEF Init
    <2>3. janitor \in [pc : {"select", "evict"}, cutoff : Int]
      BY DEF Init
    <2>4. buckets \in [Keys -> [tracked : BOOLEAN, tokens : 0 .. Full, lastSeen : 0 .. Horizon]]
      BY <2>1 DEF Init
    <2>5. req \in [Requests -> [pc : {"new", "locking", "allowed", "denied"}, now : 0 .. Horizon,
                               at : 0 .. Horizon, retryAfter : Nat, last : BOOLEAN]]
      BY <2>1 DEF Init
    <2> QED BY <2>2, <2>3, <2>4, <2>5, <2>6 DEF TypeOK
  <1>5. TimeInv
    BY <1>1, <1>2 DEF Init, TimeInv, NoBucket, NewRequest
  <1>6. BudgetInv
    BY <1>3 DEF BudgetInv, Served
  <1>7. AnyWindowWithinBudget
    BY <1>3 DEF AnyWindowWithinBudget, Passed
  <1>8. SpentInv /\ RetryAfterIsEnough
    BY <1>2 DEF SpentInv, RetryAfterIsEnough, NoBucket
  <1>9. DeniedOnlyWhenSpent
    BY <1>3 DEF DeniedOnlyWhenSpent
  <1>10. SweepInv
    BY <1>2 DEF Init, SweepInv, NoBucket
  <1> QED BY <1>4, <1>5, <1>6, <1>7, <1>8, <1>9, <1>10 DEF Inv

LEMMA InvStep == Inv /\ [Next]_vars => Inv'
  <1> SUFFICES ASSUME Inv, [Next]_vars PROVE Inv'
    OBVIOUS
  <1> USE DEF Inv
  <1>1. ASSUME QuietStep, TypeOK', TimeInv', SweepInv'
        PROVE  Inv'
    <2>1. BudgetInv'
      BY <1>1, QuietBudget
    <2>2. AnyWindowWithinBudget'
      BY <1>1, <2>1, QuietAnyWindow
    <2>3. SpentInv' /\ DeniedOnlyWhenSpent' /\ RetryAfterIsEnough'
      BY <1>1, QuietSpent, QuietDenied, QuietRetry
    <2> QED BY <1>1, <2>1, <2>2, <2>3
  <1>2. CASE Tick
    BY <1>1, <1>2, TickStep
  <1>3. ASSUME NEW r \in Requests, ReadClock(r)
        PROVE  Inv'
    BY <1>1, <1>3, ReadClockStep
  <1>4. ASSUME NEW r \in Requests, Allow(r)
        PROVE  Inv'
    <2>1. TypeOK' /\ TimeInv'
      BY <1>4, AllowType, AllowTime
    <2>2. BudgetInv' /\ AnyWindowWithinBudget'
      BY <1>4, AllowBudget, AllowAnyWindow
    <2>3. SpentInv' /\ DeniedOnlyWhenSpent'
      BY <1>4, AllowSpent, AllowDenied
    <2>4. RetryAfterIsEnough' /\ SweepInv'
      BY <1>4, AllowRetry, AllowSweep
    <2> QED BY <2>1, <2>2, <2>3, <2>4
  <1>5. CASE Wake
    BY <1>1, <1>5, WakeStep
  <1>6. CASE EvictIdle
    BY <1>1, <1>6, EvictIdleStep
  <1>7. CASE UNCHANGED vars
    BY <1>1, <1>7, StutterStep
  <1> QED BY <1>2, <1>3, <1>4, <1>5, <1>6, <1>7 DEF Next

LEMMA Invariant == Spec => []Inv
  <1> QED BY InvInit, InvStep, PTL DEF Spec

\* A bucket never holds more than the burst nor less than nothing, and every
\* answer's Retry-After is a number of seconds, whatever the order of readings.
THEOREM TypeCorrect == Spec => []TypeOK
  <1>1. Inv => TypeOK
    BY DEF Inv
  <1> QED BY <1>1, Invariant, PTL

\* The limiter's promise: in any window of time a key is let through no more
\* than the burst, the refill of the window and what late readings are worth,
\* although buckets are forgotten and readings arrive in any order.
THEOREM WithinBudget == Spec => []AnyWindowWithinBudget
  <1>1. Inv => AnyWindowWithinBudget
    BY DEF Inv
  <1> QED BY <1>1, Invariant, PTL

\* Nobody is answered 429 without cause: since some moment its key had used up
\* the burst and the refill up to the reading of the clock it was judged by.
THEOREM DeniedSpent == Spec => []DeniedOnlyWhenSpent
  <1>1. Inv => DeniedOnlyWhenSpent
    BY DEF Inv
  <1> QED BY <1>1, Invariant, PTL

\* A caller that waits for its Retry-After, rounded to whole seconds, finds a
\* token, unless its key was let through in the meantime.
THEOREM RetryEnough == Spec => []RetryAfterIsEnough
  <1>1. Inv => RetryAfterIsEnough
    BY DEF Inv
  <1> QED BY <1>1, Invariant, PTL

\* The janitor keeps the map small: with no tick pending, each bucket has been
\* used within the idle time and one period of the ticker.
THEOREM Reclaimed == Spec => []IdleBucketsReclaimed
  <1>1. Inv => IdleBucketsReclaimed
    <2> SUFFICES ASSUME Inv, janitor.pc = "select", ~ticked, NEW k \in Keys, buckets[k].tracked
                 PROVE  \E r \in Answered(k, "allowed") \cup Answered(k, "denied") :
                           req[r].at >= clock - IdleTTL - Period
      BY DEF IdleBucketsReclaimed, Period
    <2>1. PICK r \in Answered(k, "allowed") \cup Answered(k, "denied") :
             req[r].at >= LastTick - IdleTTL
      BY DEF Inv, SweepInv, Served
    <2>2. /\ LastTick >= clock - Period /\ LastTick \in Int /\ clock \in Int
          /\ Period \in Int /\ IdleTTL \in Int
      <3>1. clock \in Nat /\ Period \in Nat \ {0} /\ IdleTTL \in Nat
        BY Constants DEF Inv, TypeOK
      <3> QED BY <3>1, Division DEF LastTick
    <2>3. req[r].at \in Int
      BY RequestType, Constants DEF Inv, Answered
    <2> QED BY <2>1, <2>2, <2>3
  <1> QED BY <1>1, Invariant, PTL
=============================================================================
