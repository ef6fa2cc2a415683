# The blog API in TLA+

A verification project for the Go service under `src/`: a blog API (posts,
threaded comments, accounts with rotating refresh tokens) over PostgreSQL, with
an in-process event bus, token-bucket rate limiters, a graceful shutdown and a
schema migrator.  The modules model the parts whose correctness depends on the
order in which things happen; TLC checks them on small instances, TLAPS proves
the safety properties for every instance.  `PROJECT.json` maps every
definition to the lines it models.

    tlc -workers 2 -config Threads_posts.cfg MCThreads     # one run
    tlapm ThreadsProofs.tla                                # one proof module

## 1. Inventory

| part | state | operations | hard behaviour |
|---|---|---|---|
| comments (`internal/comment`) | rows with parent, author, `deleted_at`; `posts.comment_count` | create (counter, insert), edit, delete a thread (recursive CTE, counter), reads | READ COMMITTED snapshots, row locks in opposite orders, counter kept by hand |
| posts (`internal/post`) | rows with slug, status, `published_at`, `deleted_at` | create, update, delete with comments, get, list | slugs unique among live posts, retried; checks on an earlier read; publication events |
| listing (`post/repository.go`, `httpx/pagination.go`) | none | filter rewrite, LIMIT/OFFSET, metadata | the visibility rule exists twice; page boundaries; machine integers |
| sessions (`internal/user`) | `refresh_tokens` rows, `revoked_at`, `replaced_by`, expiry | login, refresh with rotation, logout, logout everywhere, purge | concurrent rotation, replay, revocation against rotation in flight |
| accounts (`internal/user`, `internal/auth`) | `users` rows | register, login, profiles | uniqueness of e-mail and name in any spelling; a login after a late registration |
| transactions (`postgres/postgres.go`) | a pool | `InTx`, error classification | lost commit answers, rollback on panic or cancellation, statements executed after they were given up |
| request path (`middleware/middleware.go`, `httpx`, `apierr`) | none that outlives a request | deadline, recovery, body limit, decoding, the one answer | a deadline, a client that goes or a panic at any point, with a connection held |
| event bus (`platform/events`) | channel, closed flag, counters, workers | Publish, Shutdown, workers | publish against close, drain against deadline |
| rate limiter (`middleware/ratelimit.go`) | map of buckets, janitor | Allow, eviction, Close | clock read before the mutex, late janitor |
| lifecycle (`server/server.go`, `cmd/api`) | listener, errCh, bus, limiters, pool | Run, stopBackground, main | order of the shutdown, two deadlines, a listener that fails |
| migrator (`postgres/migrate.go`, `cmd/migrate`) | `schema_migrations`, advisory lock | Up, Down, status | several processes, crashes, a lock and a COMMIT on two connections that end one by one |
| health (`internal/health`) | none | liveness, readiness | the probe's deadline on a pool that is taken |
| routing, tokens, configuration, logging, docs | none that outlives a request | | order of the middleware |

How they interact: a request passes the middleware (limiter, deadline,
recovery, body limit) to a handler (one goroutine per request), which calls a
service; the service reads, checks and then writes through a repository, each transaction on
a connection of the pool; after its commit the service publishes an event on
the bus, whose workers call the subscribed handlers.  The comment service asks
the post service whether a post is visible.  Registration and
login publish as well.  `Server.Run` owns the listener, the bus and the limiters; `main` owns
the pool.  The migrator shares only the database with the rest.

What makes each part correct is stated by the properties of section 4; what can
go wrong, line by line, is in `PROJECT.json` under `hazards`.

## 2. Modules

| module | models | state, in terms of the code |
|---|---|---|
| `RowLocks` | PostgreSQL's row locks (external) | `held`, `want`: the rows a transaction has locked and the one it waits for |
| `Threads` | `comment.Service`/`Repository`; delete and status of `post` | committed rows `post`, `comment`; per request the next statement `pc`, its locals `req`, `answer` |
| `LoginLedger` | what rotating tokens promise (abstract) | `live`: an open login and its one token; `spent` |
| `Sessions` | login, refresh, logout, logout everywhere, purge | committed `token` rows; `family` is history: the login a token descends from |
| `BestEffortBus` | what callers may rely on from the bus (abstract) | `status` of each event, `phase`, `report` of each shutdown |
| `EventBus` | `events.Bus` goroutine by goroutine | `queue`, `open` (the channel), `closed` (the flag), counters, one state per publisher, worker and closer |
| `Listing` | one listing request, as operators | none: a table of rows in, a page and its metadata out |
| `Authoring` | `post.Service` Create/Update/Delete with slugs and events | rows of `posts`, per request the statement, attempt and status it has read |
| `RateLimiter` | `middleware.RateLimiter` | `clock`, `buckets` (tokens in fractions), requests between clock reading and mutex, the janitor |
| `Lifecycle` | `Server.Run`, `stopBackground`, `cmd/api` | `main` is the place in `Run`, `conn` the requests, `errCh`, `stopped`, `pool`; the bus is an instance of `BestEffortBus` |
| `Pipeline` | a request between the middleware, the pool and the driver | `at`, `phase`: where its handler is; `ctx`, `conn`, `statement`, `answer` |
| `Accounts` | `user.Service` Register, Login, profiles; `/healthz`, `/readyz`; one `InTx` | `Pipeline`, and `users` (rows), `row` (what login has read), `announced` (events); `applied` and `known` are history |
| `Migrator` | `postgres.Migrator`, `cmd/migrate` | `table`, `recorded` (rows), `schema` (what scripts left), `lock`, one `pc` per process; `late`: COMMITs the database has received and nobody waits for; `lost`, `stale` are history |
| `MC*` | small instances for TLC | |
| `ThreadsProofs`, `SessionsProofs`, `AccountsProofs`, `EventBusProofs`, `LifecycleProofs`, `MigratorProofs`, `AuthoringProofs`, `RateLimiterProofs` | theorems and proofs | |

Conventions.  In the database modules one action is one SQL statement or one
COMMIT.  The variables hold committed rows: what a transaction has written is
in the request's locals until it commits.  At READ COMMITTED a statement that
meets a locked row waits, then evaluates its WHERE clause again on the newest
version of that row and keeps its snapshot for the rest; `ScanThread` then
`LockRow`, and `ScanSessions` then `LockSession`, are these two halves.  A
commit may take effect and still be answered with an error (the answer was
lost); `Abort` is a context that ended, a lost connection or a failed statement
at any other point.  `DeadlockAbort` is PostgreSQL's detector choosing a victim
on a cycle of waits.  Rows and tokens get their ids from constants (`NewId`),
as `uuid.New` and `NewRefreshToken` never repeat.

In `Migrator` such a COMMIT also takes effect *after* its process has gone on:
`GiveUpCommit` (a context that SIGTERM ends) and `Crash` leave it in `late`,
`Land` or `Drop` is the database's answer to it, and the lock, which is on
another connection, may be free in between.  An abandoned transaction keeps its
locks until then (`MayRun`).  What a gone process may leave besides is only a
delay: an open transaction that is never committed, or a wait for the lock that
is granted to nobody (`EndSession` ends it).

`Pipeline` splits a statement into three steps of different actors: the driver
sends it (`Send`), the database executes it (`Execute`, in `Accounts`), the
handler gets the reply (`Receive`).  Between them the request may be given up
(`GiveUp`), the connection may break, the handler may panic; the database
executes what it was sent all the same, or never.  `change` is any transaction:
`InTx` with one statement, whose effects are the subject of the other modules.

What is abstracted: contents, titles, names, digests and wording; a title is a
value with a set of slugs (`Slugify`, random for a title without letters), and
`WithSuffix` gives the slugs a retry may draw.  Reads that change nothing are
not actions, except the reads a later write depends on.  `Authoring` has the
deletion of a post without its comments, `Threads` has it with them and without
slugs.  Mutated forms of a definition, which no specification uses, stand
before it and are named for what they get wrong.

`EventBus` implements `BestEffortBus` (run `EventBus`, property
`KeepsPromise`), and `Lifecycle` is built on `BestEffortBus`: what Lifecycle
shows holds for every bus that keeps the promise.  `Sessions` implements
`LoginLedger` (run `Sessions`, property `KeepsLedger`): `live` is the pairs of a
family and its active token, `spent` the stored tokens that are not active, so
rows, locks, snapshots and requests disappear.

## 3. Runs and bounds

| run | instance | states | shows |
|---|---|---|---|
| `Threads_posts` | 1 post, thread of 2, 5 requests: comment, edit, delete the thread, delete the post twice | 486 500 | a deleted post keeps no live comment, is deleted once; deletion is final; owners only; the counter is exact |
| `Threads_overlap` | the thread and a third comment, 2 deletions of threads, the post unpublished and deleted | 87 282 | the counter drifts downwards only; everybody is answered, deadlocks of two threads and of a thread with the post included |
| `Sessions` | 1 session, 4 tokens, any 4 of: 2 refreshes of any token, logout, login, purge, logout everywhere; expiry | 535 047 | the table implements `LoginLedger`; a login never forks nor revives; a token is exchanged once; a logout everywhere revokes every session of its snapshot |
| `Accounts` | 2 registrations of one identity and a third request of any kind, 1 connection, 1 account there | 344 736 | identities are unique; answers tell what happened; an acknowledged account works; every request ends |
| `EventBus` | 3 events, 2 workers, 2 handlers, 2 closers, channel of 1 | 30 953 | refinement, counters, what is accepted is dispatched, Shutdown returns |
| `Authoring` | 2 live posts and room for one, 3 requests, 2 titles, 4 slugs | 132 469 | publications are announced; slugs follow titles; listings agree with the single-post rule; pages partition them |
| `RateLimiter` | 1 key, 4 requests, 7 units of time, lateness 1 | 184 244 | the budget holds in every window, waits are long enough, idle buckets go |
| `Lifecycle` | 3 requests, buffer 1, 2 limiters | 181 296 | nothing is lost in a clean drain, the pool goes last, the exit status is true, the process ends |
| `Migrator` | 3 processes, 3 versions, 2 connections each | 341 187 | recorded is applied; unless a lock was lost or a COMMIT was late when the table was read: nothing twice, success means up to date, newest first; every run ends |
| `Threads_v_counter` | 2 deletions of one thread | violation | finding 1 |
| `Sessions_v_everywhere` | a refresh and a logout everywhere | violation | finding 2 |
| `RateLimiter_v_nat` | 2 users, 1 address | violation | finding 3 |

Why these bounds are enough for the cases the properties are about:

- *Threads*: three writers suffice for every pairwise conflict and for the
  cycle of two locks; the thread has a parent, a reply and room for one new
  row.  `Threads_posts` has one deletion of the thread: with two, `CounterExact`
  fails (finding 1), and `Threads_overlap` checks what is left of it.
- *Sessions*: two rotations, a logout and a logout everywhere meet in every
  order; four tokens are the one of the open session and one for each request
  that draws.  `MaxArrivals = 4`: any four of the six requests come.
- *Accounts*: two registrations want one address, or only one username, in two
  spellings; the third request is one of ten, the failing ones included.
  `MaxConns = 1` makes every connection that is not given back show.
  `Erasable`: the operator deletes only the account that is there at the start.
- *EventBus*: a channel of one is full and empty within three events; two
  workers and two closers race for each.
- *Authoring*: slugs are chosen so that an attempt collides until a rename or a
  deletion frees one; three attempts are the code's own number
  (`slugAttempts`).  `MaxInt = 5` makes arithmetic wrap as an int does, and is
  the smallest that `ListingFits` allows: three posts and one more page.
- *RateLimiter*: rate 1, burst 1 and a cost of 3 units make a bucket empty,
  partly refilled and full within 7 units; `IdleTTL = 4` gives the janitor two
  ticks.  `MaxLag` bounds the time between the reading of the clock and the
  mutex.  The clock stops at `Horizon`, so the run does not check deadlock; the
  requests are interchangeable, hence the symmetry (no liveness is checked).
- *Lifecycle*: the buffer is smaller than the number of requests, so drops for
  lack of room and drops by closing are both there.
- *Migrator*: the second release has edited version 2 and added version 3; the
  third process reverts two versions or asks for the status.  A COMMIT given up
  by one process is read past by the second, and the third sees what both left.

Fairness.  Statements the database has received are run, and its detector runs
in every cycle (`Threads`); a request that has not arrived and a context that
may end are under no fairness.  `Sessions`, `Authoring` and `RateLimiter` are
checked for safety only.  `Accounts`: goroutines are scheduled, bcrypt ends,
deadlines pass and the pool discards a broken connection; the database, the
network and the client need do nothing, so `EveryRequestEnds` rests on the
deadline alone.
`EventBus` assumes only the scheduler, and a handler that returns, which the
bus's contract asks for (`events.go:53`); it does not assume the deadline.
`Migrator`: a statement that can run is run, a COMMIT the
database has received is executed or dropped, and the session of a process that
is gone ends; nothing has to fail.  `Lifecycle`:
`Run` goes on and its deadlines pass, `HANDLER_TIMEOUT` ends a query, janitors
are scheduled; strong fairness on `Leave` stands for a `select` whose stop case
stays ready while its ticker keeps firing, which Go's random choice takes in
the end.  Neither handlers nor workers are assumed to finish: `ProcessExits`
holds because the two phases of the drain have deadlines.

## 4. Properties and proofs

Each property's comment in its module names the behaviour it is about.
Proved by TLAPS, for all values of the constants under the modules' assumptions
(any set of requests, finitely many comments, ids that are drawn once:
`KeysAssumption`, `RequestsAssumption` and `SeedAssumption` of `Threads`,
`TokensAssumption` of `Sessions`, `PipelineAssumption` and
`AccountsAssumption`, `BusAssumption`, `LifecycleAssumption`,
`MigratorAssumption`, `LimiterAssumption`, and `AuthoringAssumption`,
`ListingAssumption` and the `SeedAssumption` of `Authoring`: the live posts at
the start are rows this program has written).  Two assumptions are about
numbers that the code does not relate: `EvictedIsFull`, a bucket idle for
`IdleTTL` is full (true of the default rates and bursts), and `ListingFits`,
the posts and one page more fit an int (for 64 bits, any table).  The types of `EventBus`, `Lifecycle`, `Migrator` and
`Authoring` are proved instead of checked by a run:

| theorem | says |
|---|---|
| `ThreadsProofs!TypeCorrect` | `Spec => []TypeOK` |
| `ThreadsProofs!DeletedPostHasNoLiveComment` | `Spec => []NoLiveCommentOnDeletedPost` |
| `ThreadsProofs!RowsExclusive` | two transactions never hold one row |
| `ThreadsProofs!CounterBounded` | `Spec => []CounterNeverExceedsLive` |
| `ThreadsProofs!DeletedOnce` | `Spec => []PostDeletedOnce` |
| `ThreadsProofs!DeletionIsFinal` | `Spec => DeletedStaysAsItWas` |
| `ThreadsProofs!OwnersOnly` | `Spec => OnlyOwnersWrite` |
| `ThreadsProofs!ExactUnlessDeletionsMeet` | `Spec /\ []DeletionsDisjoint => []CounterExact` |
| `SessionsProofs!TypeCorrect` | `Spec => []TypeOK` |
| `SessionsProofs!NoLoginForks` | `Spec => []OneLiveTokenPerLogin` |
| `SessionsProofs!ExchangedOnce` | `Spec => []RotatedAtMostOnce` |
| `SessionsProofs!SeenSessionsEnd` | `Spec => []LogoutAllRevokesWhatItSaw` |
| `SessionsProofs!NoLoginRevives` | `Spec => EndedLoginStaysEnded` |
| `SessionsProofs!ImplementsLedger` | `Spec => KeepsLedger`, the refinement of `LoginLedger` |
| `AccountsProofs!TypeCorrect` | `Spec => []TypeOK` |
| `AccountsProofs!OneAccount` | `Spec => []OneAccountPerIdentity` |
| `AccountsProofs!AnswersTellTheTruth` | `Spec => []AnswerMatchesEffect` |
| `AccountsProofs!PromisedAccount` | `Spec => []AcknowledgedAccountWorks` |
| `EventBusProofs!ImplementsPromise` | `Spec => KeepsPromise`, the refinement of `BestEffortBus` |
| `EventBusProofs!CountersAddUp` | `Spec => []StatsAddUp` |
| `EventBusProofs!AtMostOnce` | `Spec => []DispatchedAtMostOnce` |
| `LifecycleProofs!PoolOutlives` | `Spec => []PoolOutlivesItsUsers` |
| `LifecycleProofs!NilIsClean` | `Spec => []NilMeansClean` |
| `LifecycleProofs!DrainLosesNothing` | `Spec => GracefulDrainLosesNothing` |
| `MigratorProofs!TransactionalMigrations` | `Spec => []RecordedIsApplied` |
| `MigratorProofs!AppliedOnce` | `Spec => []NeverAppliedTwice` |
| `MigratorProofs!SuccessMeansUpToDate` | `Spec => []UpMeansUpToDate` |
| `MigratorProofs!RevertsNewestFirst` | `Spec => NewestRevertedFirst` |
| `AuthoringProofs!Announced` | `Spec => []PublicationsAnnounced` |
| `AuthoringProofs!SlugsFollow` | `Spec => []SlugFollowsTitle` |
| `AuthoringProofs!ListingAgrees` | `Spec => []ListingAgreesWithView` |
| `AuthoringProofs!PagesCover` | `Spec => []PagesCoverListing` |
| `RateLimiterProofs!TypeCorrect` | `Spec => []TypeOK` |
| `RateLimiterProofs!WithinBudget` | `Spec => []AnyWindowWithinBudget` |
| `RateLimiterProofs!DeniedSpent` | `Spec => []DeniedOnlyWhenSpent` |
| `RateLimiterProofs!RetryEnough` | `Spec => []RetryAfterIsEnough` |
| `RateLimiterProofs!Reclaimed` | `Spec => []IdleBucketsReclaimed` |

The argument in *Threads*.  `NoLiveCommentOnDeletedPost` is not inductive: a
commit of an insert could come after a commit of the deletion.  `Inv` adds that
two requests never hold one row (`OneHolder`), that a request at a statement
has the locals of that statement (`LabelInv`), and `SecuredInv`: from the
counter UPDATE on, a creation holds the row of its post, which is live; and a
deletion of a post, once it has swept, holds the post and has every live
comment of it among the rows it has locked or still has to lock.  So a commit
that adds a comment excludes a deletion in progress, and the commit of a
deletion leaves none.  One lemma per action (`...Step`), then `InvNext`.
The second part of `ThreadsProofs` adds what a request knows of the rows it has read (`Known`):
a row that was inserted keeps its post, parent and author, so the owner checked
is the owner still, and the rows a deletion counts are on the post whose counter
it takes down.  `Effects` is what one step may do to the rows; the counter stays
below the live comments because a deletion takes away at most as many as it
counts, which is also why it need not be exact (finding 1).

`CounterExact` is false in general, and `ExactUnlessDeletionsMeet` says that
finding 1 is the only reason.  `DeletionsDisjoint` is a hypothesis on the
behaviour: no two deletions of threads ever have a comment in hand, scanned or
marked, together; it allows any number of deletions, of other threads or one
after the other, and every creation, edit and deletion of a post beside them.
Under it (`Alive`) all that a deletion has in hand is live until it
commits, unless its post is gone; what a commit takes from the live comments
belongs to the request that commits (`Takes`), so it takes as many as it counts.

The argument in *Sessions*.  `Inv` says that a rotation at its commit holds the
presented token's row, which is active (`SecuredInv`); that the token a request
has drawn is unused until its commit (`PendingInv`); and that an exchanged
token is no longer active (`SpentInv`).  A family with its one live
token locked by a rotation can only swap it; without one, no step creates one.

`ImplementsLedger` rests on two facts: `Descent`, every family is named by a
token that was stored, and `RotationExchanges`, the commit of a rotation takes
the presented token out of `Active` and puts the drawn one in, under the same
family, in one step.

The argument in *Accounts*.  `OneAccountPerIdentity` compares spellings, which no
constraint does: `FoldedInv` says that the rows are folded, so that the unique
constraints suffice.  `AnswerMatchesEffect` is part of the invariant, with
`EffectInv`: a change is committed exactly by the reply "ok" of a statement that
changes something, whether or not anybody waits for that reply.  For
`PromisedAccount`, `LoginInv` says that a row made here is the row its
registration asked for, and that a login which began after that registration was
acknowledged has read no other account.

The argument in *EventBus*.  `WorkerInv` and `CloserInv` say that a channel is
closed once, after the flag, and that a worker leaves only a closed and empty
one; every step is then a step of `BestEffortBus` or a stutter.  The counters are
the numbers of calls that have ended each way (`CountInv`).

The argument in *Lifecycle*.  What is still open follows from where `Run` is
(`OrderInv`); after a drain that met no deadline nothing is in flight and nothing
comes (`QuietInv`), so the bus drains for good.

The argument in *Migrator*.  `RecordedIsApplied` needs no lock: script and row
share a transaction, late or not.  The others say what the lock is worth: as
long as no connection with a lock is lost and nobody has read
`schema_migrations` while a COMMIT was late (`Kept`), the process that holds the
lock knows what is recorded, namely what it has read and what it has done since
(`LockInv`).  `Kept` cannot be weakened to `~lost` (`DownRevertsNewest`,
section 5).  What can be late
while it holds is one COMMIT at most, of a process that had the lock and left
it; if it takes a row away, it is the newest one's (`LateInv`).  Until it has
landed nobody relies on a reading, so nobody writes, and it lands on the table
its process knew (`Abandoned` and the lemmas `GiveUpStep` and `SettleStep`).

The argument in *Authoring*.  `PublicationsAnnounced` compares the status of the
row at the UPDATE with an event chosen from the status read before.  `RowInv`
keeps live rows consistent (published exactly if stamped), so an UPDATE that
makes a draft public without meaning to leaves an inconsistent row, which the
CHECK refuses; what commits publishes knowingly (`TurnedInv`).  `RowInv` also has
every slug belong to its title, since all candidates come from the base that the
request computed (`ArgumentsInv`).  `ListingAgreesWithView` needs only the type of
the rows: it is a fact about the two visibility rules.  For `PagesCoverListing`,
`Ranks` shows that the places of `n` rows are a bijection with `1 .. n`, and
`OffsetFits` that the offset of a page with rows, and of the one after it, does
not wrap; page `p` then holds the places from `(p - 1) * limit + 1`
to `p * limit`, which split `1 .. n` (`PagesPartition`).

The argument in *RateLimiter*.  `AnyWindowWithinBudget` speaks of what was
answered, the code decides by a number of tokens that forgets it; `BudgetInv`
relates the two: since any moment after which its bucket was used, what a key
has spent and what it has left are no more than the burst and the refill up to
the bucket's last reading.  A reading that goes back is paid for by the
time its request has waited, one unit per request and unit (`Lag`).  A bucket
that is forgotten counts as a full one of this moment, which an eviction keeps
true because of `EvictedIsFull`.  `SpentInv` is the bound from below: since the
bucket was last full, it has lost nothing but what it gave away, so a refusal
means that it was spent.  `RetryAfterIsEnough` is the arithmetic of rounding up
twice.  `SweepInv` relates the janitor's cutoff to the last tick that was due,
which is what makes a missed tick harmless.

Only model-checked: the liveness properties (`EveryRequestAnswered` and its like),
which with ENABLED are out of the prover's reach.  So is induction over data:
what the recursive CTE computes is not proved (`Thread` is the smallest set of
live comments closed under replies, and the proofs use only that it is a set of
live comments).  `CounterExact` without its hypothesis is refuted by a run.

## 5. Where the code and what it says differ

Shown by a run (`findings` in `PROJECT.json`):

1. `CounterExact`: of two deletions that overlap in a thread, the second waits
   for the rows, marks them deleted again and counts them again
   (`comment/repository.go:212` has no `deleted_at IS NULL` in the outer
   UPDATE), so `comment_count` is decremented twice; when that would make it
   negative the deletion answers 500.
2. `LogoutAllEndsEverySession`: `RevokeAllForUser` does not see the replacement
   token of a refresh that commits while it waits; the login survives a logout
   everywhere, and the reaction to a replayed token.
3. `NoThrottlingByOthers`: the limiter is mounted before every authenticator,
   so it never sees an actor, and users behind one address share one budget.

What the repository says and TLC refutes, without a run in the list; the
properties are at the end of their modules.  To see one, name it in a copy of a
configuration of the run in brackets:

- `DownRevertsNewest` (`Migrator`): "Down rolls back the newest applied
  migrations" (`migrate.go:122`).  The advisory lock is on one connection, each
  migration commits on another.  When SIGTERM ends the context during COMMIT
  (`cmd/migrate/main.go:57`, `postgres.go:118`) the deferred unlock frees the
  lock (`migrate.go:86`, `:294`) while the database may still execute that
  COMMIT; the same when the process dies, as its sessions end one by one.  In
  the counterexample, version 2 is recorded after a Down has read only version 1,
  and the Down reverts version 1 below it.  With `~lost` for `Kept`,
  `NeverAppliedTwice` and `UpMeansUpToDate` fail as well: an Up finds the
  objects of a version it has read as unapplied, and fails; an Up reports
  success although a Down's COMMIT undoes one of its versions.
- `NoOrphanReply` (`Threads_posts`, a `createComment` that replies): a reply
  committed during, or begun after, the deletion of its parent stays live
  (`comment/repository.go:195`).
- `NoCommentOnHiddenDraft` (`Threads_overlap` with `Requests = {r1, r2, r4}`;
  `r1` creates a comment): the status is read before the transaction
  (`comment/service.go:59`).
- `NoDeadlockSurfaces` (`Threads_overlap`): `IsRetryable`
  (`postgres/postgres.go:165`) has no caller; a deadlock is answered with 500.
- `ReuseMeansRotated` (`Sessions`): a token that was logged out and is
  presented again is treated as a replay and ends every session
  (`user/service.go:183`).
- `PublicationTimeKept` (`Authoring`): two updates that both read a draft
  publish it twice, and the second moves `published_at` (`post/service.go:219`).
  The second publication is announced again; no property is about that, as the
  bus promises delivery at most once per event and nothing per post.

Observed while modelling, not a property:

- `EveryRunEnds` needs `MaxConns > 1`: with `DB_MAX_CONNS=1` the migrator holds
  its only connection for the lock and waits for a second one until its context
  ends.
- `migrate status` reads `schema_migrations` before anything creates it, so it
  fails on a fresh database (`cmd/migrate/main.go:106`), and it reads twice and
  without the lock, so it may list a version as both applied and pending, or
  neither.
- A lost lock connection is not noticed; then, as after a late COMMIT, only
  `RecordedIsApplied` remains.
- `deleted_at` is a flag in `Threads`: that an overlapping deletion writes a new
  time on a row deleted before (`comment/repository.go:213`) does not show in
  `DeletedStaysAsItWas`; that it counts the row again does (finding 1).
- With a burst of 1, as in the run `RateLimiter`, only a refusal that was not
  late says anything in `DeniedOnlyWhenSpent`; a burst of 2 (`Unit = 3`,
  `IdleTTL = 6`, 150 030 states) holds as well, and `DeniedSpent` is for every
  burst.
- A password of at most 72 characters and more than 72 bytes passes the
  validation and is answered 500, although `user/dto.go:19` says the rule turns
  the hashing error into a field message (`Hash` in `Accounts`).
- A `display_name` of spaces passes `min=1`, is trimmed (`user/service.go:99`,
  `:283`) and refused by a CHECK: a 500, not a 422 (`Refused`, `UpdateUser`).
- A statement that was given up may still be executed: after a 504 or a 499 the
  account may exist, and the registration that is tried again gets a 409.  No
  event is published then, hence `AnswerMatchesEffect` in one direction only.
- Two limits meet in `DecodeJSON`: a body whose first value ends before the
  limit and whose rest exceeds it is answered 400, not 413
  (`httpx/request.go:46`).
- `middleware.go:93` asks for the actor in a context that is older than the
  authenticator's, so the access log never has a `user_id`; the unit test puts
  the actor there by hand.
- The revocation after a replayed token runs on the request's context
  (`user/service.go:190`): a client that disconnects cancels it.  Access tokens
  outlive a logout everywhere and a change of role until they expire.
- A handler of the bus that ignores its context keeps its worker
  (`events.go:53`, `:153`); `Shutdown` then ends at its deadline, and
  `AcceptedIsDispatched` rests on handlers that return.
- `AnyWindowWithinBudget` carries the term `Lag`: a bucket whose `lastSeen` goes
  back refills for the same time twice.  The excess is what the lateness is
  worth.  Eviction is free of charge only while a bucket idle for `IdleTTL` is
  full; the configuration does not relate burst, rate and `IdleTTL`.
- A page past the end reports `total_items` 0, as the total rides on the rows;
  a page number near the maximum wraps to a negative offset (a 500) or to a
  small one (an early page again).
- `server.go:123` expects `/readyz` to fail before the drain; the readiness
  handler pings the database only and never learns of the shutdown.
- When the listener fails by itself, requests in flight are not drained: the
  bus is stopped and the pool closed under them, hence the condition `Graceful`.

## 6. Not modelled

- Request ids, the access log, CORS and headers: no other part depends on them.
- Signatures, digests and claims of tokens, bcrypt: cryptography without state;
  passwords match or do not, refresh tokens are drawn once.
- Configuration, logging, documentation endpoints, rendering: read once, or
  static.  Decoding and validation are one refusal (`TurnAway`).
- In posts, full-text search and the text of slugs; the list of comments, which
  is `Listing` without a filter.
- `Connect` (one attempt at the start) and the health-check command, a client.
- Floating point in the limiter: tokens are exact fractions.
- A composition of all database modules in one: tables are written by one service
  each, except `posts.comment_count` and the deletion of a post's comments, which
  `Threads` has on both sides.

## 7. Plan

What is left, most important first.

1. Prove: that a logout everywhere ends every session (finding 2) when no
   rotation commits between its scan and its commit, as
   `ExactUnlessDeletionsMeet` does for finding 1; that the rows a deletion has
   scanned are closed under replies at its snapshot.
2. Extend: an abstract specification of threads (a set of comments per post,
   changed atomically) that `Threads` implements but for the counter; the comment
   list in `Listing`.
