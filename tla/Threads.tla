------------------------------ MODULE Threads ------------------------------
(***************************************************************************)
(* Posts and their comment threads, as the requests of the API change them *)
(* in PostgreSQL at READ COMMITTED.                                        *)
(*                                                                         *)
(* `post' and `comment' are the COMMITTED rows.  A request is one call of  *)
(* comment.Service or post.Service: it reads (pc "new"), then runs its     *)
(* statements one by one.  A row a transaction has written stays locked,   *)
(* and its new version invisible, until Commit; a statement that meets a   *)
(* locked row waits and then re-evaluates its WHERE clause on the newest   *)
(* committed version of that row, keeping the rest of its snapshot.        *)
(***************************************************************************)
EXTENDS Integers, FiniteSets, RowLocks

CONSTANTS
    Posts, Comments,    \* primary keys of the two tables
    Users, Admins,      \* accounts, and those with the admin role
    PostAuthor,         \* [Posts -> Users]
    Kind, Actor,        \* what each request asks for, and for whom
    NewId,              \* the uuid.New() of each comment creation
    Seed, SeedStatus    \* committed comments and post statuses at the start

Kinds == {"createComment", "editComment", "deleteComment",
          "publish", "unpublish", "deletePost"}
Statuses == {"draft", "published"}
Creators == {r \in Requests : Kind[r] = "createComment"}

CommentRow == [state  : {"absent", "live", "deleted"},
               post   : Posts \cup {NoRow},
               parent : Comments \cup {NoRow},
               author : Users \cup {NoRow},
               edited : BOOLEAN]
PostRow == [live : BOOLEAN, status : Statuses, stamped : BOOLEAN, count : Int]

ASSUME KeysAssumption ==
    /\ IsFiniteSet(Comments)
    /\ Posts \cap Comments = {}
    /\ NoRow \notin Posts \cup Comments \cup Users
    /\ Admins \subseteq Users
    /\ PostAuthor \in [Posts -> Users]

ASSUME RequestsAssumption ==
    /\ Kind \in [Requests -> Kinds]
    /\ Actor \in [Requests -> Users]
    /\ NewId \in [Creators -> Comments]
    /\ \A r, q \in Creators : NewId[r] = NewId[q] => r = q

\* The database at the start: well-formed rows, nothing deleted yet.
ASSUME SeedAssumption ==
    /\ Seed \in [Comments -> CommentRow]
    /\ SeedStatus \in [Posts -> Statuses]
    /\ \A r \in Creators : Seed[NewId[r]].state = "absent"
    /\ \A c \in Comments :
         /\ Seed[c].state \in {"absent", "live"}
         /\ Seed[c].state = "absent" => ~Seed[c].edited
         /\ Seed[c].state = "live" =>
              /\ Seed[c].post \in Posts
              /\ Seed[c].parent # NoRow =>
                   /\ Seed[Seed[c].parent].state = "live"
                   /\ Seed[Seed[c].parent].post = Seed[c].post

VARIABLES
    post,       \* committed rows of posts
    comment,    \* committed rows of comments
    pc,         \* the statement each request is about to run
    req,        \* arguments and local variables of each request
    answer      \* the response

vars == <<post, comment, pc, req, held, want, answer>>

Answers == {"none", "ok", "403", "404", "422", "500", "deadlock"}
Labels == {"new", "bump", "insert", "commit", "edit", "scan", "rows",
           "count", "status", "mark", "sweep", "done"}
Request == [post   : Posts \cup {NoRow},       \* postID
            cmt    : Comments \cup {NoRow},    \* id of the comment
            parent : Comments \cup {NoRow},    \* CreateInput.ParentID
            seen   : Statuses \cup {NoRow},    \* currentStatus of post.Update
            todo   : SUBSET Comments,          \* matched rows not yet locked
            hit    : SUBSET Comments]          \* rows the statement updated
NoRequest == [post |-> NoRow, cmt |-> NoRow, parent |-> NoRow,
              seen |-> NoRow, todo |-> {}, hit |-> {}]

Live == {c \in Comments : comment[c].state = "live"}
LiveOn(p) == {c \in Live : comment[c].post = p}

TypeOK ==
    /\ post \in [Posts -> PostRow]
    /\ comment \in [Comments -> CommentRow]
    /\ pc \in [Requests -> Labels]
    /\ req \in [Requests -> Request]
    /\ held \in [Requests -> SUBSET (Posts \cup Comments)]
    /\ want \in [Requests -> Posts \cup Comments \cup {NoRow}]
    /\ answer \in [Requests -> Answers]

Init ==
    /\ comment = Seed
    /\ post = [p \in Posts |->
                 [live    |-> TRUE,
                  status  |-> SeedStatus[p],
                  stamped |-> SeedStatus[p] = "published",
                  count   |-> Cardinality({c \in Comments :
                                 Seed[c].state = "live" /\ Seed[c].post = p})]]
    /\ pc = [r \in Requests |-> "new"]
    /\ req = [r \in Requests |-> NoRequest]
    /\ held = [r \in Requests |-> {}]
    /\ want = [r \in Requests |-> NoRow]
    /\ answer = [r \in Requests |-> "none"]

-----------------------------------------------------------------------------
(* Authorization, row locks, and the two ways a request goes on.           *)

CanModify(u, owner) == u = owner \/ u \in Admins
Visible(u, p) ==
    /\ post[p].live
    /\ post[p].status = "published" \/ CanModify(u, PostAuthor[p])

\* The rows the current statement of r still has to lock.
Wanted(r) ==
    CASE pc[r] \in {"bump", "count", "status", "mark"} -> {req[r].post}
      [] pc[r] = "edit" -> {req[r].cmt}
      [] pc[r] = "rows" -> req[r].todo
      [] OTHER -> {}

Granted(r, x) == Grants(r, x, Wanted(r))

\* The statement of r waits for a row it meets.
Block(r) ==
    /\ Waits(r, Wanted(r))
    /\ UNCHANGED <<post, comment, pc, req, answer>>

\* r goes on to the statement `label' with the locals q, having locked `rows'.
Advance(r, label, q, rows) ==
    /\ pc' = [pc EXCEPT ![r] = label]
    /\ req' = [req EXCEPT ![r] = q]
    /\ Locks(r, rows)
    /\ UNCHANGED answer

\* Mutant: a return path without Commit or Rollback; the rows stay locked.
FinishHolding(r, a) ==
    /\ pc' = [pc EXCEPT ![r] = "done"]
    /\ want' = [want EXCEPT ![r] = NoRow]
    /\ answer' = [answer EXCEPT ![r] = a]
    /\ UNCHANGED <<req, held>>

\* r answers a; its transaction, if any, has ended and released its rows.
Finish(r, a) ==
    /\ pc' = [pc EXCEPT ![r] = "done"]
    /\ req' = [req EXCEPT ![r] = [@ EXCEPT !.todo = {}, !.hit = {}]]
    /\ Unlocks(r)
    /\ answer' = [answer EXCEPT ![r] = a]

\* r answers an error; whatever it wrote is rolled back.
Reject(r, a) == Finish(r, a) /\ UNCHANGED <<post, comment>>

\* Mutant: the two identifiers are passed in the wrong order.
TargetSwapped(p, c) == [NoRequest EXCEPT !.post = c, !.cmt = p]

\* The locals of a request for post p and comment c.
Target(p, c) == [NoRequest EXCEPT !.post = p, !.cmt = c]

-----------------------------------------------------------------------------
(* comment.Service.Create and Repository.Create.                           *)

\* posts.ByID: the visibility check, before the transaction.
CheckPost(r) ==
    /\ pc[r] = "new" /\ Kind[r] = "createComment"
    /\ \E p \in Posts, par \in (Comments \ {NewId[r]}) \cup {NoRow} :
         \/ /\ Visible(Actor[r], p)
            /\ Advance(r, "bump", [Target(p, NewId[r]) EXCEPT !.parent = par], {})
            /\ UNCHANGED <<post, comment>>
         \/ /\ ~Visible(Actor[r], p)
            /\ Reject(r, "404")

\* Mutant: the counter UPDATE forgets deleted_at IS NULL.
BumpCountUnchecked(r) ==
    /\ pc[r] = "bump"
    /\ Granted(r, req[r].post)
    /\ Advance(r, "insert", req[r], {req[r].post})
    /\ UNCHANGED <<post, comment>>

\* UPDATE posts SET comment_count = comment_count + 1 ... AND deleted_at IS NULL
BumpCount(r) ==
    /\ pc[r] = "bump"
    /\ Granted(r, req[r].post)
    /\ \/ /\ post[req[r].post].live
          /\ Advance(r, "insert", req[r], {req[r].post})
          /\ UNCHANGED <<post, comment>>
       \/ /\ ~post[req[r].post].live
          /\ Reject(r, "404")

\* comments_parent_same_post looks at (id, post_id) only, not at deleted_at.
ParentExists(r) ==
    LET par == req[r].parent IN
    par # NoRow => /\ comment[par].state # "absent"
                   /\ comment[par].post = req[r].post

InsertComment(r) ==
    /\ pc[r] = "insert"
    /\ \/ /\ ParentExists(r)
          /\ Advance(r, "commit", req[r], {})
          /\ UNCHANGED <<post, comment>>
       \/ /\ ~ParentExists(r)
          /\ Reject(r, "422")

-----------------------------------------------------------------------------
(* comment.Service.Update and Delete.                                      *)

\* Mutant: the ownership check is forgotten.
CheckCommentAnyone(r, kind, label) ==
    /\ pc[r] = "new" /\ Kind[r] = kind
    /\ \E c \in Live : Advance(r, label, Target(comment[c].post, c), {})
    /\ UNCHANGED <<post, comment>>

\* AuthorAndPostOf and the ownership check.
CheckComment(r, kind, label) ==
    /\ pc[r] = "new" /\ Kind[r] = kind
    /\ \E c \in Comments :
         \/ /\ c \notin Live
            /\ Reject(r, "404")
         \/ /\ c \in Live /\ ~CanModify(Actor[r], comment[c].author)
            /\ Reject(r, "403")
         \/ /\ c \in Live /\ CanModify(Actor[r], comment[c].author)
            /\ Advance(r, label, Target(comment[c].post, c), {})
            /\ UNCHANGED <<post, comment>>

CheckEdit(r) == CheckComment(r, "editComment", "edit")
CheckDelete(r) == CheckComment(r, "deleteComment", "scan")

\* Mutant: the edit forgets deleted_at IS NULL.
EditCommentUnchecked(r) ==
    /\ pc[r] = "edit"
    /\ Granted(r, req[r].cmt)
    /\ comment' = [comment EXCEPT ![req[r].cmt].edited = TRUE]
    /\ Finish(r, "ok")
    /\ UNCHANGED post

\* UPDATE comments SET content ... AND deleted_at IS NULL, in its own
\* transaction; the client may lose the answer to a committed statement.
EditComment(r) ==
    LET c == req[r].cmt IN
    /\ pc[r] = "edit"
    /\ Granted(r, c)
    /\ \/ /\ c \in Live
          /\ comment' = [comment EXCEPT ![c].edited = TRUE]
          /\ \E a \in {"ok", "500"} : Finish(r, a)
          /\ UNCHANGED post
       \/ /\ c \notin Live
          /\ Reject(r, "404")

\* The recursive CTE: c and its live descendants, through live replies only.
Thread(c) ==
    {d \in Live : \A S \in SUBSET Live :
        (/\ c \in S
         /\ \A x \in Live : comment[x].parent \in S => x \in S) => d \in S}

\* The CTE reads the snapshot of the statement.
ScanThread(r) ==
    LET c == req[r].cmt IN
    /\ pc[r] = "scan"
    /\ \/ /\ c \in Live
          /\ Advance(r, "rows", [req[r] EXCEPT !.todo = Thread(c)], {})
          /\ UNCHANGED <<post, comment>>
       \/ /\ c \notin Live
          /\ Reject(r, "404")

\* The WHERE clause of the outer UPDATE, on the newest version of row c:
\* comment.Repository.Delete only asks for id IN thread, post.Repository.Delete
\* asks again for deleted_at IS NULL.
Matches(r, c) == Kind[r] = "deleteComment" \/ c \in Live

\* Where the transaction goes after its UPDATE of comments.
AfterRows(r) == IF Kind[r] = "deleteComment" THEN "count" ELSE "commit"

\* One row of UPDATE comments SET deleted_at = now().
LockRow(r) ==
    /\ pc[r] = "rows"
    /\ \E c \in req[r].todo :
         LET q == [req[r] EXCEPT !.todo = @ \ {c},
                                 !.hit = IF Matches(r, c) THEN @ \cup {c} ELSE @] IN
         /\ Granted(r, c)
         /\ Advance(r, IF q.todo = {} THEN AfterRows(r) ELSE "rows", q, {c})
    /\ UNCHANGED <<post, comment>>

\* UPDATE posts SET comment_count = comment_count - removed
\* under CHECK (comment_count >= 0)
Decrement(r) ==
    LET p == req[r].post
        enough == post[p].count >= Cardinality(req[r].hit) IN
    /\ pc[r] = "count"
    /\ Granted(r, p)
    /\ \/ /\ enough
          /\ Advance(r, "commit", req[r], {p})
          /\ UNCHANGED <<post, comment>>
       \/ /\ ~enough
          /\ Reject(r, "500")

-----------------------------------------------------------------------------
(* post.Service.Update (of the status) and post.Service.Delete.            *)

\* AuthorOf and authorize; remembers currentStatus.
CheckOwner(r, kinds, label) ==
    /\ pc[r] = "new" /\ Kind[r] \in kinds
    /\ \E p \in Posts :
         LET mine == CanModify(Actor[r], PostAuthor[p]) IN
         \/ /\ post[p].live /\ mine
            /\ Advance(r, label, [Target(p, NoRow) EXCEPT !.seen = post[p].status], {})
            /\ UNCHANGED <<post, comment>>
         \/ /\ post[p].live /\ ~mine
            /\ Reject(r, IF post[p].status = "published" THEN "403" ELSE "404")
         \/ /\ ~post[p].live
            /\ Reject(r, "404")

CheckStatus(r) == CheckOwner(r, {"publish", "unpublish"}, "status")
CheckDeletePost(r) == CheckOwner(r, {"deletePost"}, "mark")

\* UPDATE posts SET status, published_at ... AND deleted_at IS NULL under
\* posts_published_at_consistent.  published_at is built from the status the
\* service READ, and kept when that was already published.
SetStatus(r) ==
    LET p == req[r].post
        status == IF Kind[r] = "publish" THEN "published" ELSE "draft"
        stamped == /\ Kind[r] = "publish"
                   /\ req[r].seen # "published" \/ post[p].stamped
        consistent == stamped <=> (status = "published") IN
    /\ pc[r] = "status"
    /\ Granted(r, p)
    /\ \/ /\ post[p].live /\ consistent
          /\ post' = [post EXCEPT ![p].status = status, ![p].stamped = stamped]
          /\ \E a \in {"ok", "500"} : Finish(r, a)
          /\ UNCHANGED comment
       \/ /\ post[p].live /\ ~consistent
          /\ Reject(r, "500")
       \/ /\ ~post[p].live
          /\ Reject(r, "404")

\* Mutant: deleting a post forgets deleted_at IS NULL.
MarkDeletedUnchecked(r) ==
    /\ pc[r] = "mark"
    /\ Granted(r, req[r].post)
    /\ Advance(r, "sweep", req[r], {req[r].post})
    /\ UNCHANGED <<post, comment>>

\* UPDATE posts SET deleted_at = now() ... AND deleted_at IS NULL
MarkDeleted(r) ==
    LET p == req[r].post IN
    /\ pc[r] = "mark"
    /\ Granted(r, p)
    /\ \/ /\ post[p].live
          /\ Advance(r, "sweep", req[r], {p})
          /\ UNCHANGED <<post, comment>>
       \/ /\ ~post[p].live
          /\ Reject(r, "404")

\* The second statement takes its own snapshot of the live comments.
SweepComments(r) ==
    LET rows == LiveOn(req[r].post) IN
    /\ pc[r] = "sweep"
    /\ Advance(r, IF rows = {} THEN "commit" ELSE "rows",
               [req[r] EXCEPT !.todo = rows], {})
    /\ UNCHANGED <<post, comment>>

-----------------------------------------------------------------------------
(* The end of a transaction: postgres.InTx.                                *)

\* The rows the transaction wrote become the committed ones.
CommitCreate(r) ==
    /\ pc[r] = "commit" /\ Kind[r] = "createComment"
    /\ comment' = [comment EXCEPT ![req[r].cmt] =
                      [state |-> "live", post |-> req[r].post,
                       parent |-> req[r].parent, author |-> Actor[r],
                       edited |-> FALSE]]
    /\ post' = [post EXCEPT ![req[r].post].count = @ + 1]

SoftDelete(rows) ==
    comment' = [c \in Comments |->
                  IF c \in rows THEN [comment[c] EXCEPT !.state = "deleted"]
                                ELSE comment[c]]

\* Mutants: the counter goes down by one, or not at all, whatever was removed.
CommitDeleteByOne(r) ==
    /\ pc[r] = "commit" /\ Kind[r] = "deleteComment"
    /\ SoftDelete(req[r].hit)
    /\ post' = [post EXCEPT ![req[r].post].count = @ - 1]
CommitDeleteUncounted(r) ==
    /\ pc[r] = "commit" /\ Kind[r] = "deleteComment"
    /\ SoftDelete(req[r].hit)
    /\ UNCHANGED post

CommitDeleteComment(r) ==
    /\ pc[r] = "commit" /\ Kind[r] = "deleteComment"
    /\ SoftDelete(req[r].hit)
    /\ post' = [post EXCEPT ![req[r].post].count = @ - Cardinality(req[r].hit)]

CommitDeletePost(r) ==
    /\ pc[r] = "commit" /\ Kind[r] = "deletePost"
    /\ SoftDelete(req[r].hit)
    /\ post' = [post EXCEPT ![req[r].post].live = FALSE]

\* A commit whose answer is lost with the connection is reported as a 500.
Commit(r) ==
    /\ \/ CommitCreate(r)
       \/ CommitDeleteComment(r)
       \/ CommitDeletePost(r)
    /\ \E a \in {"ok", "500"} : Finish(r, a)

\* The context ends (handler timeout, client gone), the connection or the
\* process is lost: the open transaction is rolled back.
Abort(r) ==
    /\ pc[r] \notin {"new", "done"}
    /\ Reject(r, "500")

\* The deadlock detector aborts one transaction of the cycle (SQLSTATE 40P01);
\* no caller asks IsRetryable, so the error becomes the response.
DeadlockAbort(r) ==
    /\ InDeadlock(r)
    /\ Reject(r, "deadlock")

-----------------------------------------------------------------------------
Check(r) ==
    \/ CheckPost(r) \/ CheckEdit(r) \/ CheckDelete(r)
    \/ CheckStatus(r) \/ CheckDeletePost(r)

Statement(r) ==
    \/ BumpCount(r) \/ InsertComment(r)
    \/ EditComment(r)
    \/ ScanThread(r) \/ LockRow(r) \/ Decrement(r)
    \/ SetStatus(r)
    \/ MarkDeleted(r) \/ SweepComments(r)
    \/ Commit(r)

\* Every request is answered: the behaviour ends.
Terminating ==
    /\ \A r \in Requests : pc[r] = "done"
    /\ UNCHANGED vars

Next ==
    \/ \E r \in Requests : Check(r) \/ Statement(r) \/ Block(r)
                          \/ Abort(r) \/ DeadlockAbort(r)
    \/ Terminating

Spec == Init /\ [][Next]_vars

\* PostgreSQL runs every statement it has been sent, and its deadlock detector
\* runs in every wait longer than deadlock_timeout.  Clients owe nothing.
FairSpec ==
    Spec /\ \A r \in Requests :
              WF_vars(Statement(r) \/ Block(r)) /\ WF_vars(DeadlockAbort(r))

-----------------------------------------------------------------------------
(* What must hold.                                                         *)

\* A deleted post has no live comment left: post.Repository.Delete marks the
\* post and all its comments together, against comments being added meanwhile
\* (the counter UPDATE of comment.Repository.Create runs first for this).
NoLiveCommentOnDeletedPost ==
    \A c \in Live : post[comment[c].post].live

\* comment_count never promises more comments than the post has, whatever
\* creations and deletions overlap.
CounterNeverExceedsLive ==
    \A p \in Posts : post[p].live => post[p].count <= Cardinality(LiveOn(p))

\* comment_count is the number of live comments: Delete decrements it by the
\* number of rows actually removed.
CounterExact ==
    \A p \in Posts : post[p].live => post[p].count = Cardinality(LiveOn(p))

\* No two deletions of threads have a comment in hand at the same time: the only
\* way in which the counter can drift.
Deleting(r) == Kind[r] = "deleteComment" /\ pc[r] \in {"rows", "count", "commit"}
InHand(r) == req[r].todo \cup req[r].hit
DeletionsDisjoint ==
    \A r, q \in Requests : r # q /\ Deleting(r) /\ Deleting(q) =>
        InHand(r) \cap InHand(q) = {}

\* Of two deletions of one post only one is acknowledged; the other rolls back
\* and answers 404 (post.Repository.Delete, on RowsAffected() = 0).
PostDeletedOnce ==
    \A r, q \in Requests :
        /\ r # q
        /\ Kind[r] = "deletePost" /\ answer[r] = "ok"
        /\ Kind[q] = "deletePost" /\ answer[q] = "ok"
        => req[r].post # req[q].post

\* Deletion is final: an edit or a change of status that waited for the lock of
\* a row deleted meanwhile leaves it alone, and nothing revives a deleted row.
\* When it was deleted is not modelled.
DeletedStaysAsItWas ==
    [][/\ \A c \in Comments : comment[c].state = "deleted" =>
                                 comment'[c] = comment[c]
       /\ \A p \in Posts : ~post[p].live =>
            [post'[p] EXCEPT !.count = post[p].count] = post[p]]_vars

\* Only an owner or an admin changes content, status or a post's existence
\* (domain.CanModify, checked on a read that precedes the write).
OnlyOwnersWrite ==
    [][\A r \in Requests : pc[r] # "done" /\ pc'[r] = "done" =>
        /\ \A c \in Comments : comment'[c].edited # comment[c].edited =>
             CanModify(Actor[r], comment[c].author)
        /\ \A p \in Posts :
             \/ post'[p].status # post[p].status
             \/ post'[p].live # post[p].live
             => CanModify(Actor[r], PostAuthor[p])]_vars

\* Every request that reached the database is answered: whatever locks it
\* meets, waiting ends.
EveryRequestAnswered ==
    \A r \in Requests : pc[r] # "new" ~> pc[r] = "done"

-----------------------------------------------------------------------------
(* What the repository says of the program and TLC refutes; see README.md. *)

\* "A reply to a deleted comment renders as an orphan": deleting a parent
\* removes its replies.
NoOrphanReply ==
    \A c \in Live : comment[c].parent # NoRow => comment[c].parent \in Live

\* Commenting on someone else's unpublished draft fails.
NoCommentOnHiddenDraft ==
    [][\A c \in Comments :
         comment[c].state = "absent" /\ comment'[c].state = "live" =>
            Visible(comment'[c].author, comment'[c].post)]_vars

\* A deadlock is retried, not surfaced as an error.
NoDeadlockSurfaces == \A r \in Requests : answer[r] # "deadlock"

=============================================================================
