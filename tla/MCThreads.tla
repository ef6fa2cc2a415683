----------------------------- MODULE MCThreads -----------------------------
(***************************************************************************)
(* Small databases and sets of requests for Threads.                       *)
(***************************************************************************)
EXTENDS Threads

CONSTANTS p1,                   \* a post
          c1, c2, c3, c4,       \* comments
          ann, bob, root,       \* the author of the posts, a reader, an admin
          r1, r2, r3, r4, r5    \* requests

MCAdmins == {root}
MCPostAuthor == [p \in Posts |-> ann]

Absent == [state |-> "absent", post |-> NoRow, parent |-> NoRow,
           author |-> NoRow, edited |-> FALSE]
Row(p, par, u) == [Absent EXCEPT !.state = "live", !.post = p,
                                 !.parent = par, !.author = u]

\* A thread of depth two on p1: c1 <- c2.  The other ids are not used yet.
SeedThread == [c \in Comments |-> CASE c = c1 -> Row(p1, NoRow, bob)
                                    [] c = c2 -> Row(p1, c1, ann)
                                    [] OTHER  -> Absent]
\* The same thread and an unrelated c4 on the same post.
SeedWide == [c \in Comments |-> IF c = c4 THEN Row(p1, NoRow, bob)
                                          ELSE SeedThread[c]]
AllPublished == [p \in Posts |-> "published"]

NewIds == [r \in Creators |-> c3]

\* A comment, an edit, the deletion of a thread, and the post deleted by its
\* author and by an admin.
PostWork ==
    [r \in Requests |-> CASE r = r1 -> "createComment"
                          [] r = r2 -> "deleteComment"
                          [] r = r3 -> "editComment"
                          [] OTHER -> "deletePost"]
PostActors ==
    [r \in Requests |-> CASE r \in {r1, r2, r3} -> bob
                          [] r = r4 -> ann
                          [] OTHER -> root]

\* Two deletions that may overlap in one thread, while the post is unpublished
\* and deleted.  They deadlock with each other on two comments, and with the
\* deletion of the post, which locks it before its comments.
ThreadWork ==
    [r \in Requests |-> CASE r \in {r2, r3} -> "deleteComment"
                          [] r = r4 -> "unpublish"
                          [] r = r5 -> "deletePost"
                          [] OTHER -> "createComment"]
ThreadActors ==
    [r \in Requests |-> CASE r \in {r1, r3} -> bob [] r = r2 -> root [] OTHER -> ann]
=============================================================================
