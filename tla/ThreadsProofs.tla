--------------------------- MODULE ThreadsProofs ---------------------------
(***************************************************************************)
(* Proofs about Threads, for every set of posts, comments and requests.    *)
(*                                                                         *)
(* Row locks carry the argument: a request that is about to commit holds   *)
(* the row of its post, so nothing else changes that row or adds a comment *)
(* to the post until it has.                                               *)
(***************************************************************************)
EXTENDS Threads, FiniteSetTheorems, TLAPS

\* What the label l of a request r says of its kind and of its locals q.
Labelled(r, l, q) ==
    /\ l \notin {"new", "done"} => q.post \in Posts
    /\ l \in {"edit", "scan"} => q.cmt \in Comments
    /\ l \in {"bump", "insert"} => Kind[r] = "createComment"
    /\ l = "edit" => Kind[r] = "editComment"
    /\ l \in {"scan", "count"} => Kind[r] = "deleteComment"
    /\ l = "status" => Kind[r] \in {"publish", "unpublish"}
    /\ l \in {"mark", "sweep"} => Kind[r] = "deletePost"
    /\ l = "rows" => Kind[r] \in {"deleteComment", "deletePost"}
    /\ l = "commit" => Kind[r] \in {"createComment", "deleteComment", "deletePost"}
    /\ l \in {"bump", "insert", "commit"} /\ Kind[r] = "createComment" =>
         q.cmt = NewId[r]
    /\ l \notin {"new", "done"} /\ Kind[r] \in {"publish", "unpublish", "deletePost"} =>
         CanModify(Actor[r], PostAuthor[q.post])

\* The labels at which a request has locked the row of its post.
HoldsPost(r, l) ==
    \/ l \in {"insert", "sweep", "commit"}
    \/ l = "rows" /\ Kind[r] = "deletePost"

\* The row of the post is in the rows h then, the post is live for the kinds
\* whose UPDATE asked for it, and a deletion of the post has in hand
\* every comment still live on it.
Secured(r, l, q, h) ==
    /\ HoldsPost(r, l) => q.post \in h
    /\ HoldsPost(r, l) /\ Kind[r] # "deleteComment" => post[q.post].live
    /\ l \in {"rows", "commit"} /\ Kind[r] = "deletePost" =>
         LiveOn(q.post) \subseteq q.todo \cup q.hit
    /\ l = "commit" /\ Kind[r] = "deletePost" => q.todo = {}

LabelInv == \A r \in Requests : Labelled(r, pc[r], req[r])
SecuredInv == \A r \in Requests : Secured(r, pc[r], req[r], held[r])
OnPost == \A c \in Live : comment[c].post \in Posts

Inv == /\ TypeOK /\ OneHolder /\ OnPost /\ LabelInv /\ SecuredInv
       /\ NoLiveCommentOnDeletedPost

-----------------------------------------------------------------------------
(* What the two ways of going on do to the request and to the others.      *)

Others(r) == \A o \in Requests \ {r} :
    /\ pc'[o] = pc[o] /\ req'[o] = req[o] /\ held'[o] = held[o]
    /\ answer'[o] = answer[o]

\* Advance moves only r, to the label, locals and rows it names.
LEMMA AdvanceFrame ==
    ASSUME TypeOK, NEW r \in Requests, NEW l \in Labels, NEW q \in Request,
           NEW rows \in SUBSET (Posts \cup Comments), Advance(r, l, q, rows)
    PROVE  /\ pc' \in [Requests -> Labels] /\ req' \in [Requests -> Request]
           /\ held' \in [Requests -> SUBSET (Posts \cup Comments)]
           /\ want' \in [Requests -> Posts \cup Comments \cup {NoRow}]
           /\ answer' = answer
           /\ pc'[r] = l /\ req'[r] = q /\ held'[r] = held[r] \cup rows
           /\ Others(r)
  BY DEF TypeOK, Advance, Locks, Others

\* Finish moves only r, which then holds nothing.
LEMMA FinishFrame ==
    ASSUME TypeOK, NEW r \in Requests, NEW a \in Answers, Finish(r, a)
    PROVE  /\ pc' \in [Requests -> Labels] /\ req' \in [Requests -> Request]
           /\ held' \in [Requests -> SUBSET (Posts \cup Comments)]
           /\ want' \in [Requests -> Posts \cup Comments \cup {NoRow}]
           /\ answer' \in [Requests -> Answers]
           /\ pc'[r] = "done" /\ held'[r] = {} /\ answer'[r] = a
           /\ req'[r].post = req[r].post /\ req'[r].todo = {} /\ req'[r].hit = {}
           /\ Others(r)
  <1>1. /\ pc' \in [Requests -> Labels] /\ pc'[r] = "done"
        /\ \A o \in Requests \ {r} : pc'[o] = pc[o]
    BY DEF TypeOK, Finish, Labels
  <1>2. /\ held' \in [Requests -> SUBSET (Posts \cup Comments)] /\ held'[r] = {}
        /\ \A o \in Requests \ {r} : held'[o] = held[o]
        /\ want' \in [Requests -> Posts \cup Comments \cup {NoRow}]
    BY DEF TypeOK, Finish, Unlocks
  <1>3. /\ req' \in [Requests -> Request]
        /\ \A o \in Requests \ {r} : req'[o] = req[o]
    <2>1. req[r] \in Request
      BY DEF TypeOK
    <2>2. [req[r] EXCEPT !.todo = {}, !.hit = {}] \in Request
      BY <2>1 DEF Request
    <2> QED BY <2>2 DEF TypeOK, Finish
  <1>4. req'[r].post = req[r].post /\ req'[r].todo = {} /\ req'[r].hit = {}
    BY DEF TypeOK, Request, Finish
  <1>5. /\ answer' \in [Requests -> Answers] /\ answer'[r] = a
        /\ \A o \in Requests \ {r} : answer'[o] = answer[o]
    BY DEF TypeOK, Finish
  <1> QED BY <1>1, <1>2, <1>3, <1>4, <1>5 DEF Others

-----------------------------------------------------------------------------
(* Steps that change no committed row.                                     *)

\* A step to the next statement keeps the invariant when the rows it locks are
\* free and its new label is justified.
LEMMA AdvanceStep ==
    ASSUME Inv, NEW r \in Requests, NEW l \in Labels, NEW q \in Request,
           NEW rows \in SUBSET (Posts \cup Comments), Advance(r, l, q, rows),
           UNCHANGED <<post, comment>>,
           \A x \in rows : \A o \in Requests : x \notin held[o],
           Labelled(r, l, q), Secured(r, l, q, held[r] \cup rows)
    PROVE  Inv'
  <1> USE DEF Inv
  <1>0. /\ pc' \in [Requests -> Labels] /\ req' \in [Requests -> Request]
        /\ held' \in [Requests -> SUBSET (Posts \cup Comments)]
        /\ want' \in [Requests -> Posts \cup Comments \cup {NoRow}]
        /\ answer' = answer
        /\ pc'[r] = l /\ req'[r] = q /\ held'[r] = held[r] \cup rows
        /\ Others(r)
    BY AdvanceFrame
  <1>1. TypeOK'
    BY <1>0 DEF TypeOK
  <1>2. OneHolder'
    BY <1>0 DEF OneHolder, Others
  <1>3. OnPost' /\ NoLiveCommentOnDeletedPost'
    BY DEF OnPost, NoLiveCommentOnDeletedPost, Live
  <1>4. LabelInv'
    BY <1>0 DEF LabelInv, Others, Labelled
  <1>5. SecuredInv'
    BY <1>0 DEF SecuredInv, Others, Secured, HoldsPost, LiveOn, Live
  <1> QED BY <1>1, <1>2, <1>3, <1>4, <1>5

\* Rolling back keeps the invariant.
LEMMA RejectStep ==
    ASSUME Inv, NEW r \in Requests, NEW a \in Answers, Reject(r, a)
    PROVE  Inv'
  <1> USE DEF Inv
  <1>u. UNCHANGED <<post, comment>>
    BY DEF Reject
  <1>0. /\ pc' \in [Requests -> Labels] /\ req' \in [Requests -> Request]
        /\ held' \in [Requests -> SUBSET (Posts \cup Comments)]
        /\ want' \in [Requests -> Posts \cup Comments \cup {NoRow}]
        /\ answer' \in [Requests -> Answers]
        /\ pc'[r] = "done" /\ held'[r] = {}
        /\ Others(r)
    BY FinishFrame DEF Reject
  <1>1. TypeOK'
    BY <1>0, <1>u DEF TypeOK
  <1>2. OneHolder'
    BY <1>0 DEF OneHolder, Others
  <1>3. OnPost' /\ NoLiveCommentOnDeletedPost'
    BY <1>u DEF OnPost, NoLiveCommentOnDeletedPost, Live
  <1>4. LabelInv'
    BY <1>0 DEF LabelInv, Others, Labelled
  <1>5. SecuredInv'
    BY <1>0, <1>u DEF SecuredInv, Others, Secured, HoldsPost, LiveOn, Live
  <1> QED BY <1>1, <1>2, <1>3, <1>4, <1>5

-----------------------------------------------------------------------------
(* One lemma per action.                                                   *)

\* Waiting changes nothing but want.
LEMMA BlockStep ==
    ASSUME Inv, NEW r \in Requests, Block(r)
    PROVE  Inv'
  <1> USE DEF Inv
  <1>1. Wanted(r) \subseteq Posts \cup Comments
    BY DEF LabelInv, Labelled, Wanted, TypeOK, Request
  <1>2. /\ UNCHANGED <<post, comment, pc, req, held, answer>>
        /\ want' \in [Requests -> Posts \cup Comments \cup {NoRow}]
    BY <1>1 DEF Block, Waits, TypeOK
  <1>3. TypeOK'
    BY <1>2 DEF TypeOK
  <1>4. OneHolder' /\ OnPost' /\ LabelInv' /\ NoLiveCommentOnDeletedPost'
    BY <1>2 DEF OneHolder, OnPost, LabelInv, NoLiveCommentOnDeletedPost, Live
  <1>5. SecuredInv'
    BY <1>2 DEF SecuredInv, Secured, LiveOn, Live
  <1> QED BY <1>3, <1>4, <1>5

\* The locals a request starts with are well typed.
LEMMA TargetType ==
    ASSUME NEW p \in Posts \cup {NoRow}, NEW c \in Comments \cup {NoRow}
    PROVE  /\ Target(p, c) \in Request
           /\ Target(p, c).post = p /\ Target(p, c).cmt = c
  BY DEF Target, NoRequest, Request

\* The visibility check sets the target and holds nothing yet.
LEMMA CheckPostStep ==
    ASSUME Inv, NEW r \in Requests, CheckPost(r)
    PROVE  Inv'
  <1>1. PICK p \in Posts, par \in (Comments \ {NewId[r]}) \cup {NoRow} :
          \/ /\ Advance(r, "bump", [Target(p, NewId[r]) EXCEPT !.parent = par], {})
             /\ UNCHANGED <<post, comment>>
          \/ Reject(r, "404")
    BY DEF CheckPost
  <1>2. Kind[r] = "createComment" /\ NewId[r] \in Comments
    BY RequestsAssumption DEF CheckPost, Creators
  <1> DEFINE q == [Target(p, NewId[r]) EXCEPT !.parent = par]
  <1>3. q \in Request /\ q.post = p /\ q.cmt = NewId[r]
    BY <1>2, TargetType DEF Request
  <1>4. CASE Advance(r, "bump", q, {}) /\ UNCHANGED <<post, comment>>
    <2>1. Labelled(r, "bump", q)
      BY <1>2, <1>3 DEF Labelled
    <2>2. Secured(r, "bump", q, held[r] \cup {})
      BY DEF Secured, HoldsPost
    <2>3. "bump" \in Labels
      BY DEF Labels
    <2> HIDE DEF q
    <2> QED BY <1>3, <1>4, <2>1, <2>2, <2>3, AdvanceStep
  <1>5. CASE Reject(r, "404")
    BY <1>5, RejectStep DEF Answers
  <1> QED BY <1>1, <1>4, <1>5

\* The counter UPDATE takes the row of a live post.
LEMMA BumpCountStep ==
    ASSUME Inv, NEW r \in Requests, BumpCount(r)
    PROVE  Inv'
  <1> DEFINE p == req[r].post
  <1>1. /\ pc[r] = "bump" /\ Kind[r] = "createComment" /\ req[r].cmt = NewId[r]
        /\ p \in Posts /\ req[r] \in Request
        /\ \A o \in Requests : p \notin held[o]
    BY DEF BumpCount, Inv, LabelInv, Labelled, TypeOK, Granted, Grants
  <1>2. CASE post[p].live /\ Advance(r, "insert", req[r], {p}) /\ UNCHANGED <<post, comment>>
    <2>1. Labelled(r, "insert", req[r])
      BY <1>1 DEF Labelled
    <2>2. Secured(r, "insert", req[r], held[r] \cup {p})
      BY <1>1, <1>2 DEF Secured, HoldsPost
    <2>3. "insert" \in Labels /\ {p} \in SUBSET (Posts \cup Comments)
      BY <1>1 DEF Labels
    <2> QED BY <1>1, <1>2, <2>1, <2>2, <2>3, AdvanceStep
  <1>3. CASE Reject(r, "404")
    BY <1>3, RejectStep DEF Answers
  <1> QED BY <1>2, <1>3 DEF BumpCount

\* The INSERT keeps the row of the post locked.
LEMMA InsertCommentStep ==
    ASSUME Inv, NEW r \in Requests, InsertComment(r)
    PROVE  Inv'
  <1>1. /\ pc[r] = "insert" /\ req[r] \in Request
        /\ Labelled(r, "insert", req[r]) /\ Secured(r, "insert", req[r], held[r])
    BY DEF InsertComment, Inv, LabelInv, SecuredInv, TypeOK
  <1>2. CASE Advance(r, "commit", req[r], {}) /\ UNCHANGED <<post, comment>>
    <2>1. Labelled(r, "commit", req[r])
      BY <1>1 DEF Labelled
    <2>2. Secured(r, "commit", req[r], held[r] \cup {})
      BY <1>1 DEF Secured, HoldsPost, Labelled
    <2>3. "commit" \in Labels
      BY DEF Labels
    <2> QED BY <1>1, <1>2, <2>1, <2>2, <2>3, AdvanceStep
  <1>3. CASE Reject(r, "422")
    BY <1>3, RejectStep DEF Answers
  <1> QED BY <1>2, <1>3 DEF InsertComment

\* CheckEdit and CheckDelete.
LEMMA CheckCommentStep ==
    ASSUME Inv, NEW r \in Requests, NEW kind, NEW label,
           <<kind, label>> \in {<<"editComment", "edit">>, <<"deleteComment", "scan">>},
           CheckComment(r, kind, label)
    PROVE  Inv'
  <1>1. PICK c \in Comments :
          \/ Reject(r, "404")
          \/ Reject(r, "403")
          \/ /\ c \in Live
             /\ Advance(r, label, Target(comment[c].post, c), {})
             /\ UNCHANGED <<post, comment>>
    BY DEF CheckComment
  <1>2. CASE Reject(r, "404") \/ Reject(r, "403")
    BY <1>2, RejectStep DEF Answers
  <1>3. CASE /\ c \in Live /\ Advance(r, label, Target(comment[c].post, c), {})
             /\ UNCHANGED <<post, comment>>
    <2> DEFINE q == Target(comment[c].post, c)
    <2>1. comment[c].post \in Posts
      BY <1>3 DEF Inv, OnPost
    <2>2. q \in Request /\ q.post \in Posts /\ q.cmt = c
      BY <2>1, TargetType
    <2>3. Labelled(r, label, q) /\ label \in Labels
      BY <2>2 DEF CheckComment, Labelled, Labels
    <2>4. Secured(r, label, q, held[r] \cup {})
      BY DEF Secured, HoldsPost
    <2>5. Advance(r, label, q, {}) /\ UNCHANGED <<post, comment>>
      BY <1>3
    <2> HIDE DEF q
    <2> QED BY <2>2, <2>3, <2>4, <2>5, AdvanceStep
  <1> QED BY <1>1, <1>2, <1>3

\* CheckStatus and CheckDeletePost.
LEMMA CheckOwnerStep ==
    ASSUME Inv, NEW r \in Requests, CheckStatus(r) \/ CheckDeletePost(r)
    PROVE  Inv'
  <1>1. PICK p \in Posts, label \in {"status", "mark"} :
          /\ label = "status" => Kind[r] \in {"publish", "unpublish"}
          /\ label = "mark" => Kind[r] = "deletePost"
          /\ \/ Reject(r, "403") \/ Reject(r, "404")
             \/ /\ CanModify(Actor[r], PostAuthor[p])
                /\ Advance(r, label, [Target(p, NoRow) EXCEPT !.seen = post[p].status], {})
                /\ UNCHANGED <<post, comment>>
    <2>1. ASSUME NEW kinds, NEW label, CheckOwner(r, kinds, label)
          PROVE  /\ Kind[r] \in kinds
                 /\ \E p \in Posts :
                      \/ Reject(r, "403") \/ Reject(r, "404")
                      \/ /\ CanModify(Actor[r], PostAuthor[p])
                         /\ Advance(r, label, [Target(p, NoRow) EXCEPT !.seen = post[p].status], {})
                         /\ UNCHANGED <<post, comment>>
      BY <2>1 DEF CheckOwner
    <2>2. CASE CheckStatus(r)
      BY <2>1, <2>2 DEF CheckStatus
    <2>3. CASE CheckDeletePost(r)
      BY <2>1, <2>3 DEF CheckDeletePost
    <2> QED BY <2>2, <2>3
  <1>2. CASE Reject(r, "404") \/ Reject(r, "403")
    BY <1>2, RejectStep DEF Answers
  <1>3. CASE /\ CanModify(Actor[r], PostAuthor[p])
             /\ Advance(r, label, [Target(p, NoRow) EXCEPT !.seen = post[p].status], {})
             /\ UNCHANGED <<post, comment>>
    <2> DEFINE q == [Target(p, NoRow) EXCEPT !.seen = post[p].status]
    <2>1. post[p].status \in Statuses
      BY DEF Inv, TypeOK, PostRow
    <2>2. q \in Request /\ q.post = p
      BY <2>1, TargetType DEF Request
    <2>3. Labelled(r, label, q) /\ label \in Labels
      BY <1>1, <1>3, <2>2 DEF Labelled, Labels
    <2>4. Secured(r, label, q, held[r] \cup {})
      BY DEF Secured, HoldsPost
    <2>5. Advance(r, label, q, {}) /\ UNCHANGED <<post, comment>>
      BY <1>3
    <2> HIDE DEF q
    <2> QED BY <2>2, <2>3, <2>4, <2>5, AdvanceStep
  <1> QED BY <1>1, <1>2, <1>3

\* Collecting a thread locks nothing.
LEMMA ScanThreadStep ==
    ASSUME Inv, NEW r \in Requests, ScanThread(r)
    PROVE  Inv'
  <1> DEFINE q == [req[r] EXCEPT !.todo = Thread(req[r].cmt)]
  <1>1. /\ pc[r] = "scan" /\ req[r] \in Request /\ req[r].post \in Posts
        /\ Kind[r] = "deleteComment"
    BY DEF ScanThread, Inv, LabelInv, Labelled, TypeOK
  <1>2. q \in Request /\ q.post = req[r].post
    BY <1>1 DEF Request, Thread, Live
  <1>3. CASE Advance(r, "rows", q, {}) /\ UNCHANGED <<post, comment>>
    <2>1. Labelled(r, "rows", q)
      BY <1>1, <1>2 DEF Labelled
    <2>2. Secured(r, "rows", q, held[r] \cup {})
      BY <1>1 DEF Secured, HoldsPost
    <2>3. "rows" \in Labels
      BY DEF Labels
    <2> HIDE DEF q
    <2> QED BY <1>2, <1>3, <2>1, <2>2, <2>3, AdvanceStep
  <1>4. CASE Reject(r, "404")
    BY <1>4, RejectStep DEF Answers
  <1> QED BY <1>3, <1>4 DEF ScanThread

\* A row that is locked leaves todo for hit, or was found deleted: the live
\* comments of a post being deleted stay in hand.
LEMMA LockRowStep ==
    ASSUME Inv, NEW r \in Requests, LockRow(r)
    PROVE  Inv'
  <1>1. PICK c \in req[r].todo :
          LET q == [req[r] EXCEPT !.todo = @ \ {c},
                                  !.hit = IF Matches(r, c) THEN @ \cup {c} ELSE @] IN
          /\ Granted(r, c)
          /\ Advance(r, IF q.todo = {} THEN AfterRows(r) ELSE "rows", q, {c})
    BY DEF LockRow
  <1> DEFINE q == [req[r] EXCEPT !.todo = @ \ {c},
                                 !.hit = IF Matches(r, c) THEN @ \cup {c} ELSE @]
             l == IF q.todo = {} THEN AfterRows(r) ELSE "rows"
  <1>2. /\ pc[r] = "rows" /\ req[r] \in Request /\ req[r].post \in Posts
        /\ Kind[r] \in {"deleteComment", "deletePost"}
        /\ Labelled(r, "rows", req[r]) /\ Secured(r, "rows", req[r], held[r])
        /\ UNCHANGED <<post, comment>>
    BY DEF LockRow, Inv, LabelInv, SecuredInv, Labelled, TypeOK
  <1>3. c \in Comments /\ \A o \in Requests : c \notin held[o]
    BY <1>1, <1>2 DEF Request, Granted, Grants
  <1>4. /\ q \in Request /\ q.post = req[r].post /\ q.todo = req[r].todo \ {c}
        /\ q.hit = IF Matches(r, c) THEN req[r].hit \cup {c} ELSE req[r].hit
    BY <1>2, <1>3 DEF Request
  <1>5. Advance(r, l, q, {c})
    BY <1>1
  <1> HIDE DEF q
  <1>6. l \in Labels /\ l \in {"rows", "count", "commit"}
    BY <1>2 DEF AfterRows, Labels
  <1>7. Labelled(r, l, q)
    BY <1>2, <1>4 DEF Labelled, AfterRows
  <1>8. Secured(r, l, q, held[r] \cup {c})
    BY <1>2, <1>4 DEF Secured, HoldsPost, AfterRows, Matches, LiveOn
  <1> HIDE DEF l
  <1> QED BY <1>2, <1>3, <1>4, <1>5, <1>6, <1>7, <1>8, AdvanceStep

\* The counter UPDATE of a deletion takes the row of the post.
LEMMA DecrementStep ==
    ASSUME Inv, NEW r \in Requests, Decrement(r)
    PROVE  Inv'
  <1> DEFINE p == req[r].post
  <1>1. /\ pc[r] = "count" /\ Kind[r] = "deleteComment"
        /\ p \in Posts /\ req[r] \in Request
        /\ \A o \in Requests : p \notin held[o]
    BY DEF Decrement, Inv, LabelInv, Labelled, TypeOK, Granted, Grants
  <1>2. CASE Advance(r, "commit", req[r], {p}) /\ UNCHANGED <<post, comment>>
    <2>1. Labelled(r, "commit", req[r])
      BY <1>1 DEF Labelled
    <2>2. Secured(r, "commit", req[r], held[r] \cup {p})
      BY <1>1 DEF Secured, HoldsPost
    <2>3. "commit" \in Labels /\ {p} \in SUBSET (Posts \cup Comments)
      BY <1>1 DEF Labels
    <2> QED BY <1>1, <1>2, <2>1, <2>2, <2>3, AdvanceStep
  <1>3. CASE Reject(r, "500")
    BY <1>3, RejectStep DEF Answers
  <1> QED BY <1>2, <1>3 DEF Decrement

\* Marking the post takes its row: from here on no comment can be added to it.
LEMMA MarkDeletedStep ==
    ASSUME Inv, NEW r \in Requests, MarkDeleted(r)
    PROVE  Inv'
  <1> DEFINE p == req[r].post
  <1>1. /\ pc[r] = "mark" /\ Kind[r] = "deletePost"
        /\ p \in Posts /\ req[r] \in Request /\ CanModify(Actor[r], PostAuthor[p])
        /\ \A o \in Requests : p \notin held[o]
    BY DEF MarkDeleted, Inv, LabelInv, Labelled, TypeOK, Granted, Grants
  <1>2. CASE post[p].live /\ Advance(r, "sweep", req[r], {p}) /\ UNCHANGED <<post, comment>>
    <2>1. Labelled(r, "sweep", req[r])
      BY <1>1 DEF Labelled
    <2>2. Secured(r, "sweep", req[r], held[r] \cup {p})
      BY <1>1, <1>2 DEF Secured, HoldsPost
    <2>3. "sweep" \in Labels /\ {p} \in SUBSET (Posts \cup Comments)
      BY <1>1 DEF Labels
    <2> QED BY <1>1, <1>2, <2>1, <2>2, <2>3, AdvanceStep
  <1>3. CASE Reject(r, "404")
    BY <1>3, RejectStep DEF Answers
  <1> QED BY <1>2, <1>3 DEF MarkDeleted

\* The snapshot of the second statement holds every live comment of the post.
LEMMA SweepCommentsStep ==
    ASSUME Inv, NEW r \in Requests, SweepComments(r)
    PROVE  Inv'
  <1> DEFINE rows == LiveOn(req[r].post)
             q == [req[r] EXCEPT !.todo = rows]
             l == IF rows = {} THEN "commit" ELSE "rows"
  <1>1. /\ pc[r] = "sweep" /\ req[r] \in Request /\ req[r].post \in Posts
        /\ Kind[r] = "deletePost" /\ req[r].post \in held[r]
        /\ post[req[r].post].live /\ CanModify(Actor[r], PostAuthor[req[r].post])
        /\ Advance(r, l, q, {}) /\ UNCHANGED <<post, comment>>
    BY DEF SweepComments, Inv, LabelInv, SecuredInv, Labelled, Secured, HoldsPost, TypeOK
  <1>2. q \in Request /\ q.post = req[r].post /\ q.todo = rows
    BY <1>1 DEF Request, LiveOn, Live
  <1> HIDE DEF q
  <1>3. Labelled(r, l, q)
    BY <1>1, <1>2 DEF Labelled
  <1>4. Secured(r, l, q, held[r] \cup {})
    BY <1>1, <1>2 DEF Secured, HoldsPost
  <1>5. l \in Labels
    BY DEF Labels
  <1> HIDE DEF l
  <1> QED BY <1>1, <1>2, <1>3, <1>4, <1>5, AdvanceStep

-----------------------------------------------------------------------------
(* Steps that change committed rows.                                       *)

\* A statement or transaction that ends keeps the invariant when it makes no
\* comment live and leaves every post as live as it was.
LEMMA HarmlessEnd ==
    ASSUME Inv, NEW r \in Requests, NEW a \in Answers, Finish(r, a),
           post' \in [Posts -> PostRow], comment' \in [Comments -> CommentRow],
           \A p \in Posts : post'[p].live = post[p].live,
           \A c \in Comments : comment'[c].state = "live" =>
               comment[c].state = "live" /\ comment'[c].post = comment[c].post
    PROVE  Inv'
  <1> USE DEF Inv
  <1>0. /\ pc' \in [Requests -> Labels] /\ req' \in [Requests -> Request]
        /\ held' \in [Requests -> SUBSET (Posts \cup Comments)]
        /\ want' \in [Requests -> Posts \cup Comments \cup {NoRow}]
        /\ answer' \in [Requests -> Answers]
        /\ pc'[r] = "done" /\ held'[r] = {}
        /\ Others(r)
    BY FinishFrame
  <1>1. TypeOK'
    BY <1>0 DEF TypeOK
  <1>2. OneHolder'
    BY <1>0 DEF OneHolder, Others
  <1>3. OnPost'
    BY DEF OnPost, Live
  <1>4. NoLiveCommentOnDeletedPost'
    BY DEF OnPost, NoLiveCommentOnDeletedPost, Live
  <1>5. LabelInv'
    BY <1>0 DEF LabelInv, Others, Labelled
  <1>6. ASSUME NEW o \in Requests PROVE Secured(o, pc[o], req[o], held[o])'
    <2>1. CASE o = r
      BY <1>0, <2>1 DEF Secured, HoldsPost
    <2>2. CASE o # r
      <3>1. /\ pc'[o] = pc[o] /\ req'[o] = req[o] /\ held'[o] = held[o]
            /\ Secured(o, pc[o], req[o], held[o]) /\ Labelled(o, pc[o], req[o])
        BY <1>0, <2>2 DEF Others, SecuredInv, LabelInv
      <3>2. HoldsPost(o, pc[o]) => req[o].post \in Posts
        BY <3>1 DEF HoldsPost, Labelled
      <3>3. \A p \in Posts : LiveOn(p)' \subseteq LiveOn(p)
        BY DEF LiveOn, Live
      <3>4. pc[o] \in {"rows", "commit"} => req[o].post \in Posts
        BY <3>1 DEF Labelled
      <3> QED BY <3>1, <3>2, <3>3, <3>4 DEF Secured, HoldsPost
    <2> QED BY <2>1, <2>2
  <1> QED BY <1>1, <1>2, <1>3, <1>4, <1>5, <1>6 DEF SecuredInv

\* An edit changes no state of a row.
LEMMA EditCommentStep ==
    ASSUME Inv, NEW r \in Requests, EditComment(r)
    PROVE  Inv'
  <1>1. CASE Reject(r, "404")
    BY <1>1, RejectStep DEF Answers
  <1>2. CASE /\ comment' = [comment EXCEPT ![req[r].cmt].edited = TRUE]
             /\ \E a \in {"ok", "500"} : Finish(r, a)
             /\ UNCHANGED post
    <2>1. PICK a \in Answers : Finish(r, a)
      BY <1>2 DEF Answers
    <2>2. /\ comment \in [Comments -> CommentRow] /\ post' \in [Posts -> PostRow]
          /\ \A p \in Posts : post'[p].live = post[p].live
      BY <1>2 DEF Inv, TypeOK
    <2>3. /\ comment' \in [Comments -> CommentRow]
          /\ \A c \in Comments : comment'[c].state = "live" =>
               comment[c].state = "live" /\ comment'[c].post = comment[c].post
      BY <1>2, <2>2 DEF CommentRow
    <2> QED BY <2>1, <2>2, <2>3, HarmlessEnd
  <1> QED BY <1>1, <1>2 DEF EditComment

\* A change of status keeps the post as live as it was.
LEMMA SetStatusStep ==
    ASSUME Inv, NEW r \in Requests, SetStatus(r)
    PROVE  Inv'
  <1> DEFINE p == req[r].post
             status == IF Kind[r] = "publish" THEN "published" ELSE "draft"
             stamped == /\ Kind[r] = "publish"
                        /\ req[r].seen # "published" \/ post[p].stamped
  <1>1. CASE Reject(r, "404") \/ Reject(r, "500")
    BY <1>1, RejectStep DEF Answers
  <1>2. CASE /\ post' = [post EXCEPT ![p].status = status, ![p].stamped = stamped]
             /\ \E a \in {"ok", "500"} : Finish(r, a)
             /\ UNCHANGED comment
    <2>1. PICK a \in Answers : Finish(r, a)
      BY <1>2 DEF Answers
    <2>2. /\ post \in [Posts -> PostRow] /\ comment \in [Comments -> CommentRow]
          /\ p \in Posts /\ req[r] \in Request
      BY DEF SetStatus, Inv, TypeOK, LabelInv, Labelled
    <2>3. stamped \in BOOLEAN /\ status \in Statuses
      <3>1. post[p].stamped \in BOOLEAN
        BY <2>2 DEF PostRow
      <3> QED BY <3>1 DEF Statuses
    <2> HIDE DEF status, stamped
    <2> DEFINE row == [post[p] EXCEPT !.status = status, !.stamped = stamped]
    <2>4. row \in PostRow /\ row.live = post[p].live
      BY <2>2, <2>3 DEF PostRow
    <2>5. post' = [post EXCEPT ![p] = row]
      BY <1>2, <2>2
    <2> HIDE DEF row
    <2>6. /\ comment' \in [Comments -> CommentRow] /\ post' \in [Posts -> PostRow]
          /\ \A x \in Posts : post'[x].live = post[x].live
          /\ \A c \in Comments : comment'[c].state = "live" =>
               comment[c].state = "live" /\ comment'[c].post = comment[c].post
      BY <1>2, <2>2, <2>4, <2>5
    <2> QED BY <2>1, <2>6, HarmlessEnd
  <1> QED BY <1>1, <1>2 DEF SetStatus

\* A soft delete makes no comment live and moves none to another post.
LEMMA SoftDeleteRows ==
    ASSUME comment \in [Comments -> CommentRow], NEW rows \in SUBSET Comments,
           SoftDelete(rows)
    PROVE  /\ comment' \in [Comments -> CommentRow]
           /\ \A c \in Comments : comment'[c].state = "live" =>
                /\ comment[c].state = "live" /\ c \notin rows
                /\ comment'[c].post = comment[c].post
  BY DEF SoftDelete, CommentRow

\* The number of rows a statement updated is a number.
LEMMA HitCount ==
    ASSUME TypeOK, NEW r \in Requests
    PROVE  Cardinality(req[r].hit) \in Nat /\ req[r].hit \subseteq Comments
  <1>1. req[r].hit \subseteq Comments
    BY DEF TypeOK, Request
  <1>2. IsFiniteSet(req[r].hit)
    BY <1>1, KeysAssumption, FS_Subset
  <1> QED BY <1>1, <1>2, FS_CardinalityType

\* A deleted thread leaves fewer live comments and the same posts.
LEMMA CommitDeleteCommentStep ==
    ASSUME Inv, NEW r \in Requests, CommitDeleteComment(r),
           NEW a \in Answers, Finish(r, a)
    PROVE  Inv'
  <1> DEFINE p == req[r].post
             n == Cardinality(req[r].hit)
  <1>1. /\ post \in [Posts -> PostRow] /\ comment \in [Comments -> CommentRow]
        /\ p \in Posts
    BY DEF CommitDeleteComment, Inv, TypeOK, LabelInv, Labelled
  <1>2. n \in Nat /\ req[r].hit \subseteq Comments
    BY HitCount DEF Inv
  <1>3. post' = [post EXCEPT ![p].count = @ - n]
    BY DEF CommitDeleteComment
  <1> HIDE DEF n
  <1>4. post' \in [Posts -> PostRow] /\ \A x \in Posts : post'[x].live = post[x].live
    <2> DEFINE row == [post[p] EXCEPT !.count = @ - n]
    <2>1. row \in PostRow /\ row.live = post[p].live
      BY <1>1, <1>2 DEF PostRow
    <2>2. post' = [post EXCEPT ![p] = row]
      BY <1>3
    <2> HIDE DEF row
    <2> QED BY <1>1, <2>1, <2>2
  <1>5. SoftDelete(req[r].hit)
    BY DEF CommitDeleteComment
  <1> QED BY <1>1, <1>2, <1>4, <1>5, SoftDeleteRows, HarmlessEnd

\* The other requests that hold the row of their post hold another one.
LEMMA OtherPosts ==
    ASSUME Inv, NEW r \in Requests, NEW o \in Requests, o # r,
           HoldsPost(r, pc[r]), HoldsPost(o, pc[o])
    PROVE  req[o].post # req[r].post
  BY DEF Inv, OneHolder, SecuredInv, Secured

\* Committing a new comment: its post is live and locked, so no deletion of the
\* post is past its first statement.
LEMMA CommitCreateStep ==
    ASSUME Inv, NEW r \in Requests, CommitCreate(r),
           NEW a \in Answers, Finish(r, a)
    PROVE  Inv'
  <1> USE DEF Inv
  <1> DEFINE p == req[r].post
             n == req[r].cmt
             new == [state |-> "live", post |-> p, parent |-> req[r].parent,
                     author |-> Actor[r], edited |-> FALSE]
             row == [post[p] EXCEPT !.count = @ + 1]
  <1>1. /\ pc[r] = "commit" /\ Kind[r] = "createComment"
        /\ Labelled(r, "commit", req[r]) /\ Secured(r, "commit", req[r], held[r])
        /\ req[r] \in Request /\ p \in Posts /\ post[p].live
    BY DEF CommitCreate, LabelInv, SecuredInv, TypeOK, Labelled, Secured, HoldsPost
  <1>2. /\ new \in CommentRow /\ n \in Comments /\ row \in PostRow
        /\ row.live = post[p].live
    <2>1. Actor[r] \in Users /\ n = NewId[r] /\ NewId[r] \in Comments
      BY <1>1, RequestsAssumption DEF Labelled, Creators
    <2>2. post[p] \in PostRow
      BY <1>1 DEF TypeOK
    <2>3. row \in PostRow /\ row.live = post[p].live
      BY <2>2 DEF PostRow
    <2>4. new \in CommentRow
      BY <1>1, <2>1 DEF Request, CommentRow
    <2> QED BY <2>1, <2>3, <2>4
  <1>3. comment' = [comment EXCEPT ![n] = new] /\ post' = [post EXCEPT ![p] = row]
    BY <1>1 DEF CommitCreate
  <1>n. new.state = "live" /\ new.post = p
    OBVIOUS
  <1> HIDE DEF new, row
  <1>4. /\ post' \in [Posts -> PostRow] /\ comment' \in [Comments -> CommentRow]
        /\ \A x \in Posts : post'[x].live = post[x].live
        /\ \A c \in Comments \ {n} : comment'[c] = comment[c]
        /\ comment'[n] = new
    BY <1>1, <1>2, <1>3 DEF TypeOK
  <1>0. /\ pc' \in [Requests -> Labels] /\ req' \in [Requests -> Request]
        /\ held' \in [Requests -> SUBSET (Posts \cup Comments)]
        /\ want' \in [Requests -> Posts \cup Comments \cup {NoRow}]
        /\ answer' \in [Requests -> Answers]
        /\ pc'[r] = "done" /\ held'[r] = {}
        /\ Others(r)
    BY FinishFrame
  <1>5. TypeOK'
    BY <1>0, <1>4 DEF TypeOK
  <1>6. OneHolder'
    BY <1>0 DEF OneHolder, Others
  <1>7. OnPost'
    BY <1>1, <1>4, <1>n DEF OnPost, Live
  <1>8. NoLiveCommentOnDeletedPost'
    BY <1>1, <1>4, <1>n DEF OnPost, NoLiveCommentOnDeletedPost, Live
  <1>9. LabelInv'
    BY <1>0 DEF LabelInv, Others, Labelled
  <1>10. ASSUME NEW o \in Requests PROVE Secured(o, pc[o], req[o], held[o])'
    <2>1. CASE o = r
      BY <1>0, <2>1 DEF Secured, HoldsPost
    <2>2. CASE o # r
      <3>1. /\ pc'[o] = pc[o] /\ req'[o] = req[o] /\ held'[o] = held[o]
            /\ Secured(o, pc[o], req[o], held[o]) /\ Labelled(o, pc[o], req[o])
        BY <1>0, <2>2 DEF Others, SecuredInv, LabelInv
      <3>2. HoldsPost(o, pc[o]) => req[o].post \in Posts /\ req[o].post # p
        BY <1>1, <2>2, <3>1, OtherPosts DEF HoldsPost, Labelled
      <3>3. \A x \in Posts \ {p} : LiveOn(x)' \subseteq LiveOn(x)
        BY <1>4, <1>n DEF LiveOn, Live
      <3> QED BY <1>4, <3>1, <3>2, <3>3 DEF Secured, HoldsPost
    <2> QED BY <2>1, <2>2
  <1> QED BY <1>5, <1>6, <1>7, <1>8, <1>9, <1>10 DEF SecuredInv

\* Committing a deleted post: the rows it updated include every comment that is
\* still live on the post.
LEMMA CommitDeletePostStep ==
    ASSUME Inv, NEW r \in Requests, CommitDeletePost(r),
           NEW a \in Answers, Finish(r, a)
    PROVE  Inv'
  <1> USE DEF Inv
  <1> DEFINE p == req[r].post
             row == [post[p] EXCEPT !.live = FALSE]
  <1>1. /\ pc[r] = "commit" /\ Kind[r] = "deletePost" /\ p \in Posts
        /\ LiveOn(p) \subseteq req[r].hit
    BY DEF CommitDeletePost, LabelInv, SecuredInv, TypeOK, Labelled, Secured
  <1>2. /\ comment' \in [Comments -> CommentRow]
        /\ \A c \in Comments : comment'[c].state = "live" =>
              /\ comment[c].state = "live" /\ c \notin req[r].hit
              /\ comment'[c].post = comment[c].post
    BY HitCount, SoftDeleteRows DEF CommitDeletePost, TypeOK
  <1>3. row \in PostRow /\ post' = [post EXCEPT ![p] = row]
    BY <1>1 DEF CommitDeletePost, TypeOK, PostRow
  <1> HIDE DEF row
  <1>4. /\ post' \in [Posts -> PostRow]
        /\ \A x \in Posts \ {p} : post'[x] = post[x]
    BY <1>1, <1>3 DEF TypeOK
  <1>0. /\ pc' \in [Requests -> Labels] /\ req' \in [Requests -> Request]
        /\ held' \in [Requests -> SUBSET (Posts \cup Comments)]
        /\ want' \in [Requests -> Posts \cup Comments \cup {NoRow}]
        /\ answer' \in [Requests -> Answers]
        /\ pc'[r] = "done" /\ held'[r] = {}
        /\ Others(r)
    BY FinishFrame
  <1>5. TypeOK'
    BY <1>0, <1>2, <1>4 DEF TypeOK
  <1>6. OneHolder'
    BY <1>0 DEF OneHolder, Others
  <1>7. OnPost'
    BY <1>2 DEF OnPost, Live
  <1>8. NoLiveCommentOnDeletedPost'
    BY <1>1, <1>2, <1>4 DEF OnPost, NoLiveCommentOnDeletedPost, Live, LiveOn
  <1>9. LabelInv'
    BY <1>0 DEF LabelInv, Others, Labelled
  <1>10. ASSUME NEW o \in Requests PROVE Secured(o, pc[o], req[o], held[o])'
    <2>1. CASE o = r
      BY <1>0, <2>1 DEF Secured, HoldsPost
    <2>2. CASE o # r
      <3>1. /\ pc'[o] = pc[o] /\ req'[o] = req[o] /\ held'[o] = held[o]
            /\ Secured(o, pc[o], req[o], held[o]) /\ Labelled(o, pc[o], req[o])
        BY <1>0, <2>2 DEF Others, SecuredInv, LabelInv
      <3>2. HoldsPost(o, pc[o]) => req[o].post \in Posts /\ req[o].post # p
        BY <1>1, <2>2, <3>1, OtherPosts DEF HoldsPost, Labelled
      <3>3. \A x \in Posts : LiveOn(x)' \subseteq LiveOn(x)
        BY <1>2 DEF LiveOn, Live
      <3>4. pc[o] \in {"rows", "commit"} => req[o].post \in Posts
        BY <3>1 DEF Labelled
      <3> QED BY <1>4, <3>1, <3>2, <3>3, <3>4 DEF Secured, HoldsPost
    <2> QED BY <2>1, <2>2
  <1> QED BY <1>5, <1>6, <1>7, <1>8, <1>9, <1>10 DEF SecuredInv

-----------------------------------------------------------------------------
(* The invariant and what follows from it.                                 *)

\* At the start nothing is deleted and no request has begun.
LEMMA InvInit == Init => Inv
  <1> SUFFICES ASSUME Init PROVE Inv
    OBVIOUS
  <1> USE SeedAssumption, KeysAssumption, RequestsAssumption
  <1>1. post \in [Posts -> PostRow] /\ \A p \in Posts : post[p].live
    <2>1. ASSUME NEW p \in Posts
          PROVE  Cardinality({c \in Comments : Seed[c].state = "live" /\ Seed[c].post = p}) \in Int
      <3>1. IsFiniteSet({c \in Comments : Seed[c].state = "live" /\ Seed[c].post = p})
        BY FS_Subset
      <3> QED BY <3>1, FS_CardinalityType
    <2> QED BY <2>1 DEF Init, PostRow, Statuses
  <1>2. /\ comment \in [Comments -> CommentRow]
        /\ pc \in [Requests -> Labels] /\ held \in [Requests -> SUBSET (Posts \cup Comments)]
        /\ want \in [Requests -> Posts \cup Comments \cup {NoRow}]
        /\ answer \in [Requests -> Answers]
    BY DEF Init, Labels, Answers
  <1>3. req \in [Requests -> Request]
    BY DEF Init, NoRequest, Request
  <1>4. TypeOK
    BY <1>1, <1>2, <1>3 DEF TypeOK
  <1>5. OneHolder /\ LabelInv /\ SecuredInv
    BY DEF Init, OneHolder, LabelInv, Labelled, SecuredInv, Secured, HoldsPost
  <1>6. OnPost /\ NoLiveCommentOnDeletedPost
    BY <1>1 DEF Init, OnPost, NoLiveCommentOnDeletedPost, Live
  <1> QED BY <1>4, <1>5, <1>6 DEF Inv

\* Every action keeps the invariant.
LEMMA InvNext == Inv /\ [Next]_vars => Inv'
  <1> SUFFICES ASSUME Inv, [Next]_vars PROVE Inv'
    OBVIOUS
  <1>1. ASSUME NEW r \in Requests, Check(r) PROVE Inv'
    <2>1. CASE CheckPost(r)
      BY <2>1, CheckPostStep
    <2>2. CASE CheckEdit(r)
      BY <2>2, CheckCommentStep DEF CheckEdit
    <2>3. CASE CheckDelete(r)
      BY <2>3, CheckCommentStep DEF CheckDelete
    <2>4. CASE CheckStatus(r) \/ CheckDeletePost(r)
      BY <2>4, CheckOwnerStep
    <2> QED BY <1>1, <2>1, <2>2, <2>3, <2>4 DEF Check
  <1>2. ASSUME NEW r \in Requests, Statement(r) PROVE Inv'
    <2>1. CASE BumpCount(r)
      BY <2>1, BumpCountStep
    <2>2. CASE InsertComment(r)
      BY <2>2, InsertCommentStep
    <2>3. CASE EditComment(r)
      BY <2>3, EditCommentStep
    <2>4. CASE ScanThread(r)
      BY <2>4, ScanThreadStep
    <2>5. CASE LockRow(r)
      BY <2>5, LockRowStep
    <2>6. CASE Decrement(r)
      BY <2>6, DecrementStep
    <2>7. CASE SetStatus(r)
      BY <2>7, SetStatusStep
    <2>8. CASE MarkDeleted(r)
      BY <2>8, MarkDeletedStep
    <2>9. CASE SweepComments(r)
      BY <2>9, SweepCommentsStep
    <2>10. CASE Commit(r)
      <3>1. PICK a \in Answers : Finish(r, a)
        BY <2>10 DEF Commit, Answers
      <3> QED BY <2>10, <3>1, CommitCreateStep, CommitDeleteCommentStep,
                 CommitDeletePostStep DEF Commit
    <2> QED BY <1>2, <2>1, <2>2, <2>3, <2>4, <2>5, <2>6, <2>7, <2>8, <2>9, <2>10
            DEF Statement
  <1>3. ASSUME NEW r \in Requests, Block(r) PROVE Inv'
    BY <1>3, BlockStep
  <1>4. ASSUME NEW r \in Requests, Abort(r) \/ DeadlockAbort(r) PROVE Inv'
    BY <1>4, RejectStep DEF Abort, DeadlockAbort, Answers
  <1>5. CASE UNCHANGED vars
    <2> USE <1>5 DEF vars
    <2>1. TypeOK' /\ OneHolder' /\ OnPost' /\ NoLiveCommentOnDeletedPost'
      BY DEF Inv, TypeOK, OneHolder, OnPost, NoLiveCommentOnDeletedPost, Live
    <2>2. LabelInv' /\ SecuredInv'
      BY DEF Inv, LabelInv, SecuredInv, Secured, LiveOn, Live
    <2> QED BY <2>1, <2>2 DEF Inv
  <1> QED BY <1>1, <1>2, <1>3, <1>4, <1>5 DEF Next, Terminating

\* The inductive invariant holds in every reachable state.
THEOREM Invariance == Spec => []Inv
  BY InvInit, InvNext, PTL DEF Spec

\* Rows, locals and locks keep their types: a transaction never locks NULL and
\* never writes a row another one holds.
THEOREM TypeCorrect == Spec => []TypeOK
  <1>1. Inv => TypeOK
    BY DEF Inv
  <1> QED BY <1>1, Invariance, PTL

\* However comment creations, thread deletions, edits, status changes, post
\* deletions, rollbacks and deadlocks interleave, a deleted post has no live
\* comment: what post.Repository.Delete states of its transaction boundary.
THEOREM DeletedPostHasNoLiveComment == Spec => []NoLiveCommentOnDeletedPost
  <1>1. Inv => NoLiveCommentOnDeletedPost
    BY DEF Inv
  <1> QED BY <1>1, Invariance, PTL

\* Two transactions never hold the same row: what the row locks are for.
THEOREM RowsExclusive == Spec => []OneHolder
  <1>1. Inv => OneHolder
    BY DEF Inv
  <1> QED BY <1>1, Invariance, PTL

-----------------------------------------------------------------------------
(***************************************************************************)
(* The rows over time: deletion is final, only owners write, the counter   *)
(* of a post never exceeds its comments.                                   *)
(*                                                                         *)
(* What a request has read of a comment stays true: a row that was         *)
(* inserted never disappears and keeps its post, its parent and its        *)
(* author.                                                                 *)
(***************************************************************************)

There(c) == comment[c].state # "absent"
On(c, p) == There(c) /\ comment[c].post = p

\* What r, about to run l with the locals q, knows of the rows it has read.
Known(r, l, q) ==
    /\ l # "done" /\ Kind[r] = "createComment" => ~There(NewId[r])
    /\ \A c \in q.todo \cup q.hit : On(c, q.post)
    /\ l \in {"edit", "scan"} => On(q.cmt, q.post)
    /\ l = "edit" => CanModify(Actor[r], comment[q.cmt].author)
    /\ l = "commit" /\ Kind[r] = "createComment" /\ q.parent # NoRow => On(q.parent, q.post)

KnownInv == \A r \in Requests : Known(r, pc[r], req[r])

\* A reply is on the post of its parent; rows not inserted yet have no history.
RowInv ==
    \A c \in Comments :
        /\ There(c) \/ ~comment[c].edited
        /\ c \in Live /\ comment[c].parent # NoRow => On(comment[c].parent, comment[c].post)

\* An acknowledged deletion has deleted its post.
DeletedInv ==
    \A r \in Requests : Kind[r] = "deletePost" /\ answer[r] = "ok" =>
        pc[r] = "done" /\ req[r].post \in Posts /\ ~post[req[r].post].live

Rows == KnownInv /\ RowInv /\ DeletedInv /\ PostDeletedOnce /\ CounterNeverExceedsLive

-----------------------------------------------------------------------------
(* What a step of one request may do to the rows.                          *)

Effects(r) ==
    /\ \A c \in Comments : There(c) =>
         /\ There(c)' /\ comment'[c].post = comment[c].post
         /\ comment'[c].parent = comment[c].parent
         /\ comment'[c].author = comment[c].author
         /\ comment[c].state = "deleted" => comment'[c] = comment[c]
         /\ comment'[c].edited # comment[c].edited => CanModify(Actor[r], comment[c].author)
    /\ \A c \in Comments : ~There(c) /\ comment'[c] # comment[c] =>
         /\ Kind[r] = "createComment" /\ c = NewId[r] /\ pc'[r] = "done"
         /\ comment'[c].edited = comment[c].edited
    /\ \A p \in Posts :
         /\ ~post[p].live => [post'[p] EXCEPT !.count = post[p].count] = post[p]
         /\ post'[p].status # post[p].status \/ post'[p].live # post[p].live =>
              CanModify(Actor[r], PostAuthor[p])

LEMMA QuietEffects ==
    ASSUME TypeOK, UNCHANGED <<post, comment>>, NEW r \in Requests
    PROVE  Effects(r)
  <1>1. \A p \in Posts : [post[p] EXCEPT !.count = post[p].count] = post[p]
    BY DEF TypeOK, PostRow
  <1> QED BY <1>1 DEF Effects, There

\* What the others know stays true, and a deleted post stays deleted.
LEMMA Settle ==
    ASSUME Inv, Rows, NEW r \in Requests, Effects(r), Others(r), TypeOK',
           Known(r, pc[r], req[r])', RowInv', CounterNeverExceedsLive',
           \/ answer'[r] # "ok" \/ Kind[r] # "deletePost"
           \/ /\ pc'[r] = "done" /\ req[r].post \in Posts /\ req'[r].post = req[r].post
              /\ post[req[r].post].live /\ ~post'[req[r].post].live
    PROVE  Rows'
  <1>1. KnownInv'
    <2>1. SUFFICES ASSUME NEW o \in Requests, o # r PROVE Known(o, pc[o], req[o])'
      BY DEF KnownInv
    <2>2. /\ pc'[o] = pc[o] /\ req'[o] = req[o] /\ req[o] \in Request
          /\ Known(o, pc[o], req[o]) /\ Labelled(o, pc[o], req[o])
      BY <2>1 DEF Others, Rows, KnownInv, Inv, TypeOK, LabelInv
    <2>3. \A c \in Comments, p \in Posts \cup {NoRow} : On(c, p) => On(c, p)'
      BY DEF Effects, On, There
    <2>4. Kind[o] = "createComment" /\ pc[o] # "done" => ~There(NewId[o])'
      <3>1. SUFFICES ASSUME Kind[o] = "createComment", pc[o] # "done" PROVE ~There(NewId[o])'
        OBVIOUS
      <3>2. NewId[o] \in Comments /\ (Kind[r] = "createComment" => NewId[o] # NewId[r])
        BY <2>1, <3>1, RequestsAssumption DEF Creators
      <3>3. ~There(NewId[o])
        BY <2>2, <3>1 DEF Known
      <3> QED BY <3>2, <3>3 DEF Effects, There
    <2>5. req[o].todo \cup req[o].hit \subseteq Comments /\ req[o].post \in Posts \cup {NoRow}
          /\ req[o].parent \in Comments \cup {NoRow}
          /\ (pc[o] \in {"edit", "scan"} => req[o].cmt \in Comments)
      BY <2>2 DEF Request, Labelled
    <2>6. pc[o] = "edit" => comment'[req[o].cmt].author = comment[req[o].cmt].author
      BY <2>2, <2>5 DEF Known, On, Effects
    <2> QED BY <2>2, <2>3, <2>4, <2>5, <2>6 DEF Known
  <1>2. \A p \in Posts : ~post[p].live => ~post'[p].live
    <2>1. SUFFICES ASSUME NEW p \in Posts, ~post[p].live PROVE ~post'[p].live
      OBVIOUS
    <2>2. post[p] \in PostRow /\ post'[p] \in PostRow
      BY DEF Inv, TypeOK
    <2>3. [post'[p] EXCEPT !.count = post[p].count].live = post'[p].live
      BY <2>2 DEF PostRow
    <2> QED BY <2>1, <2>3 DEF Effects
  <1>3. DeletedInv'
    BY <1>2 DEF Others, Rows, DeletedInv
  <1>4. PostDeletedOnce'
    BY DEF Others, Rows, DeletedInv, PostDeletedOnce
  <1> QED BY <1>1, <1>3, <1>4 DEF Rows

Step(r) == Rows' /\ Effects(r) /\ Others(r)

\* A step to the next statement, which knows what it has read.
LEMMA AdvanceRows ==
    ASSUME Inv, Inv', Rows, NEW r \in Requests, NEW l \in Labels \ {"done"}, NEW q \in Request,
           NEW rows \in SUBSET (Posts \cup Comments), Advance(r, l, q, rows),
           UNCHANGED <<post, comment>>, pc[r] # "done",
           Known(r, l, q)
    PROVE  Step(r)
  <1>1. /\ pc'[r] = l /\ req'[r] = q /\ answer' = answer /\ Others(r)
    BY AdvanceFrame DEF Inv
  <1>2. Effects(r)
    BY QuietEffects DEF Inv
  <1>3. Known(r, pc[r], req[r])'
    BY <1>1 DEF Known, On, There
  <1>4. RowInv' /\ CounterNeverExceedsLive'
    BY DEF Rows, RowInv, CounterNeverExceedsLive, On, There, Live, LiveOn
  <1>5. answer'[r] # "ok" \/ Kind[r] # "deletePost"
    BY <1>1 DEF Rows, DeletedInv
  <1>6. TypeOK'
    BY DEF Inv
  <1> QED BY <1>1, <1>2, <1>3, <1>4, <1>5, <1>6, Settle DEF Step

\* A rollback.
LEMMA RejectRows ==
    ASSUME Inv, Inv', Rows, NEW r \in Requests, NEW a \in Answers \ {"ok"}, Reject(r, a)
    PROVE  Step(r)
  <1>0. UNCHANGED <<post, comment>> /\ Finish(r, a)
    BY DEF Reject
  <1>1. /\ pc'[r] = "done" /\ req'[r].todo = {} /\ req'[r].hit = {} /\ answer'[r] = a
        /\ Others(r)
    BY <1>0, FinishFrame DEF Inv
  <1>2. Effects(r)
    BY <1>0, QuietEffects DEF Inv
  <1>3. Known(r, pc[r], req[r])'
    BY <1>1 DEF Known
  <1>4. RowInv' /\ CounterNeverExceedsLive'
    BY <1>0 DEF Rows, RowInv, CounterNeverExceedsLive, On, There, Live, LiveOn
  <1>6. TypeOK'
    BY DEF Inv
  <1> QED BY <1>1, <1>2, <1>3, <1>4, <1>6, Settle DEF Step

\* A committed change, whatever the answer.
LEMMA FinishRows ==
    ASSUME Inv, Inv', Rows, NEW r \in Requests, NEW a \in Answers, Finish(r, a),
           Effects(r), RowInv', CounterNeverExceedsLive',
           \/ Kind[r] # "deletePost"
           \/ req[r].post \in Posts /\ post[req[r].post].live /\ ~post'[req[r].post].live
    PROVE  Step(r)
  <1>1. /\ pc'[r] = "done" /\ req'[r].todo = {} /\ req'[r].hit = {}
        /\ req'[r].post = req[r].post /\ Others(r)
    BY FinishFrame DEF Inv
  <1>2. Known(r, pc[r], req[r])'
    BY <1>1 DEF Known
  <1>3. TypeOK'
    BY DEF Inv
  <1> QED BY <1>1, <1>2, <1>3, Settle DEF Step

-----------------------------------------------------------------------------
(* One lemma per action that changes no committed row.                     *)

LEMMA CheckPostRows ==
    ASSUME Inv, Inv', Rows, NEW r \in Requests, CheckPost(r)
    PROVE  Step(r)
  <1>1. PICK p \in Posts, par \in (Comments \ {NewId[r]}) \cup {NoRow} :
          \/ /\ Advance(r, "bump", [Target(p, NewId[r]) EXCEPT !.parent = par], {})
             /\ UNCHANGED <<post, comment>>
          \/ Reject(r, "404")
    BY DEF CheckPost
  <1> DEFINE q == [Target(p, NewId[r]) EXCEPT !.parent = par]
  <1>2. pc[r] = "new" /\ Kind[r] = "createComment" /\ NewId[r] \in Comments
    BY RequestsAssumption DEF CheckPost, Creators
  <1>3. q \in Request /\ q.todo = {} /\ q.hit = {}
    BY <1>2 DEF Target, NoRequest, Request
  <1>4. CASE Advance(r, "bump", q, {}) /\ UNCHANGED <<post, comment>>
    <2>1. Known(r, "bump", q)
      BY <1>2, <1>3 DEF Rows, KnownInv, Known
    <2> HIDE DEF q
    <2> QED BY <1>2, <1>3, <1>4, <2>1, AdvanceRows DEF Labels
  <1>5. CASE Reject(r, "404")
    BY <1>5, RejectRows DEF Answers
  <1> QED BY <1>1, <1>4, <1>5

\* The check of a comment has read its post and its author.
LEMMA CheckCommentRows ==
    ASSUME Inv, Inv', Rows, NEW r \in Requests, NEW kind, NEW label,
           <<kind, label>> \in {<<"editComment", "edit">>, <<"deleteComment", "scan">>},
           CheckComment(r, kind, label)
    PROVE  Step(r)
  <1>1. PICK c \in Comments :
          \/ Reject(r, "404")
          \/ Reject(r, "403")
          \/ /\ c \in Live /\ CanModify(Actor[r], comment[c].author)
             /\ Advance(r, label, Target(comment[c].post, c), {})
             /\ UNCHANGED <<post, comment>>
    BY DEF CheckComment
  <1>2. CASE Reject(r, "404") \/ Reject(r, "403")
    BY <1>2, RejectRows DEF Answers
  <1>3. CASE /\ c \in Live /\ CanModify(Actor[r], comment[c].author)
             /\ Advance(r, label, Target(comment[c].post, c), {})
             /\ UNCHANGED <<post, comment>>
    <2> DEFINE q == Target(comment[c].post, c)
    <2>1. comment[c].post \in Posts
      BY <1>3 DEF Inv, OnPost
    <2>2. /\ q \in Request /\ q.post = comment[c].post /\ q.cmt = c
          /\ q.todo = {} /\ q.hit = {}
      BY <2>1 DEF Target, NoRequest, Request
    <2>3. Advance(r, label, q, {}) /\ UNCHANGED <<post, comment>>
      BY <1>3
    <2>4. pc[r] = "new" /\ Kind[r] # "createComment" /\ label \in Labels \ {"done"}
      BY DEF CheckComment, Labels
    <2> HIDE DEF q
    <2>5. Known(r, label, q)
      BY <1>3, <2>2, <2>4 DEF Known, On, There, Live
    <2> QED BY <2>2, <2>3, <2>4, <2>5, AdvanceRows
  <1> QED BY <1>1, <1>2, <1>3

LEMMA CheckOwnerRows ==
    ASSUME Inv, Inv', Rows, NEW r \in Requests, CheckStatus(r) \/ CheckDeletePost(r)
    PROVE  Step(r)
  <1>1. PICK p \in Posts, label \in {"status", "mark"} :
          \/ Reject(r, "403") \/ Reject(r, "404")
          \/ /\ Advance(r, label, [Target(p, NoRow) EXCEPT !.seen = post[p].status], {})
             /\ UNCHANGED <<post, comment>>
    BY DEF CheckStatus, CheckDeletePost, CheckOwner
  <1>2. CASE Reject(r, "404") \/ Reject(r, "403")
    BY <1>2, RejectRows DEF Answers
  <1>3. CASE /\ Advance(r, label, [Target(p, NoRow) EXCEPT !.seen = post[p].status], {})
             /\ UNCHANGED <<post, comment>>
    <2> DEFINE q == [Target(p, NoRow) EXCEPT !.seen = post[p].status]
    <2>1. post[p].status \in Statuses
      BY DEF Inv, TypeOK, PostRow
    <2>2. q \in Request /\ q.todo = {} /\ q.hit = {}
      BY <2>1 DEF Target, NoRequest, Request
    <2>3. Advance(r, label, q, {}) /\ UNCHANGED <<post, comment>>
      BY <1>3
    <2>4. pc[r] = "new" /\ Kind[r] # "createComment" /\ label \in Labels \ {"done"}
      BY DEF CheckStatus, CheckDeletePost, CheckOwner, Labels
    <2> HIDE DEF q
    <2>5. Known(r, label, q)
      BY <2>2, <2>4 DEF Known
    <2> QED BY <2>2, <2>3, <2>4, <2>5, AdvanceRows
  <1> QED BY <1>1, <1>2, <1>3

\* A request keeps its locals and what it knows until a label asks for more.
LEMMA SameLocals ==
    ASSUME Inv, Inv', Rows, NEW r \in Requests, NEW l \in Labels \ {"done"},
           NEW rows \in SUBSET (Posts \cup Comments), Advance(r, l, req[r], rows),
           UNCHANGED <<post, comment>>, pc[r] # "done",
           l \in {"insert", "sweep", "commit"},
           l = "commit" /\ Kind[r] = "createComment" => ParentExists(r)
    PROVE  Step(r)
  <1>1. req[r] \in Request /\ Known(r, pc[r], req[r])
    BY DEF Inv, TypeOK, Rows, KnownInv
  <1>2. Known(r, l, req[r])
    BY <1>1 DEF Known, ParentExists, On, There
  <1> QED BY <1>1, <1>2, AdvanceRows

LEMMA SameLocalsSteps ==
    ASSUME Inv, Inv', Rows, NEW r \in Requests,
           BumpCount(r) \/ InsertComment(r) \/ Decrement(r) \/ MarkDeleted(r)
    PROVE  Step(r)
  <1>1. /\ pc[r] \in {"bump", "insert", "count", "mark"} /\ req[r].post \in Posts
        /\ Kind[r] = "createComment" => pc[r] \in {"bump", "insert"}
    BY DEF Inv, LabelInv, Labelled, BumpCount, InsertComment, Decrement, MarkDeleted
  <1>l. /\ "insert" \in Labels \ {"done"} /\ "commit" \in Labels \ {"done"}
        /\ "sweep" \in Labels \ {"done"}
        /\ {req[r].post} \in SUBSET (Posts \cup Comments) /\ pc[r] # "done"
    BY <1>1 DEF Labels
  <1>2. CASE Reject(r, "404") \/ Reject(r, "422") \/ Reject(r, "500")
    BY <1>2, RejectRows DEF Answers
  <1>3. CASE Advance(r, "insert", req[r], {req[r].post}) /\ UNCHANGED <<post, comment>>
    BY <1>l, <1>3, SameLocals
  <1>4. CASE ParentExists(r) /\ Advance(r, "commit", req[r], {})
             /\ UNCHANGED <<post, comment>>
    BY <1>l, <1>4, SameLocals
  <1>5. CASE Decrement(r) /\ Advance(r, "commit", req[r], {req[r].post})
             /\ UNCHANGED <<post, comment>>
    <2>1. Kind[r] # "createComment"
      BY <1>1, <1>5 DEF Decrement
    <2> QED BY <1>l, <1>5, <2>1, SameLocals
  <1>6. CASE Advance(r, "sweep", req[r], {req[r].post}) /\ UNCHANGED <<post, comment>>
    BY <1>l, <1>6, SameLocals
  <1> QED BY <1>2, <1>3, <1>4, <1>5, <1>6
          DEF BumpCount, InsertComment, Decrement, MarkDeleted

\* A thread is on one post.
LEMMA ThreadOnPost ==
    ASSUME TypeOK, RowInv, NEW c \in Live
    PROVE  \A d \in Thread(c) : On(d, comment[c].post)
  <1> DEFINE S == {d \in Live : comment[d].post = comment[c].post}
  <1>1. S \in SUBSET Live /\ c \in S
    OBVIOUS
  <1>2. ASSUME NEW x \in Live, comment[x].parent \in S PROVE x \in S
    <2>1. x \in Comments /\ comment[x].parent # NoRow
      BY <1>2, KeysAssumption DEF Live
    <2> QED BY <1>2, <2>1 DEF RowInv, On
  <1>3. \A d \in Thread(c) : d \in S
    <2>1. ASSUME NEW d \in Thread(c) PROVE d \in S
      <3>1. \A T \in SUBSET Live :
              (c \in T /\ \A x \in Live : comment[x].parent \in T => x \in T) => d \in T
        BY DEF Thread
      <3> HIDE DEF S
      <3> QED BY <1>1, <1>2, <3>1
    <2> QED BY <2>1
  <1> QED BY <1>3 DEF On, There, Live

LEMMA ScanThreadRows ==
    ASSUME Inv, Inv', Rows, NEW r \in Requests, ScanThread(r)
    PROVE  Step(r)
  <1> DEFINE q == [req[r] EXCEPT !.todo = Thread(req[r].cmt)]
  <1>1. /\ pc[r] = "scan" /\ req[r] \in Request /\ Kind[r] = "deleteComment"
        /\ Known(r, "scan", req[r])
    BY DEF ScanThread, Inv, LabelInv, Labelled, TypeOK, Rows, KnownInv
  <1>2. /\ q \in Request /\ q.post = req[r].post /\ q.todo = Thread(req[r].cmt)
        /\ q.hit = req[r].hit
    BY <1>1 DEF Request, Thread, Live
  <1>3. CASE req[r].cmt \in Live /\ Advance(r, "rows", q, {}) /\ UNCHANGED <<post, comment>>
    <2>1. \A d \in Thread(req[r].cmt) : On(d, req[r].post)
      BY <1>1, <1>3, ThreadOnPost DEF Inv, Rows, Known, On
    <2> HIDE DEF q
    <2>2. Known(r, "rows", q)
      BY <1>1, <1>2, <2>1 DEF Known
    <2> QED BY <1>1, <1>2, <1>3, <2>2, AdvanceRows DEF Labels
  <1>4. CASE Reject(r, "404")
    BY <1>4, RejectRows DEF Answers
  <1> QED BY <1>3, <1>4 DEF ScanThread

LEMMA LockRowRows ==
    ASSUME Inv, Inv', Rows, NEW r \in Requests, LockRow(r)
    PROVE  Step(r)
  <1>1. PICK c \in req[r].todo :
          LET q == [req[r] EXCEPT !.todo = @ \ {c},
                                  !.hit = IF Matches(r, c) THEN @ \cup {c} ELSE @] IN
          Advance(r, IF q.todo = {} THEN AfterRows(r) ELSE "rows", q, {c})
    BY DEF LockRow
  <1> DEFINE q == [req[r] EXCEPT !.todo = @ \ {c},
                                 !.hit = IF Matches(r, c) THEN @ \cup {c} ELSE @]
             l == IF q.todo = {} THEN AfterRows(r) ELSE "rows"
  <1>2. /\ pc[r] = "rows" /\ req[r] \in Request /\ Kind[r] \in {"deleteComment", "deletePost"}
        /\ Known(r, "rows", req[r]) /\ UNCHANGED <<post, comment>>
    BY DEF LockRow, Inv, LabelInv, Labelled, TypeOK, Rows, KnownInv
  <1>3. c \in Comments
    BY <1>2 DEF Request
  <1>4. /\ q \in Request /\ q.post = req[r].post
        /\ q.todo \cup q.hit \subseteq req[r].todo \cup req[r].hit
    BY <1>2, <1>3 DEF Request
  <1>5. Advance(r, l, q, {c})
    BY <1>1
  <1> HIDE DEF q
  <1>6. l \in Labels \ {"done"} /\ l \in {"rows", "count", "commit"}
    BY DEF AfterRows, Labels
  <1> HIDE DEF l
  <1>7. Known(r, l, q)
    BY <1>2, <1>4, <1>6 DEF Known
  <1> QED BY <1>2, <1>3, <1>4, <1>5, <1>6, <1>7, AdvanceRows

LEMMA SweepCommentsRows ==
    ASSUME Inv, Inv', Rows, NEW r \in Requests, SweepComments(r)
    PROVE  Step(r)
  <1> DEFINE rows == LiveOn(req[r].post)
             q == [req[r] EXCEPT !.todo = rows]
             l == IF rows = {} THEN "commit" ELSE "rows"
  <1>1. /\ pc[r] = "sweep" /\ req[r] \in Request /\ Kind[r] = "deletePost"
        /\ Known(r, "sweep", req[r])
        /\ Advance(r, l, q, {}) /\ UNCHANGED <<post, comment>>
    BY DEF SweepComments, Inv, LabelInv, Labelled, TypeOK, Rows, KnownInv
  <1>2. q \in Request /\ q.post = req[r].post /\ q.todo = rows /\ q.hit = req[r].hit
    BY <1>1 DEF Request, LiveOn, Live
  <1> HIDE DEF q
  <1>3. l \in Labels \ {"done"} /\ l \in {"commit", "rows"}
    BY DEF Labels
  <1> HIDE DEF l
  <1>4. Known(r, l, q)
    BY <1>1, <1>2, <1>3 DEF Known, LiveOn, Live, On, There
  <1> QED BY <1>1, <1>2, <1>3, <1>4, AdvanceRows

-----------------------------------------------------------------------------
(* One lemma per action that changes a committed row.                      *)

\* A step that keeps what is live on each post, and the counters, keeps their order.
LEMMA SameCounts ==
    ASSUME CounterNeverExceedsLive,
           \A p \in Posts : /\ post'[p].live => post[p].live
                            /\ post'[p].count = post[p].count
                            /\ LiveOn(p)' = LiveOn(p)
    PROVE  CounterNeverExceedsLive'
  BY DEF CounterNeverExceedsLive

LEMMA EditCommentRows ==
    ASSUME Inv, Inv', Rows, NEW r \in Requests, EditComment(r)
    PROVE  Step(r)
  <1> DEFINE c == req[r].cmt
  <1>1. CASE Reject(r, "404")
    BY <1>1, RejectRows DEF Answers
  <1>2. CASE /\ c \in Live
             /\ comment' = [comment EXCEPT ![c].edited = TRUE]
             /\ \E a \in {"ok", "500"} : Finish(r, a)
             /\ UNCHANGED post
    <2>1. PICK a \in Answers : Finish(r, a)
      BY <1>2 DEF Answers
    <2>2. /\ comment \in [Comments -> CommentRow] /\ c \in Comments /\ Kind[r] = "editComment"
          /\ On(c, req[r].post) /\ CanModify(Actor[r], comment[c].author)
      BY DEF EditComment, Inv, TypeOK, LabelInv, Labelled, Rows, KnownInv, Known
    <2>3. /\ \A x \in Comments \ {c} : comment'[x] = comment[x]
          /\ comment'[c].state = comment[c].state /\ comment'[c].post = comment[c].post
          /\ comment'[c].parent = comment[c].parent /\ comment'[c].author = comment[c].author
      BY <1>2, <2>2 DEF CommentRow
    <2>4. \A p \in Posts : [post[p] EXCEPT !.count = post[p].count] = post[p]
      BY DEF Inv, TypeOK, PostRow
    <2>5. Effects(r)
      BY <1>2, <2>2, <2>3, <2>4 DEF Effects, There, On, Live
    <2>6. \A x \in Comments : /\ There(x)' <=> There(x)
                              /\ comment'[x].post = comment[x].post
                              /\ comment'[x].parent = comment[x].parent
                              /\ (x \in Live)' <=> x \in Live
      BY <2>3 DEF There, Live
    <2>7. RowInv'
      <3>1. \A x \in Live : comment[x].parent \in Comments \cup {NoRow}
        BY <2>2 DEF Live, CommentRow
      <3> QED BY <2>2, <2>3, <2>6, <3>1 DEF Rows, RowInv, On, Live
    <2>8. CounterNeverExceedsLive'
      <3>1. \A p \in Posts : LiveOn(p)' = LiveOn(p)
        BY <2>6 DEF LiveOn, Live
      <3> QED BY <1>2, <3>1, SameCounts DEF Rows
    <2> QED BY <2>1, <2>2, <2>5, <2>7, <2>8, FinishRows
  <1> QED BY <1>1, <1>2 DEF EditComment

LEMMA SetStatusRows ==
    ASSUME Inv, Inv', Rows, NEW r \in Requests, SetStatus(r)
    PROVE  Step(r)
  <1> DEFINE p == req[r].post
             status == IF Kind[r] = "publish" THEN "published" ELSE "draft"
             stamped == /\ Kind[r] = "publish"
                        /\ req[r].seen # "published" \/ post[p].stamped
  <1>1. CASE Reject(r, "404") \/ Reject(r, "500")
    BY <1>1, RejectRows DEF Answers
  <1>2. CASE /\ post[p].live
             /\ post' = [post EXCEPT ![p].status = status, ![p].stamped = stamped]
             /\ \E a \in {"ok", "500"} : Finish(r, a)
             /\ UNCHANGED comment
    <2>1. PICK a \in Answers : Finish(r, a)
      BY <1>2 DEF Answers
    <2>2. /\ post \in [Posts -> PostRow] /\ p \in Posts
          /\ Kind[r] \in {"publish", "unpublish"} /\ CanModify(Actor[r], PostAuthor[p])
      BY DEF SetStatus, Inv, TypeOK, LabelInv, Labelled
    <2> HIDE DEF status, stamped
    <2> DEFINE row == [post[p] EXCEPT !.status = status, !.stamped = stamped]
    <2>3. post' = [post EXCEPT ![p] = row] /\ row.live = post[p].live /\ row.count = post[p].count
      BY <1>2, <2>2 DEF PostRow
    <2> HIDE DEF row
    <2>4. /\ \A x \in Posts \ {p} : post'[x] = post[x]
          /\ post'[p].live = post[p].live /\ post'[p].count = post[p].count
      BY <2>2, <2>3
    <2>5. \A x \in Posts : [post[x] EXCEPT !.count = post[x].count] = post[x]
      BY <2>2 DEF PostRow
    <2>6. Effects(r)
      BY <1>2, <2>2, <2>4, <2>5 DEF Effects, There
    <2>7. RowInv'
      BY <1>2 DEF Rows, RowInv, On, There, Live
    <2>8. CounterNeverExceedsLive'
      <3>1. \A x \in Posts : LiveOn(x)' = LiveOn(x)
        BY <1>2 DEF LiveOn, Live
      <3> QED BY <2>4, <3>1, SameCounts DEF Rows
    <2> QED BY <2>1, <2>2, <2>6, <2>7, <2>8, FinishRows
  <1> QED BY <1>1, <1>2 DEF SetStatus

\* Row c is what it was, or marked deleted.
OnlyMarked(c) ==
    /\ There(c)' <=> There(c)
    /\ comment'[c].post = comment[c].post
    /\ comment'[c].parent = comment[c].parent
    /\ comment'[c].author = comment[c].author
    /\ comment'[c].edited = comment[c].edited
    /\ ~There(c) \/ comment[c].state = "deleted" => comment'[c] = comment[c]

\* A soft delete of rows that are there.
LEMMA SoftDeleteEffects ==
    ASSUME comment \in [Comments -> CommentRow], NEW rows \in SUBSET Comments,
           \A c \in rows : There(c), SoftDelete(rows), RowInv
    PROVE  /\ \A c \in Comments : OnlyMarked(c)
           /\ RowInv'
           /\ \A p : LiveOn(p)' = LiveOn(p) \ rows
  <1>1. /\ DOMAIN comment' = Comments
        /\ \A c \in Comments \ rows : comment'[c] = comment[c]
        /\ \A c \in rows : comment'[c] = [comment[c] EXCEPT !.state = "deleted"]
    BY DEF SoftDelete
  <1>2. \A c \in rows : /\ comment'[c].state = "deleted"
                        /\ comment'[c].post = comment[c].post
                        /\ comment'[c].parent = comment[c].parent
                        /\ comment'[c].author = comment[c].author
                        /\ comment'[c].edited = comment[c].edited
                        /\ comment[c].state = "deleted" => comment'[c] = comment[c]
    <2>1. SUFFICES ASSUME NEW c \in rows, NEW new, new = [comment[c] EXCEPT !.state = "deleted"]
                   PROVE  /\ new.state = "deleted"
                          /\ new.post = comment[c].post /\ new.parent = comment[c].parent
                          /\ new.author = comment[c].author /\ new.edited = comment[c].edited
                          /\ comment[c].state = "deleted" => new = comment[c]
      BY <1>1
    <2>2. comment[c] \in CommentRow
      BY <2>1
    <2> QED BY <2>1, <2>2 DEF CommentRow
  <1>3. \A c \in Comments :
                /\ OnlyMarked(c)
                /\ (c \in Live)' <=> c \in Live \ rows
    BY <1>1, <1>2 DEF OnlyMarked, There, Live
  <1>4. RowInv'
    <2>1. \A c \in Live : comment[c].parent \in Comments \cup {NoRow}
      BY DEF Live, CommentRow
    <2> QED BY <1>3, <2>1 DEF RowInv, OnlyMarked, On, Live
  <1>5. \A p : LiveOn(p)' = LiveOn(p) \ rows
    BY <1>3 DEF LiveOn, OnlyMarked, Live
  <1> QED BY <1>3, <1>4, <1>5

\* A finite set loses at most as many members as are taken away.
LEMMA LossBound ==
    ASSUME NEW S \in SUBSET Comments, NEW T \in SUBSET Comments
    PROVE  /\ Cardinality(S) \in Nat /\ Cardinality(T) \in Nat
           /\ Cardinality(S \ T) \in Nat
           /\ Cardinality(S \ T) >= Cardinality(S) - Cardinality(T)
  <1>1. IsFiniteSet(S) /\ IsFiniteSet(T) /\ IsFiniteSet(S \ T)
    BY KeysAssumption, FS_Subset
  <1>2. Cardinality(S) \in Nat /\ Cardinality(T) \in Nat /\ Cardinality(S \ T) \in Nat
    BY <1>1, FS_CardinalityType
  <1>3. Cardinality(S \ T) = Cardinality(S) - Cardinality(S \cap T)
    BY <1>1, FS_Difference
  <1>4. Cardinality(S \cap T) \in Nat /\ Cardinality(S \cap T) <= Cardinality(T)
    <2>1. S \cap T \in SUBSET T
      OBVIOUS
    <2>2. IsFiniteSet(S \cap T) /\ Cardinality(S \cap T) <= Cardinality(T)
      BY <1>1, <2>1, FS_Subset
    <2> QED BY <2>2, FS_CardinalityType
  <1> QED BY <1>2, <1>3, <1>4

LEMMA CommitDeleteCommentRows ==
    ASSUME Inv, Inv', Rows, NEW r \in Requests, CommitDeleteComment(r),
           NEW a \in Answers, Finish(r, a)
    PROVE  Step(r)
  <1> DEFINE p == req[r].post
             n == Cardinality(req[r].hit)
  <1>1. /\ post \in [Posts -> PostRow] /\ comment \in [Comments -> CommentRow]
        /\ p \in Posts /\ Kind[r] = "deleteComment" /\ req[r].hit \in SUBSET Comments
        /\ \A c \in req[r].hit : On(c, p)
    BY DEF CommitDeleteComment, Inv, TypeOK, LabelInv, Labelled, Request, Rows, KnownInv, Known
  <1>2. /\ \A c \in Comments : OnlyMarked(c)
        /\ RowInv'
        /\ \A x : LiveOn(x)' = LiveOn(x) \ req[r].hit
    BY <1>1, SoftDeleteEffects DEF CommitDeleteComment, On, Rows
  <1>3. n \in Nat
    BY <1>1, LossBound
  <1> DEFINE row == [post[p] EXCEPT !.count = @ - n]
  <1>4. /\ post' = [post EXCEPT ![p] = row]
        /\ row.live = post[p].live /\ row.status = post[p].status
        /\ row.count = post[p].count - n
        /\ [row EXCEPT !.count = post[p].count] = post[p]
    <2>1. post' = [post EXCEPT ![p].count = @ - n]
      BY DEF CommitDeleteComment
    <2> HIDE DEF n
    <2>2. post[p] \in PostRow
      BY <1>1
    <2> QED BY <1>1, <2>1, <2>2 DEF PostRow
  <1> HIDE DEF row
  <1>5. \A x \in Posts \ {p} : /\ post'[x] = post[x]
                               /\ [post[x] EXCEPT !.count = post[x].count] = post[x]
    BY <1>1, <1>4 DEF PostRow
  <1>6. post'[p] = row
    BY <1>1, <1>4
  <1>7. Effects(r)
    BY <1>2, <1>4, <1>5, <1>6 DEF Effects, OnlyMarked
  <1>8. CounterNeverExceedsLive'
    <2>1. ASSUME NEW x \in Posts, post'[x].live PROVE post'[x].count <= Cardinality(LiveOn(x)')
      <3>1. /\ post[x].live /\ post[x].count \in Int /\ LiveOn(x) \in SUBSET Comments
            /\ post[x].count <= Cardinality(LiveOn(x))
        BY <1>1, <1>4, <1>5, <1>6, <2>1 DEF PostRow, LiveOn, Live, Rows, CounterNeverExceedsLive
      <3>2. CASE x = p
        <4>1. /\ Cardinality(LiveOn(x)) \in Nat
              /\ Cardinality(LiveOn(x) \ req[r].hit) \in Nat
              /\ Cardinality(LiveOn(x) \ req[r].hit) >= Cardinality(LiveOn(x)) - n
          BY <1>1, <3>1, LossBound
        <4>2. LiveOn(x)' = LiveOn(x) \ req[r].hit
          BY <1>2
        <4>3. post'[x].count = post[x].count - n
          BY <1>4, <1>6, <3>2
        <4> HIDE DEF n
        <4> QED BY <1>3, <3>1, <4>1, <4>2, <4>3
      <3>3. CASE x # p
        <4>1. LiveOn(x)' = LiveOn(x)
          BY <1>1, <1>2, <3>3 DEF LiveOn, On
        <4> QED BY <1>5, <3>1, <3>3, <4>1
      <3> QED BY <3>2, <3>3
    <2> QED BY <2>1 DEF CounterNeverExceedsLive
  <1> QED BY <1>1, <1>2, <1>7, <1>8, FinishRows

LEMMA CommitDeletePostRows ==
    ASSUME Inv, Inv', Rows, NEW r \in Requests, CommitDeletePost(r),
           NEW a \in Answers, Finish(r, a)
    PROVE  Step(r)
  <1> DEFINE p == req[r].post
             row == [post[p] EXCEPT !.live = FALSE]
  <1>1. /\ post \in [Posts -> PostRow] /\ comment \in [Comments -> CommentRow]
        /\ p \in Posts /\ Kind[r] = "deletePost" /\ req[r].hit \in SUBSET Comments
        /\ \A c \in req[r].hit : On(c, p)
        /\ post[p].live /\ CanModify(Actor[r], PostAuthor[p])
    BY DEF CommitDeletePost, Inv, TypeOK, LabelInv, Labelled, Request, SecuredInv, Secured,
           HoldsPost, Rows, KnownInv, Known
  <1>2. /\ \A c \in Comments : OnlyMarked(c)
        /\ RowInv'
        /\ \A x : LiveOn(x)' = LiveOn(x) \ req[r].hit
    BY <1>1, SoftDeleteEffects DEF CommitDeletePost, On, Rows
  <1>3. post' = [post EXCEPT ![p] = row] /\ row.live = FALSE /\ row.status = post[p].status
    <2>1. post[p] \in PostRow
      BY <1>1
    <2> QED BY <2>1 DEF CommitDeletePost, PostRow
  <1> HIDE DEF row
  <1>4. /\ post'[p] = row
        /\ \A x \in Posts \ {p} : /\ post'[x] = post[x]
                                  /\ [post[x] EXCEPT !.count = post[x].count] = post[x]
    BY <1>1, <1>3 DEF PostRow
  <1>5. Effects(r)
    BY <1>1, <1>2, <1>3, <1>4 DEF Effects, OnlyMarked
  <1>6. CounterNeverExceedsLive'
    <2>1. \A x \in Posts \ {p} : LiveOn(x)' = LiveOn(x)
      BY <1>1, <1>2 DEF LiveOn, On
    <2> QED BY <1>3, <1>4, <2>1 DEF Rows, CounterNeverExceedsLive
  <1> QED BY <1>1, <1>2, <1>3, <1>4, <1>5, <1>6, FinishRows

\* A reply is committed on the post of its parent; the counter goes up with it.
LEMMA CommitCreateRows ==
    ASSUME Inv, Inv', Rows, NEW r \in Requests, CommitCreate(r),
           NEW a \in Answers, Finish(r, a)
    PROVE  Step(r)
  <1>p. PICK p \in Posts, n \in Comments : p = req[r].post /\ n = req[r].cmt
    <2>1. /\ pc[r] = "commit" /\ Kind[r] = "createComment" /\ Labelled(r, "commit", req[r])
      BY DEF CommitCreate, Inv, LabelInv
    <2>2. NewId[r] \in Comments
      BY <2>1, RequestsAssumption DEF Creators
    <2> QED BY <2>1, <2>2 DEF Labelled
  <1> DEFINE new == [state |-> "live", post |-> p, parent |-> req[r].parent,
                     author |-> Actor[r], edited |-> FALSE]
             row == [post[p] EXCEPT !.count = @ + 1]
  <1>1. /\ Kind[r] = "createComment" /\ n = NewId[r] /\ n \in Comments
        /\ post \in [Posts -> PostRow] /\ comment \in [Comments -> CommentRow]
        /\ p \in Posts /\ ~There(n) /\ req[r] \in Request
        /\ req[r].parent # NoRow => On(req[r].parent, p)
    <2>1. /\ pc[r] = "commit" /\ Kind[r] = "createComment" /\ req[r] \in Request
          /\ Labelled(r, "commit", req[r]) /\ Known(r, "commit", req[r])
      BY DEF CommitCreate, Inv, TypeOK, LabelInv, Rows, KnownInv
    <2> QED BY <1>p, <2>1 DEF Labelled, Known, Inv, TypeOK
  <1>2. /\ comment' = [comment EXCEPT ![n] = new]
        /\ new.state = "live" /\ new.post = p /\ new.parent = req[r].parent /\ ~new.edited
    BY <1>p DEF CommitCreate
  <1>3. /\ post' = [post EXCEPT ![p] = row]
        /\ row.live = post[p].live /\ row.status = post[p].status
        /\ row.count = post[p].count + 1
        /\ [row EXCEPT !.count = post[p].count] = post[p]
    <2>1. post' = [post EXCEPT ![p].count = @ + 1]
      BY <1>p DEF CommitCreate
    <2>2. post[p] \in PostRow
      BY <1>1
    <2> QED BY <1>1, <2>1, <2>2 DEF PostRow
  <1> HIDE DEF new, row
  <1>4. /\ comment'[n] = new
        /\ \A c \in Comments \ {n} : comment'[c] = comment[c]
        /\ post'[p] = row
        /\ \A x \in Posts \ {p} : /\ post'[x] = post[x]
                                  /\ [post[x] EXCEPT !.count = post[x].count] = post[x]
    BY <1>1, <1>2, <1>3 DEF PostRow
  <1>5. pc'[r] = "done"
    BY FinishFrame DEF Inv
  <1>6. comment[n].edited = FALSE
    BY <1>1 DEF Rows, RowInv, CommentRow
  <1>7. comment'[n].edited = FALSE
    BY <1>4 DEF new
  <1>8. Effects(r)
    <2>1. \A c \in Comments : There(c) => c # n
      BY <1>1
    <2> QED BY <1>1, <1>3, <1>4, <1>5, <1>6, <1>7, <2>1 DEF Effects, There
  <1>9. RowInv'
    <2>1. \A c \in Comments, x \in Posts : On(c, x) => On(c, x)'
      BY <1>1, <1>4 DEF On, There
    <2>2. ASSUME NEW c \in Comments \ {n}
          PROVE  /\ There(c)' \/ ~comment'[c].edited
                 /\ (c \in Live)' /\ comment'[c].parent # NoRow =>
                      On(comment[c].parent, comment[c].post)'
      <3>1. comment'[c] = comment[c]
        BY <1>4
      <3>2. There(c)' \/ ~comment'[c].edited
        BY <3>1 DEF Rows, RowInv, There
      <3>3. c \in Live /\ comment[c].parent # NoRow =>
              /\ comment[c].parent \in Comments /\ comment[c].post \in Posts
              /\ On(comment[c].parent, comment[c].post)
        BY <1>1 DEF Rows, RowInv, Live, CommentRow, Inv, OnPost
      <3>4. (c \in Live)' <=> c \in Live
        BY <3>1 DEF Live
      <3> QED BY <2>1, <3>1, <3>2, <3>3, <3>4 DEF On, There
    <2>3. (n \in Live)' /\ comment'[n].parent # NoRow => On(comment[n].parent, comment[n].post)'
      <3>1. req[r].parent # NoRow => req[r].parent \in Comments
        BY <1>1 DEF Request
      <3> QED BY <1>1, <1>2, <1>4, <2>1, <3>1 DEF On, There
    <2> QED BY <1>7, <2>2, <2>3 DEF RowInv
  <1>10. CounterNeverExceedsLive'
    <2>1. LiveOn(p)' = LiveOn(p) \cup {n} /\ n \notin LiveOn(p)
      BY <1>1, <1>2, <1>4 DEF LiveOn, Live, There
    <2>2. /\ Cardinality(LiveOn(p)) \in Nat
          /\ Cardinality(LiveOn(p) \cup {n}) = Cardinality(LiveOn(p)) + 1
      <3>1. IsFiniteSet(LiveOn(p))
        <4>1. LiveOn(p) \in SUBSET Comments
          BY DEF LiveOn, Live
        <4> QED BY <4>1, KeysAssumption, FS_Subset
      <3> QED BY <2>1, <3>1, FS_CardinalityType, FS_AddElement
    <2>3. \A x \in Posts \ {p} : LiveOn(x)' = LiveOn(x)
      BY <1>1, <1>2, <1>4 DEF LiveOn, Live, There
    <2>4. /\ post[p].count \in Int
          /\ post'[p].live = post[p].live /\ post'[p].count = post[p].count + 1
          /\ \A x \in Posts \ {p} : post'[x] = post[x]
      BY <1>1, <1>3, <1>4 DEF PostRow
    <2>5. post[p].live => post'[p].count <= Cardinality(LiveOn(p) \cup {n})
      BY <2>2, <2>4 DEF Rows, CounterNeverExceedsLive
    <2>6. ASSUME NEW x \in Posts, post'[x].live PROVE post'[x].count <= Cardinality(LiveOn(x)')
      <3>1. CASE x = p
        BY <2>1, <2>4, <2>5, <2>6, <3>1
      <3>2. CASE x # p
        BY <2>3, <2>4, <2>6, <3>2 DEF Rows, CounterNeverExceedsLive
      <3> QED BY <3>1, <3>2
    <2> QED BY <2>6 DEF CounterNeverExceedsLive
  <1> QED BY <1>1, <1>8, <1>9, <1>10, FinishRows

-----------------------------------------------------------------------------
(* The invariant and what follows from it.                                 *)

LEMMA RowsInit == Init => Rows
  <1> SUFFICES ASSUME Init PROVE Rows
    OBVIOUS
  <1> USE SeedAssumption, RequestsAssumption, KeysAssumption
  <1>1. KnownInv
    BY DEF Init, KnownInv, Known, NoRequest, There, Creators
  <1>2. RowInv
    <2>1. ASSUME NEW c \in Comments, c \in Live, comment[c].parent # NoRow
          PROVE  On(comment[c].parent, comment[c].post)
      BY <2>1 DEF Init, On, There, Live
    <2>2. \A c \in Comments : There(c) \/ ~comment[c].edited
      BY DEF Init, There
    <2> QED BY <2>1, <2>2 DEF RowInv
  <1>3. DeletedInv /\ PostDeletedOnce
    BY DEF Init, DeletedInv, PostDeletedOnce
  <1>4. CounterNeverExceedsLive
    <2>1. ASSUME NEW p \in Posts PROVE post[p].count <= Cardinality(LiveOn(p))
      <3>1. LiveOn(p) = {c \in Comments : Seed[c].state = "live" /\ Seed[c].post = p}
        BY DEF Init, LiveOn, Live
      <3>2. post[p].count = Cardinality(LiveOn(p))
        BY <3>1 DEF Init
      <3>3. Cardinality(LiveOn(p)) \in Nat
        <4>1. LiveOn(p) \in SUBSET Comments
          BY DEF LiveOn, Live
        <4> QED BY <4>1, FS_Subset, FS_CardinalityType
      <3> QED BY <3>2, <3>3
    <2> QED BY <2>1 DEF CounterNeverExceedsLive
  <1> QED BY <1>1, <1>2, <1>3, <1>4 DEF Rows

LEMMA RequestStep ==
    ASSUME Inv, Inv', Rows, NEW r \in Requests,
           Check(r) \/ Statement(r) \/ Abort(r) \/ DeadlockAbort(r)
    PROVE  Step(r)
  <1>1. CASE Check(r)
    <2>1. CASE CheckPost(r)
      BY <2>1, CheckPostRows
    <2>2. CASE CheckEdit(r)
      BY <2>2, CheckCommentRows DEF CheckEdit
    <2>3. CASE CheckDelete(r)
      BY <2>3, CheckCommentRows DEF CheckDelete
    <2>4. CASE CheckStatus(r) \/ CheckDeletePost(r)
      BY <2>4, CheckOwnerRows
    <2> QED BY <1>1, <2>1, <2>2, <2>3, <2>4 DEF Check
  <1>2. CASE Statement(r)
    <2>1. CASE BumpCount(r) \/ InsertComment(r) \/ Decrement(r) \/ MarkDeleted(r)
      BY <2>1, SameLocalsSteps
    <2>2. CASE EditComment(r)
      BY <2>2, EditCommentRows
    <2>3. CASE ScanThread(r)
      BY <2>3, ScanThreadRows
    <2>4. CASE LockRow(r)
      BY <2>4, LockRowRows
    <2>5. CASE SetStatus(r)
      BY <2>5, SetStatusRows
    <2>6. CASE SweepComments(r)
      BY <2>6, SweepCommentsRows
    <2>7. CASE Commit(r)
      <3>1. PICK a \in Answers : Finish(r, a)
        BY <2>7 DEF Commit, Answers
      <3> QED BY <2>7, <3>1, CommitCreateRows, CommitDeleteCommentRows,
                 CommitDeletePostRows DEF Commit
    <2> QED BY <1>2, <2>1, <2>2, <2>3, <2>4, <2>5, <2>6, <2>7 DEF Statement
  <1>3. CASE Abort(r) \/ DeadlockAbort(r)
    BY <1>3, RejectRows DEF Abort, DeadlockAbort, Answers
  <1> QED BY <1>1, <1>2, <1>3

\* Every step is a step of one request, or changes no row, answer or place.
LEMMA RowsNext ==
    Inv /\ Inv' /\ Rows /\ [Next]_vars =>
        /\ Rows'
        /\ UNCHANGED <<post, comment, pc>> \/ \E r \in Requests : Step(r)
  <1> SUFFICES ASSUME Inv, Inv', Rows, [Next]_vars
               PROVE  /\ Rows'
                      /\ UNCHANGED <<post, comment, pc>> \/ \E r \in Requests : Step(r)
    OBVIOUS
  <1>1. ASSUME NEW r \in Requests,
               Check(r) \/ Statement(r) \/ Abort(r) \/ DeadlockAbort(r)
        PROVE  Step(r)
    BY <1>1, RequestStep
  <1>2. ASSUME UNCHANGED <<post, comment, pc, req, answer>> PROVE Rows'
    BY <1>2 DEF Rows, KnownInv, Known, RowInv, DeletedInv, PostDeletedOnce,
                CounterNeverExceedsLive, On, There, Live, LiveOn
  <1>3. ASSUME NEW r \in Requests, Block(r) PROVE UNCHANGED <<post, comment, pc, req, answer>>
    BY <1>3 DEF Block
  <1>4. Terminating \/ UNCHANGED vars => UNCHANGED <<post, comment, pc, req, answer>>
    BY DEF Terminating, vars
  <1>5. \/ UNCHANGED <<post, comment, pc, req, answer>>
        \/ \E r \in Requests : Step(r)
    BY <1>1, <1>3, <1>4 DEF Next
  <1> QED BY <1>2, <1>5 DEF Step

\* What requests know of the rows they have read holds in every reachable state.
THEOREM RowsInvariance == Spec => [](Inv /\ Rows)
  <1>1. Inv /\ Rows /\ [Next]_vars => (Inv /\ Rows)'
    BY InvNext, RowsNext
  <1> QED BY <1>1, InvInit, RowsInit, PTL DEF Spec

\* Of two deletions of one post only one is acknowledged (post/repository.go,
\* Delete: the second updates no row and rolls back).
THEOREM DeletedOnce == Spec => []PostDeletedOnce
  <1>1. Rows => PostDeletedOnce
    BY DEF Rows
  <1> QED BY <1>1, RowsInvariance, PTL

\* Whatever creations and deletions overlap, comment_count never promises more
\* comments than the post has (comment/repository.go, Create and Delete).
THEOREM CounterBounded == Spec => []CounterNeverExceedsLive
  <1>1. Rows => CounterNeverExceedsLive
    BY DEF Rows
  <1> QED BY <1>1, RowsInvariance, PTL

\* What no step may do to a deleted row, and what a request may do to others' rows.
Final ==
    /\ \A c \in Comments : comment[c].state = "deleted" => comment'[c] = comment[c]
    /\ \A p \in Posts : ~post[p].live =>
         [post'[p] EXCEPT !.count = post[p].count] = post[p]

Owned ==
    \A r \in Requests : pc[r] # "done" /\ pc'[r] = "done" =>
        /\ \A c \in Comments : comment'[c].edited # comment[c].edited =>
             CanModify(Actor[r], comment[c].author)
        /\ \A p \in Posts :
             \/ post'[p].status # post[p].status
             \/ post'[p].live # post[p].live
             => CanModify(Actor[r], PostAuthor[p])

LEMMA StepKeeps ==
    ASSUME Inv, Inv', Rows, [Next]_vars
    PROVE  Final /\ Owned
  <1>1. CASE UNCHANGED <<post, comment, pc>>
    <2>1. \A p \in Posts : [post[p] EXCEPT !.count = post[p].count] = post[p]
      BY DEF Inv, TypeOK, PostRow
    <2> QED BY <1>1, <2>1 DEF Final, Owned
  <1>2. ASSUME NEW r \in Requests, Step(r) PROVE Final /\ Owned
    <2>1. Final
      BY <1>2 DEF Step, Effects, There, Final
    <2>2. \A o \in Requests : pc[o] # "done" /\ pc'[o] = "done" => o = r
      BY <1>2 DEF Step, Others
    <2>3. /\ \A c \in Comments : comment'[c].edited # comment[c].edited =>
               CanModify(Actor[r], comment[c].author)
          /\ \A p \in Posts : post'[p].status # post[p].status \/ post'[p].live # post[p].live =>
               CanModify(Actor[r], PostAuthor[p])
      BY <1>2 DEF Step, Effects
    <2> QED BY <2>1, <2>2, <2>3 DEF Owned
  <1> QED BY <1>1, <1>2, RowsNext

\* Nothing revives or changes a deleted row: deleted_at IS NULL in every UPDATE but
\* the one of a thread, which sets the same mark again.
THEOREM DeletionIsFinal == Spec => DeletedStaysAsItWas
  <1>1. Inv /\ Inv' /\ Rows /\ [Next]_vars => [Final]_vars
    BY StepKeeps
  <1> QED BY <1>1, RowsInvariance, PTL DEF Spec, DeletedStaysAsItWas, Final

\* Content, status and existence change only at the hands of an owner or an
\* administrator, though the check (domain.CanModify) is on an earlier read.
THEOREM OwnersOnly == Spec => OnlyOwnersWrite
  <1>1. Inv /\ Inv' /\ Rows /\ [Next]_vars => [Owned]_vars
    BY StepKeeps
  <1> QED BY <1>1, RowsInvariance, PTL DEF Spec, OnlyOwnersWrite, Owned

-----------------------------------------------------------------------------
(***************************************************************************)
(* The counter, as long as no two deletions have a comment in hand at the  *)
(* same time: then what a deletion counts is live until it commits, unless *)
(* the whole post goes.                                                    *)
(***************************************************************************)

Alive(r, l, q) ==
    Kind[r] = "deleteComment" =>
        /\ l = "scan" => q.todo \cup q.hit = {}
        /\ l \in {"rows", "count", "commit"} /\ q.post \in Posts /\ post[q.post].live =>
             q.todo \cup q.hit \subseteq Live

Exact == CounterExact /\ \A r \in Requests : Alive(r, pc[r], req[r])

\* The comments that a step of r takes away are those it has in hand, or all of a post.
Takes(r) ==
    \A c \in Live : (c \in Live)' \/
        /\ pc[r] = "commit" /\ c \in req[r].hit
        /\ Kind[r] = "deleteComment" \/ ~post'[req[r].post].live

LEMMA SettleExact ==
    ASSUME Inv, Inv', Rows, Exact, DeletionsDisjoint, NEW r \in Requests, Step(r),
           Takes(r), CounterExact', Alive(r, pc[r], req[r])'
    PROVE  Exact'
  <1>1. SUFFICES ASSUME NEW o \in Requests \ {r} PROVE Alive(o, pc[o], req[o])'
    BY DEF Exact
  <1>2. pc'[o] = pc[o] /\ req'[o] = req[o] /\ Alive(o, pc[o], req[o])
    BY DEF Step, Others, Exact
  <1>3. ASSUME Kind[o] = "deleteComment", pc[o] \in {"rows", "count", "commit"},
               req[o].post \in Posts, post'[req[o].post].live,
               NEW c \in req[o].todo \cup req[o].hit
        PROVE  (c \in Live)'
    <2>1. post[req[o].post].live
      <3>1. post[req[o].post] \in PostRow /\ post'[req[o].post] \in PostRow
        BY <1>3 DEF Inv, TypeOK
      <3>2. [post'[req[o].post] EXCEPT !.count = post[req[o].post].count].live
              = post'[req[o].post].live
        BY <3>1 DEF PostRow
      <3> QED BY <1>3, <3>2 DEF Step, Effects
    <2>2. c \in Live
      BY <1>2, <1>3, <2>1 DEF Alive
    <2>3. SUFFICES ASSUME pc[r] = "commit", c \in req[r].hit,
                          Kind[r] = "deleteComment" \/ ~post'[req[r].post].live
                   PROVE  FALSE
      BY <2>2 DEF Takes
    <2>4. Kind[r] # "deleteComment"
      BY <1>3, <2>3 DEF DeletionsDisjoint, Deleting, InHand
    <2>5. comment[c].post = req[o].post /\ comment[c].post = req[r].post
      BY <1>3, <2>3 DEF Rows, KnownInv, Known, On
    <2> QED BY <1>3, <2>3, <2>4, <2>5
  <1>4. Kind[o] = "deleteComment" /\ pc[o] = "scan" => req[o].todo \cup req[o].hit = {}
    BY <1>2 DEF Alive
  <1> QED BY <1>2, <1>3, <1>4 DEF Alive

\* What a request that goes on to its next statement has in hand is alive still.
LEMMA AliveStep ==
    ASSUME Inv, Exact, NEW r \in Requests,
           Check(r) \/ Statement(r) \/ Abort(r) \/ DeadlockAbort(r)
    PROVE  Alive(r, pc[r], req[r])'
  <1>1. ASSUME NEW a, Finish(r, a) PROVE pc'[r] = "done"
    BY <1>1 DEF Finish, Inv, TypeOK
  <1>2. pc'[r] = "done" => Alive(r, pc[r], req[r])'
    BY DEF Alive
  <1>3. SUFFICES ASSUME Kind[r] = "deleteComment", pc'[r] # "done"
                 PROVE  Alive(r, pc[r], req[r])'
    BY <1>2 DEF Alive
  <1>4. req[r] \in Request /\ pc[r] \in Labels /\ Labelled(r, pc[r], req[r])
        /\ Alive(r, pc[r], req[r])
    BY DEF Inv, TypeOK, LabelInv, Exact
  <1>5. CASE CheckDelete(r)
    <2>1. PICK c \in Live : /\ Advance(r, "scan", Target(comment[c].post, c), {})
                            /\ UNCHANGED <<post, comment>>
      BY <1>1, <1>3, <1>5 DEF CheckDelete, CheckComment, Reject
    <2>2. pc'[r] = "scan" /\ req'[r].todo = {} /\ req'[r].hit = {}
      BY <2>1 DEF Advance, Target, NoRequest, Inv, TypeOK
    <2> QED BY <2>2 DEF Alive
  <1>6. CASE ScanThread(r)
    <2>1. /\ pc[r] = "scan" /\ UNCHANGED <<post, comment>>
          /\ Advance(r, "rows", [req[r] EXCEPT !.todo = Thread(req[r].cmt)], {})
      BY <1>1, <1>3, <1>6 DEF ScanThread, Reject
    <2>2. /\ pc'[r] = "rows" /\ req'[r].todo = Thread(req[r].cmt) /\ req'[r].hit = req[r].hit
      BY <1>4, <2>1 DEF Advance, Inv, TypeOK, Request
    <2>3. req[r].hit = {} /\ Thread(req[r].cmt) \subseteq Live
      BY <1>3, <1>4, <2>1 DEF Alive, Thread
    <2> QED BY <2>1, <2>2, <2>3 DEF Alive, Live
  <1>7. CASE LockRow(r)
    <2>1. PICK c \in req[r].todo :
            LET q == [req[r] EXCEPT !.todo = @ \ {c},
                                    !.hit = IF Matches(r, c) THEN @ \cup {c} ELSE @] IN
            Advance(r, IF q.todo = {} THEN AfterRows(r) ELSE "rows", q, {c})
      BY <1>7 DEF LockRow
    <2>2. /\ req'[r].todo \subseteq req[r].todo /\ req'[r].hit \subseteq req[r].hit \cup {c}
          /\ req'[r].post = req[r].post /\ pc'[r] \in {"rows", "count"}
      BY <1>3, <1>4, <2>1 DEF Advance, AfterRows, Inv, TypeOK, Request
    <2>3. pc[r] = "rows" /\ UNCHANGED <<post, comment>>
      BY <1>7 DEF LockRow
    <2> QED BY <1>3, <1>4, <2>1, <2>2, <2>3 DEF Alive, Live
  <1>8. CASE Decrement(r)
    <2>1. pc[r] = "count" /\ Advance(r, "commit", req[r], {req[r].post}) /\ UNCHANGED <<post, comment>>
      BY <1>1, <1>3, <1>8 DEF Decrement, Reject
    <2>2. pc'[r] = "commit" /\ req'[r] = req[r]
      BY <2>1 DEF Advance, Inv, TypeOK
    <2> QED BY <1>3, <1>4, <2>1, <2>2 DEF Alive, Live
  <1>9. ~(CheckPost(r) \/ CheckEdit(r) \/ CheckStatus(r) \/ CheckDeletePost(r))
    BY <1>3 DEF CheckPost, CheckEdit, CheckComment, CheckStatus, CheckDeletePost, CheckOwner
  <1>10. ~(\/ BumpCount(r) \/ InsertComment(r) \/ EditComment(r) \/ SetStatus(r)
           \/ MarkDeleted(r) \/ SweepComments(r))
    BY <1>3, <1>4 DEF Labelled, BumpCount, InsertComment, EditComment, SetStatus, MarkDeleted,
                      SweepComments
  <1>11. ~(Commit(r) \/ Abort(r) \/ DeadlockAbort(r))
    BY <1>1, <1>3 DEF Commit, Abort, DeadlockAbort, Reject
  <1> QED BY <1>5, <1>6, <1>7, <1>8, <1>9, <1>10, <1>11 DEF Check, Statement

\* Counters and live comments that stand still.
StandsStill ==
    /\ Live' = Live
    /\ \A p \in Posts : /\ post'[p].live = post[p].live /\ post'[p].count = post[p].count
                        /\ LiveOn(p)' = LiveOn(p)

LEMMA StillExact ==
    ASSUME CounterExact, StandsStill, NEW r
    PROVE  CounterExact' /\ Takes(r)
  BY DEF CounterExact, StandsStill, Takes

LEMMA StillStep ==
    ASSUME Inv, NEW r \in Requests,
           Check(r) \/ Statement(r) \/ Abort(r) \/ DeadlockAbort(r), ~Commit(r)
    PROVE  StandsStill
  <1>1. UNCHANGED <<post, comment>> => StandsStill
    BY DEF StandsStill, Live, LiveOn
  <1>2. CASE Check(r) \/ Abort(r) \/ DeadlockAbort(r)
    BY <1>1, <1>2 DEF Check, CheckPost, CheckEdit, CheckDelete, CheckComment, CheckStatus,
                      CheckDeletePost, CheckOwner, Reject, Abort, DeadlockAbort
  <1>3. CASE EditComment(r)
    <2>1. CASE Reject(r, "404")
      BY <1>1, <2>1 DEF Reject
    <2>2. CASE ~Reject(r, "404")
      <3>1. /\ req[r].cmt \in Comments /\ comment \in [Comments -> CommentRow]
            /\ comment' = [comment EXCEPT ![req[r].cmt].edited = TRUE] /\ UNCHANGED post
        BY <1>3, <2>2 DEF EditComment, Live, Inv, TypeOK
      <3>2. \A c \in Comments : /\ comment'[c].state = comment[c].state
                                /\ comment'[c].post = comment[c].post
        BY <3>1 DEF CommentRow
      <3> QED BY <3>1, <3>2 DEF StandsStill, Live, LiveOn
    <2> QED BY <2>1, <2>2
  <1>4. CASE SetStatus(r)
    <2> DEFINE p == req[r].post
               status == IF Kind[r] = "publish" THEN "published" ELSE "draft"
               stamped == /\ Kind[r] = "publish"
                          /\ req[r].seen # "published" \/ post[p].stamped
    <2>1. \/ UNCHANGED <<post, comment>>
          \/ /\ post' = [post EXCEPT ![p].status = status, ![p].stamped = stamped]
             /\ UNCHANGED comment
      BY <1>4 DEF SetStatus, Reject
    <2> HIDE DEF status, stamped
    <2>2. CASE /\ post' = [post EXCEPT ![p].status = status, ![p].stamped = stamped]
               /\ UNCHANGED comment
      <3>1. \A x \in Posts : post'[x].live = post[x].live /\ post'[x].count = post[x].count
        BY <2>2 DEF Inv, TypeOK, PostRow
      <3> QED BY <2>2, <3>1 DEF StandsStill, Live, LiveOn
    <2> QED BY <1>1, <2>1, <2>2
  <1>5. CASE \/ BumpCount(r) \/ InsertComment(r) \/ ScanThread(r) \/ LockRow(r)
             \/ Decrement(r) \/ MarkDeleted(r) \/ SweepComments(r)
    BY <1>1, <1>5 DEF BumpCount, InsertComment, ScanThread, LockRow, Decrement, MarkDeleted,
                      SweepComments, Reject
  <1> QED BY <1>2, <1>3, <1>4, <1>5 DEF Statement

LEMMA CountIsFinite ==
    ASSUME NEW p
    PROVE  LiveOn(p) \in SUBSET Comments /\ Cardinality(LiveOn(p)) \in Nat
  <1>1. LiveOn(p) \in SUBSET Comments
    BY DEF LiveOn, Live
  <1> QED BY <1>1, LossBound

\* A comment and its count arrive together.
LEMMA CommitCreateExact ==
    ASSUME Inv, Rows, CounterExact, NEW r \in Requests, CommitCreate(r)
    PROVE  CounterExact' /\ Takes(r)
  <1>p. PICK p \in Posts, n \in Comments : p = req[r].post /\ n = req[r].cmt /\ ~There(n)
    <2>1. /\ pc[r] = "commit" /\ Kind[r] = "createComment" /\ Labelled(r, "commit", req[r])
          /\ Known(r, "commit", req[r])
      BY DEF CommitCreate, Inv, LabelInv, Rows, KnownInv
    <2>2. NewId[r] \in Comments
      BY <2>1, RequestsAssumption DEF Creators
    <2> QED BY <2>1, <2>2 DEF Labelled, Known
  <1>1. /\ post \in [Posts -> PostRow] /\ comment \in [Comments -> CommentRow]
        /\ comment'[n].state = "live" /\ comment'[n].post = p
        /\ \A c \in Comments \ {n} : comment'[c] = comment[c]
    BY <1>p DEF CommitCreate, Inv, TypeOK
  <1>2. /\ post'[p].live = post[p].live /\ post'[p].count = post[p].count + 1
        /\ \A x \in Posts \ {p} : post'[x] = post[x]
    <2>1. post' = [post EXCEPT ![p].count = @ + 1]
      BY <1>p DEF CommitCreate
    <2> QED BY <1>1, <2>1 DEF PostRow
  <1>3. Takes(r)
    BY <1>p, <1>1 DEF Takes, Live, There
  <1>4. /\ LiveOn(p)' = LiveOn(p) \cup {n} /\ n \notin LiveOn(p)
        /\ \A x \in Posts \ {p} : LiveOn(x)' = LiveOn(x)
    BY <1>p, <1>1 DEF LiveOn, Live, There
  <1>5. Cardinality(LiveOn(p) \cup {n}) = Cardinality(LiveOn(p)) + 1
    <2>1. IsFiniteSet(LiveOn(p))
      BY CountIsFinite, KeysAssumption, FS_Subset
    <2> QED BY <1>4, <2>1, FS_AddElement
  <1>6. ASSUME NEW x \in Posts, post'[x].live PROVE post'[x].count = Cardinality(LiveOn(x)')
    <2>1. CASE x = p
      BY <1>2, <1>4, <1>5, <1>6, <2>1 DEF CounterExact
    <2>2. CASE x # p
      BY <1>2, <1>4, <1>6, <2>2 DEF CounterExact
    <2> QED BY <2>1, <2>2
  <1> QED BY <1>3, <1>6 DEF CounterExact

\* The rows that a deletion counts are those it removes.
LEMMA CommitDeleteCommentExact ==
    ASSUME Inv, Rows, Exact, NEW r \in Requests, CommitDeleteComment(r)
    PROVE  CounterExact' /\ Takes(r)
  <1>p. PICK p \in Posts, H \in SUBSET Comments : p = req[r].post /\ H = req[r].hit
    <2>1. pc[r] = "commit" /\ Labelled(r, "commit", req[r]) /\ req[r] \in Request
      BY DEF CommitDeleteComment, Inv, LabelInv, TypeOK
    <2> QED BY <2>1 DEF Labelled, Request
  <1>1. /\ post \in [Posts -> PostRow] /\ comment \in [Comments -> CommentRow]
        /\ pc[r] = "commit" /\ Kind[r] = "deleteComment"
        /\ \A c \in H : On(c, p)
        /\ post[p].live => H \subseteq Live
    BY <1>p DEF CommitDeleteComment, Inv, TypeOK, Rows, KnownInv, Known, Exact, Alive
  <1>2. /\ \A c \in Comments : OnlyMarked(c)
        /\ \A x : LiveOn(x)' = LiveOn(x) \ H
        /\ SoftDelete(H)
    BY <1>p, <1>1, SoftDeleteEffects DEF CommitDeleteComment, On, Rows
  <1>3. Takes(r)
    BY <1>p, <1>1, <1>2 DEF Takes, SoftDelete, Live
  <1>4. /\ post'[p].live = post[p].live /\ post'[p].count = post[p].count - Cardinality(H)
        /\ \A x \in Posts \ {p} : post'[x] = post[x]
    <2>1. post' = [post EXCEPT ![p].count = @ - Cardinality(H)]
      BY <1>p DEF CommitDeleteComment
    <2> QED BY <1>1, <2>1 DEF PostRow
  <1>5. ASSUME NEW x \in Posts, post'[x].live PROVE post'[x].count = Cardinality(LiveOn(x)')
    <2>1. CASE x = p
      <3>1. H \subseteq LiveOn(p) /\ post[p].count = Cardinality(LiveOn(p))
        BY <1>1, <1>4, <1>5, <2>1 DEF LiveOn, On, Exact, CounterExact
      <3>2. /\ IsFiniteSet(LiveOn(p)) /\ Cardinality(LiveOn(p)) \in Nat /\ Cardinality(H) \in Nat
        BY CountIsFinite, LossBound, KeysAssumption, FS_Subset
      <3>3. Cardinality(LiveOn(p) \ H) = Cardinality(LiveOn(p)) - Cardinality(H)
        <4>1. Cardinality(LiveOn(p) \ H) = Cardinality(LiveOn(p)) - Cardinality(LiveOn(p) \cap H)
          BY <3>2, FS_Difference
        <4>2. LiveOn(p) \cap H = H
          BY <3>1
        <4> QED BY <4>1, <4>2
      <3>4. LiveOn(p)' = LiveOn(p) \ H
        BY <1>2
      <3> QED BY <1>4, <2>1, <3>1, <3>3, <3>4
    <2>2. CASE x # p
      <3>1. LiveOn(x)' = LiveOn(x)
        BY <1>1, <1>2, <2>2 DEF LiveOn, On
      <3> QED BY <1>4, <1>5, <2>2, <3>1 DEF Exact, CounterExact
    <2> QED BY <2>1, <2>2
  <1> QED BY <1>3, <1>5 DEF CounterExact

\* The deletion of a post leaves the counters of the others alone.
LEMMA CommitDeletePostExact ==
    ASSUME Inv, Rows, CounterExact, NEW r \in Requests, CommitDeletePost(r)
    PROVE  CounterExact' /\ Takes(r)
  <1>p. PICK p \in Posts, H \in SUBSET Comments : p = req[r].post /\ H = req[r].hit
    <2>1. pc[r] = "commit" /\ Labelled(r, "commit", req[r]) /\ req[r] \in Request
      BY DEF CommitDeletePost, Inv, LabelInv, TypeOK
    <2> QED BY <2>1 DEF Labelled, Request
  <1>1. /\ post \in [Posts -> PostRow] /\ comment \in [Comments -> CommentRow]
        /\ pc[r] = "commit" /\ \A c \in H : On(c, p)
    BY <1>p DEF CommitDeletePost, Inv, TypeOK, Rows, KnownInv, Known
  <1>2. (\A x : LiveOn(x)' = LiveOn(x) \ H) /\ SoftDelete(H)
    BY <1>p, <1>1, SoftDeleteEffects DEF CommitDeletePost, On, Rows
  <1>3. ~post'[p].live /\ \A x \in Posts \ {p} : post'[x] = post[x]
    <2>1. post' = [post EXCEPT ![p].live = FALSE]
      BY <1>p DEF CommitDeletePost
    <2> QED BY <1>1, <2>1 DEF PostRow
  <1>4. Takes(r)
    BY <1>p, <1>1, <1>2, <1>3 DEF Takes, SoftDelete, Live
  <1>5. \A x \in Posts \ {p} : LiveOn(x)' = LiveOn(x)
    BY <1>1, <1>2 DEF LiveOn, On
  <1> QED BY <1>3, <1>4, <1>5 DEF CounterExact

LEMMA ExactInit == Init => Exact
  <1> SUFFICES ASSUME Init PROVE Exact
    OBVIOUS
  <1>1. ASSUME NEW p \in Posts PROVE post[p].count = Cardinality(LiveOn(p))
    <2>1. LiveOn(p) = {c \in Comments : Seed[c].state = "live" /\ Seed[c].post = p}
      BY DEF Init, LiveOn, Live
    <2> QED BY <2>1 DEF Init
  <1>2. \A r \in Requests : Alive(r, pc[r], req[r])
    BY DEF Init, Alive
  <1> QED BY <1>1, <1>2 DEF Exact, CounterExact

LEMMA ExactNext ==
    ASSUME Inv, Inv', Rows, Exact, DeletionsDisjoint, [Next]_vars
    PROVE  Exact'
  <1>1. ASSUME NEW r \in Requests,
               Check(r) \/ Statement(r) \/ Abort(r) \/ DeadlockAbort(r)
        PROVE  Exact'
    <2>1. Step(r) /\ Alive(r, pc[r], req[r])'
      BY <1>1, RequestStep, AliveStep
    <2>2. CounterExact' /\ Takes(r)
      <3>1. CASE Commit(r)
        BY <3>1, CommitCreateExact, CommitDeleteCommentExact, CommitDeletePostExact
           DEF Commit, Exact
      <3>2. CASE ~Commit(r)
        BY <1>1, <3>2, StillStep, StillExact DEF Exact
      <3> QED BY <3>1, <3>2
    <2> QED BY <2>1, <2>2, SettleExact
  <1>2. ASSUME UNCHANGED <<post, comment, pc, req>> PROVE Exact'
    BY <1>2 DEF Exact, CounterExact, Alive, Live, LiveOn
  <1>3. \A r \in Requests : Block(r) => UNCHANGED <<post, comment, pc, req>>
    BY DEF Block
  <1>4. Terminating \/ UNCHANGED vars => UNCHANGED <<post, comment, pc, req>>
    BY DEF Terminating, vars
  <1> QED BY <1>1, <1>2, <1>3, <1>4 DEF Next

\* comment_count is the number of live comments as long as no two deletions have
\* a comment in hand at the same time (comment/repository.go, Delete: the
\* outer UPDATE counts a row that another deletion has marked meanwhile): however
\* creations, edits, deletions and whole posts race, nothing else makes it drift.
THEOREM ExactUnlessDeletionsMeet == Spec /\ []DeletionsDisjoint => []CounterExact
  <1>1. Inv /\ Inv' /\ Rows /\ Exact /\ DeletionsDisjoint /\ [Next]_vars => Exact'
    BY ExactNext
  <1>2. Exact => CounterExact
    BY DEF Exact
  <1> QED BY <1>1, <1>2, ExactInit, RowsInvariance, PTL DEF Spec
=============================================================================
