-------------------------- MODULE AuthoringProofs --------------------------
(***************************************************************************)
(* Proofs about Authoring, for any posts, titles, requests and seed: what  *)
(* listings show agrees with the single-post rule, publications are        *)
(* announced, and slugs follow their titles.                               *)
(***************************************************************************)
EXTENDS Authoring, FiniteSetTheorems, TLAPS

\* The arguments of a request, by the statement it is at.
ArgumentsInv ==
    \A r \in Requests :
        /\ pc[r] = "insert" =>
              /\ req[r].kind = "create" /\ req[r].title \in Titles
              /\ req[r].status \in Statuses
              /\ req[r].base # None
        /\ pc[r] = "update" => req[r].kind = "update" /\ req[r].seen \in Statuses
        /\ pc[r] \in {"update", "mark", "commit"} => req[r].post \in Posts
        /\ req[r].base = None <=> req[r].title = None
        /\ req[r].base # None => req[r].base \in Slugify[req[r].title]

\* A live row is consistent, and its slug belongs to its title.
RowInv == \A p \in Posts : post[p].state = "live" =>
              /\ Consistent(post[p])
              /\ post[p].title \in Titles
              /\ SlugOfTitle(post[p].slug, post[p].title)

\* Only a committed UPDATE turns a post, and it is one that publishes.
TurnedInv ==
    \A r \in Requests :
        /\ pc[r] \notin {"announce", "done"} => ~req[r].turned
        /\ pc[r] = "announce" /\ req[r].turned => req[r].kind = "update" /\ Publishes(r)
        /\ pc[r] # "done" => answer[r] = "none"

Inv == TypeOK /\ ArgumentsInv /\ RowInv /\ TurnedInv /\ PublicationsAnnounced

LEMMA InvInit == Init => Inv
  <1> SUFFICES ASSUME Init PROVE Inv
    OBVIOUS
  <1> USE AuthoringAssumption, SeedAssumption DEF Init
  <1>1. NoRequest \in Request
    BY DEF NoRequest, Request, slugAttempts
  <1>2. TypeOK
    BY <1>1 DEF TypeOK, Labels, Answers, Events
  <1>3. ArgumentsInv /\ TurnedInv /\ PublicationsAnnounced
    BY DEF ArgumentsInv, TurnedInv, PublicationsAnnounced, NoRequest
  <1>4. RowInv
    BY DEF RowInv
  <1> QED BY <1>2, <1>3, <1>4 DEF Inv

-----------------------------------------------------------------------------
(* What one step changes.                                                  *)

\* A request moves to another statement with the locals q.
LEMMA GotoStep ==
    ASSUME Inv, NEW r \in Requests, NEW label \in Labels \ {"done"}, NEW q \in Request,
           Goto(r, label, q), pc[r] # "done",
           post' \in [Posts -> PostRow], RowInv',
           label = "insert" =>
              q.kind = "create" /\ q.title \in Titles /\ q.status \in Statuses /\ q.base # None,
           label = "update" => q.kind = "update" /\ q.seen \in Statuses,
           label \in {"update", "mark", "commit"} => q.post \in Posts,
           q.base = None <=> q.title = None,
           q.base # None => q.base \in Slugify[q.title],
           q.turned => /\ label = "announce" /\ q.kind = "update"
                       /\ q.status = "published" /\ q.seen # "published"
    PROVE  Inv'
  <1> USE DEF Inv, Goto
  <1>1. /\ pc' \in [Requests -> Labels] /\ pc'[r] = label
        /\ req' \in [Requests -> Request] /\ req'[r] = q
        /\ \A s \in Requests \ {r} : pc'[s] = pc[s] /\ req'[s] = req[s]
        /\ answer' = answer /\ event' = event
    BY DEF TypeOK
  <1>2. TypeOK'
    BY <1>1 DEF TypeOK
  <1>3. ArgumentsInv'
    BY <1>1 DEF ArgumentsInv
  <1>4. TurnedInv'
    BY <1>1 DEF TurnedInv, Publishes
  <1>5. PublicationsAnnounced'
    BY <1>1 DEF PublicationsAnnounced, TurnedInv
  <1> QED BY <1>2, <1>3, <1>4, <1>5

\* A request is answered with an error.
LEMMA AnswerStep ==
    ASSUME Inv, NEW r \in Requests, NEW a \in Answers \ {"ok"}, Answer(r, a),
           post' \in [Posts -> PostRow], RowInv'
    PROVE  Inv'
  <1> USE DEF Inv, Answer
  <1> DEFINE left == [NoRequest EXCEPT !.turned = req[r].turned]
  <1>0. /\ left \in Request /\ left.base = None /\ left.title = None
        /\ left.turned = req[r].turned
    BY DEF TypeOK, NoRequest, Request, slugAttempts
  <1> HIDE DEF left
  <1>1. /\ pc' \in [Requests -> Labels] /\ pc'[r] = "done"
        /\ req' \in [Requests -> Request] /\ req'[r] = left
        /\ answer' \in [Requests -> Answers] /\ answer'[r] = a
        /\ \A s \in Requests \ {r} :
              pc'[s] = pc[s] /\ req'[s] = req[s] /\ answer'[s] = answer[s]
        /\ event' = event
    BY <1>0 DEF TypeOK, Labels, left
  <1>2. TypeOK'
    BY <1>1 DEF TypeOK
  <1>3. ArgumentsInv'
    BY <1>0, <1>1 DEF ArgumentsInv
  <1>4. TurnedInv'
    BY <1>1 DEF TurnedInv, Publishes
  <1>5. PublicationsAnnounced'
    BY <1>1 DEF PublicationsAnnounced
  <1> QED BY <1>2, <1>3, <1>4, <1>5

LEMMA RowsKept == ASSUME Inv, UNCHANGED post PROVE post' \in [Posts -> PostRow] /\ RowInv'
  BY DEF Inv, TypeOK, RowInv

LEMMA RejectStep ==
    ASSUME Inv, NEW r \in Requests, NEW a \in Answers \ {"ok"}, Reject(r, a)
    PROVE  Inv'
  BY AnswerStep, RowsKept DEF Reject

\* A statement has committed and leaves the rows as they must be.
LEMMA CommittedStep ==
    ASSUME Inv, NEW r \in Requests, pc[r] # "done", NEW q \in Request, Committed(r, q),
           post' \in [Posts -> PostRow], RowInv',
           q.base = None <=> q.title = None,
           q.base # None => q.base \in Slugify[q.title],
           q.turned => /\ q.kind = "update"
                       /\ q.status = "published" /\ q.seen # "published"
    PROVE  Inv'
  <1>1. CASE Goto(r, "announce", q)
    BY <1>1, GotoStep DEF Labels
  <1>2. CASE Answer(r, "500")
    BY <1>2, AnswerStep DEF Answers
  <1> QED BY <1>1, <1>2 DEF Committed

\* One row is replaced by a live one that is as it must be.
LEMMA RowWritten ==
    ASSUME Inv, NEW p \in Posts, NEW row \in PostRow, post' = [post EXCEPT ![p] = row],
           row.state = "live" => /\ Consistent(row) /\ row.title \in Titles
                                 /\ SlugOfTitle(row.slug, row.title)
    PROVE  post' \in [Posts -> PostRow] /\ RowInv'
  <1>1. post' \in [Posts -> PostRow] /\ post'[p] = row /\ \A i \in Posts \ {p} : post'[i] = post[i]
    BY DEF Inv, TypeOK
  <1> QED BY <1>1 DEF Inv, RowInv

\* The next attempt keeps everything but the attempt.
LEMMA RetryStep ==
    ASSUME Inv, NEW r \in Requests, pc[r] \in {"insert", "update"}, RetrySlug(r)
    PROVE  Inv'
  <1> DEFINE q == [req[r] EXCEPT !.attempt = req[r].attempt + 1]
  <1>1. CASE req[r].attempt + 1 < slugAttempts /\ Goto(r, pc[r], q) /\ UNCHANGED post
    <2>1. /\ q \in Request /\ q.kind = req[r].kind /\ q.title = req[r].title
          /\ q.base = req[r].base /\ q.status = req[r].status /\ q.seen = req[r].seen
          /\ q.post = req[r].post /\ q.turned = req[r].turned
      BY <1>1 DEF Inv, TypeOK, Request, slugAttempts
    <2> HIDE DEF q
    <2> QED BY <1>1, <2>1, GotoStep, RowsKept DEF Inv, ArgumentsInv, TurnedInv, Labels
  <1>2. CASE Answer(r, "409") /\ UNCHANGED post
    BY <1>2, AnswerStep, RowsKept DEF Answers
  <1> QED BY <1>1, <1>2 DEF RetrySlug

LEMMA CandidateOfTitle ==
    ASSUME Inv, NEW r \in Requests, req[r].base # None, NEW slug \in Candidates(r)
    PROVE  slug \in Slugs /\ req[r].title \in Titles /\ SlugOfTitle(slug, req[r].title)
  <1>1. req[r].title \in Titles /\ req[r].base \in Slugify[req[r].title]
    BY DEF Inv, ArgumentsInv, TypeOK, Request
  <1> QED BY <1>1, AuthoringAssumption DEF Candidates, SlugOfTitle

-----------------------------------------------------------------------------
(* The actions.                                                            *)

LEMMA AuthorizedStep ==
    ASSUME Inv, NEW r \in Requests, pc[r] = "new", NEW p \in Posts,
           NEW label \in {"update", "mark"}, NEW q \in Request, Authorized(r, p, label, q),
           label = "update" => q.kind = "update",
           ~q.turned, q.base = None <=> q.title = None,
           q.base # None => q.base \in Slugify[q.title]
    PROVE  Inv'
  <1> DEFINE known == [q EXCEPT !.post = p, !.seen = post[p].status]
  <1>1. CASE Reject(r, "404") \/ Reject(r, "403")
    BY <1>1, RejectStep DEF Answers
  <1>2. CASE Goto(r, label, known) /\ UNCHANGED post
    <2>1. /\ known \in Request /\ known.kind = q.kind /\ known.title = q.title
          /\ known.base = q.base /\ known.turned = q.turned /\ known.post = p
          /\ known.seen \in Statuses
      BY DEF Inv, TypeOK, Request, PostRow
    <2> HIDE DEF known
    <2> QED BY <1>2, <2>1, GotoStep, RowsKept DEF Labels
  <1> QED BY <1>1, <1>2 DEF Authorized

LEMMA AskedRequest ==
    ASSUME NEW kind \in Kinds
    PROVE  /\ Asked(kind) \in Request /\ Asked(kind).kind = kind /\ ~Asked(kind).turned
           /\ Asked(kind).title = None /\ Asked(kind).base = None
  <1>1. /\ NoRequest \in Request /\ ~NoRequest.turned
        /\ NoRequest.title = None /\ NoRequest.base = None
    BY DEF NoRequest, Request, slugAttempts
  <1> QED BY <1>1 DEF Asked, Request

LEMMA StartStep == ASSUME Inv, NEW r \in Requests, Start(r) PROVE Inv'
  <1> USE AuthoringAssumption
  <1>1. CASE StartCreate(r)
    <2>1. PICK t \in Titles, s \in Statuses : \E b \in Slugify[t] :
              Goto(r, "insert", [Asked("create") EXCEPT !.title = t, !.base = b, !.status = s])
      BY <1>1 DEF StartCreate
    <2>2. PICK b \in Slugify[t] :
              Goto(r, "insert", [Asked("create") EXCEPT !.title = t, !.base = b, !.status = s])
      BY <2>1
    <2> DEFINE q == [Asked("create") EXCEPT !.title = t, !.base = b, !.status = s]
    <2>3. /\ q \in Request /\ q.kind = "create" /\ q.title = t /\ q.base = b /\ q.status = s
          /\ ~q.turned
      BY AskedRequest DEF Request, Kinds
    <2>4. b \in Slugs /\ b # None /\ t # None
      OBVIOUS
    <2> HIDE DEF q
    <2> QED BY <1>1, <2>2, <2>3, <2>4, GotoStep, RowsKept DEF StartCreate, Labels, q
  <1>2. CASE StartUpdate(r)
    <2>1. PICK p \in Posts, s \in Statuses \cup {None} :
            \/ Authorized(r, p, "update", [Asked("update") EXCEPT !.status = s])
            \/ \E t \in Titles : \E b \in Slugify[t] :
                 Authorized(r, p, "update",
                            [Asked("update") EXCEPT !.title = t, !.base = b, !.status = s])
      BY <1>2 DEF StartUpdate
    <2>2. CASE Authorized(r, p, "update", [Asked("update") EXCEPT !.status = s])
      <3> DEFINE q == [Asked("update") EXCEPT !.status = s]
      <3>1. q \in Request /\ q.kind = "update" /\ q.title = None /\ q.base = None /\ ~q.turned
        BY AskedRequest DEF Request, Kinds
      <3> HIDE DEF q
      <3> QED BY <1>2, <2>2, <3>1, AuthorizedStep DEF StartUpdate, q
    <2>3. ASSUME NEW t \in Titles, NEW b \in Slugify[t],
                 Authorized(r, p, "update",
                            [Asked("update") EXCEPT !.title = t, !.base = b, !.status = s])
          PROVE  Inv'
      <3> DEFINE q == [Asked("update") EXCEPT !.title = t, !.base = b, !.status = s]
      <3>1. q \in Request /\ q.kind = "update" /\ q.title = t /\ q.base = b /\ ~q.turned
        BY AskedRequest DEF Request, Kinds
      <3>2. b \in Slugs /\ b # None /\ t # None
        OBVIOUS
      <3> HIDE DEF q
      <3> QED BY <1>2, <2>3, <3>1, <3>2, AuthorizedStep DEF StartUpdate, q
    <2> QED BY <2>1, <2>2, <2>3
  <1>3. CASE StartDelete(r)
    <2>1. PICK p \in Posts : Authorized(r, p, "mark", Asked("delete"))
      BY <1>3 DEF StartDelete
    <2> DEFINE q == Asked("delete")
    <2>2. q \in Request /\ q.title = None /\ q.base = None /\ ~q.turned
      BY AskedRequest DEF Request, Kinds
    <2> HIDE DEF q
    <2> QED BY <1>3, <2>1, <2>2, AuthorizedStep DEF StartDelete, q
  <1> QED BY <1>1, <1>2, <1>3 DEF Start

LEMMA InsertStep == ASSUME Inv, NEW r \in Requests, Insert(r) PROVE Inv'
  <1>1. PICK slug \in Candidates(r), id \in Posts :
          \/ RetrySlug(r)
          \/ /\ post' = [post EXCEPT ![id] =
                 [state |-> "live", author |-> Actor[r],
                  title |-> req[r].title, slug |-> slug,
                  status |-> req[r].status,
                  published |-> IF req[r].status = "published" THEN r ELSE "null"]]
             /\ Committed(r, [req[r] EXCEPT !.post = id])
    BY DEF Insert
  <1>2. CASE RetrySlug(r)
    BY <1>2, RetryStep DEF Insert
  <1>3. ASSUME ~RetrySlug(r) PROVE Inv'
    <2> DEFINE row == [state |-> "live", author |-> Actor[r],
                       title |-> req[r].title, slug |-> slug,
                       status |-> req[r].status,
                       published |-> IF req[r].status = "published" THEN r ELSE "null"]
               q == [req[r] EXCEPT !.post = id]
    <2>1. /\ req[r].title \in Titles /\ req[r].status \in Statuses /\ req[r].base # None
          /\ ~req[r].turned /\ req[r].base \in Slugify[req[r].title]
      BY DEF Insert, Inv, ArgumentsInv, TurnedInv
    <2>2. slug \in Slugs /\ SlugOfTitle(slug, req[r].title)
      BY <2>1, CandidateOfTitle
    <2>3. /\ row \in PostRow /\ row.title = req[r].title /\ row.slug = slug
          /\ Consistent(row)
      BY <2>1, <2>2, AuthoringAssumption DEF PostRow, Consistent
    <2>4. /\ q \in Request /\ q.title = req[r].title /\ q.base = req[r].base /\ ~q.turned
      BY <2>1 DEF Inv, TypeOK, Request
    <2>5. post' = [post EXCEPT ![id] = row] /\ Committed(r, q)
      BY <1>1, <1>3
    <2> HIDE DEF row, q
    <2>6. post' \in [Posts -> PostRow] /\ RowInv'
      BY <2>1, <2>2, <2>3, <2>5, RowWritten
    <2>7. q.base # None /\ q.title # None /\ q.base \in Slugify[q.title]
      BY <2>1, <2>4, AuthoringAssumption
    <2>8. pc[r] # "done"
      BY DEF Insert
    <2> QED BY <2>4, <2>5, <2>6, <2>7, <2>8, CommittedStep
  <1> QED BY <1>2, <1>3

LEMMA UpdateStep == ASSUME Inv, NEW r \in Requests, Update(r) PROVE Inv'
  <1> DEFINE p == req[r].post
  <1>1. /\ p \in Posts /\ req[r].kind = "update" /\ req[r].seen \in Statuses
        /\ ~req[r].turned /\ pc[r] = "update" /\ req[r] \in Request
        /\ req[r].base = None <=> req[r].title = None
        /\ req[r].base # None => req[r].base \in Slugify[req[r].title]
        /\ post[p] \in PostRow
    BY DEF Update, Inv, ArgumentsInv, TurnedInv, TypeOK
  <1>2. PICK slug \in IF req[r].base = None THEN {post[p].slug} ELSE Candidates(r) :
          LET row == Updated(r, slug) IN
          \/ Reject(r, "404") \/ Reject(r, "500") \/ RetrySlug(r)
          \/ /\ p \in Live /\ Consistent(row)
             /\ post' = [post EXCEPT ![p] = row]
             /\ Committed(r, [req[r] EXCEPT
                    !.turned = post[p].status = "draft" /\ row.status = "published"])
    BY DEF Update
  <1>3. CASE Reject(r, "404") \/ Reject(r, "500")
    BY <1>3, RejectStep DEF Answers
  <1>4. CASE RetrySlug(r)
    BY <1>1, <1>4, RetryStep
  <1>5. ASSUME p \in Live, Consistent(Updated(r, slug)),
               post' = [post EXCEPT ![p] = Updated(r, slug)],
               Committed(r, [req[r] EXCEPT
                   !.turned = post[p].status = "draft" /\ Updated(r, slug).status = "published"])
        PROVE  Inv'
    <2> DEFINE row == Updated(r, slug)
               publishes == post[p].status = "draft" /\ row.status = "published"
               q == [req[r] EXCEPT !.turned = publishes]
    <2>1. /\ post[p].state = "live" /\ Consistent(post[p]) /\ post[p].title \in Titles
          /\ SlugOfTitle(post[p].slug, post[p].title)
      BY <1>5 DEF Live, Inv, RowInv
    <2>2. /\ slug \in Slugs \cup {None}
          /\ req[r].base # None => /\ slug \in Slugs /\ req[r].title \in Titles
                                  /\ SlugOfTitle(slug, req[r].title)
          /\ req[r].base = None => slug = post[p].slug
      BY <1>1, CandidateOfTitle DEF PostRow
    <2>3. Stamped(r, p) \in Requests \cup {"seed", "null"}
      BY <1>1 DEF Stamped, PostRow
    <2>4. /\ row.title = (IF req[r].title = None THEN post[p].title ELSE req[r].title)
          /\ row.slug = slug
          /\ row.status = (IF req[r].status = None THEN post[p].status ELSE req[r].status)
          /\ row.published = Stamped(r, p)
          /\ row.state = post[p].state
      BY <1>1 DEF Updated, PostRow
    <2>5. row \in PostRow
      <3> DEFINE t == IF req[r].title = None THEN post[p].title ELSE req[r].title
                 st == IF req[r].status = None THEN post[p].status ELSE req[r].status
                 at == Stamped(r, p)
      <3>1. /\ t \in Titles \cup {None} /\ st \in Statuses
            /\ at \in Requests \cup {"seed", "null"}
        BY <1>1, <2>3 DEF PostRow, Request
      <3>2. row = [post[p] EXCEPT !.title = t, !.slug = slug, !.status = st, !.published = at]
        BY <1>1 DEF Updated, PostRow
      <3> HIDE DEF row, t, st, at
      <3> QED BY <1>1, <2>2, <3>1, <3>2 DEF PostRow
    <2>6. publishes => Publishes(r)
      BY <1>5, <2>1, <2>4 DEF Consistent, Stamped
    <2>7. /\ q \in Request /\ q.title = req[r].title /\ q.base = req[r].base
          /\ q.kind = "update" /\ q.status = req[r].status /\ q.seen = req[r].seen
          /\ q.turned = publishes
      BY <1>1 DEF Request
    <2>8. Consistent(row) /\ post' = [post EXCEPT ![p] = row] /\ Committed(r, q)
      BY <1>5
    <2>9. row.title \in Titles /\ SlugOfTitle(row.slug, row.title)
      BY <1>1, <2>1, <2>2, <2>4
    <2> HIDE DEF row, q, publishes
    <2>10. post' \in [Posts -> PostRow] /\ RowInv'
      BY <1>1, <2>5, <2>4, <2>8, <2>9, RowWritten
    <2> QED BY <1>1, <2>6, <2>7, <2>8, <2>10, CommittedStep DEF Publishes
  <1> QED BY <1>2, <1>3, <1>4, <1>5

LEMMA MarkStep == ASSUME Inv, NEW r \in Requests, MarkDeleted(r) PROVE Inv'
  <1>1. CASE Goto(r, "commit", req[r])
    BY <1>1, GotoStep, RowsKept DEF MarkDeleted, Inv, ArgumentsInv, TurnedInv, TypeOK, Labels
  <1>2. CASE Answer(r, "404")
    BY <1>2, AnswerStep, RowsKept DEF MarkDeleted, Answers
  <1> QED BY <1>1, <1>2 DEF MarkDeleted

LEMMA CommitStep == ASSUME Inv, NEW r \in Requests, CommitDelete(r) PROVE Inv'
  <1> DEFINE p == req[r].post
             row == [post[p] EXCEPT !.state = "deleted"]
  <1>1. p \in Posts /\ req[r] \in Request /\ ~req[r].turned
    BY DEF CommitDelete, Inv, ArgumentsInv, TurnedInv, TypeOK
  <1>2. post' = [post EXCEPT ![p] = row]
    BY DEF CommitDelete
  <1>3. row \in PostRow /\ row.state = "deleted"
    BY <1>1 DEF Inv, TypeOK, PostRow
  <1> HIDE DEF row
  <1>4. post' \in [Posts -> PostRow] /\ RowInv'
    BY <1>1, <1>2, <1>3, RowWritten
  <1> QED BY <1>1, <1>4, CommittedStep DEF CommitDelete, Inv, ArgumentsInv

LEMMA AnnounceStep == ASSUME Inv, NEW r \in Requests, Announce(r) PROVE Inv'
  <1> USE DEF Inv, Announce
  <1> DEFINE left == [NoRequest EXCEPT !.turned = req[r].turned]
  <1>1. /\ left \in Request /\ left.base = None /\ left.title = None
        /\ left.turned = req[r].turned
    BY DEF TypeOK, NoRequest, Request, slugAttempts
  <1>2. /\ EventOf(r) \in Events
        /\ req[r].turned => EventOf(r) = "post.published"
    BY DEF EventOf, Events, TurnedInv
  <1> HIDE DEF left
  <1>3. /\ pc' \in [Requests -> Labels] /\ pc'[r] = "done"
        /\ req' \in [Requests -> Request] /\ req'[r] = left
        /\ answer' \in [Requests -> Answers] /\ answer'[r] = "ok"
        /\ event' \in [Requests -> Events] /\ event'[r] = EventOf(r)
        /\ \A s \in Requests \ {r} : /\ pc'[s] = pc[s] /\ req'[s] = req[s]
                                     /\ answer'[s] = answer[s] /\ event'[s] = event[s]
        /\ post' = post
    BY <1>1, <1>2 DEF TypeOK, Labels, Answers, left
  <1>4. TypeOK'
    BY <1>3 DEF TypeOK
  <1>5. ArgumentsInv'
    BY <1>1, <1>3 DEF ArgumentsInv
  <1>6. RowInv'
    BY <1>3 DEF RowInv
  <1>7. TurnedInv'
    BY <1>3 DEF TurnedInv, Publishes
  <1>8. PublicationsAnnounced'
    BY <1>1, <1>2, <1>3 DEF PublicationsAnnounced
  <1> QED BY <1>4, <1>5, <1>6, <1>7, <1>8

LEMMA InvNext == Inv /\ [Next]_vars => Inv'
  <1> SUFFICES ASSUME Inv, [Next]_vars PROVE Inv'
    OBVIOUS
  <1>1. CASE UNCHANGED vars
    BY <1>1 DEF vars, Inv, TypeOK, ArgumentsInv, RowInv, TurnedInv, PublicationsAnnounced,
                Publishes
  <1>2. ASSUME NEW r \in Requests, Step(r) PROVE Inv'
    BY <1>2, InsertStep, UpdateStep, MarkStep, CommitStep, AnnounceStep DEF Step
  <1>3. ASSUME NEW r \in Requests, Abort(r) PROVE Inv'
    BY <1>3, RejectStep DEF Abort, Answers
  <1> QED BY <1>1, <1>2, <1>3, StartStep DEF Next, Terminating

-----------------------------------------------------------------------------
(* The theorems.                                                           *)

THEOREM Invariance == Spec => []Inv
  BY InvInit, InvNext, PTL DEF Spec

-----------------------------------------------------------------------------
(* Pages.                                                                  *)

LEMMA Products ==
    ASSUME NEW c \in Nat \ {0}, NEW a \in Int, NEW b \in Int
    PROVE  /\ a * c \in Int
           /\ a <= b <=> a * c <= b * c
           /\ (a + 1) * c = a * c + c /\ (a - 1) * c = a * c - c
  <1>1. a <= b => a * c <= b * c
    OBVIOUS
  <1>2. b + 1 <= a => (b + 1) * c <= a * c
    OBVIOUS
  <1>3. (b + 1) * c = b * c + c
    OBVIOUS
  <1>4. a * c \in Int /\ b * c \in Int
    OBVIOUS
  <1>5. ~(a <= b) => ~(a * c <= b * c)
    BY <1>2, <1>3, <1>4
  <1>6. (a + 1) * c = a * c + c /\ (a - 1) * c = a * c - c
    OBVIOUS
  <1> QED BY <1>1, <1>4, <1>5, <1>6

LEMMA Quotient ==
    ASSUME NEW a \in Nat, NEW b \in Nat \ {0}
    PROVE  /\ a \div b \in Nat /\ (a \div b) * b <= a /\ a < (a \div b) * b + b
           /\ a < b => a % b = a
  <1>1. /\ a \div b \in Nat /\ a % b \in 0 .. b - 1
        /\ a = (a \div b) * b + (a % b)
    OBVIOUS
  <1>2. a < b => a % b = a
    OBVIOUS
  <1> QED BY <1>1, <1>2

\* The ranks of a listing are the numbers from 1 to its length.
LEMMA Ranks ==
    ASSUME NEW rows \in SUBSET Nat, IsFiniteSet(rows)
    PROVE  /\ \A q \in rows : Rank(rows, q) \in 1 .. Cardinality(rows)
           /\ \A i \in 1 .. Cardinality(rows) : \E q \in rows : Rank(rows, q) = i
  <1> DEFINE From(q) == {x \in rows : x >= q}
             n == Cardinality(rows)
             f == [q \in rows |-> Rank(rows, q)]
  <1>1. n \in Nat
    BY FS_CardinalityType
  <1>2. ASSUME NEW q \in rows
        PROVE  IsFiniteSet(From(q)) /\ q \in From(q) /\ From(q) \in SUBSET rows
    <2>1. q \in From(q) /\ From(q) \in SUBSET rows
      OBVIOUS
    <2> HIDE DEF From
    <2> QED BY <2>1, FS_Subset
  <1>3. ASSUME NEW q \in rows
        PROVE  Rank(rows, q) \in 1 .. n
    <2>1. Rank(rows, q) = Cardinality(From(q))
      BY DEF Rank
    <2> HIDE DEF From
    <2>2. Cardinality(From(q)) \in Nat /\ Cardinality(From(q)) <= n
      BY <1>2, FS_Subset, FS_CardinalityType
    <2>3. Cardinality(From(q)) # 0
      BY <1>2, FS_EmptySet
    <2> QED BY <1>1, <2>1, <2>2, <2>3
  <1>4. ASSUME NEW q \in rows, NEW x \in rows, q < x
        PROVE  Rank(rows, q) # Rank(rows, x)
    <2>1. From(x) \in SUBSET From(q) /\ q \notin From(x)
      <3>1. q \in Nat /\ x \in Nat /\ \A y \in rows : y \in Nat
        OBVIOUS
      <3>2. \A y \in rows : y >= x => y >= q
        BY <1>4, <3>1
      <3>3. ~(q >= x)
        BY <1>4, <3>1
      <3> QED BY <3>2, <3>3
    <2>2. Rank(rows, q) = Cardinality(From(q)) /\ Rank(rows, x) = Cardinality(From(x))
      BY DEF Rank
    <2> HIDE DEF From
    <2> QED BY <1>2, <2>1, <2>2, FS_Subset
  <1>5. ASSUME NEW q \in rows, NEW x \in rows, q # x
        PROVE  Rank(rows, q) # Rank(rows, x)
    <2>1. q < x \/ x < q
      BY <1>5
    <2> QED BY <1>4, <2>1
  <1>6. f \in Injection(rows, 1 .. n)
    BY <1>3, <1>5 DEF Injection, IsInjective
  <1>7. IsFiniteSet(1 .. n) /\ Cardinality(1 .. n) = n
    <2>1. 1 \in Int /\ n \in Int
      BY <1>1
    <2> QED BY <1>1, <2>1, FS_Interval
  <1>8. f \in Surjection(rows, 1 .. n)
    <2> HIDE DEF f
    <2> QED BY <1>6, <1>7, FS_Injection
  <1> QED BY <1>3, <1>8 DEF Surjection

\* The number of pages is the length of the listing over the limit, rounded up.
LEMMA PageCount ==
    ASSUME NEW n \in Nat, NEW limit \in Nat \ {0}
    PROVE  LET pages == TotalPages(n, limit) IN
           /\ pages \in Nat /\ pages <= n
           /\ n <= pages * limit /\ pages * limit <= n + limit - 1
  <1> DEFINE m == n + limit - 1
             t == TotalPages(n, limit)
  <1>1. m \in Nat /\ t = m \div limit
    BY DEF TotalPages
  <1>2. t \in Nat /\ t * limit <= m /\ m < t * limit + limit
    <2> HIDE DEF m, t
    <2> QED BY <1>1, Quotient
  <1>3. t * limit \in Int
    <2> HIDE DEF t
    <2> QED BY <1>2, Products
  <1>4. ~(n + 1 <= t)
    <2> SUFFICES ASSUME n + 1 <= t PROVE FALSE
      OBVIOUS
    <2> HIDE DEF t
    <2>1. (n + 1) * limit <= t * limit
      BY <1>2, Products
    <2>2. (n + 1) * limit = n * limit + limit /\ n * 1 <= n * limit /\ n * limit \in Int
      OBVIOUS
    <2> QED BY <1>2, <1>3, <2>1, <2>2
  <1> HIDE DEF t
  <1> QED BY <1>2, <1>3, <1>4 DEF t

\* While it fits in an int, an offset is what it looks like.
LEMMA OffsetFits ==
    ASSUME NEW page \in Nat \ {0}, NEW limit \in Nat \ {0}, (page - 1) * limit <= MaxInt
    PROVE  Offset(page, limit) = (page - 1) * limit /\ (page - 1) * limit \in Nat
  <1> DEFINE o == (page - 1) * limit
             b == 2 * (MaxInt + 1)
  <1>1. o \in Nat /\ MaxInt \in Nat /\ o <= MaxInt
    BY ListingAssumption
  <1> HIDE DEF o
  <1>2. o + MaxInt + 1 \in Nat /\ b \in Nat \ {0} /\ o + MaxInt + 1 < b
    BY <1>1
  <1>3. (o + MaxInt + 1) % b = o + MaxInt + 1
    <2> HIDE DEF b
    <2> QED BY <1>2, Quotient
  <1>4. Wrap(o) = o
    BY <1>1, <1>3 DEF Wrap
  <1> QED BY <1>1, <1>4 DEF Offset, o

\* The rows of a page are those whose rank it has room for.
LEMMA PageRows ==
    ASSUME NEW rows \in SUBSET Posts, NEW limit \in 1 .. MaxPageSize,
           NEW page \in 1 .. TotalPages(Cardinality(rows), limit) + 1
    PROVE  /\ Offset(page, limit) = (page - 1) * limit /\ (page - 1) * limit \in Nat
           /\ \A q \in rows : q \in Page(rows, page, limit) <=>
                 (page - 1) * limit < Rank(rows, q) /\ Rank(rows, q) <= page * limit
  <1> DEFINE n == Cardinality(rows)
             t == TotalPages(n, limit)
  <1>1. /\ rows \in SUBSET Nat /\ IsFiniteSet(rows) /\ n \in Nat /\ n + MaxPageSize <= MaxInt
        /\ limit \in Nat \ {0} /\ limit <= MaxPageSize /\ MaxInt \in Nat /\ MaxPageSize \in Nat
    <2>1. IsFiniteSet(rows) /\ n <= Cardinality(Posts) /\ n \in Nat /\ Cardinality(Posts) \in Nat
      BY ListingFits, FS_Subset, FS_CardinalityType
    <2> QED BY <2>1, ListingFits, ListingAssumption, AuthoringAssumption
  <1>2. t \in Nat /\ t * limit <= n + limit - 1 /\ t * limit \in Int
    <2>1. t \in Nat /\ t * limit <= n + limit - 1
      <3> HIDE DEF n
      <3> QED BY <1>1, PageCount
    <2> HIDE DEF n, t
    <2> QED BY <1>1, <2>1, Products
  <1>3. page \in Nat \ {0} /\ page - 1 <= t /\ page - 1 \in Int
    <2>1. page \in 1 .. t + 1
      OBVIOUS
    <2> HIDE DEF n, t
    <2> QED BY <1>2, <2>1
  <1> HIDE DEF n, t
  <1>4. (page - 1) * limit <= t * limit /\ (page - 1) * limit \in Int
    BY <1>1, <1>2, <1>3, Products
  <1>5. Offset(page, limit) = (page - 1) * limit /\ (page - 1) * limit \in Nat
    <2>1. (page - 1) * limit <= MaxInt
      BY <1>1, <1>2, <1>4
    <2> QED BY <1>1, <1>3, <2>1, OffsetFits
  <1>6. (page - 1) * limit = page * limit - limit /\ page * limit \in Int
    BY <1>1, <1>3, Products
  <1>7. ASSUME NEW q \in rows
        PROVE  q \in Page(rows, page, limit) <=>
                 (page - 1) * limit < Rank(rows, q) /\ Rank(rows, q) <= page * limit
    <2>1. Rank(rows, q) \in Int
      BY <1>1, Ranks DEF n
    <2>2. q \in Page(rows, page, limit) <=>
            Rank(rows, q) \in Offset(page, limit) + 1 .. Offset(page, limit) + limit
      BY DEF Page
    <2> QED BY <1>1, <1>5, <1>6, <2>1, <2>2
  <1> QED BY <1>5, <1>7

\* What a client sees that follows has_next through a listing that stands still.
LEMMA PagesPartition ==
    ASSUME NEW rows \in SUBSET Posts, NEW limit \in 1 .. MaxPageSize
    PROVE  LET n == Cardinality(rows)
               pages == 1 .. TotalPages(n, limit) IN
           /\ \A q \in rows : Cardinality({p \in pages : q \in Page(rows, p, limit)}) = 1
           /\ \A p \in pages :
                /\ <<p, limit>> \in PageRequests /\ ~Refused(p, limit)
                /\ Total(rows, p, limit) = n
                /\ HasNext(n, p, limit) <=> Page(rows, p + 1, limit) # {}
                /\ HasPrev(n, p) <=> p # 1
  <1> DEFINE n == Cardinality(rows)
             t == TotalPages(n, limit)
             pages == 1 .. t
  <1>1. /\ rows \in SUBSET Nat /\ IsFiniteSet(rows) /\ n \in Nat /\ n <= MaxInt
        /\ limit \in Nat \ {0} /\ MaxInt \in Nat
    <2>1. IsFiniteSet(rows) /\ n <= Cardinality(Posts) /\ n \in Nat /\ Cardinality(Posts) \in Nat
      BY ListingFits, FS_Subset, FS_CardinalityType
    <2> QED BY <2>1, ListingFits, ListingAssumption, AuthoringAssumption
  <1>2. /\ t \in Nat /\ t <= n /\ n <= t * limit /\ t * limit <= n + limit - 1
        /\ t * limit \in Int
    <2>1. t \in Nat /\ t <= n /\ n <= t * limit /\ t * limit <= n + limit - 1
      <3> HIDE DEF n
      <3> QED BY <1>1, PageCount
    <2> HIDE DEF n, t
    <2> QED BY <1>1, <2>1, Products
  <1>3. /\ \A q \in rows : Rank(rows, q) \in 1 .. n
        /\ \A i \in 1 .. n : \E q \in rows : Rank(rows, q) = i
    BY <1>1, Ranks
  <1>4. \A p \in 1 .. t + 1 :
          /\ Offset(p, limit) = (p - 1) * limit /\ (p - 1) * limit \in Nat
          /\ \A q \in rows : q \in Page(rows, p, limit) <=>
                (p - 1) * limit < Rank(rows, q) /\ Rank(rows, q) <= p * limit
    BY PageRows
  <1> HIDE DEF n, t
  <1>5. ASSUME NEW q \in rows
        PROVE  Cardinality({p \in pages : q \in Page(rows, p, limit)}) = 1
    <2> DEFINE i == Rank(rows, q)
               o == (i - 1) \div limit
    <2>1. i \in Nat /\ 1 <= i /\ i <= n /\ i - 1 \in Nat
      BY <1>1, <1>3
    <2>2. o \in Nat /\ o * limit <= i - 1 /\ i - 1 < o * limit + limit /\ o * limit \in Int
      <3> HIDE DEF i
      <3>1. o \in Nat /\ o * limit <= i - 1 /\ i - 1 < o * limit + limit
        BY <1>1, <2>1, Quotient
      <3> HIDE DEF o
      <3> QED BY <1>1, <3>1, Products
    <2> HIDE DEF i, o
    <2>3. (o + 1) * limit = o * limit + limit
      BY <1>1, <2>2, Products
    <2>4. o + 1 \in pages
      <3>1. ~(t <= o)
        <4>1. t <= o => t * limit <= o * limit
          BY <1>1, <1>2, <2>2, Products
        <4> QED BY <1>1, <1>2, <2>1, <2>2, <4>1
      <3> QED BY <1>2, <2>2, <3>1
    <2>5. ASSUME NEW p \in pages
          PROVE  q \in Page(rows, p, limit) <=> p = o + 1
      <3>1. /\ p \in Int /\ p \in 1 .. t + 1 /\ p * limit \in Int
            /\ (p - 1) * limit = p * limit - limit
        BY <1>1, <1>2, Products
      <3>2. q \in Page(rows, p, limit) <=> p * limit - limit < i /\ i <= p * limit
        BY <1>4, <3>1 DEF i
      <3>3. ~(p <= o) \/ p * limit <= o * limit
        BY <1>1, <2>2, <3>1, Products
      <3>4. ~(o + 2 <= p) \/ o * limit + limit + limit <= p * limit
        <4>1. (o + 2) * limit = o * limit + limit + limit /\ o + 2 \in Int
          <5>1. ((o + 1) + 1) * limit = (o + 1) * limit + limit /\ o + 2 = (o + 1) + 1
            BY <1>1, <2>2, Products
          <5> QED BY <2>2, <2>3, <5>1
        <4> QED BY <1>1, <3>1, <4>1, Products
      <3>5. p = o + 1 => p * limit = o * limit + limit
        BY <2>3
      <3> QED BY <1>1, <2>1, <2>2, <3>1, <3>2, <3>3, <3>4, <3>5
    <2>6. {p \in pages : q \in Page(rows, p, limit)} = {o + 1}
      BY <2>4, <2>5
    <2> QED BY <2>6, FS_Singleton
  <1>6. ASSUME NEW p \in 1 .. t
        PROVE  Page(rows, p, limit) # {}
    <2>1. /\ (p - 1) * limit = p * limit - limit /\ p * limit <= t * limit /\ p * limit \in Int
          /\ p \in 1 .. t + 1
      BY <1>1, <1>2, Products
    <2> DEFINE i == p * limit - limit + 1
    <2>2. i \in 1 .. n
      <3>1. p * limit - limit \in Nat
        BY <1>4, <2>1
      <3> QED BY <1>1, <1>2, <2>1, <3>1
    <2>3. PICK q \in rows : Rank(rows, q) = i
      BY <1>3, <2>2
    <2>4. (p - 1) * limit < Rank(rows, q) /\ Rank(rows, q) <= p * limit
      BY <1>1, <2>1, <2>2, <2>3
    <2> QED BY <1>4, <2>1, <2>4
  <1>7. Page(rows, t + 1, limit) = {}
    <2> SUFFICES ASSUME NEW q \in rows, q \in Page(rows, t + 1, limit)
                 PROVE  FALSE
      BY DEF Page
    <2>1. t + 1 \in 1 .. t + 1 /\ (t + 1) - 1 = t
      BY <1>2
    <2>2. t * limit < Rank(rows, q)
      BY <1>4, <2>1
    <2> QED BY <1>1, <1>2, <1>3, <2>2
  <1>8. ASSUME NEW p \in pages
        PROVE  /\ <<p, limit>> \in PageRequests /\ ~Refused(p, limit)
               /\ Total(rows, p, limit) = n
               /\ HasNext(n, p, limit) <=> Page(rows, p + 1, limit) # {}
               /\ HasPrev(n, p) <=> p # 1
    <2>1. p \in Nat /\ 1 <= p /\ p <= t /\ n >= 1
      BY <1>1, <1>2
    <2>2. <<p, limit>> \in PageRequests
      BY <1>1, <1>2, <2>1 DEF PageRequests
    <2>3. ~Refused(p, limit)
      <3>1. p \in 1 .. t + 1
        BY <1>2, <2>1
      <3>2. Offset(p, limit) \in Nat
        BY <1>4, <3>1
      <3> QED BY <3>2 DEF Refused
    <2>4. Total(rows, p, limit) = n
      BY <1>6 DEF Total, n
    <2>5. HasNext(n, p, limit) <=> Page(rows, p + 1, limit) # {}
      <3>1. HasNext(n, p, limit) <=> p < t
        BY DEF HasNext, t
      <3>2. CASE p < t
        <4>1. p + 1 \in 1 .. t
          BY <1>2, <2>1, <3>2
        <4> QED BY <1>6, <3>1, <3>2, <4>1
      <3>3. CASE p = t
        BY <1>2, <1>7, <3>1, <3>3
      <3> QED BY <1>2, <2>1, <3>2, <3>3
    <2>6. HasPrev(n, p) <=> p # 1
      BY <1>1, <2>1 DEF HasPrev
    <2> QED BY <2>2, <2>3, <2>4, <2>5, <2>6
  <1> QED BY <1>5, <1>8 DEF n, t

-----------------------------------------------------------------------------
(* What the invariant says of the program.                                 *)

\* Rows, locals, answers and events keep their types.
THEOREM TypeCorrect == Spec => []TypeOK
  BY Invariance, PTL DEF Inv

\* post.Service publishes an event only after its statement has committed.  An
\* acknowledged UPDATE that made a draft public is announced as post.published:
\* published_at is stamped from the status that was read, and the table's CHECK
\* refuses the UPDATE when that status is stale.
THEOREM Announced == Spec => []PublicationsAnnounced
  BY Invariance, PTL DEF Inv

\* The slug that Create and Update leave on a live post belongs to its title,
\* with one suffix at most, whatever attempts collided.
THEOREM SlugsFollow == Spec => []SlugFollowsTitle
  <1>1. Inv => SlugFollowsTitle
    BY DEF Inv, RowInv, SlugFollowsTitle, Live
  <1> QED BY Invariance, <1>1, PTL

\* Service.List shows a caller only what Service.Get would show, and shows an
\* author all of his own posts, for any callers, filters and posts.
THEOREM ListingAgrees == Spec => []ListingAgreesWithView
  <1>1. Inv => ListingAgreesWithView
    <2> SUFFICES ASSUME Inv,
                        NEW u \in Users \cup {Anyone}, NEW a \in Users \cup {Anyone},
                        NEW s \in Statuses \cup {Anyone}
                 PROVE  LET shown == Matching(post, u, a, s)
                            mine == {p \in Live : post[p].author = u} IN
                        /\ \A p \in shown : CanView(u, post[p])
                        /\ a = u /\ u # Anyone /\ s = Anyone => shown = mine
      BY DEF ListingAgreesWithView
    <2>1. DOMAIN post = Posts
      BY DEF Inv, TypeOK
    <2>2. \A p \in Matching(post, u, a, s) : CanView(u, post[p])
      BY ListingAssumption
         DEF Matching, StatusFilter, Privileged, CanView, CanModify, Statuses
    <2>3. a = u /\ u # Anyone /\ s = Anyone =>
            Matching(post, u, a, s) = {p \in Live : post[p].author = u}
      BY <2>1 DEF Matching, StatusFilter, Privileged, Live
    <2> QED BY <2>2, <2>3
  <1> QED BY Invariance, <1>1, PTL

\* Offset, the rounded-up number of pages, has_next and the total that rides on
\* the rows fit together: a client that follows has_next from page 1 gets every
\* matching post exactly once, for any posts and any limit.
THEOREM PagesCover == Spec => []PagesCoverListing
  <1>1. Inv => PagesCoverListing
    <2> SUFFICES ASSUME Inv, NEW u \in {Anyone} \cup Admins, NEW limit \in 1 .. MaxPageSize
                 PROVE  LET rows == Matching(post, u, Anyone, Anyone)
                            n == Cardinality(rows)
                            pages == 1 .. TotalPages(n, limit) IN
                        /\ \A q \in rows :
                             Cardinality({p \in pages : q \in Page(rows, p, limit)}) = 1
                        /\ \A p \in pages :
                             /\ <<p, limit>> \in PageRequests /\ ~Refused(p, limit)
                             /\ Total(rows, p, limit) = n
                             /\ HasNext(n, p, limit) <=> Page(rows, p + 1, limit) # {}
                             /\ HasPrev(n, p) <=> p # 1
      BY DEF PagesCoverListing
    <2>1. Matching(post, u, Anyone, Anyone) \in SUBSET Posts
      BY DEF Matching, Inv, TypeOK
    <2> QED BY <2>1, PagesPartition
  <1> QED BY Invariance, <1>1, PTL
=============================================================================
