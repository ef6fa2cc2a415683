----------------------------- MODULE Authoring -----------------------------
(***************************************************************************)
(* Writing posts: post.Service.Create, Update and Delete with their slugs, *)
(* publication times and events, against the unique index on live slugs;   *)
(* and what the listings of Listing show of the result.                    *)
(*                                                                         *)
(* INSERT and UPDATE are single statements and take effect in one step.    *)
(* Delete is a transaction: between its UPDATE and its COMMIT the row is   *)
(* locked and its slug still taken, and a statement that meets either      *)
(* waits.  The comments of a deleted post are in module Threads.           *)
(***************************************************************************)
EXTENDS Listing

CONSTANTS
    Posts,                  \* primary keys, in listing order
    Titles, Slugs,
    Slugify, WithSuffix,    \* what either may return, by title and by slug
    Requests, Actor,
    Kind,                   \* the operations each request may ask for
    Seed,                   \* the table at the start
    None

Kinds == {"create", "update", "delete"}
slugAttempts == 3

PostRow == [state     : {"absent", "live", "deleted"},
            author    : Users \cup {None},
            title     : Titles \cup {None},
            slug      : Slugs \cup {None},
            status    : Statuses,
            published : Requests \cup {"seed", "null"}]   \* whose now() it is

\* "tens of thousands of posts": the listing's numbers fit in an int.
ASSUME ListingFits ==
    /\ IsFiniteSet(Posts)
    /\ Cardinality(Posts) + MaxPageSize <= MaxInt

ASSUME AuthoringAssumption ==
    /\ Posts \subseteq Nat
    /\ Slugify \in [Titles -> (SUBSET Slugs) \ {{}}]
    /\ WithSuffix \in [Slugs -> (SUBSET Slugs) \ {{}}]
    /\ Kind \in [Requests -> SUBSET Kinds]
    /\ Actor \in [Requests -> Users]
    /\ None \notin Titles /\ None \notin Slugs /\ None \notin Statuses
    /\ "null" \notin Requests

\* posts_published_at_consistent
Consistent(row) == row.status = "published" <=> row.published # "null"

\* A slug of the title, with at most one suffix.
SlugOfTitle(slug, title) ==
    \E b \in Slugify[title] : slug = b \/ slug \in WithSuffix[b]

\* The live rows at the start are rows this program has written.
ASSUME SeedAssumption ==
    /\ Seed \in [Posts -> PostRow]
    /\ \A p \in Posts : Seed[p].state = "live" =>
          /\ Consistent(Seed[p])
          /\ Seed[p].title \in Titles
          /\ SlugOfTitle(Seed[p].slug, Seed[p].title)

VARIABLES
    post,       \* committed rows of posts
    pc,         \* the next statement of each request
    req,        \* its arguments and local variables
    answer,     \* its response
    event       \* the event it has published

vars == <<post, pc, req, answer, event>>

Labels == {"new", "insert", "update", "mark", "commit", "announce", "done"}
Answers == {"none", "ok", "403", "404", "409", "500"}
Events == {"none", "post.created", "post.updated", "post.published", "post.deleted"}

Request == [kind    : Kinds \cup {None},
            post    : Posts \cup {None},
            title   : Titles \cup {None},       \* None: not in the PATCH
            base    : Slugs \cup {None},        \* Slugify(title)
            status  : Statuses \cup {None},
            seen    : Statuses \cup {None},     \* currentStatus
            attempt : 0 .. slugAttempts,
            turned  : BOOLEAN]                  \* history: it made a draft public
NoRequest == [kind |-> None, post |-> None, title |-> None, base |-> None,
              status |-> None, seen |-> None, attempt |-> 0, turned |-> FALSE]

Asked(kind) == [NoRequest EXCEPT !.kind = kind]

TypeOK ==
    /\ post \in [Posts -> PostRow]
    /\ pc \in [Requests -> Labels]
    /\ req \in [Requests -> Request]
    /\ answer \in [Requests -> Answers]
    /\ event \in [Requests -> Events]

Init ==
    /\ post = Seed
    /\ pc = [r \in Requests |-> "new"]
    /\ req = [r \in Requests |-> NoRequest]
    /\ answer = [r \in Requests |-> "none"]
    /\ event = [r \in Requests |-> "none"]

Live == {p \in Posts : post[p].state = "live"}

-----------------------------------------------------------------------------
(* The unique index on live slugs, and the row locks of a deletion.        *)

\* Posts that a transaction has marked deleted and not committed.
BeingDeleted == {req[r].post : r \in {q \in Requests : pc[q] = "commit"}}

Holders(slug, p) == {q \in Live \ {p} : post[q].slug = slug}
Taken(slug, p) == Holders(slug, p) # {}
\* The index waits for the transaction that may release the slug.
SlugSettled(slug, p) == Holders(slug, p) \cap BeingDeleted = {}

Goto(r, label, q) ==
    /\ pc' = [pc EXCEPT ![r] = label]
    /\ req' = [req EXCEPT ![r] = q]
    /\ UNCHANGED <<answer, event>>

\* The response; the locals are gone, the history stays.
Answer(r, a) ==
    /\ pc' = [pc EXCEPT ![r] = "done"]
    /\ answer' = [answer EXCEPT ![r] = a]
    /\ req' = [req EXCEPT ![r] = [NoRequest EXCEPT !.turned = req[r].turned]]
    /\ UNCHANGED event

Reject(r, a) == Answer(r, a) /\ UNCHANGED post

\* A committed statement is announced, or its answer was lost on the way.
Committed(r, q) == Goto(r, "announce", q) \/ Answer(r, "500")

-----------------------------------------------------------------------------
(* Slugs: the first attempt is the title's own slug, the others append a   *)
(* suffix to it.                                                           *)

\* Mutant: the suffixed slug becomes the base of the next attempt.
CandidatesPiledUp(r) ==
    CASE req[r].attempt = 0 -> {req[r].base}
      [] req[r].attempt = 1 -> WithSuffix[req[r].base]
      [] OTHER -> UNION {WithSuffix[s] : s \in WithSuffix[req[r].base]}
Candidates(r) ==
    IF req[r].attempt = 0 THEN {req[r].base} ELSE WithSuffix[req[r].base]

\* ErrSlugTaken: the next attempt, or a 409 after the last one.
RetrySlug(r) ==
    LET n == req[r].attempt + 1 IN
    /\ IF n < slugAttempts THEN Goto(r, pc[r], [req[r] EXCEPT !.attempt = n])
                           ELSE Answer(r, "409")
    /\ UNCHANGED post

-----------------------------------------------------------------------------
(* Service.Create.                                                         *)

StartCreate(r) ==
    /\ pc[r] = "new" /\ "create" \in Kind[r]
    /\ \E t \in Titles, s \in Statuses : \E b \in Slugify[t] :
         Goto(r, "insert", [Asked("create") EXCEPT !.title = t, !.base = b, !.status = s])
    /\ UNCHANGED post

\* INSERT, with a fresh id for every attempt.
Insert(r) ==
    /\ pc[r] = "insert"
    /\ \E slug \in Candidates(r), id \in Posts :
         /\ post[id].state = "absent"
         /\ SlugSettled(slug, id)
         /\ \/ /\ Taken(slug, id)
               /\ RetrySlug(r)
            \/ /\ ~Taken(slug, id)
               /\ post' = [post EXCEPT ![id] =
                    [state |-> "live", author |-> Actor[r],
                     title |-> req[r].title, slug |-> slug,
                     status |-> req[r].status,
                     published |-> IF req[r].status = "published" THEN r ELSE "null"]]
               /\ Committed(r, [req[r] EXCEPT !.post = id])

-----------------------------------------------------------------------------
(* Service.Update and Service.Delete.                                      *)

\* AuthorOf and authorize, then to the statement `label' with the locals q.
Authorized(r, p, label, q) ==
    LET row == post[p] IN
    /\ \/ /\ p \notin Live
          /\ Reject(r, "404")
       \/ /\ p \in Live /\ ~CanModify(Actor[r], row.author)
          /\ Reject(r, IF row.status = "published" THEN "403" ELSE "404")
       \/ /\ p \in Live /\ CanModify(Actor[r], row.author)
          /\ Goto(r, label, [q EXCEPT !.post = p, !.seen = row.status])
    /\ UNCHANGED post

\* A PATCH of the title, the status, both, or the content alone.
StartUpdate(r) ==
    /\ pc[r] = "new" /\ "update" \in Kind[r]
    /\ \E p \in Posts, s \in Statuses \cup {None} :
         \/ Authorized(r, p, "update", [Asked("update") EXCEPT !.status = s])
         \/ \E t \in Titles : \E b \in Slugify[t] :
              Authorized(r, p, "update",
                         [Asked("update") EXCEPT !.title = t, !.base = b, !.status = s])

Publishes(r) == req[r].status = "published" /\ req[r].seen # "published"

\* Mutant: publishing again moves the publication time.
StampedEachTime(r, p) ==
    CASE req[r].status = "published" -> r
      [] req[r].status = "draft" -> "null"
      [] OTHER -> post[p].published

\* published_at as the SET list leaves it: built from the status that was read.
Stamped(r, p) ==
    CASE Publishes(r) -> r
      [] req[r].status = "draft" -> "null"
      [] OTHER -> post[p].published

\* The row as the UPDATE leaves it.
Updated(r, slug) ==
    LET p == req[r].post IN
    [post[p] EXCEPT
        !.title = IF req[r].title = None THEN @ ELSE req[r].title,
        !.slug = slug,
        !.status = IF req[r].status = None THEN @ ELSE req[r].status,
        !.published = Stamped(r, p)]

\* UPDATE ... WHERE id = $1 AND deleted_at IS NULL
Update(r) ==
    LET p == req[r].post IN
    /\ pc[r] = "update"
    /\ p \notin BeingDeleted
    /\ \E slug \in IF req[r].base = None THEN {post[p].slug} ELSE Candidates(r) :
         LET row == Updated(r, slug) IN
         \/ /\ p \notin Live
            /\ Reject(r, "404")
         \/ /\ p \in Live /\ ~Consistent(row)
            /\ Reject(r, "500")
         \/ /\ p \in Live /\ Consistent(row)
            /\ SlugSettled(slug, p) /\ Taken(slug, p)
            /\ RetrySlug(r)
         \/ /\ p \in Live /\ Consistent(row)
            /\ ~Taken(slug, p)
            /\ post' = [post EXCEPT ![p] = row]
            /\ Committed(r, [req[r] EXCEPT
                   !.turned = post[p].status = "draft" /\ row.status = "published"])

StartDelete(r) ==
    /\ pc[r] = "new" /\ "delete" \in Kind[r]
    /\ \E p \in Posts : Authorized(r, p, "mark", Asked("delete"))

\* The first statement of Repository.Delete locks the row.
MarkDeleted(r) ==
    LET p == req[r].post IN
    /\ pc[r] = "mark"
    /\ p \notin BeingDeleted
    /\ \/ p \in Live /\ Goto(r, "commit", req[r])
       \/ p \notin Live /\ Answer(r, "404")
    /\ UNCHANGED post

CommitDelete(r) ==
    /\ pc[r] = "commit"
    /\ post' = [post EXCEPT ![req[r].post].state = "deleted"]
    /\ Committed(r, req[r])

\* The context ends or the connection is lost before a statement took effect.
Abort(r) ==
    /\ pc[r] \in {"insert", "update", "mark", "commit"}
    /\ Reject(r, "500")

-----------------------------------------------------------------------------
(* The event of a request, published after its statement has committed.    *)

EventOf(r) ==
    CASE req[r].kind = "create" -> IF req[r].status = "published" THEN "post.published"
                                                             ELSE "post.created"
      [] req[r].kind = "delete" -> "post.deleted"
      [] OTHER -> IF Publishes(r) THEN "post.published" ELSE "post.updated"

Announce(r) ==
    /\ pc[r] = "announce"
    /\ pc' = [pc EXCEPT ![r] = "done"]
    /\ answer' = [answer EXCEPT ![r] = "ok"]
    /\ req' = [req EXCEPT ![r] = [NoRequest EXCEPT !.turned = req[r].turned]]
    /\ event' = [event EXCEPT ![r] = EventOf(r)]
    /\ UNCHANGED post

-----------------------------------------------------------------------------
Start(r) == StartCreate(r) \/ StartUpdate(r) \/ StartDelete(r)
Step(r) == \/ Insert(r) \/ Update(r) \/ MarkDeleted(r) \/ CommitDelete(r)
           \/ Announce(r)

Terminating ==
    /\ \A r \in Requests : pc[r] = "done"
    /\ UNCHANGED vars

Next ==
    \/ \E r \in Requests : Start(r) \/ Step(r) \/ Abort(r)
    \/ Terminating

Spec == Init /\ [][Next]_vars

-----------------------------------------------------------------------------
(* What must hold.                                                         *)

\* An acknowledged change that made a draft public was announced as
\* post.published, whatever other changes of the status it raced with:
\* posts_published_at_consistent refuses the UPDATE built from a stale status.
PublicationsAnnounced ==
    \A r \in Requests :
        answer[r] = "ok" /\ req[r].turned => event[r] = "post.published"

\* The slug of a live post belongs to its title, with at most one suffix:
\* renames that race and attempts that collide never leave another one.
SlugFollowsTitle ==
    \A p \in Live : SlugOfTitle(post[p].slug, post[p].title)

\* A listing never shows what the single-post endpoint would answer 404 to
\* (List rewrites the filter, ByID asks canView), and an author's own listing
\* shows all of it.
ListingAgreesWithView ==
    \A u \in Users \cup {Anyone}, a \in Users \cup {Anyone},
       s \in Statuses \cup {Anyone} :
        LET shown == Matching(post, u, a, s)
            mine == {p \in Live : post[p].author = u} IN
        ~Forbidden(u, a, s) =>
            /\ \A p \in shown : CanView(u, post[p])
            /\ a = u /\ u # Anyone /\ s = Anyone => shown = mine

\* The pages a client reaches by following has_next from page 1 are accepted,
\* by the parser and by the database; they show every matching post exactly
\* once, and each of them reports the true total.
PagesCoverListing ==
    \A u \in {Anyone} \cup Admins, limit \in 1 .. MaxPageSize :
        LET rows == Matching(post, u, Anyone, Anyone)
            n == Cardinality(rows)
            pages == 1 .. TotalPages(n, limit) IN
        /\ \A q \in rows : Cardinality({p \in pages : q \in Page(rows, p, limit)}) = 1
        /\ \A p \in pages :
             /\ <<p, limit>> \in PageRequests /\ ~Refused(p, limit)
             /\ Total(rows, p, limit) = n
             /\ HasNext(n, p, limit) <=> Page(rows, p + 1, limit) # {}
             /\ HasPrev(n, p) <=> p # 1

-----------------------------------------------------------------------------
(* What the repository says of the program and TLC refutes; see README.md. *)

\* "Re-publishing an already-published post does not move the original
\* publication time."
PublicationTimeKept ==
    [][\A p \in Live : post[p].status = "published" /\ post'[p].status = "published"
          => post'[p].published = post[p].published]_vars

=============================================================================
