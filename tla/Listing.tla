------------------------------ MODULE Listing ------------------------------
(***************************************************************************)
(* What one listing request returns: the visibility rule of                *)
(* post.Service.List, the WHERE, LIMIT and OFFSET of post.Repository.List, *)
(* and the metadata of httpx.NewPagination.                                *)
(*                                                                         *)
(* A row is a record with state, author and status.  Ids are numbers in    *)
(* the order of the listing: ORDER BY created_at DESC, id DESC is total.   *)
(***************************************************************************)
EXTENDS Integers, FiniteSets

CONSTANTS
    Users, Admins,
    Anyone,         \* no signed-in caller; also an absent filter
    MaxInt,         \* math.MaxInt of the build: int is -MaxInt - 1 .. MaxInt
    MaxPageSize     \* httpx.MaxPageSize

Statuses == {"draft", "published"}

ASSUME ListingAssumption ==
    /\ Admins \subseteq Users
    /\ Anyone \notin Users /\ Anyone \notin Statuses
    /\ MaxInt \in Nat \ {0}
    /\ MaxPageSize \in Nat \ {0}

-----------------------------------------------------------------------------
(* Who sees what.                                                          *)

CanModify(u, owner) == u # Anyone /\ (u = owner \/ u \in Admins)

\* canView, the rule of the single-post endpoint.
CanView(u, row) == row.status = "published" \/ CanModify(u, row.author)

\* Mutant: any author filter makes a signed-in caller privileged.
PrivilegedByFilter(u, author) == u # Anyone /\ (u \in Admins \/ author # Anyone)

\* Allowed to see drafts in this listing.
Privileged(u, author) == u # Anyone /\ (u \in Admins \/ u = author)

\* Asking for drafts one is not entitled to answers 403.
Forbidden(u, author, status) == ~Privileged(u, author) /\ status = "draft"

\* The status filter after the rewrite.
StatusFilter(u, author, status) ==
    IF Privileged(u, author) THEN status ELSE "published"

\* The rows of the WHERE clause.
Matching(table, u, author, status) ==
    LET wanted == StatusFilter(u, author, status) IN
    {i \in DOMAIN table :
        /\ table[i].state = "live"
        /\ author # Anyone => table[i].author = author
        /\ wanted # Anyone => table[i].status = wanted}

-----------------------------------------------------------------------------
(* Pages.                                                                  *)

\* The int arithmetic of Go wraps.
Wrap(n) == ((n + MaxInt + 1) % (2 * (MaxInt + 1))) - MaxInt - 1

\* Mutant: pages counted from zero.
OffsetFromZero(page, limit) == Wrap(page * limit)
Offset(page, limit) == Wrap((page - 1) * limit)

\* What ParsePageRequest accepts.
PageRequests == (1 .. MaxInt) \X (1 .. MaxPageSize)

\* The place of a row in the listing, from 1.
Rank(rows, q) == Cardinality({x \in rows : x >= q})

\* LIMIT limit OFFSET offset; PostgreSQL refuses a negative OFFSET, and the
\* refusal is answered with a 500.
Refused(page, limit) == Offset(page, limit) < 0
Page(rows, page, limit) ==
    LET from == Offset(page, limit) IN
    {q \in rows : Rank(rows, q) \in from + 1 .. from + limit}

\* COUNT(*) OVER () rides on the rows: an empty page reports a total of zero.
Total(rows, page, limit) ==
    IF Page(rows, page, limit) = {} THEN 0 ELSE Cardinality(rows)

TotalPages(total, limit) == (total + limit - 1) \div limit

HasNext(total, page, limit) == page < TotalPages(total, limit)
HasPrev(total, page) == page > 1 /\ total > 0
=============================================================================
