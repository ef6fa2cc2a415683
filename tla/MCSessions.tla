----------------------------- MODULE MCSessions -----------------------------
(***************************************************************************)
(* Small token tables and sets of requests for Sessions.                   *)
(***************************************************************************)
EXTENDS Sessions

CONSTANTS t1, t3, t4, t5, ann, bob, r1, r2, r3, r4, r5, r6

\* One session of ann at the start.
SeedOne == [t \in Tokens |-> IF t = t1 THEN ann ELSE NoRow]

NewIds == [r \in Issuers |-> CASE r = r1 -> t3
                               [] r = r2 -> t4
                               [] OTHER  -> t5]
AllAnn == [r \in Requests |-> ann]

\* Two refreshes that may present the same token, a logout, a new login, the
\* purge of expired rows and a logout everywhere; some of them never come.
AllKinds ==
    [r \in Requests |-> CASE r \in {r1, r2} -> "refresh"
                          [] r = r3 -> "logout"
                          [] r = r4 -> "login"
                          [] r = r5 -> "purge"
                          [] OTHER  -> "logoutAll"]
=============================================================================
