---------------------------- MODULE LoginLedger ----------------------------
(***************************************************************************)
(* What rotating refresh tokens promise, without rows, locks, snapshots or *)
(* requests: an open login has exactly one token; a rotation exchanges it  *)
(* for one that was never used; a login that has ended does not open       *)
(* again, and no token comes back.                                         *)
(***************************************************************************)
CONSTANT Tokens     \* a login is named by the first token it was given

VARIABLES
    live,           \* the pairs of an open login and its token
    spent           \* the tokens that can never be exchanged again

lvars == <<live, spent>>

\* The logins open at the start still have their first token.
LInit ==
    /\ live \subseteq {<<t, t>> : t \in Tokens}
    /\ spent = {}

Unused(t) == t \notin spent /\ \A p \in live : p[2] # t

Open(f) ==
    /\ Unused(f)
    /\ live' = live \cup {<<f, f>>}
    /\ UNCHANGED spent

Exchange(p, n) ==
    /\ Unused(n)
    /\ live' = (live \ {p}) \cup {<<p[1], n>>}
    /\ spent' = spent \cup {p[2]}

\* A logout ends one login; a logout everywhere and a purge, any number.
End ==
    /\ live' \subseteq live
    /\ spent' = spent \cup {p[2] : p \in live \ live'}

LNext ==
    \/ End
    \/ \E f \in Tokens : Open(f)
    \/ \E p \in live, n \in Tokens : Exchange(p, n)

LSpec == LInit /\ [][LNext]_lvars
=============================================================================
