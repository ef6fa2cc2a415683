----------------------------- MODULE MCAccounts -----------------------------
(***************************************************************************)
(* A small set of names and requests for Accounts.                         *)
(***************************************************************************)
EXTENDS Accounts

CONSTANTS r1, r2, r3, ann, Ann, eve, bob, b1, pw, px, long

Fold == [n \in Names |-> IF n = Ann THEN ann ELSE n]

Bob == [id |-> b1, email |-> bob, username |-> bob, password |-> pw]
OneSeed == {Bob}

\* A call with the fields its handler ignores at a fixed value.
Ask(kind, email, username, password) ==
    [kind |-> kind, email |-> email, username |-> username, password |-> password,
     blank |-> FALSE, id |-> b1]

\* Two registrations that want the same address, or only the same username, and a
\* request of any other kind, among them the logins to both accounts and two
\* registrations that fail.
Calls ==
    [r \in Requests |->
       CASE r = r1 -> {Ask("register", ann, ann, pw)}
         [] r = r2 -> {Ask("register", Ann, eve, px), Ask("register", eve, Ann, px)}
         [] OTHER  -> {Ask("login", Ann, ann, pw), Ask("login", bob, bob, pw),
                       Ask("register", eve, eve, long),
                       [Ask("register", eve, eve, px) EXCEPT !.blank = TRUE],
                       [Ask("updateMe", bob, bob, pw) EXCEPT !.blank = TRUE]}
                      \cup {Ask(k, bob, bob, pw) : k \in {"updateMe", "user", "change",
                                                          "ready", "live"}}]
=============================================================================
