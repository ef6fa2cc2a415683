--------------------------- MODULE SessionsProofs ---------------------------
(***************************************************************************)
(* Proofs about Sessions, for every set of tokens, accounts and requests.  *)
(*                                                                         *)
(* A refresh commits holding the row of the presented token, still active: *)
(* no other refresh of it and no logout can have taken it in between.  The *)
(* tokens that undecided requests have drawn are known to nobody else.     *)
(***************************************************************************)
EXTENDS Sessions, TLAPS

\* What the label l of a request r says of its kind and of its locals q.
Labelled(r, l, q) ==
    /\ l \in {"insert", "rotate", "commit"} => Kind[r] = "refresh"
    /\ l = "revoke" => Kind[r] = "logout"
    /\ l \in {"scan", "rows"} => Kind[r] \in {"refresh", "logoutAll"}
    /\ l \in {"insert", "rotate", "commit", "revoke"} => q.token \in Tokens

\* Among the rows h, r holds the active token it is about to replace, and the
\* sessions it is about to revoke: those of its snapshot that are still active
\* and no longer in todo.
Secured(l, q, h) ==
    /\ l = "commit" => q.token \in h \cap Active
    /\ l = "rows" => /\ q.hit \subseteq h \cap Active
                     /\ q.saw \cap Active \subseteq q.todo \cup q.hit

\* Nobody has stored, presented or seen the token n, or descends from it.
Unused(n) ==
    /\ token[n].state = "absent" /\ family[n] # n
    /\ \A t \in Active : family[t] # n
    /\ \A o \in Requests : req[o].token # n /\ n \notin req[o].saw

LabelInv == \A r \in Requests : Labelled(r, pc[r], req[r])
SecuredInv == \A r \in Requests : Secured(pc[r], req[r], held[r])
PendingInv == \A r \in Issuers : pc[r] # "done" => Unused(NewId[r])
AnswerInv == \A r \in Requests : pc[r] # "done" => answer[r] = "none"

\* A token that was exchanged is not active any more.
SpentInv ==
    \A r \in Requests :
        Kind[r] = "refresh" /\ answer[r] = "ok" => req[r].token \notin Active

Inv == /\ TypeOK /\ OneHolder /\ LabelInv /\ SecuredInv /\ PendingInv /\ AnswerInv
       /\ SpentInv /\ RotatedAtMostOnce /\ LogoutAllRevokesWhatItSaw
       /\ OneLiveTokenPerLogin

-----------------------------------------------------------------------------
(* What the two ways of going on do to the request and to the others.      *)

Others(r) == \A o \in Requests \ {r} :
    /\ pc'[o] = pc[o] /\ req'[o] = req[o] /\ held'[o] = held[o]
    /\ answer'[o] = answer[o]

\* Advance moves only r, to the label, locals and rows it names.
LEMMA AdvanceFrame ==
    ASSUME TypeOK, NEW r \in Requests, NEW l \in Labels, NEW q \in Request,
           NEW rows \in SUBSET Tokens, Advance(r, l, q, rows)
    PROVE  /\ pc' \in [Requests -> Labels] /\ req' \in [Requests -> Request]
           /\ held' \in [Requests -> SUBSET Tokens]
           /\ want' \in [Requests -> Tokens \cup {NoRow}]
           /\ answer' = answer
           /\ pc'[r] = l /\ req'[r] = q /\ held'[r] = held[r] \cup rows
           /\ Others(r)
  BY DEF TypeOK, Advance, Locks, Others

\* Finish moves only r, which then holds nothing and remembers what it was
\* asked for and what it saw.
LEMMA FinishFrame ==
    ASSUME TypeOK, NEW r \in Requests, NEW a \in Answers, Finish(r, a)
    PROVE  /\ pc' \in [Requests -> Labels] /\ req' \in [Requests -> Request]
           /\ held' \in [Requests -> SUBSET Tokens]
           /\ want' \in [Requests -> Tokens \cup {NoRow}]
           /\ answer' \in [Requests -> Answers]
           /\ pc'[r] = "done" /\ held'[r] = {} /\ answer'[r] = a
           /\ req'[r].token = req[r].token /\ req'[r].saw = req[r].saw
           /\ Others(r)
  <1>1. /\ pc' \in [Requests -> Labels] /\ pc'[r] = "done"
        /\ \A o \in Requests \ {r} : pc'[o] = pc[o]
    BY DEF TypeOK, Finish, Labels
  <1>2. /\ held' \in [Requests -> SUBSET Tokens] /\ held'[r] = {}
        /\ \A o \in Requests \ {r} : held'[o] = held[o]
        /\ want' \in [Requests -> Tokens \cup {NoRow}]
    BY DEF TypeOK, Finish, Unlocks
  <1>3. /\ req' \in [Requests -> Request]
        /\ req'[r].token = req[r].token /\ req'[r].saw = req[r].saw
        /\ \A o \in Requests \ {r} : req'[o] = req[o]
    <2> DEFINE q == [req[r] EXCEPT !.todo = {}, !.hit = {}]
    <2>1. req[r] \in Request
      BY DEF TypeOK
    <2>2. q \in Request /\ q.token = req[r].token /\ q.saw = req[r].saw
      BY <2>1 DEF Request
    <2>3. req' = [req EXCEPT ![r] = q]
      BY DEF Finish
    <2> HIDE DEF q
    <2> QED BY <2>2, <2>3 DEF TypeOK
  <1>4. answer' \in [Requests -> Answers] /\ answer'[r] = a
        /\ \A o \in Requests \ {r} : answer'[o] = answer[o]
    BY DEF TypeOK, Finish
  <1> QED BY <1>1, <1>2, <1>3, <1>4 DEF Others

\* A step to the next statement keeps the invariant when the rows it locks are
\* free, its new label is justified and it names no unused token.
LEMMA AdvanceStep ==
    ASSUME Inv, NEW r \in Requests, NEW l \in Labels, NEW q \in Request,
           NEW rows \in SUBSET Tokens, Advance(r, l, q, rows),
           UNCHANGED <<token, family>>,
           pc[r] # "done", l # "done",
           \A x \in rows : \A o \in Requests : x \notin held[o],
           Labelled(r, l, q), Secured(l, q, held[r] \cup rows),
           \A n \in Tokens : Unused(n) => q.token # n /\ n \notin q.saw
    PROVE  Inv'
  <1> USE DEF Inv
  <1>0. /\ pc' \in [Requests -> Labels] /\ req' \in [Requests -> Request]
        /\ held' \in [Requests -> SUBSET Tokens]
        /\ want' \in [Requests -> Tokens \cup {NoRow}]
        /\ answer' = answer
        /\ pc'[r] = l /\ req'[r] = q /\ held'[r] = held[r] \cup rows
        /\ Others(r)
    BY AdvanceFrame
  <1>1. TypeOK'
    BY <1>0 DEF TypeOK
  <1>2. OneHolder'
    BY <1>0 DEF OneHolder, Others
  <1>3. LabelInv' /\ SecuredInv'
    BY <1>0 DEF LabelInv, SecuredInv, Labelled, Secured, Others, Active
  <1>4. AnswerInv' /\ answer'[r] = "none"
    BY <1>0 DEF AnswerInv, Others
  <1>5. PendingInv'
    <2> SUFFICES ASSUME NEW o \in Issuers, pc'[o] # "done" PROVE Unused(NewId[o])'
      BY DEF PendingInv
    <2>1. o \in Requests /\ NewId[o] \in Tokens
      BY TokensAssumption DEF Issuers
    <2>2. Unused(NewId[o])
      BY <1>0, <2>1 DEF PendingInv, Others
    <2> QED BY <1>0, <2>1, <2>2 DEF Unused, Others, Active
  <1>6. SpentInv' /\ RotatedAtMostOnce' /\ LogoutAllRevokesWhatItSaw'
    BY <1>0, <1>4 DEF SpentInv, RotatedAtMostOnce, LogoutAllRevokesWhatItSaw, Others, Active
  <1>7. OneLiveTokenPerLogin'
    BY DEF OneLiveTokenPerLogin, Active
  <1> QED BY <1>1, <1>2, <1>3, <1>4, <1>5, <1>6, <1>7

-----------------------------------------------------------------------------
(* Steps that answer.                                                      *)

\* The token r makes active, if any, is the one it has drawn.
Draws(r, t) == r \in Issuers /\ pc[r] # "done" /\ t = NewId[r]

\* An answer keeps the invariant when its step takes no row another request
\* holds, makes at most the drawn token active, and spends what it exchanged or
\* revoked.
LEMMA EndStep ==
    ASSUME Inv, NEW r \in Requests, NEW a \in Answers, Finish(r, a),
           token' \in [Tokens -> TokenRow], family' \in [Tokens -> Tokens \cup {NoRow}],
           \A t \in Active' : t \in Active \/ Draws(r, t),
           \A t \in Tokens : family'[t] = family[t] \/ Draws(r, t),
           \A t \in Tokens : token[t].state = "absent" =>
               token'[t].state = "absent" \/ Draws(r, t),
           \A t \in Active \ Active' : \A o \in Requests \ {r} : t \notin held[o],
           \A t \in Active' : Draws(r, t) =>
               \A n \in Tokens : Unused(n) /\ n # t => family'[t] # n,
           Kind[r] = "refresh" /\ a = "ok" =>
               req[r].token \in Active /\ req[r].token \notin Active',
           Kind[r] = "logoutAll" /\ a = "ok" => req[r].saw \cap Active' = {},
           OneLiveTokenPerLogin'
    PROVE  Inv'
  <1> USE DEF Inv
  <1>0. /\ pc' \in [Requests -> Labels] /\ req' \in [Requests -> Request]
        /\ held' \in [Requests -> SUBSET Tokens]
        /\ want' \in [Requests -> Tokens \cup {NoRow}]
        /\ answer' \in [Requests -> Answers]
        /\ pc'[r] = "done" /\ held'[r] = {} /\ answer'[r] = a
        /\ req'[r].token = req[r].token /\ req'[r].saw = req[r].saw
        /\ Others(r)
    BY FinishFrame
  <1>1. TypeOK'
    BY <1>0 DEF TypeOK
  <1>2. OneHolder'
    BY <1>0 DEF OneHolder, Others
  <1>3. LabelInv' /\ AnswerInv'
    BY <1>0 DEF LabelInv, AnswerInv, Labelled, Others
  <1>4. ASSUME NEW t \in Tokens, Draws(r, t)
        PROVE  \A o \in Requests : req[o].token # t /\ t \notin req[o].saw
    BY <1>4 DEF PendingInv, Unused, Draws
  <1>5. SecuredInv'
    <2> SUFFICES ASSUME NEW o \in Requests PROVE Secured(pc[o], req[o], held[o])'
      BY DEF SecuredInv
    <2>1. CASE o = r
      BY <1>0, <2>1 DEF Secured
    <2>2. CASE o # r
      <3>1. /\ pc'[o] = pc[o] /\ req'[o] = req[o] /\ held'[o] = held[o]
            /\ Secured(pc[o], req[o], held[o])
        BY <1>0, <2>2 DEF Others, SecuredInv
      <3>2. req[o].saw \cap Active' \subseteq req[o].saw \cap Active
        BY <1>4 DEF Active
      <3> QED BY <2>2, <3>1, <3>2 DEF Secured, Active
    <2> QED BY <2>1, <2>2
  <1>6. PendingInv'
    <2> SUFFICES ASSUME NEW o \in Issuers, pc'[o] # "done" PROVE Unused(NewId[o])'
      BY DEF PendingInv
    <2>1. o \in Requests /\ o # r /\ pc[o] # "done" /\ NewId[o] \in Tokens
      BY <1>0, TokensAssumption DEF Issuers, Others
    <2>2. Unused(NewId[o])
      BY <2>1 DEF PendingInv
    <2>3. ~Draws(r, NewId[o])
      BY <2>1, TokensAssumption DEF Draws
    <2>4. token'[NewId[o]].state = "absent" /\ family'[NewId[o]] # NewId[o]
      BY <2>1, <2>2, <2>3 DEF Unused
    <2>5. \A t \in Active' : family'[t] # NewId[o]
      BY <2>1, <2>2, <2>3 DEF Unused, Active
    <2>6. \A x \in Requests : req'[x].token # NewId[o] /\ NewId[o] \notin req'[x].saw
      BY <1>0, <2>2 DEF Unused, Others
    <2> QED BY <2>4, <2>5, <2>6 DEF Unused
  <1>7. SpentInv'
    <2> SUFFICES ASSUME NEW o \in Requests, Kind[o] = "refresh", answer'[o] = "ok"
                 PROVE  req'[o].token \notin Active'
      BY DEF SpentInv
    <2>1. CASE o = r
      BY <1>0, <2>1
    <2>2. CASE o # r
      BY <1>0, <1>4, <2>2 DEF SpentInv, Others, Active
    <2> QED BY <2>1, <2>2
  <1>8. RotatedAtMostOnce'
    BY <1>0 DEF RotatedAtMostOnce, SpentInv, Others
  <1>9. LogoutAllRevokesWhatItSaw'
    <2> SUFFICES ASSUME NEW o \in Requests, Kind[o] = "logoutAll", answer'[o] = "ok"
                 PROVE  req'[o].saw \cap Active' = {}
      BY DEF LogoutAllRevokesWhatItSaw
    <2>1. CASE o = r
      BY <1>0, <2>1
    <2>2. CASE o # r
      BY <1>0, <1>4, <2>2 DEF LogoutAllRevokesWhatItSaw, Others, Active
    <2> QED BY <2>1, <2>2
  <1> QED BY <1>1, <1>2, <1>3, <1>5, <1>6, <1>7, <1>8, <1>9

\* An answer that touches no row keeps the invariant.
LEMMA RejectStep ==
    ASSUME Inv, NEW r \in Requests, NEW a \in Answers, Reject(r, a),
           Kind[r] \in {"refresh", "logoutAll"} => a # "ok"
    PROVE  Inv'
  <1>1. UNCHANGED <<token, family>> /\ Active' = Active
    BY DEF Reject, Active
  <1>2. ASSUME NEW t \in Active, Draws(r, t) PROVE FALSE
    BY <1>2 DEF Inv, PendingInv, Unused, Draws, Active
  <1>3. OneLiveTokenPerLogin'
    BY <1>1 DEF Inv, OneLiveTokenPerLogin
  <1> QED BY <1>1, <1>2, <1>3, EndStep DEF Reject, Inv, TypeOK

\* So does one that makes no token active and takes only free rows or its own.
LEMMA ShrinkStep ==
    ASSUME Inv, NEW r \in Requests, NEW a \in Answers, Finish(r, a),
           token' \in [Tokens -> TokenRow], family' = family,
           \A t \in Tokens : token'[t].state = "active" => token[t].state = "active",
           \A t \in Tokens : token[t].state = "absent" => token'[t].state = "absent",
           \A t \in Active \ Active' : \A o \in Requests \ {r} : t \notin held[o],
           Kind[r] = "refresh" => a # "ok",
           Kind[r] = "logoutAll" /\ a = "ok" => req[r].saw \cap Active' = {}
    PROVE  Inv'
  <1>1. Active' \subseteq Active
    BY DEF Active
  <1>2. ASSUME NEW t \in Active', Draws(r, t) PROVE FALSE
    BY <1>1, <1>2 DEF Inv, PendingInv, Unused, Draws, Active
  <1>3. OneLiveTokenPerLogin'
    BY <1>1 DEF Inv, OneLiveTokenPerLogin
  <1> QED BY <1>1, <1>2, <1>3, EndStep DEF Inv, TypeOK

-----------------------------------------------------------------------------
(* One lemma per action.                                                   *)

\* Waiting changes nothing but want.
LEMMA BlockStep ==
    ASSUME Inv, NEW r \in Requests, Block(r)
    PROVE  Inv'
  <1> USE DEF Inv
  <1>1. Wanted(r) \subseteq Tokens
    BY DEF LabelInv, Labelled, Wanted, TypeOK, Request
  <1>2. /\ UNCHANGED <<token, family, pc, req, held, answer>>
        /\ want' \in [Requests -> Tokens \cup {NoRow}]
    BY <1>1 DEF Block, Waits, TypeOK
  <1>3. TypeOK'
    BY <1>2 DEF TypeOK
  <1>4. /\ OneHolder' /\ LabelInv' /\ AnswerInv' /\ SpentInv' /\ RotatedAtMostOnce'
        /\ LogoutAllRevokesWhatItSaw' /\ OneLiveTokenPerLogin'
    BY <1>2 DEF OneHolder, LabelInv, AnswerInv, SpentInv, RotatedAtMostOnce,
                LogoutAllRevokesWhatItSaw, OneLiveTokenPerLogin, Active
  <1>5. SecuredInv' /\ PendingInv'
    BY <1>2 DEF SecuredInv, Secured, PendingInv, Unused, Active
  <1> QED BY <1>3, <1>4, <1>5

\* A new login starts a family of its own.
LEMMA LoginStep ==
    ASSUME Inv, NEW r \in Requests, Login(r)
    PROVE  Inv'
  <1>1. CASE Reject(r, "401")
    BY <1>1, RejectStep DEF Answers
  <1>2. CASE /\ token' = [token EXCEPT ![NewId[r]] = Fresh(Actor[r])]
             /\ family' = [family EXCEPT ![NewId[r]] = NewId[r]]
             /\ \E a \in {"ok", "500"} : Finish(r, a)
    <2>1. PICK a \in Answers : Finish(r, a)
      BY <1>2 DEF Answers
    <2> DEFINE n == NewId[r]
               row == Fresh(Actor[r])
    <2>2. /\ n \in Tokens /\ Draws(r, n) /\ Unused(n) /\ Kind[r] = "login"
      BY TokensAssumption DEF Login, Issuers, Draws, Inv, PendingInv
    <2>3. row \in TokenRow /\ row.state = "active"
      BY TokensAssumption DEF Fresh, NoToken, TokenRow
    <2>4. /\ token \in [Tokens -> TokenRow] /\ family \in [Tokens -> Tokens \cup {NoRow}]
          /\ token' = [token EXCEPT ![n] = row] /\ family' = [family EXCEPT ![n] = n]
      BY <1>2 DEF Inv, TypeOK
    <2> HIDE DEF n, row
    <2>5. /\ token' \in [Tokens -> TokenRow] /\ family' \in [Tokens -> Tokens \cup {NoRow}]
          /\ Active' = Active \cup {n} /\ n \notin Active
          /\ family'[n] = n /\ \A t \in Tokens \ {n} : family'[t] = family[t]
          /\ \A t \in Tokens \ {n} : token'[t] = token[t]
      BY <2>2, <2>3, <2>4 DEF Active, Unused
    <2>6. OneLiveTokenPerLogin'
      BY <2>2, <2>5 DEF OneLiveTokenPerLogin, Inv, Unused, Active
    <2>7. /\ \A t \in Active' : t \in Active \/ Draws(r, t)
          /\ \A t \in Tokens : family'[t] = family[t] \/ Draws(r, t)
          /\ \A t \in Tokens : token[t].state = "absent" =>
               token'[t].state = "absent" \/ Draws(r, t)
          /\ Active \ Active' = {}
      BY <2>2, <2>5 DEF Active
    <2>8. \A t \in Active' : Draws(r, t) => family'[t] = t
      BY <2>2, <2>5 DEF Draws
    <2> QED BY <2>1, <2>2, <2>5, <2>6, <2>7, <2>8, EndStep
  <1> QED BY <1>1, <1>2 DEF Login

\* The presented token has a row, so it is not one that is still to be drawn.
LEMMA LookupStep ==
    ASSUME Inv, NEW r \in Requests, Lookup(r)
    PROVE  Inv'
  <1>1. PICK t \in Tokens :
          \/ Reject(r, "401")
          \/ /\ token[t].state # "absent"
             /\ \E l \in {"insert", "scan"} :
                  Advance(r, l, [NoRequest EXCEPT !.token = t, !.user = token[t].user], {})
             /\ UNCHANGED <<token, family>>
    BY DEF Lookup
  <1>2. CASE Reject(r, "401")
    BY <1>2, RejectStep DEF Answers
  <1>3. CASE /\ token[t].state # "absent"
             /\ \E l \in {"insert", "scan"} :
                  Advance(r, l, [NoRequest EXCEPT !.token = t, !.user = token[t].user], {})
             /\ UNCHANGED <<token, family>>
    <2> DEFINE q == [NoRequest EXCEPT !.token = t, !.user = token[t].user]
    <2>1. PICK l \in {"insert", "scan"} : Advance(r, l, q, {})
      BY <1>3
    <2>2. token[t].user \in Users \cup {NoRow}
      BY DEF Inv, TypeOK, TokenRow
    <2>3. q \in Request /\ q.token = t /\ q.saw = {}
      BY <2>2 DEF NoRequest, Request
    <2>4. pc[r] = "new" /\ Kind[r] = "refresh" /\ l \in Labels
      BY DEF Lookup, Labels
    <2> HIDE DEF q
    <2>5. Labelled(r, l, q) /\ Secured(l, q, held[r] \cup {})
      BY <2>3, <2>4 DEF Labelled, Secured
    <2>6. \A n \in Tokens : Unused(n) => q.token # n /\ n \notin q.saw
      BY <1>3, <2>3 DEF Unused
    <2> QED BY <1>3, <2>1, <2>3, <2>4, <2>5, <2>6, AdvanceStep
  <1> QED BY <1>1, <1>2, <1>3

\* Storing the replacement, not committed yet.
LEMMA InsertNextStep ==
    ASSUME Inv, NEW r \in Requests, InsertNext(r)
    PROVE  Inv'
  <1> DEFINE q == [req[r] EXCEPT !.late = token[req[r].token].expired]
  <1>1. /\ pc[r] = "insert" /\ req[r] \in Request /\ req[r].token \in Tokens
        /\ Kind[r] = "refresh" /\ Advance(r, "rotate", q, {})
        /\ UNCHANGED <<token, family>> /\ "rotate" \in Labels
    BY DEF InsertNext, Inv, TypeOK, LabelInv, Labelled, Labels
  <1>2. token[req[r].token].expired \in BOOLEAN
    BY <1>1 DEF Inv, TypeOK, TokenRow
  <1>3. q \in Request /\ q.token = req[r].token /\ q.saw = req[r].saw
    BY <1>1, <1>2 DEF Request
  <1> HIDE DEF q
  <1>4. Labelled(r, "rotate", q) /\ Secured("rotate", q, held[r] \cup {})
    BY <1>1, <1>3 DEF Labelled, Secured
  <1>5. \A n \in Tokens : Unused(n) => q.token # n /\ n \notin q.saw
    BY <1>3 DEF Unused
  <1> QED BY <1>1, <1>3, <1>4, <1>5, AdvanceStep

\* The guarded UPDATE locks the presented token while it is active.
LEMMA RotatePresentedStep ==
    ASSUME Inv, NEW r \in Requests, RotatePresented(r)
    PROVE  Inv'
  <1> DEFINE t == req[r].token
  <1>1. /\ pc[r] = "rotate" /\ req[r] \in Request /\ t \in Tokens
        /\ Kind[r] = "refresh" /\ "commit" \in Labels
        /\ \A o \in Requests : t \notin held[o]
    BY DEF RotatePresented, Granted, Grants, Inv, TypeOK, LabelInv, Labelled, Labels
  <1>2. CASE /\ token[t].state = "active" /\ Advance(r, "commit", req[r], {t})
             /\ UNCHANGED <<token, family>>
    <2>1. Labelled(r, "commit", req[r]) /\ Secured("commit", req[r], held[r] \cup {t})
      BY <1>1, <1>2 DEF Labelled, Secured, Active
    <2>2. \A n \in Tokens : Unused(n) => req[r].token # n /\ n \notin req[r].saw
      BY DEF Unused
    <2> QED BY <1>1, <1>2, <2>1, <2>2, AdvanceStep
  <1>3. CASE Reject(r, "401")
    BY <1>3, RejectStep DEF Answers
  <1> QED BY <1>2, <1>3 DEF RotatePresented

\* The replacement inherits the family of the token it revokes, which was the
\* only active one of it.
LEMMA CommitRotateStep ==
    ASSUME Inv, NEW r \in Requests, CommitRotate(r)
    PROVE  Inv'
  <1> DEFINE t == req[r].token
             n == NewId[r]
             old == [token[t] EXCEPT !.state = "revoked", !.replaced = n]
             row == Fresh(req[r].user)
  <1>1. PICK a \in Answers : Finish(r, a)
    BY DEF CommitRotate, Answers
  <1>2. /\ Kind[r] = "refresh" /\ t \in Active /\ t \in held[r]
        /\ Draws(r, n) /\ n \in Tokens /\ Unused(n) /\ t # n
    <2>1. pc[r] = "commit" /\ Kind[r] = "refresh" /\ t \in Active /\ t \in held[r]
      BY DEF CommitRotate, Inv, LabelInv, Labelled, SecuredInv, Secured
    <2>2. Draws(r, n) /\ n \in Tokens
      BY <2>1, TokensAssumption DEF Draws, Issuers
    <2>3. Unused(n)
      BY <2>2 DEF Draws, Inv, PendingInv
    <2> QED BY <2>1, <2>2, <2>3 DEF Unused
  <1>3. old \in TokenRow /\ old.state = "revoked" /\ row \in TokenRow /\ row.state = "active"
    <2>1. token[t] \in TokenRow /\ req[r] \in Request
      BY <1>2 DEF Inv, TypeOK, Active
    <2>2. old \in TokenRow /\ old.state = "revoked"
      BY <1>2, <2>1 DEF TokenRow
    <2>3. row \in TokenRow /\ row.state = "active"
      BY <2>1 DEF Fresh, NoToken, TokenRow, Request
    <2> QED BY <2>2, <2>3
  <1>4. /\ token \in [Tokens -> TokenRow] /\ family \in [Tokens -> Tokens \cup {NoRow}]
        /\ token' = [token EXCEPT ![t] = old, ![n] = row]
        /\ family' = [family EXCEPT ![n] = family[t]]
    BY DEF CommitRotate, Inv, TypeOK
  <1> HIDE DEF old, row, n
  <1>5. /\ token' \in [Tokens -> TokenRow] /\ family' \in [Tokens -> Tokens \cup {NoRow}]
        /\ token'[t] = old /\ token'[n] = row /\ family'[n] = family[t]
        /\ \A x \in Tokens \ {n} : family'[x] = family[x]
        /\ \A x \in Tokens \ {t, n} : token'[x] = token[x]
    BY <1>2, <1>3, <1>4 DEF Active
  <1>6. /\ Active' = (Active \ {t}) \cup {n} /\ n \notin Active
        /\ \A x \in Active : family[x] # n
    BY <1>2, <1>3, <1>5 DEF Active, Unused
  <1>7. OneLiveTokenPerLogin'
    BY <1>2, <1>5, <1>6 DEF OneLiveTokenPerLogin, Inv, Active
  <1>8. /\ \A x \in Active' : x \in Active \/ Draws(r, x)
        /\ \A x \in Tokens : family'[x] = family[x] \/ Draws(r, x)
        /\ \A x \in Tokens : token[x].state = "absent" =>
             token'[x].state = "absent" \/ Draws(r, x)
    BY <1>2, <1>5, <1>6 DEF Active
  <1>9. \A x \in Active \ Active' : \A o \in Requests \ {r} : x \notin held[o]
    BY <1>2, <1>6 DEF Inv, OneHolder
  <1>10. \A x \in Active' : Draws(r, x) =>
            \A m \in Tokens : Unused(m) /\ m # x => family'[x] # m
    BY <1>2, <1>5 DEF Draws, Unused, n
  <1>11. t \in Active /\ t \notin Active'
    BY <1>2, <1>6
  <1> QED BY <1>1, <1>2, <1>5, <1>7, <1>8, <1>9, <1>10, <1>11, EndStep

\* A logout goes on to its UPDATE only for an active token.
LEMMA PresentForLogoutStep ==
    ASSUME Inv, NEW r \in Requests, PresentForLogout(r)
    PROVE  Inv'
  <1>1. PICK t \in Tokens :
          \/ Reject(r, "ok")
          \/ /\ t \in Active
             /\ Advance(r, "revoke", [NoRequest EXCEPT !.token = t], {})
             /\ UNCHANGED <<token, family>>
    BY DEF PresentForLogout
  <1>2. pc[r] = "new" /\ Kind[r] = "logout" /\ "revoke" \in Labels
    BY DEF PresentForLogout, Labels
  <1>3. CASE Reject(r, "ok")
    BY <1>2, <1>3, RejectStep DEF Answers
  <1>4. CASE /\ t \in Active
             /\ Advance(r, "revoke", [NoRequest EXCEPT !.token = t], {})
             /\ UNCHANGED <<token, family>>
    <2> DEFINE q == [NoRequest EXCEPT !.token = t]
    <2>1. q \in Request /\ q.token = t /\ q.saw = {}
      BY DEF NoRequest, Request
    <2>2. Advance(r, "revoke", q, {})
      BY <1>4
    <2> HIDE DEF q
    <2>3. Labelled(r, "revoke", q) /\ Secured("revoke", q, held[r] \cup {})
      BY <1>2, <2>1 DEF Labelled, Secured
    <2>4. \A n \in Tokens : Unused(n) => q.token # n /\ n \notin q.saw
      BY <1>4, <2>1 DEF Unused, Active
    <2> QED BY <1>2, <1>4, <2>1, <2>2, <2>3, <2>4, AdvanceStep
  <1> QED BY <1>1, <1>3, <1>4

\* A logout takes a row nobody holds.
LEMMA RevokeStep ==
    ASSUME Inv, NEW r \in Requests, Revoke(r)
    PROVE  Inv'
  <1> DEFINE t == req[r].token
             row == [token[t] EXCEPT !.state = "revoked"]
  <1>1. /\ pc[r] = "revoke" /\ Kind[r] = "logout" /\ t \in Tokens
        /\ \A o \in Requests : t \notin held[o]
        /\ token \in [Tokens -> TokenRow]
    BY DEF Revoke, Granted, Grants, Inv, TypeOK, LabelInv, Labelled
  <1>2. CASE Reject(r, "ok")
    BY <1>1, <1>2, RejectStep DEF Answers
  <1>3. CASE /\ t \in Active
             /\ token' = [token EXCEPT ![t].state = "revoked"]
             /\ \E a \in {"ok", "500"} : Finish(r, a)
             /\ UNCHANGED family
    <2>1. PICK a \in Answers : Finish(r, a)
      BY <1>3 DEF Answers
    <2>2. row \in TokenRow /\ row.state = "revoked" /\ token' = [token EXCEPT ![t] = row]
      BY <1>1, <1>3 DEF TokenRow
    <2> HIDE DEF row
    <2>3. token' \in [Tokens -> TokenRow] /\ Active' = Active \ {t}
      BY <1>1, <2>2 DEF Active
    <2>4. /\ \A x \in Tokens : token'[x].state = "active" => token[x].state = "active"
          /\ \A x \in Tokens : token[x].state = "absent" => token'[x].state = "absent"
      BY <1>1, <1>3, <2>2 DEF Active
    <2>5. \A x \in Active \ Active' : \A o \in Requests \ {r} : x \notin held[o]
      BY <1>1, <2>3
    <2> QED BY <1>1, <1>3, <2>1, <2>3, <2>4, <2>5, ShrinkStep
  <1> QED BY <1>2, <1>3 DEF Revoke

\* Logout everywhere starts with no token of its own.
LEMMA LogoutAllStep ==
    ASSUME Inv, NEW r \in Requests, LogoutAll(r)
    PROVE  Inv'
  <1> DEFINE q == [NoRequest EXCEPT !.user = Actor[r]]
  <1>1. /\ pc[r] = "new" /\ Kind[r] = "logoutAll" /\ "scan" \in Labels
        /\ Advance(r, "scan", q, {}) /\ UNCHANGED <<token, family>>
    BY DEF LogoutAll, Labels
  <1>2. q \in Request /\ q.token = NoRow /\ q.saw = {}
    BY TokensAssumption DEF NoRequest, Request
  <1> HIDE DEF q
  <1>3. Labelled(r, "scan", q) /\ Secured("scan", q, held[r] \cup {})
    BY <1>1 DEF Labelled, Secured
  <1>4. \A n \in Tokens : Unused(n) => q.token # n /\ n \notin q.saw
    BY <1>2, TokensAssumption
  <1> QED BY <1>1, <1>2, <1>3, <1>4, AdvanceStep

\* The snapshot holds active tokens only.
LEMMA ScanSessionsStep ==
    ASSUME Inv, NEW r \in Requests, ScanSessions(r)
    PROVE  Inv'
  <1> DEFINE rows == {t \in Active : token[t].user = req[r].user}
             q == [req[r] EXCEPT !.saw = rows, !.todo = rows, !.hit = {}]
  <1>1. /\ pc[r] = "scan" /\ req[r] \in Request /\ Kind[r] \in {"refresh", "logoutAll"}
        /\ "rows" \in Labels /\ Advance(r, "rows", q, {}) /\ UNCHANGED <<token, family>>
    BY DEF ScanSessions, Inv, TypeOK, LabelInv, Labelled, Labels
  <1>2. rows \subseteq Active /\ Active \subseteq Tokens
    BY DEF Active
  <1> HIDE DEF rows
  <1>4. q \in Request /\ q.token = req[r].token /\ q.saw = rows /\ q.todo = rows
        /\ q.hit = {}
    BY <1>1, <1>2 DEF Request
  <1> HIDE DEF q
  <1>5. Labelled(r, "rows", q)
    BY <1>1 DEF Labelled
  <1>7. Secured("rows", q, held[r] \cup {})
    BY <1>4 DEF Secured
  <1>8. \A n \in Tokens : Unused(n) => q.token # n /\ n \notin q.saw
    BY <1>2, <1>4 DEF Unused, Active
  <1> QED BY <1>1, <1>4, <1>5, <1>7, <1>8, AdvanceStep

\* A row that is locked leaves todo for hit, unless it was revoked meanwhile.
LEMMA LockSessionStep ==
    ASSUME Inv, NEW r \in Requests, LockSession(r)
    PROVE  Inv'
  <1>1. PICK t \in req[r].todo :
          /\ Granted(r, t)
          /\ Advance(r, "rows", [req[r] EXCEPT !.todo = @ \ {t},
                                                !.hit = (@ \cup {t}) \cap Active], {t})
    BY DEF LockSession
  <1> DEFINE q == [req[r] EXCEPT !.todo = @ \ {t}, !.hit = (@ \cup {t}) \cap Active]
  <1>2. /\ pc[r] = "rows" /\ req[r] \in Request /\ Kind[r] \in {"refresh", "logoutAll"}
        /\ "rows" \in Labels /\ UNCHANGED <<token, family>>
        /\ Secured("rows", req[r], held[r])
    BY DEF LockSession, Inv, TypeOK, LabelInv, Labelled, SecuredInv, Labels
  <1>3. t \in Tokens /\ (\A o \in Requests : t \notin held[o]) /\ {t} \in SUBSET Tokens
    BY <1>1, <1>2 DEF Request, Granted, Grants
  <1>4. /\ q \in Request /\ q.token = req[r].token /\ q.saw = req[r].saw
        /\ q.todo = req[r].todo \ {t} /\ q.hit = (req[r].hit \cup {t}) \cap Active
    BY <1>2, <1>3 DEF Request
  <1>5. Advance(r, "rows", q, {t})
    BY <1>1
  <1> HIDE DEF q
  <1>6. Labelled(r, "rows", q)
    BY <1>2 DEF Labelled
  <1>7. Secured("rows", q, held[r] \cup {t})
    BY <1>2, <1>4 DEF Secured
  <1>8. \A n \in Tokens : Unused(n) => q.token # n /\ n \notin q.saw
    BY <1>4 DEF Unused
  <1> QED BY <1>2, <1>3, <1>4, <1>5, <1>6, <1>7, <1>8, AdvanceStep

\* RevokeAllForUser revokes rows it holds, and every row of its snapshot that is
\* still active is among them.
LEMMA CommitRevokeAllStep ==
    ASSUME Inv, NEW r \in Requests, CommitRevokeAll(r)
    PROVE  Inv'
  <1> DEFINE hit == req[r].hit
  <1>1. /\ Kind[r] \in {"refresh", "logoutAll"} /\ hit \subseteq held[r] \cap Active
        /\ req[r].saw \cap Active \subseteq hit
        /\ token \in [Tokens -> TokenRow] /\ family' = family
    BY DEF CommitRevokeAll, Inv, TypeOK, LabelInv, Labelled, SecuredInv, Secured
  <1>2. PICK a \in {Revoked(r), Failed(r)} : Finish(r, a)
    BY DEF CommitRevokeAll
  <1>3. a \in Answers /\ (Kind[r] = "refresh" => a # "ok")
    BY DEF Revoked, Failed, Answers, CommitRevokeAll
  <1>4. \A t \in Tokens :
          token'[t] = IF t \in hit THEN [token[t] EXCEPT !.state = "revoked"] ELSE token[t]
    BY DEF CommitRevokeAll
  <1>5. \A t \in Tokens : /\ token'[t] \in TokenRow
                          /\ t \in hit => token'[t].state = "revoked"
                          /\ t \notin hit => token'[t] = token[t]
    <2> SUFFICES ASSUME NEW t \in Tokens
                 PROVE  /\ token'[t] \in TokenRow
                        /\ t \in hit => token'[t].state = "revoked"
                        /\ t \notin hit => token'[t] = token[t]
      OBVIOUS
    <2> DEFINE row == [token[t] EXCEPT !.state = "revoked"]
    <2>1. token[t] \in TokenRow
      BY <1>1
    <2>2. row \in TokenRow /\ row.state = "revoked"
      BY <2>1 DEF TokenRow
    <2>3. token'[t] = IF t \in hit THEN row ELSE token[t]
      BY <1>4
    <2> HIDE DEF row
    <2> QED BY <2>1, <2>2, <2>3
  <1>6. token' \in [Tokens -> TokenRow]
    BY <1>1, <1>5 DEF CommitRevokeAll
  <1>7. Active' = Active \ hit
    BY <1>5 DEF Active
  <1>8. /\ \A t \in Tokens : token'[t].state = "active" => token[t].state = "active"
        /\ \A t \in Tokens : token[t].state = "absent" => token'[t].state = "absent"
    BY <1>1, <1>5 DEF Active
  <1>9. \A t \in Active \ Active' : \A o \in Requests \ {r} : t \notin held[o]
    BY <1>1, <1>7 DEF Inv, OneHolder
  <1>10. req[r].saw \cap Active' = {}
    BY <1>1, <1>7
  <1> QED BY <1>1, <1>2, <1>3, <1>6, <1>8, <1>9, <1>10, ShrinkStep

\* The passing of time changes no token but expires_at.
LEMMA ExpireStep ==
    ASSUME Inv, NEW t \in Tokens, Expire(t)
    PROVE  Inv'
  <1> USE DEF Inv
  <1>1. UNCHANGED <<family, pc, req, held, want, answer>> /\ token \in [Tokens -> TokenRow]
    BY DEF Expire, TypeOK
  <1> DEFINE row == [token[t] EXCEPT !.expired = TRUE]
  <1>2. /\ row \in TokenRow /\ row.state = token[t].state
        /\ token' = [token EXCEPT ![t] = row]
    BY <1>1 DEF Expire, TokenRow
  <1> HIDE DEF row
  <1>3. /\ token' \in [Tokens -> TokenRow] /\ Active' = Active
        /\ \A n \in Tokens : token'[n].state = token[n].state
    BY <1>1, <1>2 DEF Active
  <1>4. TypeOK'
    BY <1>1, <1>3 DEF TypeOK
  <1>5. /\ OneHolder' /\ LabelInv' /\ AnswerInv' /\ SpentInv' /\ RotatedAtMostOnce'
        /\ LogoutAllRevokesWhatItSaw' /\ OneLiveTokenPerLogin'
    BY <1>1, <1>3 DEF OneHolder, LabelInv, AnswerInv, SpentInv, RotatedAtMostOnce,
                      LogoutAllRevokesWhatItSaw, OneLiveTokenPerLogin
  <1>6. SecuredInv'
    BY <1>1, <1>3 DEF SecuredInv, Secured
  <1>7. PendingInv'
    BY <1>1, <1>3, TokensAssumption DEF PendingInv, Unused
  <1> QED BY <1>4, <1>5, <1>6, <1>7

\* The purge takes rows nobody holds, and stores none.
LEMMA PurgeStep ==
    ASSUME Inv, NEW r \in Requests, Purge(r)
    PROVE  Inv'
  <1> DEFINE old == {t \in Tokens : token[t].expired}
  <1>1. /\ Kind[r] = "purge" /\ (\A q \in Requests : held[q] \cap old = {})
        /\ Finish(r, "ok") /\ family' = family /\ token \in [Tokens -> TokenRow]
        /\ "ok" \in Answers
    BY DEF Purge, Inv, TypeOK, Answers
  <1>2. token' = [t \in Tokens |->
                   IF t \in old THEN NoToken
                   ELSE [token[t] EXCEPT !.replaced = IF @ \in old THEN NoRow ELSE @]]
    BY DEF Purge
  <1> HIDE DEF old
  <1>3. \A t \in Tokens : /\ token'[t] \in TokenRow
                          /\ t \in old => token'[t].state = "absent"
                          /\ t \notin old => token'[t].state = token[t].state
    <2> SUFFICES ASSUME NEW t \in Tokens
                 PROVE  /\ token'[t] \in TokenRow
                        /\ t \in old => token'[t].state = "absent"
                        /\ t \notin old => token'[t].state = token[t].state
      OBVIOUS
    <2>1. CASE t \in old
      BY <1>2, <2>1 DEF NoToken, TokenRow
    <2>2. CASE t \notin old
      <3> DEFINE keep == IF token[t].replaced \in old THEN NoRow ELSE token[t].replaced
      <3>1. token[t] \in TokenRow /\ keep \in Tokens \cup {NoRow}
        BY <1>1 DEF TokenRow
      <3>2. token'[t] = [token[t] EXCEPT !.replaced = keep]
        BY <1>2, <2>2
      <3> HIDE DEF keep
      <3> QED BY <2>2, <3>1, <3>2 DEF TokenRow
    <2> QED BY <2>1, <2>2
  <1>4. token' \in [Tokens -> TokenRow]
    BY <1>2, <1>3
  <1>5. /\ \A t \in Tokens : token'[t].state = "active" => token[t].state = "active"
        /\ \A t \in Tokens : token[t].state = "absent" => token'[t].state = "absent"
        /\ Active \ Active' \subseteq old
    BY <1>3 DEF Active
  <1>6. \A t \in Active \ Active' : \A o \in Requests \ {r} : t \notin held[o]
    BY <1>1, <1>5
  <1> QED BY <1>1, <1>4, <1>5, <1>6, ShrinkStep

-----------------------------------------------------------------------------
(* The invariant and what follows from it.                                 *)

\* At the start every session is a login of its own and no request has begun.
LEMMA InvInit == Init => Inv
  <1> SUFFICES ASSUME Init PROVE Inv
    OBVIOUS
  <1> USE TokensAssumption
  <1>1. ASSUME NEW t \in Tokens
        PROVE  /\ token[t] \in TokenRow /\ family[t] \in Tokens \cup {NoRow}
               /\ token[t].state = "active" => SeedUser[t] # NoRow /\ family[t] = t
               /\ SeedUser[t] = NoRow => token[t].state = "absent" /\ family[t] = NoRow
    <2>1. NoToken \in TokenRow /\ NoToken.state = "absent"
      BY DEF NoToken, TokenRow
    <2>2. Fresh(SeedUser[t]) \in TokenRow
      BY DEF Fresh, NoToken, TokenRow
    <2> QED BY <2>1, <2>2 DEF Init
  <1>2. token \in [Tokens -> TokenRow] /\ family \in [Tokens -> Tokens \cup {NoRow}]
    BY <1>1 DEF Init
  <1>3. /\ pc \in [Requests -> Labels] /\ held \in [Requests -> SUBSET Tokens]
        /\ want \in [Requests -> Tokens \cup {NoRow}] /\ answer \in [Requests -> Answers]
    BY DEF Init, Labels, Answers
  <1>4. req \in [Requests -> Request] /\ NoRequest.token = NoRow /\ NoRequest.saw = {}
    BY DEF Init, NoRequest, Request
  <1>5. TypeOK
    BY <1>2, <1>3, <1>4 DEF TypeOK
  <1>6. /\ OneHolder /\ LabelInv /\ SecuredInv /\ AnswerInv /\ SpentInv
        /\ RotatedAtMostOnce /\ LogoutAllRevokesWhatItSaw
    BY DEF Init, OneHolder, LabelInv, Labelled, SecuredInv, Secured, AnswerInv, SpentInv,
           RotatedAtMostOnce, LogoutAllRevokesWhatItSaw
  <1>7. PendingInv
    <2> SUFFICES ASSUME NEW r \in Issuers PROVE Unused(NewId[r])
      BY DEF PendingInv
    <2>1. NewId[r] \in Tokens /\ NewId[r] # NoRow /\ SeedUser[NewId[r]] = NoRow
      OBVIOUS
    <2>2. \A o \in Requests : req[o] = NoRequest
      BY DEF Init
    <2> QED BY <1>1, <1>4, <2>1, <2>2 DEF Unused, Active
  <1>8. OneLiveTokenPerLogin
    BY <1>1 DEF OneLiveTokenPerLogin, Active
  <1> QED BY <1>5, <1>6, <1>7, <1>8 DEF Inv

\* Every action keeps the invariant.
LEMMA InvNext == Inv /\ [Next]_vars => Inv'
  <1> SUFFICES ASSUME Inv, [Next]_vars PROVE Inv'
    OBVIOUS
  <1>1. ASSUME NEW r \in Requests, Arrive(r) PROVE Inv'
    BY <1>1, LoginStep, LookupStep, PresentForLogoutStep, LogoutAllStep, PurgeStep
       DEF Arrive
  <1>2. ASSUME NEW r \in Requests, Statement(r) PROVE Inv'
    BY <1>2, InsertNextStep, RotatePresentedStep, CommitRotateStep, RevokeStep,
       ScanSessionsStep, LockSessionStep, CommitRevokeAllStep DEF Statement
  <1>3. ASSUME NEW r \in Requests, Block(r) PROVE Inv'
    BY <1>3, BlockStep
  <1>4. ASSUME NEW r \in Requests, Abort(r) \/ DeadlockAbort(r) PROVE Inv'
    BY <1>4, RejectStep DEF Abort, DeadlockAbort, Failed, Answers
  <1>5. ASSUME NEW t \in Tokens, Expire(t) PROVE Inv'
    BY <1>5, ExpireStep
  <1>6. CASE UNCHANGED vars
    <2> USE <1>6 DEF vars
    <2>1. /\ TypeOK' /\ OneHolder' /\ LabelInv' /\ AnswerInv' /\ SpentInv'
          /\ RotatedAtMostOnce' /\ LogoutAllRevokesWhatItSaw' /\ OneLiveTokenPerLogin'
      BY DEF Inv, TypeOK, OneHolder, LabelInv, AnswerInv, SpentInv, RotatedAtMostOnce,
             LogoutAllRevokesWhatItSaw, OneLiveTokenPerLogin, Active
    <2>2. SecuredInv' /\ PendingInv'
      BY DEF Inv, SecuredInv, Secured, PendingInv, Unused, Active
    <2> QED BY <2>1, <2>2 DEF Inv
  <1> QED BY <1>1, <1>2, <1>3, <1>4, <1>5, <1>6 DEF Next, Terminating

\* The inductive invariant holds in every reachable state.
THEOREM Invariance == Spec => []Inv
  BY InvInit, InvNext, PTL DEF Spec

\* The rows of refresh_tokens, their locks and the requests' locals keep their types.
THEOREM TypeCorrect == Spec => []TypeOK
  <1>1. Inv => TypeOK
    BY DEF Inv
  <1> QED BY <1>1, Invariance, PTL

\* However refreshes, logouts, retries, purges and rollbacks interleave, no login
\* ever has two live tokens: what Rotate's transaction is for.
THEOREM NoLoginForks == Spec => []OneLiveTokenPerLogin
  <1>1. Inv => OneLiveTokenPerLogin
    BY DEF Inv
  <1> QED BY <1>1, Invariance, PTL

\* Concurrent refreshes with one token: at most one is answered with a new pair,
\* as the guard on revoked_at in Rotate states.
THEOREM ExchangedOnce == Spec => []RotatedAtMostOnce
  <1>1. Inv => RotatedAtMostOnce
    BY DEF Inv
  <1> QED BY <1>1, Invariance, PTL

\* An acknowledged RevokeAllForUser has revoked every session of its snapshot,
\* whatever locks it had to wait for.
THEOREM SeenSessionsEnd == Spec => []LogoutAllRevokesWhatItSaw
  <1>1. Inv => LogoutAllRevokesWhatItSaw
    BY DEF Inv
  <1> QED BY <1>1, Invariance, PTL

-----------------------------------------------------------------------------
(* What a step may never do.                                               *)

\* A login none of whose tokens is active gets no active token.
NoRevival ==
    \A f \in Tokens :
        /\ family[f] = f
        /\ \A t \in Active : family[t] # f
        => \A t \in Tokens : family'[t] = f => token'[t].state # "active"

\* A step that activates no token revives no login.
LEMMA NothingGrows ==
    ASSUME family' = family, Active' \subseteq Active
    PROVE  NoRevival
  BY DEF NoRevival, Active

\* The steps that neither log in nor rotate activate no token.
LEMMA OtherSteps ==
    ASSUME Inv, [Next]_vars,
           \A r \in Requests : ~CommitRotate(r) /\ (Login(r) => Reject(r, "401"))
    PROVE  family' = family /\ Active' \subseteq Active
  <1>1. ASSUME token' = token /\ family' = family
        PROVE  family' = family /\ Active' \subseteq Active
    BY <1>1 DEF Active
  <1>2. ASSUME NEW r \in Requests, Revoke(r)
        PROVE  family' = family /\ Active' \subseteq Active
    <2>1. CASE Reject(r, "ok")
      BY <2>1, <1>1 DEF Reject
    <2>2. CASE token' = [token EXCEPT ![req[r].token].state = "revoked"] /\ UNCHANGED family
      BY <2>2 DEF Active, Inv, TypeOK
    <2> QED BY <1>2, <2>1, <2>2 DEF Revoke
  <1>3. ASSUME NEW r \in Requests, CommitRevokeAll(r)
        PROVE  family' = family /\ Active' \subseteq Active
    <2>1. \A t \in Tokens :
            token'[t] = IF t \in req[r].hit THEN [token[t] EXCEPT !.state = "revoked"]
                                            ELSE token[t]
      BY <1>3 DEF CommitRevokeAll
    <2>2. \A t \in Tokens : "state" \in DOMAIN token[t]
      BY DEF Inv, TypeOK, TokenRow
    <2>3. \A t \in Tokens : token'[t].state = "active" => token[t].state = "active"
      BY <2>1, <2>2
    <2> QED BY <1>3, <2>3 DEF CommitRevokeAll, Active
  <1>4. ASSUME NEW r \in Requests, Purge(r)
        PROVE  family' = family /\ Active' \subseteq Active
    <2> DEFINE old == {t \in Tokens : token[t].expired}
    <2>1. token' = [t \in Tokens |->
                     IF t \in old THEN NoToken
                     ELSE [token[t] EXCEPT !.replaced = IF @ \in old THEN NoRow ELSE @]]
      BY <1>4 DEF Purge
    <2>2. \A t \in Tokens : "state" \in DOMAIN token[t]
      BY DEF Inv, TypeOK, TokenRow
    <2> HIDE DEF old
    <2>3. \A t \in Tokens : token'[t].state = "active" => token[t].state = "active"
      BY <2>1, <2>2 DEF NoToken
    <2> QED BY <1>4, <2>3 DEF Purge, Active
  <1>5. ASSUME NEW t \in Tokens, Expire(t)
        PROVE  family' = family /\ Active' \subseteq Active
    <2>1. \A n \in Tokens : token'[n].state = token[n].state
      BY <1>5 DEF Expire, Inv, TypeOK, TokenRow
    <2> QED BY <1>5, <2>1 DEF Expire, Active
  <1>6. ASSUME NEW r \in Requests, Arrive(r)
        PROVE  family' = family /\ Active' \subseteq Active
    BY <1>1, <1>4, <1>6 DEF Arrive, Login, Lookup, PresentForLogout, LogoutAll, Reject
  <1>7. ASSUME NEW r \in Requests, Statement(r)
        PROVE  family' = family /\ Active' \subseteq Active
    BY <1>1, <1>2, <1>3, <1>7
       DEF Statement, InsertNext, RotatePresented, ScanSessions, LockSession, Reject
  <1>8. ASSUME NEW r \in Requests, Block(r) \/ Abort(r) \/ DeadlockAbort(r)
        PROVE  family' = family /\ Active' \subseteq Active
    BY <1>1, <1>8 DEF Block, Abort, DeadlockAbort, Reject
  <1>9. CASE UNCHANGED vars
    BY <1>1, <1>9 DEF vars
  <1> QED BY <1>5, <1>6, <1>7, <1>8, <1>9 DEF Next, Terminating

\* A login starts a family nobody has; a rotation extends a family that is live.
LEMMA StepRevivesNothing == Inv /\ [Next]_vars => NoRevival
  <1> SUFFICES ASSUME Inv, [Next]_vars PROVE NoRevival
    OBVIOUS
  <1>1. ASSUME NEW r \in Requests, CommitRotate(r) PROVE NoRevival
    <2> DEFINE t == req[r].token
               n == NewId[r]
    <2>1. /\ t \in Active /\ n \in Tokens /\ n # t
          /\ family \in [Tokens -> Tokens \cup {NoRow}] /\ token \in [Tokens -> TokenRow]
      <3>1. pc[r] = "commit" /\ Kind[r] = "refresh" /\ t \in Active
        BY <1>1 DEF CommitRotate, Inv, LabelInv, Labelled, SecuredInv, Secured
      <3>2. n \in Tokens /\ Unused(n)
        BY <3>1, TokensAssumption DEF Issuers, Inv, PendingInv
      <3> QED BY <3>1, <3>2 DEF Unused, Inv, TypeOK
    <2>2. family'[n] = family[t] /\ \A x \in Tokens \ {n} : family'[x] = family[x]
      BY <1>1, <2>1 DEF CommitRotate
    <2>3. \A x \in Tokens \ {n, t} : token'[x] = token[x]
      BY <1>1, <2>1 DEF CommitRotate
    <2> QED BY <2>1, <2>2, <2>3 DEF NoRevival, Active
  <1>2. ASSUME NEW r \in Requests, Login(r), ~Reject(r, "401") PROVE NoRevival
    <2> DEFINE n == NewId[r]
    <2>1. n \in Tokens /\ family[n] # n
      BY <1>2, TokensAssumption DEF Login, Issuers, Inv, PendingInv, Unused
    <2>2. /\ family'[n] = n
          /\ \A x \in Tokens \ {n} : family'[x] = family[x] /\ token'[x] = token[x]
      BY <1>2, <2>1 DEF Login, Inv, TypeOK
    <2> QED BY <2>1, <2>2 DEF NoRevival, Active
  <1>3. CASE \A r \in Requests : ~CommitRotate(r) /\ (Login(r) => Reject(r, "401"))
    BY <1>3, OtherSteps, NothingGrows
  <1> QED BY <1>1, <1>2, <1>3

\* A login that was logged out, or lost its token to a reuse, stays ended: no
\* refresh that is still running brings it back.
THEOREM NoLoginRevives == Spec => EndedLoginStaysEnded
  <1>1. Inv /\ [Next]_vars => [NoRevival]_vars
    BY StepRevivesNothing
  <1> QED BY <1>1, Invariance, PTL DEF Spec, EndedLoginStaysEnded, NoRevival

-----------------------------------------------------------------------------
(* Sessions implements LoginLedger.                                        *)

\* Every active token descends from a login; a token nobody has stored, from none.
Descent ==
    /\ \A t \in Active : family[t] \in Tokens
    /\ \A r \in Issuers : pc[r] # "done" => family[NewId[r]] = NoRow

\* No step takes a request back from its answer.
LEMMA DoneIsFinal ==
    ASSUME Inv, [Next]_vars, NEW r \in Requests, pc[r] = "done"
    PROVE  pc'[r] = "done"
  <1> USE DEF Inv, TypeOK, Advance, Finish, Reject
  <1>1. ASSUME NEW o \in Requests, Arrive(o) PROVE pc'[r] = "done"
    BY <1>1 DEF Arrive, Login, Lookup, PresentForLogout, LogoutAll, Purge
  <1>2. ASSUME NEW o \in Requests, Statement(o) PROVE pc'[r] = "done"
    BY <1>2 DEF Statement, InsertNext, RotatePresented, CommitRotate, Revoke,
                ScanSessions, LockSession, CommitRevokeAll
  <1>3. ASSUME NEW o \in Requests, Block(o) \/ Abort(o) \/ DeadlockAbort(o)
        PROVE  pc'[r] = "done"
    BY <1>3 DEF Block, Abort, DeadlockAbort
  <1>4. ASSUME NEW t \in Tokens, Expire(t) PROVE pc'[r] = "done"
    BY <1>4 DEF Expire
  <1>5. CASE UNCHANGED vars
    BY <1>5 DEF vars
  <1> QED BY <1>1, <1>2, <1>3, <1>4, <1>5 DEF Next, Terminating

\* What a rotation that commits does to the table: one token for another.
LEMMA RotationExchanges ==
    ASSUME Inv, Descent, NEW r \in Requests, CommitRotate(r)
    PROVE  /\ req[r].token \in Active /\ NewId[r] \in Tokens /\ r \in Issuers
           /\ NewId[r] # req[r].token /\ NewId[r] \notin Active
           /\ family[NewId[r]] = NoRow /\ family[req[r].token] \in Tokens
           /\ family' = [family EXCEPT ![NewId[r]] = family[req[r].token]]
           /\ Active' = (Active \ {req[r].token}) \cup {NewId[r]}
           /\ pc'[r] = "done"
  <1> DEFINE t == req[r].token
             n == NewId[r]
  <1>1. pc[r] = "commit" /\ r \in Issuers /\ t \in Active
    BY DEF CommitRotate, Inv, LabelInv, Labelled, SecuredInv, Secured, Issuers
  <1>2. n \in Tokens /\ Unused(n)
    BY <1>1, TokensAssumption DEF Issuers, Inv, PendingInv
  <1>3. /\ n # t /\ n \notin Active /\ t \in Tokens
        /\ token \in [Tokens -> TokenRow] /\ pc \in [Requests -> Labels]
    BY <1>1, <1>2 DEF Unused, Active, Inv, TypeOK
  <1>4. \A x \in Tokens \ {n, t} : token'[x] = token[x]
    BY <1>3 DEF CommitRotate
  <1>5. token'[n].state = "active" /\ token'[t].state = "revoked"
    BY <1>2, <1>3 DEF CommitRotate, TokenRow, Fresh, NoToken
  <1>6. Active' = (Active \ {t}) \cup {n}
    BY <1>2, <1>3, <1>4, <1>5 DEF Active
  <1> QED BY <1>1, <1>2, <1>3, <1>6 DEF CommitRotate, Finish, Descent

\* What a login that stores its session does to the table: one login more.
LEMMA LoginOpens ==
    ASSUME Inv, Descent, NEW r \in Requests, Login(r), ~Reject(r, "401")
    PROVE  /\ NewId[r] \in Tokens /\ r \in Issuers /\ NewId[r] \notin Active
           /\ family[NewId[r]] = NoRow
           /\ family' = [family EXCEPT ![NewId[r]] = NewId[r]]
           /\ Active' = Active \cup {NewId[r]}
           /\ pc'[r] = "done"
  <1> DEFINE n == NewId[r]
  <1>1. pc[r] = "new" /\ r \in Issuers /\ n \in Tokens /\ Unused(n)
    BY TokensAssumption DEF Login, Issuers, Inv, PendingInv
  <1>2. n \notin Active /\ token \in [Tokens -> TokenRow] /\ pc \in [Requests -> Labels]
    BY <1>1 DEF Unused, Active, Inv, TypeOK
  <1>3. token' = [token EXCEPT ![n] = Fresh(Actor[r])]
    BY DEF Login
  <1>4. Active' = Active \cup {n}
    BY <1>1, <1>2, <1>3 DEF Active, Fresh, NoToken
  <1> QED BY <1>1, <1>2, <1>4 DEF Login, Finish, Descent

\* The other steps, in one assumption.
Opens(r) == Login(r) /\ ~Reject(r, "401")
NeitherOpensNorRotates == \A r \in Requests : ~CommitRotate(r) /\ ~Opens(r)

LEMMA OnlyEnds ==
    ASSUME Inv, [Next]_vars, NeitherOpensNorRotates
    PROVE  family' = family /\ Active' \subseteq Active
  BY OtherSteps DEF NeitherOpensNorRotates, Opens

LEMMA DescentNext == Inv /\ Descent /\ [Next]_vars => Descent'
  <1> SUFFICES ASSUME Inv, Descent, [Next]_vars PROVE Descent'
    OBVIOUS
  <1>0. /\ \A o \in Issuers : o \in Requests /\ NewId[o] \in Tokens
        /\ \A o, q \in Issuers : NewId[o] = NewId[q] => o = q
        /\ family \in [Tokens -> Tokens \cup {NoRow}] /\ Active \subseteq Tokens
    BY TokensAssumption DEF Issuers, Inv, TypeOK, Active
  <1>a. \A o \in Issuers : pc'[o] # "done" => pc[o] # "done"
    BY <1>0, DoneIsFinal
  <1>1. ASSUME NEW r \in Requests, CommitRotate(r) PROVE Descent'
    BY <1>0, <1>a, <1>1, RotationExchanges DEF Descent
  <1>2. ASSUME NEW r \in Requests, Opens(r) PROVE Descent'
    BY <1>0, <1>a, <1>2, LoginOpens DEF Descent, Opens
  <1>3. CASE NeitherOpensNorRotates
    BY <1>0, <1>a, <1>3, OnlyEnds DEF Descent
  <1> QED BY <1>1, <1>2, <1>3 DEF NeitherOpensNorRotates

LEMMA DescentInit == Init => Descent
  <1> SUFFICES ASSUME Init PROVE Descent
    OBVIOUS
  <1>1. \A t \in Active : family[t] = t /\ t \in Tokens
    BY DEF Init, Active, NoToken
  <1>2. \A r \in Issuers : family[NewId[r]] = NoRow
    BY TokensAssumption DEF Init
  <1> QED BY <1>1, <1>2 DEF Descent

-----------------------------------------------------------------------------
(* The three steps of the ledger.                                          *)

LiveOf == {<<family[t], t>> : t \in Active}
SpentOf == {t \in Tokens : family[t] # NoRow} \ Active

LEMMA LedgerInit == Init => Ledger!LInit
  <1> SUFFICES ASSUME Init PROVE Ledger!LInit
    OBVIOUS
  <1>1. \A t \in Tokens : SeedUser[t] = NoRow => family[t] = NoRow
    BY DEF Init
  <1>2. \A t \in Tokens : SeedUser[t] # NoRow => family[t] = t /\ t \in Active
    BY DEF Init, Active, Fresh, NoToken
  <1>3. \A t \in Active : t \in Tokens /\ family[t] = t
    BY <1>2 DEF Init, Active, NoToken
  <1> QED BY <1>1, <1>2, <1>3 DEF Ledger!LInit

LEMMA LedgerNext == Inv /\ Descent /\ [Next]_vars => [Ledger!LNext]_<<LiveOf, SpentOf>>
  <1> SUFFICES ASSUME Inv, Descent, [Next]_vars
               PROVE  [Ledger!LNext]_<<LiveOf, SpentOf>>
    OBVIOUS
  <1>0. /\ NoRow \notin Tokens /\ Active \subseteq Tokens /\ Active' \subseteq Tokens
        /\ family \in [Tokens -> Tokens \cup {NoRow}]
    BY TokensAssumption DEF Inv, TypeOK, Active
  <1> USE <1>0
  <1>1. ASSUME NEW r \in Requests, CommitRotate(r)
        PROVE  [Ledger!LNext]_<<LiveOf, SpentOf>>
    <2> DEFINE t == req[r].token
               n == NewId[r]
    <2>1. /\ t \in Active /\ n \in Tokens /\ n # t /\ n \notin Active
          /\ family[n] = NoRow /\ family[t] \in Tokens
          /\ family' = [family EXCEPT ![n] = family[t]]
          /\ Active' = (Active \ {t}) \cup {n}
      BY <1>1, RotationExchanges
    <2> HIDE DEF t, n
    <2>2. <<family[t], t>> \in LiveOf /\ n \notin SpentOf /\ \A p \in LiveOf : p[2] # n
      BY <2>1 DEF LiveOf, SpentOf
    <2>3. /\ family'[n] = family[t]
          /\ \A x \in Tokens \ {n} : family'[x] = family[x]
      BY <2>1
    <2>4. LiveOf' = (LiveOf \ {<<family[t], t>>}) \cup {<<family[t], n>>}
      BY <2>1, <2>3 DEF LiveOf
    <2>5. SpentOf' = SpentOf \cup {t}
      BY <2>1, <2>3 DEF SpentOf
    <2>6. Ledger!Exchange(<<family[t], t>>, n)
      BY <2>2, <2>4, <2>5 DEF Ledger!Exchange, Ledger!Unused, LiveOf, SpentOf
    <2> QED BY <2>1, <2>2, <2>6 DEF Ledger!LNext, LiveOf
  <1>2. ASSUME NEW r \in Requests, Opens(r)
        PROVE  [Ledger!LNext]_<<LiveOf, SpentOf>>
    <2> DEFINE n == NewId[r]
    <2>1. /\ n \in Tokens /\ n \notin Active /\ family[n] = NoRow
          /\ family' = [family EXCEPT ![n] = n] /\ Active' = Active \cup {n}
      BY <1>2, LoginOpens DEF Opens
    <2> HIDE DEF n
    <2>2. n \notin SpentOf /\ \A p \in LiveOf : p[2] # n
      BY <2>1 DEF LiveOf, SpentOf
    <2>3. LiveOf' = LiveOf \cup {<<n, n>>} /\ SpentOf' = SpentOf
      BY <2>1 DEF LiveOf, SpentOf
    <2>4. Ledger!Open(n)
      BY <2>2, <2>3 DEF Ledger!Open, Ledger!Unused, LiveOf, SpentOf
    <2> QED BY <2>1, <2>4 DEF Ledger!LNext
  <1>3. CASE NeitherOpensNorRotates
    <2>1. family' = family /\ Active' \subseteq Active
      BY <1>3, OnlyEnds
    <2>2. LiveOf' \subseteq LiveOf
      BY <2>1 DEF LiveOf
    <2>3. {p[2] : p \in LiveOf \ LiveOf'} = Active \ Active'
      <3>1. ASSUME NEW p \in LiveOf \ LiveOf' PROVE p[2] \in Active \ Active'
        BY <2>1 DEF LiveOf
      <3>2. ASSUME NEW t \in Active \ Active'
            PROVE  \E p \in LiveOf \ LiveOf' : t = p[2]
        <4>1. <<family[t], t>> \in LiveOf \ LiveOf' /\ t = <<family[t], t>>[2]
          BY <2>1 DEF LiveOf
        <4> QED BY <4>1
      <3> QED BY <3>1, <3>2
    <2>4. SpentOf' = SpentOf \cup {p[2] : p \in LiveOf \ LiveOf'}
      BY <2>1, <2>3 DEF SpentOf, Descent
    <2>5. Ledger!End
      BY <2>2, <2>4 DEF Ledger!End, LiveOf, SpentOf
    <2> QED BY <2>5 DEF Ledger!LNext
  <1> QED BY <1>1, <1>2, <1>3 DEF NeitherOpensNorRotates

\* The table of refresh tokens, with every request interleaved, implements the
\* ledger: a committed Rotate exchanges one token, issue opens a login, and every
\* other step ends logins or changes nothing.
THEOREM ImplementsLedger == Spec => KeepsLedger
  <1>1. Descent /\ Inv /\ [Next]_vars => Descent'
    BY DescentNext
  <1>2. Spec => []Descent
    BY <1>1, DescentInit, Invariance, PTL DEF Spec
  <1>3. Inv /\ Descent /\ [Next]_vars
          => [Ledger!LNext]_<<{<<family[t], t>> : t \in Active},
                              {t \in Tokens : family[t] # NoRow} \ Active>>
    BY LedgerNext DEF LiveOf, SpentOf
  <1> QED BY <1>2, <1>3, LedgerInit, Invariance, PTL DEF Spec, KeepsLedger,
             Ledger!LSpec, Ledger!lvars
=============================================================================
