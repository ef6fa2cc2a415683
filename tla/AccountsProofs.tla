--------------------------- MODULE AccountsProofs ---------------------------
(***************************************************************************)
(* Proofs about Accounts, for every set of requests, names and calls and   *)
(* every size of the pool.                                                 *)
(*                                                                         *)
(* A statement has a reply only while its request waits for it, or after   *)
(* the request has given up; its change is committed with the reply.       *)
(***************************************************************************)
EXTENDS Accounts, TLAPS

\* Where a request can be in each phase, and when it has a statement.
PhaseInv ==
    \A r \in Requests :
        /\ phase[r] = "new" => at[r] = "middleware"
        /\ phase[r] = "run" => at[r] \in Code
        /\ phase[r] \in {"queue", "sent"} => at[r] \in Statements
        /\ phase[r] \in {"new", "run", "queue", "rollback"} => statement[r] = "none"
        /\ phase[r] = "sent" => statement[r] # "none"
        /\ phase[r] # "new" => call[r] \in Call
        /\ phase[r] = "rollback" => answer[r] \notin Success
        /\ phase[r] \in {"new", "run", "queue", "sent"} => answer[r] = "none"

\* A change is committed with the reply "ok" of a statement that changes something.
EffectInv ==
    \A r \in Requests :
        /\ r \in applied => /\ phase[r] \in {"sent", "done"} /\ at[r] \in Changes
                            /\ statement[r] # "running"
                            /\ phase[r] = "sent" => statement[r] = "ok"
        /\ phase[r] = "sent" /\ at[r] \in Changes /\ statement[r] = "ok" => r \in applied

\* The rows are folded, and no two share an address or a username.
FoldedInv ==
    /\ \A u \in users : Folded[u.email] = u.email /\ Folded[u.username] = u.username
    /\ \A u, v \in users : u.email = v.email \/ u.username = v.username => u = v

Inv == TypeOK /\ PhaseInv /\ EffectInv /\ AnswerMatchesEffect /\ FoldedInv

-----------------------------------------------------------------------------
(* The accounts.                                                           *)

\* Folding makes the rows of users comparable as they are.
LEMMA FoldedIdentity == TypeOK /\ FoldedInv => OneAccountPerIdentity
  BY DEF TypeOK, FoldedInv, OneAccountPerIdentity

\* The row Register builds.
LEMMA NewUserType ==
    ASSUME NEW r \in Requests, call[r] \in Call
    PROVE  NewUser(r) \in User
  BY AccountsAssumption DEF NewUser, User, Call, NormalizeEmail, NormalizeUsername

\* An insertion keeps the rows folded and apart; everything else only removes rows.
LEMMA InsertUserKeepsFolded ==
    ASSUME TypeOK, PhaseInv, FoldedInv, NEW r \in Requests, phase[r] # "new", InsertUser(r)
    PROVE  users' \subseteq User /\ FoldedInv'
  <1> DEFINE u == NewUser(r)
  <1>1. u \in User
    BY NewUserType DEF PhaseInv
  <1>2. CASE UNCHANGED users
    BY <1>2 DEF TypeOK, FoldedInv
  <1>3. CASE /\ ~Refused(u, call[r].blank) /\ ~Taken(u)
             /\ users' = users \cup {u}
    <2>1. /\ Folded[u.email] = u.email /\ Folded[u.username] = u.username
          /\ \A v \in users : v.email # u.email /\ v.username # u.username
      BY <1>3 DEF Refused, Taken
    <2> HIDE DEF u
    <2> QED BY <1>1, <1>3, <2>1 DEF TypeOK, FoldedInv
  <1> QED BY <1>2, <1>3 DEF InsertUser

-----------------------------------------------------------------------------
(* What the ways of going on do.                                           *)

Answers == {"none"} \cup Success \cup Refusals \cup Unclear
Connections == {"none", "held", "closing"}

Others(r) == \A o \in Requests \ {r} :
    /\ at'[o] = at[o] /\ phase'[o] = phase[o] /\ statement'[o] = statement[o]
    /\ answer'[o] = answer[o] /\ call'[o] = call[o]

\* The call of r is what it was, or r has just come with one.
SameCalls(r) == /\ call' \in [Requests -> Call \cup {None}]
                /\ call'[r] \in Call
                /\ \A o \in Requests \ {r} : call'[o] = call[o]
                /\ known' \in [Requests -> SUBSET Requests]

\* Going on with the next part keeps the invariant.
LEMMA EnterStep ==
    ASSUME Inv, NEW r \in Requests, NEW p \in Code \cup Statements,
           NEW c \in Connections, Enter(r, p, c), r \notin applied, phase[r] # "done",
           answer[r] = "none", SameCalls(r), UNCHANGED <<users, row, applied, announced>>
    PROVE  Inv'
  <1> USE DEF Inv
  <1>1. /\ at' \in [Requests -> Parts] /\ at'[r] = p
        /\ phase' \in [Requests -> Phases] /\ phase'[r] = (IF p \in Code THEN "run" ELSE "queue")
        /\ conn' \in [Requests -> Connections] /\ ctx' = ctx
        /\ statement' \in [Requests -> {"none", "running"} \cup Outcomes]
        /\ statement'[r] = "none" /\ answer' = answer /\ Others(r)
    BY DEF Enter, TypeOK, PipelineTypeOK, Parts, Phases, Connections, Others, SameCalls
  <1>2. TypeOK'
    BY <1>1 DEF TypeOK, PipelineTypeOK, SameCalls, Connections
  <1>3. PhaseInv'
    BY <1>1 DEF PhaseInv, Others, SameCalls
  <1>4. EffectInv' /\ AnswerMatchesEffect'
    BY <1>1 DEF EffectInv, AnswerMatchesEffect, Others
  <1>5. FoldedInv'
    BY DEF FoldedInv
  <1> QED BY <1>2, <1>3, <1>4, <1>5

\* An answer keeps the invariant when it agrees with what has been committed.
LEMMA FinishStep ==
    ASSUME Inv, NEW r \in Requests, NEW a \in Answers, NEW c \in Connections,
           Finish(r, a, c), phase[r] # "done", SameCalls(r),
           UNCHANGED <<users, row, applied>>,
           announced' \subseteq Requests,
           \A o \in Requests \ {r} : o \in announced' <=> o \in announced,
           a \in Refusals =>
             r \notin applied /\ ~(statement[r] = "running" /\ at[r] \in Changes),
           a \in Success /\ at[r] \in Changes => r \in applied,
           a = "201" => r \in announced',
           r \in announced' => r \in applied
    PROVE  Inv'
  <1> USE DEF Inv
  <1>1. /\ at' = at /\ phase' \in [Requests -> Phases] /\ phase'[r] = "done"
        /\ conn' \in [Requests -> Connections] /\ ctx' \in [Requests -> {"live", "ended"}]
        /\ statement' \in [Requests -> {"none", "running"} \cup Outcomes]
        /\ statement'[r] = (IF statement[r] = "running" THEN "running" ELSE "none")
        /\ answer' \in [Requests -> Answers] /\ answer'[r] = a /\ Others(r)
    BY DEF Finish, TypeOK, PipelineTypeOK, Phases, Connections, Answers, Others, SameCalls
  <1>2. TypeOK'
    BY <1>1 DEF TypeOK, PipelineTypeOK, SameCalls, Connections, Answers
  <1>3. PhaseInv'
    BY <1>1 DEF PhaseInv, Others, SameCalls
  <1>4. EffectInv'
    BY <1>1 DEF EffectInv, Others
  <1>5. AnswerMatchesEffect'
    BY <1>1 DEF AnswerMatchesEffect, Others
  <1>6. FoldedInv'
    BY DEF FoldedInv
  <1> QED BY <1>2, <1>3, <1>4, <1>5, <1>6

\* A failure inside a transaction waits for the rollback.
LEMMA RollbackStep ==
    ASSUME Inv, NEW r \in Requests, NEW a \in Answers \ Success, StartRollback(r, a),
           phase[r] \in {"run", "queue"}, UNCHANGED avars
    PROVE  Inv'
  <1> USE DEF Inv, avars
  <1>1. /\ UNCHANGED <<at, ctx, conn, statement>>
        /\ phase' \in [Requests -> Phases] /\ phase'[r] = "rollback"
        /\ answer' \in [Requests -> Answers] /\ answer'[r] = a /\ Others(r)
    BY DEF StartRollback, TypeOK, PipelineTypeOK, Phases, Answers, Others
  <1>2. TypeOK' /\ FoldedInv'
    BY <1>1 DEF TypeOK, PipelineTypeOK, Answers, FoldedInv
  <1>3. PhaseInv'
    BY <1>1 DEF PhaseInv, Others
  <1>4. EffectInv' /\ AnswerMatchesEffect'
    BY <1>1 DEF EffectInv, AnswerMatchesEffect, Others, PhaseInv
  <1> QED BY <1>2, <1>3, <1>4

\* A request in the middle of its handler has a call, and no step of its own
\* changes it.
LEMMA CallKept ==
    ASSUME Inv, NEW r \in Requests, phase[r] # "new", UNCHANGED <<call, known>>
    PROVE  SameCalls(r)
  BY DEF Inv, TypeOK, PhaseInv, SameCalls

\* A request that is not done and waits for no statement has changed nothing.
LEMMA NotYetApplied ==
    ASSUME Inv, NEW r \in Requests, phase[r] \in {"new", "run", "queue", "rollback"}
    PROVE  r \notin applied /\ statement[r] = "none" /\ r \notin announced
  BY DEF Inv, EffectInv, PhaseInv, AnswerMatchesEffect

\* Fail, from code or from the queue, with an answer that says nothing of the effect.
LEMMA FailStep ==
    ASSUME Inv, NEW r \in Requests, NEW a \in Unclear, Fail(r, a),
           phase[r] \in {"run", "queue"}, UNCHANGED avars
    PROVE  Inv'
  <1>1. a \in Answers \ Success /\ a \in Answers /\ a \notin Refusals /\ a # "201"
    BY DEF Unclear, Answers, Success, Refusals
  <1>2. CASE conn[r] = "held" /\ StartRollback(r, a)
    BY <1>1, <1>2, RollbackStep
  <1>3. CASE Finish(r, a, "none")
    <2>1. SameCalls(r) /\ UNCHANGED <<users, row, applied, announced>>
      BY CallKept DEF avars
    <2>2. r \notin announced' /\ announced' \subseteq Requests
      BY <2>1, NotYetApplied DEF Inv, TypeOK
    <2> QED BY <1>1, <1>3, <2>1, <2>2, FinishStep DEF Connections, Success, Unclear
  <1> QED BY <1>2, <1>3 DEF Fail

-----------------------------------------------------------------------------
(* The steps of the handlers.                                              *)

LEMMA InvInit == Init => Inv
  <1> SUFFICES ASSUME Init PROVE Inv
    OBVIOUS
  <1> USE DEF Init, PipelineInit
  <1>1. TypeOK
    BY AccountsAssumption
       DEF TypeOK, PipelineTypeOK, Parts, Phases
  <1>2. PhaseInv /\ EffectInv /\ AnswerMatchesEffect
    BY DEF PhaseInv, EffectInv, AnswerMatchesEffect
  <1>3. FoldedInv
    BY AccountsAssumption DEF FoldedInv
  <1> QED BY <1>1, <1>2, <1>3 DEF Inv

LEMMA ArriveStep ==
    ASSUME Inv, NEW r \in Requests, Arrive(r) PROVE Inv'
  <1>1. PICK c \in Menu[r] :
          /\ call' = [call EXCEPT ![r] = c]
          /\ \/ Finish(r, "4xx", "none")
             \/ c.kind = "live" /\ Finish(r, "200", "none")
             \/ c.kind # "live" /\ Enter(r, FirstPart[c.kind], "none")
          /\ known' = IF c.kind = "login" THEN [known EXCEPT ![r] = Acknowledged] ELSE known
    BY DEF Arrive, TurnAway
  <1>2. c \in Call /\ phase[r] = "new" /\ UNCHANGED <<users, row, applied, announced>>
    BY AccountsAssumption DEF Arrive, TurnAway
  <1>3. SameCalls(r)
    <2>1. call \in [Requests -> Call \cup {None}] /\ known \in [Requests -> SUBSET Requests]
      BY DEF Inv, TypeOK
    <2>2. Acknowledged \in SUBSET Requests
      BY DEF Acknowledged
    <2> QED BY <1>1, <1>2, <2>1, <2>2 DEF SameCalls
  <1>4. /\ r \notin applied /\ statement[r] = "none" /\ answer[r] = "none"
        /\ r \notin announced /\ at[r] = "middleware" /\ announced \subseteq Requests
    BY <1>2, NotYetApplied DEF Inv, PhaseInv, TypeOK
  <1>5. CASE Finish(r, "4xx", "none")
    BY <1>2, <1>3, <1>4, <1>5, FinishStep DEF Answers, Connections, Refusals, Success, Changes
  <1>6. CASE Finish(r, "200", "none")
    BY <1>2, <1>3, <1>4, <1>6, FinishStep DEF Answers, Connections, Refusals, Success, Changes
  <1>7. CASE c.kind # "live" /\ Enter(r, FirstPart[c.kind], "none")
    <2>1. c.kind \in Kinds \ {"live"}
      BY <1>2, <1>7 DEF Call
    <2>2. FirstPart[c.kind] \in Code \cup Statements
      BY <2>1 DEF Kinds, FirstPart, Code, Statements
    <2> QED BY <1>2, <1>3, <1>4, <1>7, <2>2, EnterStep DEF Connections
  <1> QED BY <1>1, <1>5, <1>6, <1>7

\* Going on from code that runs, and answering from it.
LEMMA CodeStep ==
    ASSUME Inv, NEW r \in Requests, phase[r] = "run", UNCHANGED avars,
           \/ \E p \in Code \cup Statements, c \in Connections : Enter(r, p, c)
           \/ \E a \in Refusals \cup Unclear : Finish(r, a, "none")
    PROVE  Inv'
  <1>1. /\ SameCalls(r) /\ r \notin applied /\ statement[r] = "none" /\ r \notin announced
        /\ announced \subseteq Requests /\ answer[r] = "none"
        /\ UNCHANGED <<users, row, applied, announced>>
    BY CallKept, NotYetApplied DEF avars, Inv, PhaseInv, TypeOK
  <1>2. CASE \E p \in Code \cup Statements, c \in Connections : Enter(r, p, c)
    BY <1>1, <1>2, EnterStep
  <1>3. CASE \E a \in Refusals \cup Unclear : Finish(r, a, "none")
    <2>1. PICK a \in Refusals \cup Unclear : Finish(r, a, "none")
      BY <1>3
    <2>2. a \in Answers /\ a \notin Success
      BY DEF Answers, Refusals, Unclear, Success
    <2> QED BY <1>1, <2>1, <2>2, FinishStep DEF Connections, Success
  <1> QED BY <1>2, <1>3

LEMMA HashStep == ASSUME Inv, NEW r \in Requests, Hash(r) PROVE Inv'
  BY CodeStep DEF Hash, Statements, Connections, Unclear

LEMMA VerifyStep == ASSUME Inv, NEW r \in Requests, Verify(r) PROVE Inv'
  BY CodeStep DEF Verify, Statements, Connections, Refusals

LEMMA FnStep == ASSUME Inv, NEW r \in Requests, Fn(r) PROVE Inv'
  <1>1. "404" \in Answers \ Success
    BY DEF Answers, Success, Refusals
  <1> QED BY <1>1, CodeStep, RollbackStep DEF Fn, Statements, Connections

-----------------------------------------------------------------------------
(* The database and the replies.                                           *)

\* A statement that runs is answered, and what it changes is committed with the
\* answer "ok": of the request that waits, or of one that has given up and been
\* told nothing of the effect.
LEMMA ExecutedStep ==
    ASSUME Inv, NEW r \in Requests, statement[r] = "running", NEW o \in Outcomes,
           Executed(r, o), row' \in [Requests -> User \cup {None}],
           users' \subseteq User, FoldedInv',
           \/ o = "ok" /\ at[r] \in Changes /\ applied' = applied \cup {r}
           \/ (o # "ok" \/ at[r] \notin Changes) /\ applied' = applied
    PROVE  Inv'
  <1> USE DEF Inv, Executed
  <1>1. /\ statement' \in [Requests -> {"none", "running"} \cup Outcomes]
        /\ statement'[r] = o /\ \A q \in Requests \ {r} : statement'[q] = statement[q]
    BY DEF TypeOK, PipelineTypeOK
  <1>2. phase[r] \in {"sent", "done"} /\ r \notin applied /\ o \notin {"none", "running"}
    BY DEF PhaseInv, EffectInv, TypeOK, PipelineTypeOK, Phases, Outcomes
  <1>3. TypeOK'
    BY <1>1 DEF TypeOK, PipelineTypeOK
  <1>4. PhaseInv'
    BY <1>1, <1>2 DEF PhaseInv
  <1>5. EffectInv'
    BY <1>1, <1>2 DEF EffectInv
  <1>6. AnswerMatchesEffect'
    BY <1>1, <1>2 DEF AnswerMatchesEffect
  <1> QED BY <1>3, <1>4, <1>5, <1>6

LEMMA ExecuteStep == ASSUME Inv, NEW r \in Requests, Execute(r) PROVE Inv'
  <1>1. /\ statement[r] = "running" /\ phase[r] # "new" /\ call[r] \in Call
        /\ users \subseteq User /\ row \in [Requests -> User \cup {None}]
        /\ FoldedInv /\ TypeOK /\ PhaseInv
    BY DEF Execute, Inv, PhaseInv, TypeOK
  <1>2. UNCHANGED users => users' \subseteq User /\ FoldedInv'
    BY <1>1 DEF FoldedInv
  <1> USE DEF Outcomes, Changes
  <1>3. CASE InsertUser(r)
    <2>1. users' \subseteq User /\ FoldedInv'
      BY <1>1, <1>3, InsertUserKeepsFolded
    <2> QED BY <1>1, <1>3, <2>1, ExecutedStep DEF InsertUser
  <1>4. CASE SelectUser(r)
    <2>1. row' \in [Requests -> User \cup {None}]
      BY <1>1, <1>4 DEF SelectUser
    <2> QED BY <1>1, <1>2, <1>4, <2>1, ExecutedStep DEF SelectUser
  <1>5. CASE InsertSession(r)
    BY <1>1, <1>2, <1>5, ExecutedStep DEF InsertSession
  <1>6. CASE UpdateUser(r)
    BY <1>1, <1>2, <1>6, ExecutedStep DEF UpdateUser
  <1>7. CASE Read(r)
    BY <1>1, <1>2, <1>7, ExecutedStep DEF Read
  <1>8. CASE CommitTx(r)
    BY <1>1, <1>2, <1>8, ExecutedStep DEF CommitTx
  <1> QED BY <1>3, <1>4, <1>5, <1>6, <1>7, <1>8 DEF Execute

\* A reply goes to its handler.  Only "ok" is answered 200 or 201.
LEMMA ReceiveStep == ASSUME Inv, NEW r \in Requests, Receive(r) PROVE Inv'
  <1>1. /\ phase[r] = "sent" /\ statement[r] \in Outcomes /\ at[r] \in Statements
        /\ SameCalls(r) /\ UNCHANGED <<users, row, applied>> /\ answer[r] = "none"
    BY CallKept DEF Receive, Inv, PhaseInv, TypeOK, PipelineTypeOK
  <1>2. /\ r \in applied <=> at[r] \in Changes /\ statement[r] = "ok"
        /\ r \in announced => r \in applied
    BY <1>1 DEF Inv, EffectInv, AnswerMatchesEffect
  <1>3. /\ announced' \subseteq Requests
        /\ \A o \in Requests \ {r} : o \in announced' <=> o \in announced
        /\ r \in announced' => r \in applied
        /\ at[r] = "insertUser" /\ statement[r] = "ok" => r \in announced'
        /\ at[r] \notin Changes => UNCHANGED announced
    BY <1>2 DEF Receive, Announces, Inv, TypeOK, Changes
  <1>4. CASE \E p \in Code \cup Statements, c \in Connections :
               Enter(r, p, c) /\ at[r] \in {"selectUser", "begin", "change"}
    BY <1>1, <1>2, <1>3, <1>4, EnterStep DEF Changes
  <1>5. CASE Finish(r, Status(at[r], statement[r]), "none")
    <2>1. /\ Status(at[r], statement[r]) \in Answers
          /\ Status(at[r], statement[r]) \in Success => statement[r] = "ok"
          /\ Status(at[r], statement[r]) \in Refusals => statement[r] # "ok"
          /\ Status(at[r], statement[r]) = "201" => at[r] = "insertUser"
      <3> USE DEF Status, Answers, Success, Refusals, Unclear
      <3>1. CASE statement[r] = "ok" /\ at[r] = "insertUser"
        BY <3>1
      <3>2. CASE statement[r] = "ok" /\ at[r] # "insertUser"
        BY <3>2
      <3>3. CASE statement[r] = "norow"
        BY <3>3
      <3>4. CASE statement[r] = "unique"
        BY <3>4
      <3>5. CASE statement[r] \in {"check", "foreign"}
        BY <3>5
      <3> QED BY <1>1, <3>1, <3>2, <3>3, <3>4, <3>5 DEF Outcomes
    <2>2. "201" \in Success /\ statement[r] # "running"
      BY <1>1 DEF Success, Outcomes
    <2> QED BY <1>1, <1>2, <1>3, <1>5, <2>1, <2>2, FinishStep DEF Connections
  <1> QED BY <1>4, <1>5 DEF Receive, Code, Statements, Connections

-----------------------------------------------------------------------------
(* The driver, the pool, the context, and an operator.                     *)

\* What ends a request that waits for a reply says nothing of the effect.
LEMMA AbandonStep ==
    ASSUME Inv, NEW r \in Requests, NEW a \in Unclear, NEW c \in Connections,
           phase[r] = "sent", Finish(r, a, c), UNCHANGED avars
    PROVE  Inv'
  <1>1. a \in Answers /\ a \notin Success /\ a \notin Refusals /\ a # "201"
    BY DEF Unclear, Answers, Success, Refusals
  <1>2. /\ SameCalls(r) /\ UNCHANGED <<users, row, applied, announced>>
        /\ announced \subseteq Requests /\ (r \in announced => r \in applied)
    BY CallKept DEF avars, Inv, TypeOK, AnswerMatchesEffect
  <1> QED BY <1>1, <1>2, FinishStep

\* Steps that change neither phase, statement nor answer.
LEMMA QuietStep ==
    ASSUME Inv, ctx' \in [Requests -> {"live", "ended"}], conn' \in [Requests -> Connections],
           UNCHANGED <<at, phase, statement, answer, call, row, applied, announced, known>>,
           users' \subseteq users
    PROVE  Inv'
  <1> USE DEF Inv
  <1>1. TypeOK'
    BY DEF TypeOK, PipelineTypeOK, Connections
  <1>2. PhaseInv' /\ EffectInv' /\ AnswerMatchesEffect' /\ FoldedInv'
    BY DEF PhaseInv, EffectInv, AnswerMatchesEffect, FoldedInv
  <1> QED BY <1>1, <1>2

LEMMA SendStep ==
    ASSUME Inv, NEW r \in Requests, Send(r), UNCHANGED avars PROVE Inv'
  <1> USE DEF Inv, Send, avars
  <1>1. /\ phase' \in [Requests -> Phases] /\ phase'[r] = "sent"
        /\ statement' \in [Requests -> {"none", "running"} \cup Outcomes]
        /\ statement'[r] = "running" /\ Others(r)
        /\ conn' \in [Requests -> {"none", "held", "closing"}]
    BY DEF TypeOK, PipelineTypeOK, Phases, Others
  <1>2. TypeOK' /\ FoldedInv'
    BY <1>1 DEF TypeOK, PipelineTypeOK, FoldedInv
  <1>3. PhaseInv'
    BY <1>1 DEF PhaseInv, Others
  <1>4. EffectInv' /\ AnswerMatchesEffect'
    BY <1>1 DEF EffectInv, AnswerMatchesEffect, Others
  <1> QED BY <1>2, <1>3, <1>4

LEMMA TransportStep ==
    ASSUME Inv, NEW r \in Requests, Transport(r), UNCHANGED avars PROVE Inv'
  <1>1. CASE Send(r)
    BY <1>1, SendStep
  <1>2. Classify(r, "ended") \in Unclear /\ Classify(r, "500") \in Unclear /\ "500" \in Unclear
    BY DEF Classify, Unclear
  <1>3. CASE GiveUp(r)
    BY <1>2, <1>3, FailStep, AbandonStep DEF GiveUp, Connections
  <1>4. CASE Break(r)
    BY <1>2, <1>4, AbandonStep DEF Break, Connections
  <1>5. CASE EndRollback(r)
    <2>1. /\ phase[r] = "rollback" /\ Finish(r, answer[r], "none") /\ answer[r] \in Answers
          /\ answer[r] \notin Success /\ answer[r] # "201"
      BY <1>5 DEF EndRollback, Inv, PhaseInv, TypeOK, PipelineTypeOK, Answers, Success
    <2>2. /\ SameCalls(r) /\ r \notin applied /\ statement[r] = "none" /\ r \notin announced
          /\ announced \subseteq Requests
      BY <2>1, CallKept, NotYetApplied DEF avars, Inv, TypeOK
    <2> QED BY <2>1, <2>2, FinishStep DEF Connections, avars
  <1>6. CASE CloseConn(r) \/ EndContext(r)
    <2>1. ctx' \in [Requests -> {"live", "ended"}] /\ conn' \in [Requests -> Connections]
      BY <1>6 DEF CloseConn, EndContext, Inv, TypeOK, PipelineTypeOK, Connections
    <2> QED BY <1>6, <2>1, QuietStep DEF CloseConn, EndContext, avars
  <1>7. CASE Panic(r)
    BY <1>2, <1>7, FailStep DEF Panic
  <1> QED BY <1>1, <1>3, <1>4, <1>5, <1>6, <1>7 DEF Transport

-----------------------------------------------------------------------------
(* The theorems.                                                           *)

LEMMA InvNext == Inv /\ [Next]_vars => Inv'
  <1> SUFFICES ASSUME Inv, [Next]_vars PROVE Inv'
    OBVIOUS
  <1>1. CASE UNCHANGED vars
    <2>1. UNCHANGED <<at, phase, ctx, conn, statement, answer, call, users, row, applied,
                      announced, known>>
      BY <1>1 DEF vars, pvars, avars
    <2> QED BY <2>1, QuietStep DEF Inv, TypeOK, PipelineTypeOK, Connections
  <1>2. ASSUME NEW r \in Requests, Arrive(r) PROVE Inv'
    BY <1>2, ArriveStep
  <1>3. ASSUME NEW r \in Requests, Handler(r) PROVE Inv'
    BY <1>3, HashStep, VerifyStep, FnStep, ReceiveStep DEF Handler
  <1>4. ASSUME NEW r \in Requests, Execute(r) PROVE Inv'
    BY <1>4, ExecuteStep
  <1>5. ASSUME NEW r \in Requests, Transport(r), UNCHANGED avars PROVE Inv'
    BY <1>5, TransportStep
  <1>6. ASSUME NEW u \in users, Erase(u) PROVE Inv'
    BY <1>6, QuietStep DEF Erase, pvars, Inv, TypeOK, PipelineTypeOK, Connections
  <1> QED BY <1>1, <1>2, <1>3, <1>4, <1>5, <1>6 DEF Next, Terminating

\* Inv is an inductive invariant of the request path with accounts on it.
THEOREM Invariance == Spec => []Inv
  BY InvInit, InvNext, PTL DEF Spec

\* Every value stays in its domain, whatever interleaving of the requests, the
\* database, the pool and the clock (user/service.go, postgres.go, middleware.go).
THEOREM TypeCorrect == Spec => []TypeOK
  <1>1. Inv => TypeOK
    BY DEF Inv
  <1> QED BY <1>1, Invariance, PTL

\* For any number of registrations racing, given up or executed late, an address
\* or a username belongs to one account, however it is spelled (user/service.go,
\* Register; user/repository.go, Create; the constraints of users).
THEOREM OneAccount == Spec => []OneAccountPerIdentity
  <1>1. Inv => OneAccountPerIdentity
    BY FoldedIdentity DEF Inv
  <1> QED BY <1>1, Invariance, PTL

\* For any number of requests and any size of the pool, a success has been
\* committed, a refusal has changed nothing and never will (apierr.go,
\* classifyContextError; postgres.go, InTx; the handlers of user and post).
THEOREM AnswersTellTheTruth == Spec => []AnswerMatchesEffect
  <1>1. Inv => AnswerMatchesEffect
    BY DEF Inv
  <1> QED BY <1>1, Invariance, PTL

-----------------------------------------------------------------------------
(* A login finds the account it was promised.                              *)

\* r has read the account of its address.
HasRead(r) == \/ at[r] = "verify"
              \/ at[r] = "selectUser" /\ statement[r] \notin {"none", "running"}

\* An account made here is the row of its registration; the account of a known
\* registration is the one a login has read; 401 means the password did not match.
LoginInv ==
    /\ \A u \in users : u.id \in Requests => u = NewUser(u.id) /\ phase[u.id] # "new"
    /\ \A r \in Requests : known[r] \subseteq Acknowledged
    /\ \A r \in Requests : HasRead(r) =>
         \A q \in known[r] : Folded[call[q].email] = Folded[call[r].email] =>
           \A u \in users : u.id = q => row[r] = u
    /\ \A r \in Requests : at[r] = "verify" /\ answer[r] = "401" => ~Matches(r)

LEMMA LoginSafe == Inv /\ LoginInv => AcknowledgedAccountWorks
  <1> SUFFICES ASSUME Inv, LoginInv, NEW r \in Requests, at[r] = "verify", answer[r] = "401",
                      NEW q \in known[r], Folded[call[q].email] = Folded[call[r].email],
                      call[q].password = call[r].password,
                      NEW u \in users, u.id = q
               PROVE  FALSE
    BY DEF AcknowledgedAccountWorks
  <1>1. q \in Requests /\ u \in User
    BY DEF Inv, TypeOK
  <1>2. u = NewUser(q) /\ row[r] = u /\ ~Matches(r)
    BY <1>1 DEF LoginInv, HasRead
  <1>3. u # None /\ u.password = call[r].password
    BY <1>1, <1>2, AccountsAssumption DEF NewUser
  <1> QED BY <1>2, <1>3 DEF Matches

\* What has been acknowledged is over: its statement cannot be executed again.
LEMMA AcknowledgedIsOver ==
    ASSUME Inv, NEW q \in Acknowledged
    PROVE  /\ q \in Requests /\ phase[q] = "done"
           /\ statement[q] # "running"
  BY DEF Inv, Acknowledged, AnswerMatchesEffect, EffectInv

\* A step of r that touches no account, no row and no call keeps LoginInv, unless
\* r comes to the comparison without having read, or answers 401 to a match.
LEMMA LoginKept ==
    ASSUME Inv, LoginInv, NEW r \in Requests, UNCHANGED <<users, row, call, known>>, Others(r),
           phase[r] = "new" \/ phase'[r] # "new",
           \/ phase[r] # "done"
           \/ UNCHANGED <<at, phase, answer>>,
           HasRead(r)' => HasRead(r),
           at'[r] = "verify" /\ answer'[r] = "401" =>
             (at[r] = "verify" /\ answer[r] = "401") \/ ~Matches(r)
    PROVE  LoginInv'
  <1>1. \A q \in Requests : NewUser(q)' = NewUser(q) /\ (Matches(q)' <=> Matches(q))
    BY DEF NewUser, NormalizeEmail, NormalizeUsername, Matches
  <1>2. Acknowledged \subseteq Acknowledged'
    BY DEF Acknowledged, Others
  <1>3. \A u \in users : u.id \in Requests => phase'[u.id] # "new"
    BY DEF LoginInv, Others
  <1>4. \A q \in Requests : HasRead(q)' => HasRead(q)
    BY DEF HasRead, Others
  <1>5. \A q \in Requests : at'[q] = "verify" /\ answer'[q] = "401" => ~Matches(q)
    BY DEF LoginInv, Others
  <1> QED BY <1>1, <1>2, <1>3, <1>4, <1>5 DEF LoginInv

\* Answering and going on, as LoginKept sees them.
LEMMA OthersKept ==
    ASSUME Inv, NEW r \in Requests, UNCHANGED call,
           \/ \E p \in Parts, c \in Connections : Enter(r, p, c)
           \/ \E a \in Answers, c \in Connections : Finish(r, a, c)
           \/ \E a \in Answers : StartRollback(r, a)
    PROVE  Others(r)
  BY DEF Inv, TypeOK, PipelineTypeOK, Enter, Finish, StartRollback, Others

\* An answer other than 401 keeps LoginInv.
LEMMA LoginFinish ==
    ASSUME Inv, LoginInv, NEW r \in Requests, UNCHANGED <<users, row, call, known>>,
           phase[r] # "done", NEW a \in Answers,
           \/ \E c \in Connections : Finish(r, a, c)
           \/ StartRollback(r, a),
           a = "401" => answer[r] = "401" \/ ~Matches(r)
    PROVE  LoginInv'
  <1>1. Others(r)
    BY OthersKept
  <1>2. /\ at' = at /\ phase'[r] # "new" /\ answer'[r] = a
        /\ HasRead(r)' => HasRead(r)
    BY DEF Inv, TypeOK, PipelineTypeOK, Finish, StartRollback, HasRead
  <1> QED BY <1>1, <1>2, LoginKept

\* So does going on, where the comparison comes after the read.
LEMMA LoginEnter ==
    ASSUME Inv, LoginInv, NEW r \in Requests, UNCHANGED <<users, row, call, known>>,
           phase[r] # "done", answer[r] = "none",
           NEW p \in Parts, NEW c \in Connections, Enter(r, p, c), p = "verify" => HasRead(r)
    PROVE  LoginInv'
  <1>1. Others(r)
    BY OthersKept
  <1>2. /\ at'[r] = p /\ phase'[r] # "new" /\ answer'[r] = "none"
        /\ HasRead(r)' => HasRead(r)
    BY DEF Inv, TypeOK, PipelineTypeOK, Enter, HasRead
  <1> QED BY <1>1, <1>2, LoginKept

LEMMA LoginArrive ==
    ASSUME Inv, LoginInv, NEW r \in Requests, Arrive(r) PROVE LoginInv'
  <1>1. /\ phase[r] = "new" /\ UNCHANGED <<users, row>> /\ phase'[r] # "new"
        /\ \A o \in Requests \ {r} : call'[o] = call[o] /\ known'[o] = known[o]
        /\ known'[r] = known[r] \/ known'[r] = Acknowledged
        /\ Others(r)
        /\ at'[r] # "verify" /\ (at'[r] = "selectUser" => statement'[r] = "none")
    <2> USE DEF Inv, TypeOK, PipelineTypeOK, Parts
    <2>1. PICK c \in Call :
            /\ call' = [call EXCEPT ![r] = c]
            /\ \/ \E a \in {"4xx", "200"} : Finish(r, a, "none")
               \/ c.kind # "live" /\ Enter(r, FirstPart[c.kind], "none")
            /\ known' = IF c.kind = "login" THEN [known EXCEPT ![r] = Acknowledged] ELSE known
      BY AccountsAssumption DEF Arrive, TurnAway
    <2>2. phase[r] = "new" /\ UNCHANGED <<users, row>> /\ at[r] = "middleware"
      BY DEF Arrive, TurnAway, PhaseInv
    <2>3. CASE \E a \in {"4xx", "200"} : Finish(r, a, "none")
      BY <2>1, <2>2, <2>3 DEF Finish, Others
    <2>4. CASE c.kind # "live" /\ Enter(r, FirstPart[c.kind], "none")
      <3>1. FirstPart[c.kind] # "verify"
        BY <2>1, <2>4 DEF Call, Kinds, FirstPart
      <3> QED BY <2>1, <2>2, <2>4, <3>1 DEF Enter, Others
    <2> QED BY <2>1, <2>3, <2>4
  <1>2. \A q \in Acknowledged : q \in Requests \ {r}
    BY <1>1, AcknowledgedIsOver
  <1>3. Acknowledged \subseteq Acknowledged'
    BY <1>1, <1>2 DEF Acknowledged, Others
  <1>4. \A q \in Requests \ {r} : NewUser(q)' = NewUser(q) /\ (Matches(q)' <=> Matches(q))
    BY <1>1 DEF NewUser, NormalizeEmail, NormalizeUsername, Matches
  <1>5. \A q \in Requests : HasRead(q)' => HasRead(q) /\ q # r
    BY <1>1 DEF HasRead, Others
  <1>6. \A u \in users : u.id \in Requests => u.id # r
    BY <1>1 DEF LoginInv
  <1>7. \A q \in Requests : known'[q] \subseteq Acknowledged'
    BY <1>1, <1>3 DEF LoginInv
  <1>8. \A u \in users' : u.id \in Requests => u = NewUser(u.id)' /\ phase'[u.id] # "new"
    BY <1>1, <1>4, <1>6 DEF LoginInv, Others
  <1>9. \A q \in Requests : HasRead(q)' =>
          \A o \in known'[q] : Folded[call'[o].email] = Folded[call'[q].email] =>
            \A u \in users' : u.id = o => row'[q] = u
    <2>1. \A q \in Requests \ {r} : \A o \in known[q] : o \in Requests \ {r}
      BY <1>2 DEF LoginInv
    <2> QED BY <1>1, <1>5, <2>1 DEF LoginInv
  <1>10. \A q \in Requests : at'[q] = "verify" /\ answer'[q] = "401" => ~Matches(q)'
    BY <1>1, <1>4 DEF LoginInv, Others
  <1> QED BY <1>7, <1>8, <1>9, <1>10 DEF LoginInv

LEMMA LoginHandler ==
    ASSUME Inv, LoginInv, NEW r \in Requests, Handler(r) PROVE LoginInv'
  <1> USE DEF avars, Connections, Parts, Code, Statements
  <1>1. {"500", "401", "404"} \subseteq Answers
    BY DEF Answers, Refusals, Unclear
  <1>2. phase[r] \in {"run", "sent"} /\ answer[r] = "none"
    BY DEF Handler, Hash, Verify, Fn, Receive, Inv, PhaseInv
  <1>3. CASE Hash(r)
    BY <1>1, <1>2, <1>3, LoginFinish, LoginEnter DEF Hash
  <1>4. CASE Verify(r)
    BY <1>1, <1>2, <1>4, LoginFinish, LoginEnter DEF Verify
  <1>5. CASE Fn(r)
    BY <1>1, <1>2, <1>5, LoginFinish, LoginEnter DEF Fn
  <1>6. CASE Receive(r)
    <2>1. statement[r] \in Outcomes /\ UNCHANGED <<call, users, row, known>>
      BY <1>6 DEF Receive, Inv, PhaseInv, TypeOK, PipelineTypeOK
    <2>2. Status(at[r], statement[r]) \in Answers /\ Status(at[r], statement[r]) # "401"
      BY <2>1 DEF Status, Outcomes, Answers, Success, Refusals, Unclear
    <2>3. at[r] = "selectUser" => HasRead(r)
      BY <2>1 DEF HasRead, Outcomes
    <2>4. CASE Finish(r, Status(at[r], statement[r]), "none")
      BY <1>2, <2>1, <2>2, <2>4, LoginFinish
    <2>5. ASSUME at[r] = "selectUser", Enter(r, "verify", "none") PROVE LoginInv'
      BY <1>2, <2>1, <2>3, <2>5, LoginEnter
    <2>6. ASSUME NEW p \in {"fn", "commit"}, Enter(r, p, "held") PROVE LoginInv'
      BY <1>2, <2>1, <2>6, LoginEnter
    <2> QED BY <1>6, <2>4, <2>5, <2>6 DEF Receive
  <1> QED BY <1>3, <1>4, <1>5, <1>6 DEF Handler

LEMMA LoginTransport ==
    ASSUME Inv, LoginInv, NEW r \in Requests, Transport(r), UNCHANGED avars PROVE LoginInv'
  <1>1. UNCHANGED <<users, row, call, known>>
    BY DEF avars
  <1>2. CASE Send(r) \/ CloseConn(r) \/ EndContext(r)
    <2>1. /\ Others(r) /\ at' = at /\ answer' = answer
          /\ phase[r] = "new" \/ phase'[r] # "new"
          /\ phase[r] # "done" \/ UNCHANGED phase
          /\ HasRead(r)' => HasRead(r)
      BY <1>1, <1>2 DEF Send, CloseConn, EndContext, Inv, TypeOK, PipelineTypeOK, Others,
                        HasRead, PhaseInv
    <2> QED BY <1>1, <2>1, LoginKept
  <1>3. \A a \in {"500", Classify(r, "ended"), Classify(r, "500")} :
          a \in Answers /\ a # "401"
    BY DEF Classify, Answers, Unclear
  <1>4. CASE GiveUp(r) \/ Break(r) \/ Panic(r)
    BY <1>1, <1>3, <1>4, LoginFinish DEF GiveUp, Break, Panic, Fail, Connections
  <1>5. CASE EndRollback(r)
    <2>1. answer[r] \in Answers
      BY DEF Inv, TypeOK, PipelineTypeOK, Answers
    <2> QED BY <1>1, <1>5, <2>1, LoginFinish DEF EndRollback, Connections
  <1> QED BY <1>2, <1>4, <1>5 DEF Transport

\* The statement of a registration that was acknowledged is not executed again, so
\* no account of a known registration appears after the login has looked for it.
LEMMA LoginExecute ==
    ASSUME Inv, LoginInv, NEW r \in Requests, Execute(r) PROVE LoginInv'
  <1>1. /\ statement[r] = "running" /\ phase[r] # "new" /\ statement'[r] # "none"
        /\ UNCHANGED <<at, phase, ctx, conn, answer, call, announced, known>>
        /\ \A q \in Requests \ {r} : statement'[q] = statement[q]
        /\ \A q \in Requests : Matches(q) <=> row[q] # None /\ row[q].password = call[q].password
    BY DEF Execute, InsertUser, SelectUser, InsertSession, UpdateUser, Read, CommitTx, Executed,
           Inv, PhaseInv, TypeOK, PipelineTypeOK, Matches
  <1>2. /\ Acknowledged' = Acknowledged /\ r \notin Acknowledged
        /\ \A q \in Requests : NewUser(q)' = NewUser(q)
    BY <1>1, AcknowledgedIsOver DEF Acknowledged, NewUser, NormalizeEmail, NormalizeUsername
  <1>3. \A q \in Requests : r \notin known[q]
    BY <1>2 DEF LoginInv
  <1>4. CASE UNCHANGED <<users, row>> /\ at[r] # "selectUser"
    <2>1. \A q \in Requests : HasRead(q)' => HasRead(q)
      BY <1>1, <1>4 DEF HasRead
    <2> QED BY <1>1, <1>2, <1>4, <2>1 DEF LoginInv, Matches
  <1>5. CASE users' = users \cup {NewUser(r)} /\ UNCHANGED row /\ at[r] = "insertUser"
    <2>1. NewUser(r).id = r
      BY DEF NewUser
    <2>2. \A q \in Requests : HasRead(q)' => HasRead(q)
      BY <1>1, <1>5 DEF HasRead
    <2> QED BY <1>1, <1>2, <1>3, <1>5, <2>1, <2>2 DEF LoginInv, Matches
  <1>6. CASE SelectUser(r)
    <2>1. \A u \in users, q \in known[r] :
            u.id = q /\ Folded[call[q].email] = Folded[call[r].email] => u.email = LookedUp(r)
      BY DEF LoginInv, LookedUp, NormalizeEmail, NewUser, Acknowledged
    <2>2. \A u \in users, q \in known[r] :
            u.id = q /\ Folded[call[q].email] = Folded[call[r].email] => row'[r] = u
      <3>1. \A u, v \in users : u.email = v.email => u = v
        BY DEF Inv, FoldedInv
      <3> QED BY <1>6, <2>1, <3>1 DEF SelectUser, Inv, TypeOK
    <2>3. /\ users' = users /\ at[r] = "selectUser"
          /\ \A q \in Requests \ {r} : row'[q] = row[q]
      BY <1>6 DEF SelectUser, Inv, TypeOK
    <2>4. \A q \in Requests \ {r} : HasRead(q)' => HasRead(q)
      BY <1>1 DEF HasRead
    <2>5. \A q \in Requests : HasRead(q)' =>
            \A o \in known[q] : Folded[call[o].email] = Folded[call[q].email] =>
              \A u \in users : u.id = o => row'[q] = u
      BY <2>2, <2>3, <2>4 DEF LoginInv
    <2>6. \A q \in Requests : at[q] = "verify" /\ answer[q] = "401" => ~Matches(q)'
      BY <1>1, <2>3 DEF LoginInv, Matches
    <2> QED BY <1>1, <1>2, <2>3, <2>5, <2>6 DEF LoginInv
  <1> QED BY <1>4, <1>5, <1>6
          DEF Execute, InsertUser, InsertSession, UpdateUser, Read, CommitTx

LEMMA LoginInvNext == Inv /\ LoginInv /\ [Next]_vars => LoginInv'
  <1> SUFFICES ASSUME Inv, LoginInv, [Next]_vars PROVE LoginInv'
    OBVIOUS
  <1>1. ASSUME UNCHANGED <<at, phase, statement, answer, call, row, known>>, users' \subseteq users
        PROVE  LoginInv'
    <2>1. /\ Acknowledged' = Acknowledged
          /\ \A q \in Requests : /\ NewUser(q)' = NewUser(q) /\ (Matches(q)' <=> Matches(q))
                                 /\ (HasRead(q)' <=> HasRead(q))
      BY <1>1 DEF Acknowledged, NewUser, NormalizeEmail, NormalizeUsername, Matches, HasRead
    <2> QED BY <1>1, <2>1 DEF LoginInv
  <1>2. CASE UNCHANGED vars
    BY <1>1, <1>2 DEF vars, pvars, avars
  <1>3. ASSUME NEW r \in Requests,
               Arrive(r) \/ Handler(r) \/ Execute(r) \/ (Transport(r) /\ UNCHANGED avars)
        PROVE  LoginInv'
    BY <1>3, LoginArrive, LoginHandler, LoginExecute, LoginTransport
  <1>4. ASSUME NEW u \in users, Erase(u) PROVE LoginInv'
    BY <1>1, <1>4 DEF Erase, pvars
  <1> QED BY <1>2, <1>3, <1>4 DEF Next, Terminating

\* For any number of requests and of spellings: a login that comes after a
\* registration was answered 201 and has its password is not refused while the
\* account exists (user/service.go, Register and Login; NormalizeEmail).
THEOREM PromisedAccount == Spec => []AcknowledgedAccountWorks
  <1>1. Init => LoginInv
    BY AccountsAssumption DEF Init, PipelineInit, LoginInv, HasRead
  <1>2. Inv /\ LoginInv => AcknowledgedAccountWorks
    BY LoginSafe
  <1> QED BY <1>1, <1>2, LoginInvNext, Invariance, PTL DEF Spec
=============================================================================
