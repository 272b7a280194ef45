---------------------------- MODULE AccessProofs ----------------------------
(***************************************************************************)
(* The lockout and the passwords, for any number of users, requests in     *)
(* flight, challenges and passwords, and for any limit and window.         *)
(***************************************************************************)
EXTENDS Access, FiniteSetTheorems, TLAPS

\* What a handler past its first statement knows.
Aware ==
  \A h \in Handlers :
    /\ req[h].at \in {"consume", "purpose"} => req[h].otp \in Challenges
    /\ req[h].at = "issue" => req[h].goal \in Purposes

TypeInv == TypeOK /\ Aware

-----------------------------------------------------------------------------
(* The shape of the steps.                                                 *)

LEMMA IdleTyped == Idle \in Locals /\ Idle.at = "idle" /\ Idle.on = NoUser /\ Idle.goal = ""
  BY AccessAssumption DEF Idle, Locals, Stages, Goals

LEMMA TypeInit == Init => TypeInv
<1> SUFFICES ASSUME Init PROVE TypeInv
  OBVIOUS
<1>1. <<Initial>> \in Seq(Passwords)
  BY AccessAssumption
<1>2. TypeOK
  BY <1>1, IdleTyped, AccessAssumption DEF Init, TypeOK, Purposes
<1>3. Aware
  BY IdleTyped DEF Init, Aware
<1> QED
  BY <1>2, <1>3 DEF TypeInv

LEMMA FinishShape ==
  ASSUME TypeInv, NEW h \in Handlers, Finish(h)
  PROVE  /\ req' \in [Handlers -> Locals] /\ req'[h] = Idle
         /\ \A g \in Handlers \ {h} : req'[g] = req[g]
  BY IdleTyped DEF Finish, TypeInv, TypeOK

LEMMA GotoShape ==
  ASSUME TypeInv, NEW h \in Handlers, NEW stage \in Stages, Goto(h, stage)
  PROVE  /\ req' \in [Handlers -> Locals] /\ req'[h].at = stage
         /\ req'[h].on = req[h].on /\ req'[h].goal = req[h].goal /\ req'[h].kind = req[h].kind
         /\ req'[h].new = req[h].new /\ req'[h].otp = req[h].otp
         /\ \A g \in Handlers \ {h} : req'[g] = req[g]
<1>1. req[h] \in Locals
  BY DEF TypeInv, TypeOK
<1>2. req' = [req EXCEPT ![h] = [req[h] EXCEPT !.at = stage]]
  BY DEF Goto
<1>3. [req[h] EXCEPT !.at = stage] \in Locals
  BY <1>1 DEF Locals
<1>4. req'[h] = [req[h] EXCEPT !.at = stage]
  BY <1>2 DEF TypeInv, TypeOK
<1> QED
  BY <1>1, <1>2, <1>3, <1>4 DEF TypeInv, TypeOK, Locals

\* What a request starts with.
Started(h, u, local) ==
  /\ req[h].at = "idle" /\ local.on = u
  /\ u \in Serial => \A g \in Handlers : req[g].on # u
  /\ local.at \in {"fail", "welcome", "history", "issue", "consume"}
  /\ local.at \in {"fail", "welcome"} => ~user[u].locked
  /\ local.at = "history" => local.goal = "change"
  /\ local.at = "issue" => local.goal \in Purposes
  /\ local.at = "consume" => /\ local.otp \in Challenges /\ local.goal \in {"reset", "unlock"}
                             /\ chal[local.otp].user = u /\ ~chal[local.otp].used

LEMMA RequestShape ==
  ASSUME TypeInv, NEW h \in Handlers, Request(h)
  PROVE  /\ served' \in Nat /\ UNCHANGED <<user, secret, history, chal, opened>>
         /\ \E u \in Users, local \in Locals :
              Started(h, u, local) /\ req' = [req EXCEPT ![h] = local]
<1> DEFINE Good == /\ served' \in Nat /\ UNCHANGED <<user, secret, history, chal, opened>>
                   /\ \E u \in Users, local \in Locals :
                        Started(h, u, local) /\ req' = [req EXCEPT ![h] = local]
<1>1. ASSUME NEW u \in Users, NEW local \in Locals, Begin(h, u, local), local.on = u,
             UNCHANGED <<user, passwordVars, chal, opened>>,
             local.at \in {"fail", "welcome", "history", "issue", "consume"},
             local.at \in {"fail", "welcome"} => ~user[u].locked,
             local.at = "history" => local.goal = "change",
             local.at = "issue" => local.goal \in Purposes,
             local.at = "consume" => /\ local.otp \in Challenges /\ local.goal \in {"reset", "unlock"}
                                     /\ chal[local.otp].user = u /\ ~chal[local.otp].used
      PROVE  Good
  <2>1. Started(h, u, local)
    BY <1>1 DEF Begin, Started
  <2>2. req' = [req EXCEPT ![h] = local] /\ served' = served + 1
    BY <1>1 DEF Begin
  <2>3. served' \in Nat /\ UNCHANGED <<user, secret, history, chal, opened>>
    BY <1>1, <2>2 DEF passwordVars, TypeInv, TypeOK
  <2> QED
    BY <2>1, <2>2, <2>3
<1> HIDE DEF Good
<1>2. ASSUME NEW u \in Users, LoginWrong(h, u) \/ LoginRight(h, u) PROVE Good
  <2>1. /\ At("fail", u) \in Locals /\ At("fail", u).at = "fail" /\ At("fail", u).on = u
        /\ At("welcome", u) \in Locals /\ At("welcome", u).at = "welcome" /\ At("welcome", u).on = u
    BY AccessAssumption DEF At, Idle, Locals, Goals, Stages
  <2> QED
    BY <1>1, <1>2, <2>1 DEF LoginWrong, LoginRight
<1>3. ASSUME NEW u \in Users, NEW k \in Kinds, NEW new \in Passwords, BeginChange(h, u, k, new)
      PROVE  Good
  <2> DEFINE local == [At("history", u) EXCEPT !.goal = "change", !.kind = k, !.new = new]
  <2>1. local \in Locals /\ local.at = "history" /\ local.on = u /\ local.goal = "change"
    BY AccessAssumption DEF At, Idle, Locals, Goals, Stages
  <2>2. Begin(h, u, local) /\ UNCHANGED <<user, passwordVars, chal, opened>>
    BY <1>3 DEF BeginChange
  <2> HIDE DEF local
  <2> QED
    BY <1>1, <2>1, <2>2
<1>4. ASSUME NEW u \in Users, NEW purpose \in Purposes, Ask(h, u, purpose)
      PROVE  Good
  <2> DEFINE local == [At("issue", u) EXCEPT !.goal = purpose]
  <2>1. local \in Locals /\ local.at = "issue" /\ local.on = u /\ local.goal = purpose
    BY AccessAssumption DEF At, Idle, Locals, Goals, Stages
  <2>2. Begin(h, u, local) /\ UNCHANGED <<user, passwordVars, chal, opened>>
    BY <1>4 DEF Ask
  <2> HIDE DEF local
  <2> QED
    BY <1>1, <2>1, <2>2
<1>5. ASSUME NEW c \in Challenges, NEW new \in Passwords, BeginReset(h, c, new)
      PROVE  Good
  <2> DEFINE u == chal[c].user
             local == [At("consume", u) EXCEPT !.goal = "reset", !.new = new, !.otp = c]
  <2>1. u \in Users /\ ~chal[c].used
    BY <1>5 DEF BeginReset, Known, TypeInv, TypeOK
  <2>2. local \in Locals /\ local.at = "consume" /\ local.on = u /\ local.goal = "reset" /\ local.otp = c
    BY <2>1, AccessAssumption DEF At, Idle, Locals, Goals, Stages
  <2>3. Begin(h, u, local) /\ UNCHANGED <<user, passwordVars, chal, opened>>
    BY <1>5 DEF BeginReset
  <2>4. chal[c].user = u
    OBVIOUS
  <2> HIDE DEF local, u
  <2> QED
    BY <1>1, <2>1, <2>2, <2>3, <2>4
<1>6. ASSUME NEW c \in Challenges, BeginUnlock(h, c)
      PROVE  Good
  <2> DEFINE u == chal[c].user
             local == [At("consume", u) EXCEPT !.goal = "unlock", !.otp = c]
  <2>1. u \in Users /\ ~chal[c].used
    BY <1>6 DEF BeginUnlock, Known, TypeInv, TypeOK
  <2>2. local \in Locals /\ local.at = "consume" /\ local.on = u /\ local.goal = "unlock" /\ local.otp = c
    BY <2>1, AccessAssumption DEF At, Idle, Locals, Goals, Stages
  <2>3. Begin(h, u, local) /\ UNCHANGED <<user, passwordVars, chal, opened>>
    BY <1>6 DEF BeginUnlock
  <2>4. chal[c].user = u
    OBVIOUS
  <2> HIDE DEF local, u
  <2> QED
    BY <1>1, <2>1, <2>2, <2>3, <2>4
<1>7. Good
  BY <1>2, <1>3, <1>4, <1>5, <1>6 DEF Request
<1> QED
  BY <1>7 DEF Good

\* Afterwards the handler is at its first statement, and the others are where they were.
LEMMA StartedShape ==
  ASSUME TypeInv, NEW h \in Handlers, NEW local \in Locals, req' = [req EXCEPT ![h] = local]
  PROVE  /\ req' \in [Handlers -> Locals] /\ req'[h] = local
         /\ \A g \in Handlers \ {h} : req'[g] = req[g]
  BY DEF TypeInv, TypeOK

-----------------------------------------------------------------------------
(* The types.                                                              *)

LEMMA CountedShape ==
  ASSUME TypeInv, NEW u \in Users, user' = [user EXCEPT ![u].failed = user[u].failed + 1]
  PROVE  /\ user' \in [Users -> [failed : Nat, locked : BOOLEAN]]
         /\ user'[u].failed = user[u].failed + 1 /\ user'[u].locked = user[u].locked
         /\ \A v \in Users : v # u => user'[v] = user[v]
<1> DEFINE row == [user[u] EXCEPT !.failed = user[u].failed + 1]
<1>1. user[u] \in [failed : Nat, locked : BOOLEAN]
  BY DEF TypeInv, TypeOK
<1>2. /\ row \in [failed : Nat, locked : BOOLEAN]
      /\ row.failed = user[u].failed + 1 /\ row.locked = user[u].locked
  BY <1>1
<1>3. user' = [user EXCEPT ![u] = row]
  OBVIOUS
<1> HIDE DEF row
<1> QED
  BY <1>2, <1>3 DEF TypeInv, TypeOK

LEMMA ClearedShape ==
  ASSUME TypeInv, NEW u \in Users, Cleared(u), Opens(u)
  PROVE  /\ user' \in [Users -> [failed : Nat, locked : BOOLEAN]] /\ opened' \in [Users -> Nat]
         /\ user'[u].failed = 0 /\ user'[u].locked = FALSE
         /\ opened'[u] = IF user[u].locked THEN opened[u] + 1 ELSE opened[u]
         /\ \A v \in Users : v # u => user'[v] = user[v] /\ opened'[v] = opened[v]
<1>1. /\ user' \in [Users -> [failed : Nat, locked : BOOLEAN]]
      /\ user'[u].failed = 0 /\ user'[u].locked = FALSE
      /\ \A v \in Users : v # u => user'[v] = user[v]
  BY DEF Cleared, TypeInv, TypeOK
<1>2. opened' = [opened EXCEPT ![u] = IF user[u].locked THEN opened[u] + 1 ELSE opened[u]]
  BY DEF Opens
<1>3. /\ opened' \in [Users -> Nat]
      /\ opened'[u] = IF user[u].locked THEN opened[u] + 1 ELSE opened[u]
      /\ \A v \in Users : v # u => opened'[v] = opened[v]
  BY <1>2 DEF TypeInv, TypeOK
<1> QED
  BY <1>1, <1>3

LEMMA TypeNext == TypeInv /\ [Next]_vars => TypeInv'
<1> SUFFICES ASSUME TypeInv, [Next]_vars PROVE TypeInv'
  OBVIOUS
<1> USE DEF passwordVars
<1>1. CASE UNCHANGED vars
  BY <1>1 DEF vars, TypeInv, TypeOK, Aware
<1>2. ASSUME NEW h \in Handlers, Request(h) PROVE TypeInv'
  <2>1. PICK u \in Users, local \in Locals : Started(h, u, local) /\ req' = [req EXCEPT ![h] = local]
    BY <1>2, RequestShape
  <2>2. /\ req' \in [Handlers -> Locals] /\ req'[h] = local
        /\ \A g \in Handlers \ {h} : req'[g] = req[g]
    BY <2>1, StartedShape
  <2>3. served' \in Nat /\ UNCHANGED <<user, secret, history, chal, opened>>
    BY <1>2, RequestShape
  <2> QED
    BY <2>1, <2>2, <2>3 DEF Started, TypeInv, TypeOK, Aware
<1>3. ASSUME NEW h \in Handlers, Step(h) \/ Fail(h) PROVE TypeInv'
  <2>1. req[h] \in Locals
    BY DEF TypeInv, TypeOK
  <2>2. ASSUME Finish(h), UNCHANGED served,
               (user \in [Users -> [failed : Nat, locked : BOOLEAN]])',
               (secret \in [Users -> [Kinds -> Passwords]])', (history \in [Users -> [Kinds -> Seq(Passwords)]])',
               (chal \in [Challenges -> [user : Users \union {NoUser}, purpose : Purposes, used : BOOLEAN]])',
               (opened \in [Users -> Nat])'
        PROVE  TypeInv'
    BY <2>2, FinishShape, IdleTyped DEF TypeInv, TypeOK, Aware
  <2>3. ASSUME NEW stage \in Stages \ {"consume", "issue", "idle"}, Goto(h, stage), UNCHANGED served,
               req[h].at # "idle", stage = "purpose" => req[h].otp \in Challenges,
               (user \in [Users -> [failed : Nat, locked : BOOLEAN]])', UNCHANGED <<secret, history, opened>>,
               (chal \in [Challenges -> [user : Users \union {NoUser}, purpose : Purposes, used : BOOLEAN]])'
        PROVE  TypeInv'
    <3>1. /\ req' \in [Handlers -> Locals] /\ req'[h].at = stage
          /\ req'[h].on = req[h].on /\ req'[h].otp = req[h].otp
          /\ \A g \in Handlers \ {h} : req'[g] = req[g]
      BY <2>3, GotoShape
    <3>2. TypeOK'
      BY <2>3, <3>1 DEF TypeInv, TypeOK
    <3>3. Aware'
      BY <2>3, <3>1 DEF TypeInv, Aware
    <3> QED
      BY <3>2, <3>3 DEF TypeInv
  <2>4. CASE FailCount(h)
    <3>1. req[h].on \in Users /\ user' = [user EXCEPT ![req[h].on].failed = user[req[h].on].failed + 1]
      BY <2>4 DEF FailCount, TypeInv, TypeOK
    <3>2. (user \in [Users -> [failed : Nat, locked : BOOLEAN]])'
      BY <3>1, CountedShape
    <3>3. UNCHANGED <<secret, history, chal, served, opened>> /\ req[h].at = "fail"
      BY <2>4 DEF FailCount
    <3>4. CASE Goto(h, "lock")
      BY <2>3, <3>2, <3>3, <3>4 DEF Stages, TypeInv, TypeOK
    <3>5. CASE Finish(h)
      BY <2>2, <3>2, <3>3, <3>5 DEF TypeInv, TypeOK
    <3> QED
      BY <2>4, <3>4, <3>5 DEF FailCount
  <2>5. CASE Lock(h)
    BY <2>2, <2>5 DEF Lock, TypeInv, TypeOK
  <2>6. CASE Welcome(h) \/ Unlock(h)
    <3>1. req[h].on \in Users /\ Cleared(req[h].on) /\ Opens(req[h].on)
      BY <2>6 DEF Welcome, Unlock, TypeInv, TypeOK
    <3> QED
      BY <2>2, <2>6, <3>1, ClearedShape DEF Welcome, Unlock, TypeInv, TypeOK
  <2>7. CASE CheckHistory(h)
    BY <2>2, <2>3, <2>7 DEF CheckHistory, Stages, TypeInv, TypeOK
  <2>8. CASE Write(h)
    <3>1. req[h].on \in Users /\ req[h].kind \in Kinds /\ req[h].new \in Passwords
      BY <2>1, <2>8, AccessAssumption DEF Write, Locals, TypeInv, TypeOK
    <3>2. (secret \in [Users -> [Kinds -> Passwords]])'
      BY <2>8, <3>1 DEF Write, TypeInv, TypeOK
    <3>3. Append(history[req[h].on][req[h].kind], req[h].new) \in Seq(Passwords)
      BY <3>1 DEF TypeInv, TypeOK
    <3>4. (history \in [Users -> [Kinds -> Seq(Passwords)]])'
      BY <2>8, <3>1, <3>3 DEF Write, TypeInv, TypeOK
    <3>5. (user \in [Users -> [failed : Nat, locked : BOOLEAN]])' /\ (opened \in [Users -> Nat])'
      BY <2>8, <3>1, ClearedShape DEF Write, TypeInv, TypeOK
    <3> QED
      BY <2>2, <2>8, <3>2, <3>4, <3>5 DEF Write, TypeInv, TypeOK
  <2>9. CASE Issue(h)
    <3>1. req[h].on \in Users /\ req[h].goal \in Purposes
      BY <2>9 DEF Issue, TypeInv, TypeOK, Aware
    <3> QED
      BY <2>2, <2>9, <3>1 DEF Issue, TypeInv, TypeOK
  <2>10. CASE Consume(h)
    BY <2>3, <2>10 DEF Consume, Stages, TypeInv, TypeOK, Aware
  <2>11. CASE ReadPurpose(h)
    <3> DEFINE local == [req[h] EXCEPT !.at = "history", !.kind = KindOf(chal[req[h].otp].purpose)]
    <3>1. local \in Locals /\ local.at = "history" /\ local.on = req[h].on
      BY <2>1 DEF Locals, Stages, KindOf
    <3>2. req' = [req EXCEPT ![h] = local] /\ req[h].at # "idle"
      BY <2>11 DEF ReadPurpose
    <3> HIDE DEF local
    <3>3. /\ req' \in [Handlers -> Locals] /\ req'[h] = local
          /\ \A g \in Handlers \ {h} : req'[g] = req[g]
      BY <3>1, <3>2, StartedShape
    <3> QED
      BY <2>11, <3>1, <3>2, <3>3 DEF ReadPurpose, TypeInv, TypeOK, Aware
  <2>12. CASE Fail(h)
    BY <2>2, <2>12 DEF Fail, TypeInv, TypeOK
  <2> QED
    BY <1>3, <2>4, <2>5, <2>6, <2>7, <2>8, <2>9, <2>10, <2>11, <2>12 DEF Step
<1> QED
  BY <1>1, <1>2, <1>3 DEF Next

\* TypeOK, for any number of users, requests and challenges.
THEOREM TypeCorrect == Spec => []TypeOK
<1>1. Spec => []TypeInv
  BY TypeInit, TypeNext, PTL DEF Spec
<1> QED
  BY <1>1, PTL DEF TypeInv

-----------------------------------------------------------------------------
(* The lockout.                                                            *)

\* Requests about a user in Serial take turns.
Turns ==
  \A g, h \in Handlers : req[g].on = req[h].on /\ req[g].on \in Serial => g = h

\* The logins of u that have failed and are not counted, or are about to lock.
Of(r, u, stage) == {h \in Handlers : r[h].at = stage /\ r[h].on = u}
Spare(u) == IF u \in Serial THEN 1 ELSE Cardinality(Handlers)

\* Past the limit, what has been counted is covered by locks that are due; and
\* failures, counted or not, by the requests that were in flight at the limit.
Slack ==
  \A u \in Users \ Mortal :
    /\ user[u].locked \/ user[u].failed + 1 <= MaxFailures + Cardinality(Of(req, u, "lock"))
    /\ user[u].failed + Cardinality(Of(req, u, "fail")) + 1 <= MaxFailures + Spare(u)

LockInv == TypeInv /\ Turns /\ Slack

\* Every step leaves a handler idle, or on the user it was about.
LEMMA StepOn ==
  ASSUME TypeInv, NEW h \in Handlers, Step(h) \/ Fail(h)
  PROVE  /\ \A g \in Handlers \ {h} : req'[g] = req[g]
         /\ req'[h] = Idle \/ req'[h].on = req[h].on
<1>1. CASE Finish(h)
  BY <1>1, FinishShape
<1>2. ASSUME NEW stage \in Stages, Goto(h, stage)
      PROVE  /\ \A g \in Handlers \ {h} : req'[g] = req[g]
             /\ req'[h] = Idle \/ req'[h].on = req[h].on
  BY <1>2, GotoShape
<1>3. CASE ReadPurpose(h)
  <2>1. req' = [req EXCEPT ![h] = [req[h] EXCEPT !.at = "history", !.kind = KindOf(chal[req[h].otp].purpose)]]
    BY <1>3 DEF ReadPurpose
  <2>2. req[h] \in Locals
    BY DEF TypeInv, TypeOK
  <2> QED
    BY <2>1, <2>2 DEF TypeInv, TypeOK, Locals
<1> QED
  BY <1>1, <1>2, <1>3
  DEF Step, Fail, FailCount, Lock, Welcome, CheckHistory, Write, Issue, Consume, Unlock, Stages

LEMMA TurnsInit == Init => Turns
  BY IdleTyped, AccessAssumption DEF Init, Turns

LEMMA TurnsNext == TypeInv /\ Turns /\ [Next]_vars => Turns'
<1> SUFFICES ASSUME TypeInv, Turns, [Next]_vars PROVE Turns'
  OBVIOUS
<1>1. CASE UNCHANGED vars
  BY <1>1 DEF vars, Turns
<1>2. ASSUME NEW h \in Handlers, Request(h) PROVE Turns'
  <2>1. PICK u \in Users, local \in Locals : Started(h, u, local) /\ req' = [req EXCEPT ![h] = local]
    BY <1>2, RequestShape
  <2>2. req'[h] = local /\ \A g \in Handlers \ {h} : req'[g] = req[g]
    BY <2>1, StartedShape
  <2> QED
    BY <2>1, <2>2 DEF Started, Turns
<1>3. ASSUME NEW h \in Handlers, Step(h) \/ Fail(h) PROVE Turns'
  <2>1. /\ \A g \in Handlers \ {h} : req'[g] = req[g]
        /\ req'[h].on \notin Serial \/ req'[h].on = req[h].on
    BY <1>3, StepOn, IdleTyped, AccessAssumption
  <2> QED
    BY <2>1 DEF Turns
<1> QED
  BY <1>1, <1>2, <1>3 DEF Next

\* How many there can be.
LEMMA OfBounded ==
  ASSUME NEW r, \A g, h \in Handlers : r[g].on = r[h].on /\ r[g].on \in Serial => g = h, NEW u
  PROVE  /\ Cardinality(Of(r, u, "fail")) \in Nat /\ Cardinality(Of(r, u, "lock")) \in Nat
         /\ Spare(u) \in Nat
         /\ Cardinality(Of(r, u, "fail")) + Cardinality(Of(r, u, "lock")) <= Spare(u)
<1> DEFINE F == Of(r, u, "fail")  L == Of(r, u, "lock")
<1>1. F \in SUBSET Handlers /\ L \in SUBSET Handlers /\ F \cap L = {}
  BY DEF Of
<1>2. IsFiniteSet(Handlers) /\ Cardinality(Handlers) \in Nat
  BY AccessAssumption, FS_CardinalityType
<1>3. IsFiniteSet(F) /\ IsFiniteSet(L) /\ IsFiniteSet(F \union L)
  BY <1>1, <1>2, FS_Subset, FS_Union
<1>4. Cardinality(F) \in Nat /\ Cardinality(L) \in Nat /\ Cardinality(F \union L) \in Nat
  BY <1>3, FS_CardinalityType
<1>5. Cardinality(F \union L) = Cardinality(F) + Cardinality(L)
  <2>1. Cardinality(F \union L) = Cardinality(F) + Cardinality(L) - Cardinality(F \cap L)
    BY <1>3, FS_Union
  <2>2. Cardinality(F \cap L) = 0
    BY <1>1, FS_EmptySet
  <2> HIDE DEF F, L
  <2> QED
    BY <1>4, <2>1, <2>2
<1>6. Spare(u) \in Nat /\ Cardinality(F \union L) <= Spare(u)
  <2>1. CASE u \in Serial
    <3>1. CASE F \union L = {}
      BY <2>1, <3>1, FS_EmptySet DEF Spare
    <3>2. CASE F \union L # {}
      <4>1. \E h \in Handlers : F \union L = {h}
        BY <2>1, <3>2 DEF Of
      <4> QED
        BY <2>1, <4>1, FS_Singleton DEF Spare
    <3> QED
      BY <3>1, <3>2
  <2>2. CASE u \notin Serial
    <3>1. F \union L \in SUBSET Handlers
      BY <1>1
    <3>2. Cardinality(F \union L) <= Cardinality(Handlers)
      BY <1>2, <3>1, FS_Subset
    <3> QED
      BY <1>2, <2>2, <3>2 DEF Spare
  <2> QED
    BY <2>1, <2>2
<1>7. Cardinality(F) + Cardinality(L) <= Spare(u)
  BY <1>5, <1>6
<1> QED
  BY <1>4, <1>6, <1>7

\* Handler h is at that stage about u.
There(r, u, stage, h) == r[h].at = stage /\ r[h].on = u

\* One handler moves.
LEMMA OfMoves ==
  ASSUME NEW h \in Handlers, NEW u \in Users, NEW stage,
         \A g \in Handlers \ {h} : req'[g] = req[g]
  PROVE  /\ There(req, u, stage, h) /\ ~There(req', u, stage, h)
              => Cardinality(Of(req', u, stage)) = Cardinality(Of(req, u, stage)) - 1
         /\ ~There(req, u, stage, h) /\ There(req', u, stage, h)
              => Cardinality(Of(req', u, stage)) = Cardinality(Of(req, u, stage)) + 1
         /\ (There(req, u, stage, h) <=> There(req', u, stage, h))
              => Cardinality(Of(req', u, stage)) = Cardinality(Of(req, u, stage))
<1>1. IsFiniteSet(Of(req, u, stage))
  <2>1. Of(req, u, stage) \in SUBSET Handlers
    BY DEF Of
  <2> QED
    BY <2>1, AccessAssumption, FS_Subset
<1>2. h \in Of(req, u, stage) <=> There(req, u, stage, h)
  BY DEF Of, There
<1>3. CASE There(req', u, stage, h)
  <2>1. Of(req', u, stage) = Of(req, u, stage) \union {h}
    BY <1>3 DEF Of, There
  <2>2. CASE h \in Of(req, u, stage)
    <3>1. Of(req', u, stage) = Of(req, u, stage)
      BY <2>1, <2>2
    <3> QED
      BY <1>2, <1>3, <2>2, <3>1
  <2>3. CASE h \notin Of(req, u, stage)
    <3>1. Cardinality(Of(req', u, stage)) = Cardinality(Of(req, u, stage)) + 1
      BY <1>1, <2>1, <2>3, FS_AddElement
    <3> QED
      BY <1>2, <1>3, <2>3, <3>1
  <2> QED
    BY <2>2, <2>3
<1>4. CASE ~There(req', u, stage, h)
  <2>1. Of(req', u, stage) = Of(req, u, stage) \ {h}
    BY <1>4 DEF Of, There
  <2>2. CASE h \in Of(req, u, stage)
    <3>1. Cardinality(Of(req', u, stage)) = Cardinality(Of(req, u, stage)) - 1
      BY <1>1, <2>1, <2>2, FS_RemoveElement
    <3> QED
      BY <1>2, <1>4, <2>2, <3>1
  <2>3. CASE h \notin Of(req, u, stage)
    <3>1. Of(req', u, stage) = Of(req, u, stage)
      BY <2>1, <2>3
    <3> QED
      BY <1>2, <1>4, <2>3, <3>1
  <2> QED
    BY <2>2, <2>3
<1> QED
  BY <1>3, <1>4

LEMMA LockInit == Init => LockInv
<1> SUFFICES ASSUME Init PROVE LockInv
  OBVIOUS
<1>1. TypeInv /\ Turns
  BY TypeInit, TurnsInit
<1>2. ASSUME NEW u \in Users PROVE Of(req, u, "fail") = {} /\ Of(req, u, "lock") = {} /\ user[u].failed = 0
  BY IdleTyped DEF Init, Of
<1>3. (\A u \in Users : Spare(u) \in Nat) /\ Cardinality({}) = 0
  BY FS_EmptySet, FS_CardinalityType, AccessAssumption DEF Spare
<1>4. Slack
  <2> SUFFICES ASSUME NEW u \in Users
               PROVE  /\ user[u].failed + 1 <= MaxFailures + Cardinality(Of(req, u, "lock"))
                      /\ user[u].failed + Cardinality(Of(req, u, "fail")) + 1 <= MaxFailures + Spare(u)
    BY DEF Slack
  <2>1. user[u].failed = 0 /\ Cardinality(Of(req, u, "lock")) = 0 /\ Cardinality(Of(req, u, "fail")) = 0
    BY <1>2, <1>3
  <2>2. MaxFailures \in Nat /\ MaxFailures >= 1 /\ Spare(u) \in Nat
    BY <1>3, AccessAssumption
  <2> QED
    BY <2>1, <2>2
<1> QED
  BY <1>1, <1>4 DEF LockInv

\* Beside the two statements of a failed login, a step of a request leaves the
\* rows of users alone or clears that of its own user.
LEMMA StepKinds ==
  ASSUME TypeInv, NEW h \in Handlers, Step(h)
  PROVE  \/ FailCount(h) \/ Lock(h)
         \/ /\ req[h].at \notin {"fail", "lock"} /\ req'[h].at \notin {"fail", "lock"}
            /\ req[h].on \in Users
            /\ user' = user \/ (Cleared(req[h].on) /\ Opens(req[h].on))
<1>1. req[h].at # "idle" => req[h].on \in Users
  BY DEF TypeInv, TypeOK
<1>2. CASE Welcome(h) \/ Unlock(h) \/ Write(h)
  BY <1>1, <1>2, FinishShape, IdleTyped DEF Welcome, Unlock, Write
<1>3. CASE CheckHistory(h)
  BY <1>1, <1>3, FinishShape, GotoShape, IdleTyped DEF CheckHistory, Stages
<1>4. CASE Issue(h)
  BY <1>1, <1>4, FinishShape, IdleTyped DEF Issue
<1>5. CASE Consume(h)
  BY <1>1, <1>5, GotoShape DEF Consume, Stages
<1>6. CASE ReadPurpose(h)
  <2>1. req'[h].at = "history"
    BY <1>6 DEF ReadPurpose, TypeInv, TypeOK, Locals
  <2> QED
    BY <1>1, <1>6, <2>1 DEF ReadPurpose
<1> QED
  BY <1>2, <1>3, <1>4, <1>5, <1>6 DEF Step

LEMMA LockedShape ==
  ASSUME TypeInv, NEW u \in Users, user' = [user EXCEPT ![u].locked = TRUE]
  PROVE  /\ user'[u].failed = user[u].failed /\ user'[u].locked = TRUE
         /\ \A v \in Users : v # u => user'[v] = user[v]
<1> DEFINE row == [user[u] EXCEPT !.locked = TRUE]
<1>1. user[u] \in [failed : Nat, locked : BOOLEAN]
  BY DEF TypeInv, TypeOK
<1>2. row.failed = user[u].failed /\ row.locked = TRUE
  BY <1>1
<1>3. user' = [user EXCEPT ![u] = row]
  OBVIOUS
<1> HIDE DEF row
<1> QED
  BY <1>2, <1>3 DEF TypeInv, TypeOK

\* A failure is counted, and a lock is due if it reaches the limit.
LEMMA CountStep ==
  ASSUME TypeInv, NEW h \in Handlers, FailCount(h)
  PROVE  LET u == req[h].on IN
         /\ u \in Users /\ req[h].at = "fail"
         /\ user'[u].failed = user[u].failed + 1 /\ user'[u].locked = user[u].locked
         /\ \A v \in Users : v # u => user'[v] = user[v]
         /\ \/ req'[h].at = "lock" /\ req'[h].on = u
            \/ req'[h].at = "idle" /\ (user[u].locked \/ user[u].failed + 1 < MaxFailures)
<1> DEFINE u == req[h].on
<1>1. u \in Users /\ req[h].at = "fail"
  BY DEF FailCount, TypeInv, TypeOK
<1>2. user' = [user EXCEPT ![u].failed = user[u].failed + 1]
  BY DEF FailCount
<1>3. user[u].failed + 1 \in Nat /\ MaxFailures \in Nat
  BY <1>1, AccessAssumption DEF TypeInv, TypeOK
<1>4. \/ Goto(h, "lock")
      \/ Finish(h) /\ (user[u].locked \/ ~(user[u].failed + 1 >= MaxFailures))
  BY DEF FailCount, AtLimit
<1>5. \/ req'[h].at = "lock" /\ req'[h].on = u
      \/ req'[h].at = "idle" /\ (user[u].locked \/ user[u].failed + 1 < MaxFailures)
  <2>1. CASE Goto(h, "lock")
    <3>1. req'[h].at = "lock" /\ req'[h].on = req[h].on
      BY <2>1, GotoShape DEF Stages
    <3> QED
      BY <3>1
  <2>2. CASE Finish(h) /\ (user[u].locked \/ ~(user[u].failed + 1 >= MaxFailures))
    <3>1. req'[h].at = "idle"
      BY <2>2, FinishShape, IdleTyped
    <3>2. user[u].locked \/ user[u].failed + 1 < MaxFailures
      BY <1>3, <2>2
    <3> QED
      BY <3>1, <3>2
  <2> QED
    BY <1>4, <2>1, <2>2
<1> HIDE DEF u
<1>6. /\ user'[u].failed = user[u].failed + 1 /\ user'[u].locked = user[u].locked
      /\ \A v \in Users : v # u => user'[v] = user[v]
  BY <1>1, <1>2, CountedShape
<1> QED
  BY <1>1, <1>5, <1>6 DEF u

LEMMA LockStep ==
  ASSUME TypeInv, NEW h \in Handlers, Lock(h)
  PROVE  LET u == req[h].on IN
         /\ u \in Users /\ req[h].at = "lock" /\ req'[h].at = "idle"
         /\ user'[u].failed = user[u].failed /\ user'[u].locked = TRUE
         /\ \A v \in Users : v # u => user'[v] = user[v]
<1>1. req[h].on \in Users /\ req[h].at = "lock" /\ req'[h].at = "idle"
  BY FinishShape, IdleTyped DEF Lock, TypeInv, TypeOK
<1> QED
  BY <1>1, LockedShape DEF Lock

\* The slack of one user after one step of handler h.
LEMMA SlackStep ==
  ASSUME LockInv, TypeInv', Turns', NEW h \in Handlers, Step(h) \/ Fail(h), NEW u \in Users \ Mortal
  PROVE  /\ user'[u].locked \/ user'[u].failed + 1 <= MaxFailures + Cardinality(Of(req', u, "lock"))
         /\ user'[u].failed + Cardinality(Of(req', u, "fail")) + 1 <= MaxFailures + Spare(u)
<1> DEFINE F == Cardinality(Of(req, u, "fail"))   L == Cardinality(Of(req, u, "lock"))
           G == Cardinality(Of(req', u, "fail"))  M == Cardinality(Of(req', u, "lock"))
           n == user[u].failed               m == user'[u].failed
<1>1. /\ F \in Nat /\ L \in Nat /\ Spare(u) \in Nat /\ F + L <= Spare(u)
      /\ G \in Nat /\ M \in Nat /\ G + M <= Spare(u)
  <2>1. \A g, k \in Handlers : req[g].on = req[k].on /\ req[g].on \in Serial => g = k
    BY DEF LockInv, Turns
  <2>2. \A g, k \in Handlers : req'[g].on = req'[k].on /\ req'[g].on \in Serial => g = k
    BY DEF Turns
  <2> QED
    BY <2>1, <2>2, OfBounded
<1>0. TypeInv
  BY DEF LockInv
<1>2. /\ n \in Nat /\ m \in Nat /\ MaxFailures \in Nat /\ MaxFailures >= 1
      /\ user[u].locked \/ n + 1 <= MaxFailures + L
      /\ n + F + 1 <= MaxFailures + Spare(u)
  BY AccessAssumption DEF LockInv, Slack, TypeInv, TypeOK
<1>3. /\ \A g \in Handlers \ {h} : req'[g] = req[g]
      /\ req[h].on # u => req'[h].on # u
  BY <1>0, StepOn, IdleTyped, AccessAssumption
<1> HIDE DEF F, L, G, M, n, m
\* A step about another user, or one that neither counts nor locks.
<1>4. ASSUME G = F, M = L, user'[u] = user[u]
      PROVE  /\ user'[u].locked \/ m + 1 <= MaxFailures + M
             /\ m + G + 1 <= MaxFailures + Spare(u)
  BY <1>1, <1>2, <1>4 DEF m, n
<1>5. CASE req[h].on # u
  <2>1. G = F /\ M = L
    BY <1>3, <1>5, OfMoves DEF F, G, L, M, There
  <2>2. user'[u] = user[u]
    <3>1. CASE FailCount(h)
      BY <1>0, <1>5, <3>1, CountStep
    <3>2. CASE Lock(h)
      BY <1>0, <1>5, <3>2, LockStep
    <3>3. CASE Fail(h)
      BY <3>3 DEF Fail
    <3>4. CASE req[h].on \in Users /\ (user' = user \/ (Cleared(req[h].on) /\ Opens(req[h].on)))
      BY <1>0, <1>5, <3>4, ClearedShape
    <3> QED
      BY <1>0, <3>1, <3>2, <3>3, <3>4, StepKinds
  <2> QED
    BY <1>4, <2>1, <2>2 DEF m, G, M
<1>6. CASE req[h].on = u /\ FailCount(h)
  <2>1. /\ m = n + 1 /\ user'[u].locked = user[u].locked /\ req[h].at = "fail"
        /\ \/ req'[h].at = "lock" /\ req'[h].on = u
           \/ req'[h].at = "idle" /\ (user[u].locked \/ n + 1 < MaxFailures)
    BY <1>0, <1>6, CountStep DEF m, n
  <2>2. G = F - 1 /\ (req'[h].at = "lock" => M = L + 1) /\ (req'[h].at = "idle" => M = L)
    BY <1>3, <1>6, <2>1, OfMoves DEF F, G, L, M, There
  <2>3. user'[u].locked \/ m + 1 <= MaxFailures + M
    BY <1>1, <1>2, <2>1, <2>2
  <2>4. m + G + 1 <= MaxFailures + Spare(u)
    BY <1>1, <1>2, <2>1, <2>2
  <2> QED
    BY <2>3, <2>4 DEF m, G, M
<1>7. CASE req[h].on = u /\ Lock(h)
  <2>1. m = n /\ user'[u].locked /\ req[h].at = "lock" /\ req'[h].at = "idle"
    BY <1>0, <1>7, LockStep DEF m, n
  <2>2. G = F
    BY <1>3, <1>7, <2>1, OfMoves DEF F, G, There
  <2> QED
    BY <1>1, <1>2, <2>1, <2>2 DEF m, G, M
<1>8. CASE /\ req[h].on = u /\ req[h].at \notin {"fail", "lock"} /\ req'[h].at \notin {"fail", "lock"}
           /\ user' = user \/ (Cleared(req[h].on) /\ Opens(req[h].on))
  <2>1. G = F /\ M = L
    BY <1>3, <1>8, OfMoves DEF F, G, L, M, There
  <2>2. user'[u] = user[u] \/ (m = 0 /\ ~user'[u].locked)
    BY <1>8, ClearedShape DEF m, LockInv
  <2>3. CASE m = 0
    BY <1>1, <1>2, <2>1, <2>3 DEF m, G, M
  <2>4. CASE user'[u] = user[u]
    BY <1>4, <2>1, <2>4 DEF m, G, M
  <2> QED
    BY <2>2, <2>3, <2>4
<1>9. CASE Fail(h) /\ req[h].on = u
  BY <1>9 DEF Fail
<1> QED
  BY <1>0, <1>5, <1>6, <1>7, <1>8, <1>9, StepKinds

LEMMA SlackRequest ==
  ASSUME LockInv, TypeInv', Turns', NEW h \in Handlers, Request(h), NEW u \in Users \ Mortal
  PROVE  /\ user'[u].locked \/ user'[u].failed + 1 <= MaxFailures + Cardinality(Of(req', u, "lock"))
         /\ user'[u].failed + Cardinality(Of(req', u, "fail")) + 1 <= MaxFailures + Spare(u)
<1> DEFINE F == Cardinality(Of(req, u, "fail"))   L == Cardinality(Of(req, u, "lock"))
           G == Cardinality(Of(req', u, "fail"))  M == Cardinality(Of(req', u, "lock"))
           n == user[u].failed
<1>1. TypeInv
  BY DEF LockInv
<1>2. /\ F \in Nat /\ L \in Nat /\ Spare(u) \in Nat
      /\ G \in Nat /\ M \in Nat /\ G + M <= Spare(u)
  <2>1. \A g, k \in Handlers : req[g].on = req[k].on /\ req[g].on \in Serial => g = k
    BY DEF LockInv, Turns
  <2>2. \A g, k \in Handlers : req'[g].on = req'[k].on /\ req'[g].on \in Serial => g = k
    BY DEF Turns
  <2> QED
    BY <2>1, <2>2, OfBounded
<1>3. /\ n \in Nat /\ MaxFailures \in Nat /\ user' = user
      /\ user[u].locked \/ n + 1 <= MaxFailures + L
      /\ n + F + 1 <= MaxFailures + Spare(u)
  BY <1>1, RequestShape, AccessAssumption DEF LockInv, Slack, TypeInv, TypeOK
<1>4. PICK v \in Users, local \in Locals : Started(h, v, local) /\ req' = [req EXCEPT ![h] = local]
  BY <1>1, RequestShape
<1>5. /\ req'[h] = local /\ \A g \in Handlers \ {h} : req'[g] = req[g]
      /\ req[h].at = "idle" /\ local.at # "lock"
      /\ local.at = "fail" /\ local.on = u => ~user[u].locked
  BY <1>1, <1>4, StartedShape DEF Started
<1>6. M = L
  BY <1>5, OfMoves DEF L, M, There
<1>7. G = F \/ (G = F + 1 /\ ~user[u].locked)
  BY <1>5, OfMoves DEF F, G, There
<1> HIDE DEF F, L, G, M, n
<1>8. user[u].locked \/ n + 1 <= MaxFailures + M
  BY <1>3, <1>6
<1>9. n + G + 1 <= MaxFailures + Spare(u)
  BY <1>2, <1>3, <1>6, <1>7
<1> QED
  BY <1>3, <1>8, <1>9 DEF n, G, M

LEMMA LockNext == LockInv /\ [Next]_vars => LockInv'
<1> SUFFICES ASSUME LockInv, [Next]_vars PROVE LockInv'
  OBVIOUS
<1>1. TypeInv' /\ Turns'
  BY TypeNext, TurnsNext DEF LockInv
<1>2. CASE UNCHANGED vars
  <2>1. user' = user /\ req' = req
    BY <1>2 DEF vars
  <2>2. Slack'
    BY <2>1 DEF LockInv, Slack, Of, Spare
  <2> QED
    BY <1>1, <2>2 DEF LockInv
<1>3. ASSUME NEW h \in Handlers, Step(h) \/ Fail(h) PROVE Slack'
  BY <1>1, <1>3, SlackStep DEF Slack, Spare
<1>4. ASSUME NEW h \in Handlers, Request(h) PROVE Slack'
  BY <1>1, <1>4, SlackRequest DEF Slack, Spare
<1> QED
  BY <1>1, <1>2, <1>3, <1>4 DEF Next, LockInv

LEMMA LockAlways == Spec => []LockInv
  BY LockInit, LockNext, PTL DEF Spec

\* LockedAtLimit: a count at the limit means a lock that is set or due.
THEOREM LimitLocks == Spec => []LockedAtLimit
<1>1. LockInv => LockedAtLimit
  <2> SUFFICES ASSUME LockInv, NEW u \in Users \ Mortal, user[u].failed >= MaxFailures, ~user[u].locked
               PROVE  \E h \in Handlers : req[h].at = "lock" /\ req[h].on = u
    BY DEF LockedAtLimit
  <2>1. user[u].failed + 1 <= MaxFailures + Cardinality(Of(req, u, "lock"))
    BY DEF LockInv, Slack
  <2>2. user[u].failed \in Nat /\ MaxFailures \in Nat
    BY AccessAssumption DEF LockInv, TypeInv, TypeOK
  <2>3. Of(req, u, "lock") # {}
    <3>1. CASE Of(req, u, "lock") = {}
      BY <2>1, <2>2, <3>1, FS_EmptySet
    <3> QED
      BY <3>1
  <2> QED
    BY <2>3 DEF Of
<1> QED
  BY <1>1, LockAlways, PTL

\* FailuresBounded: no more wrong passwords than the limit, and the overlap.
THEOREM GuessesLimited == Spec => []FailuresBounded
<1>1. LockInv => FailuresBounded
  <2> SUFFICES ASSUME LockInv, NEW u \in Users \ Mortal
               PROVE  user[u].failed <= MaxFailures + (IF u \in Serial THEN 0 ELSE Cardinality(Handlers) - 1)
    BY DEF FailuresBounded
  <2>1. \A g, k \in Handlers : req[g].on = req[k].on /\ req[g].on \in Serial => g = k
    BY DEF LockInv, Turns
  <2>2. Cardinality(Of(req, u, "fail")) \in Nat /\ Spare(u) \in Nat
    BY <2>1, OfBounded
  <2>3. user[u].failed + Cardinality(Of(req, u, "fail")) + 1 <= MaxFailures + Spare(u)
    BY DEF LockInv, Slack
  <2>4. user[u].failed \in Nat /\ MaxFailures \in Nat /\ Cardinality(Handlers) \in Nat
    BY AccessAssumption, FS_CardinalityType DEF LockInv, TypeInv, TypeOK
  <2>5. user[u].failed <= MaxFailures + Spare(u) - 1
    BY <2>2, <2>3, <2>4
  <2> QED
    BY <2>4, <2>5 DEF Spare
<1> QED
  BY <1>1, LockAlways, PTL

-----------------------------------------------------------------------------
(* The ways back in.                                                       *)

\* The challenges of u that have been consumed.
Spent(ch, u) == {c \in Challenges : ch[c].user = u /\ ch[c].used}

\* A reset or an unlock that has consumed its challenge.
Owes(r, h) == r[h].at \in {"purpose", "history", "write", "unlock"} /\ r[h].goal # "change"

\* A request that consumes a challenge is about the user it was issued to.
Owned ==
  \A h \in Handlers :
    /\ req[h].at = "consume" => chal[req[h].otp].user = req[h].on
    /\ req[h].at \in {"consume", "purpose", "unlock"} => req[h].goal # "change"

\* A user about whom requests take turns has not been unlocked more often than
\* challenges were consumed, and once less while a consumed one is at work.
Earned ==
  \A u \in Serial :
    /\ opened[u] <= Cardinality(Spent(chal, u))
    /\ \A h \in Handlers : req[h].on = u =>
         /\ Owes(req, h) => opened[u] + 1 <= Cardinality(Spent(chal, u))
         /\ req[h].at = "consume" => ~chal[req[h].otp].used
         /\ req[h].at = "welcome" => ~user[u].locked

EarnInv == TypeInv /\ Turns /\ Owned /\ Earned

\* What a step does to the challenges.
LEMMA ChalSteps ==
  ASSUME TypeInv, Owned, NEW h \in Handlers, Step(h) \/ Fail(h)
  PROVE  \/ chal' = chal
         \/ Issue(h) /\ \A u \in Users : Spent(chal', u) = Spent(chal, u)
         \/ Consume(h) /\ \A u \in Users : u # req[h].on => Spent(chal', u) = Spent(chal, u)
<1>1. CASE Issue(h)
  <2>1. PICK c \in Challenges :
          /\ chal[c].user = NoUser
          /\ chal' = [chal EXCEPT ![c] = [user |-> req[h].on, purpose |-> req[h].goal, used |-> FALSE]]
    BY <1>1 DEF Issue
  <2>2. chal'[c].used = FALSE /\ \A d \in Challenges \ {c} : chal'[d] = chal[d]
    BY <2>1 DEF TypeInv, TypeOK
  <2>3. ASSUME NEW u \in Users PROVE Spent(chal', u) = Spent(chal, u)
    BY <2>1, <2>2, <2>3, AccessAssumption DEF Spent
  <2> QED
    BY <1>1, <2>3
<1>2. CASE Consume(h)
  <2>1. req[h].otp \in Challenges /\ chal[req[h].otp].user = req[h].on
    BY <1>2 DEF Consume, TypeInv, Aware, Owned
  <2>2. chal'[req[h].otp].user = req[h].on /\ \A d \in Challenges \ {req[h].otp} : chal'[d] = chal[d]
    BY <1>2, <2>1 DEF Consume, TypeInv, TypeOK
  <2>3. ASSUME NEW u \in Users, u # req[h].on PROVE Spent(chal', u) = Spent(chal, u)
    BY <2>1, <2>2, <2>3 DEF Spent
  <2> QED
    BY <1>2, <2>3
<1> QED
  BY <1>1, <1>2
  DEF Step, Fail, FailCount, Lock, Welcome, CheckHistory, Write, ReadPurpose, Unlock

\* A step about another user changes nothing of this one.
LEMMA Foreign ==
  ASSUME TypeInv, Owned, NEW h \in Handlers, Step(h) \/ Fail(h), NEW u \in Users, req[h].on # u
  PROVE  /\ opened'[u] = opened[u] /\ user'[u] = user[u] /\ Spent(chal', u) = Spent(chal, u)
         /\ req'[h].on # u /\ \A g \in Handlers \ {h} : req'[g] = req[g]
<1>1. req'[h].on # u /\ \A g \in Handlers \ {h} : req'[g] = req[g]
  BY StepOn, IdleTyped, AccessAssumption
<1>2. Spent(chal', u) = Spent(chal, u)
  BY ChalSteps
<1>3. CASE FailCount(h)
  BY <1>1, <1>2, <1>3, CountStep DEF FailCount
<1>4. CASE Lock(h)
  BY <1>1, <1>2, <1>4, LockStep DEF Lock
<1>5. CASE Fail(h)
  BY <1>1, <1>2, <1>5 DEF Fail
<1>6. CASE user' = user /\ opened' = opened
  BY <1>1, <1>2, <1>6
<1>7. CASE req[h].on \in Users /\ Cleared(req[h].on) /\ Opens(req[h].on)
  BY <1>1, <1>2, <1>7, ClearedShape
<1>8. req[h].at # "idle" => req[h].on \in Users
  BY DEF TypeInv, TypeOK
<1> QED
  BY <1>3, <1>4, <1>5, <1>6, <1>7, <1>8
  DEF Step, Welcome, CheckHistory, Write, Issue, Consume, ReadPurpose, Unlock

\* The request of a step, after it: idle, or the same one at its next stage.
LEMMA StepAfter ==
  ASSUME TypeInv, NEW h \in Handlers, Step(h) \/ Fail(h)
  PROVE  \/ req'[h] = Idle
         \/ /\ req'[h].goal = req[h].goal /\ req'[h].otp = req[h].otp /\ req'[h].on = req[h].on
            /\ \/ req[h].at = "fail" /\ req'[h].at = "lock"
               \/ req[h].at = "history" /\ req'[h].at = "write"
               \/ req[h].at = "purpose" /\ req'[h].at = "history"
               \/ Consume(h) /\ req'[h].at \in {"purpose", "unlock"}
<1>1. CASE Finish(h)
  BY <1>1, FinishShape
<1>2. CASE FailCount(h) /\ Goto(h, "lock")
  BY <1>2, GotoShape DEF FailCount, Stages
<1>3. CASE CheckHistory(h) /\ Goto(h, "write")
  BY <1>3, GotoShape DEF CheckHistory, Stages
<1>4. CASE Consume(h)
  <2>1. CASE Goto(h, "unlock")
    BY <1>4, <2>1, GotoShape DEF Stages
  <2>2. CASE Goto(h, "purpose")
    BY <1>4, <2>2, GotoShape DEF Stages
  <2> QED
    BY <1>4, <2>1, <2>2 DEF Consume
<1>5. CASE ReadPurpose(h)
  <2>1. req' = [req EXCEPT ![h] = [req[h] EXCEPT !.at = "history", !.kind = KindOf(chal[req[h].otp].purpose)]]
    BY <1>5 DEF ReadPurpose
  <2>2. req[h] \in Locals
    BY DEF TypeInv, TypeOK
  <2>3. /\ req'[h].at = "history" /\ req'[h].goal = req[h].goal
        /\ req'[h].otp = req[h].otp /\ req'[h].on = req[h].on
    BY <2>1, <2>2 DEF TypeInv, TypeOK, Locals
  <2> QED
    BY <1>5, <2>3 DEF ReadPurpose
<1> QED
  BY <1>1, <1>2, <1>3, <1>4, <1>5 DEF Step, Fail, FailCount, Lock, Welcome, CheckHistory, Write, Issue, Unlock

LEMMA OwnedNext == TypeInv /\ Owned /\ [Next]_vars => Owned'
<1> SUFFICES ASSUME TypeInv, Owned, [Next]_vars PROVE Owned'
  OBVIOUS
<1>1. CASE UNCHANGED vars
  BY <1>1 DEF vars, Owned
<1>2. ASSUME NEW h \in Handlers, Request(h) PROVE Owned'
  <2>1. PICK u \in Users, local \in Locals : Started(h, u, local) /\ req' = [req EXCEPT ![h] = local]
    BY <1>2, RequestShape
  <2>2. req'[h] = local /\ (\A g \in Handlers \ {h} : req'[g] = req[g]) /\ chal' = chal
    BY <1>2, <2>1, StartedShape, RequestShape
  <2> QED
    BY <2>1, <2>2 DEF Started, Owned
<1>3. ASSUME NEW h \in Handlers, Step(h) \/ Fail(h) PROVE Owned'
  <2>1. \A g \in Handlers \ {h} : req'[g] = req[g]
    BY <1>3, StepOn
  <2>2. ASSUME NEW c \in Challenges, chal[c].user \in Users PROVE chal'[c].user = chal[c].user
    <3>1. CASE Issue(h)
      BY <2>2, <3>1, AccessAssumption DEF Issue, TypeInv, TypeOK
    <3>2. CASE Consume(h)
      BY <2>2, <3>2 DEF Consume, TypeInv, TypeOK, Aware
    <3> QED
      BY <1>3, <3>1, <3>2, ChalSteps
  <2>3. ASSUME NEW g \in Handlers \ {h}
        PROVE  /\ req'[g].at = "consume" => chal'[req'[g].otp].user = req'[g].on
               /\ req'[g].at \in {"consume", "purpose", "unlock"} => req'[g].goal # "change"
    BY <2>1, <2>2, <2>3 DEF Owned, TypeInv, TypeOK, Aware
  <2>4. /\ req'[h].at # "consume"
        /\ req'[h].at \in {"consume", "purpose", "unlock"} => req'[h].goal # "change"
    BY <1>3, StepAfter, IdleTyped DEF Owned, Consume
  <2> QED
    BY <2>3, <2>4 DEF Owned
<1> QED
  BY <1>1, <1>2, <1>3 DEF Next

\* A step about u, who takes turns.
LEMMA EarnStep ==
  ASSUME EarnInv, TypeInv', NEW h \in Handlers, Step(h) \/ Fail(h), NEW u \in Serial, req[h].on = u
  PROVE  /\ opened'[u] <= Cardinality(Spent(chal', u))
         /\ Owes(req', h) => opened'[u] + 1 <= Cardinality(Spent(chal', u))
         /\ req'[h].at \notin {"consume", "welcome"}
<1>1. TypeInv /\ Owned /\ u \in Users
  BY AccessAssumption DEF EarnInv
<1>2. req'[h].at \notin {"consume", "welcome"}
  BY <1>1, StepAfter, IdleTyped
<1>3. /\ opened[u] \in Nat /\ opened'[u] \in Nat
      /\ opened[u] <= Cardinality(Spent(chal, u))
      /\ Owes(req, h) => opened[u] + 1 <= Cardinality(Spent(chal, u))
      /\ req[h].at = "welcome" => ~user[u].locked
      /\ req[h].at = "consume" => ~chal[req[h].otp].used
  BY <1>1 DEF EarnInv, Earned, TypeInv, TypeOK
<1>4. IsFiniteSet(Spent(chal, u)) /\ Cardinality(Spent(chal, u)) \in Nat
  <2>1. Spent(chal, u) \in SUBSET Challenges
    BY DEF Spent
  <2> QED
    BY <2>1, AccessAssumption, FS_Subset, FS_CardinalityType
<1>5. CASE Consume(h)
  <2>1. req[h].otp \in Challenges /\ chal[req[h].otp].user = u /\ ~chal[req[h].otp].used
    BY <1>1, <1>3, <1>5 DEF Consume, TypeInv, Aware, Owned
  <2>2. /\ chal'[req[h].otp].user = u /\ chal'[req[h].otp].used
        /\ \A d \in Challenges \ {req[h].otp} : chal'[d] = chal[d]
    BY <1>1, <1>5, <2>1 DEF Consume, TypeInv, TypeOK
  <2>3. Spent(chal', u) = Spent(chal, u) \union {req[h].otp} /\ req[h].otp \notin Spent(chal, u)
    BY <2>1, <2>2 DEF Spent
  <2>4. Cardinality(Spent(chal', u)) = Cardinality(Spent(chal, u)) + 1
    BY <1>4, <2>3, FS_AddElement
  <2>5. opened' = opened
    BY <1>5 DEF Consume
  <2> QED
    BY <1>2, <1>3, <1>4, <2>4, <2>5
<1>6. CASE ~Consume(h)
  <2>1. Spent(chal', u) = Spent(chal, u)
    BY <1>1, <1>6, ChalSteps DEF Spent
  <2>2. CASE opened'[u] = opened[u]
    <3>1. Owes(req', h) => Owes(req, h)
      BY <1>1, <1>6, StepAfter, IdleTyped DEF Owes
    <3> QED
      BY <1>2, <1>3, <2>1, <2>2, <3>1
  <2>3. CASE Owes(req, h) /\ req'[h] = Idle /\ Opens(u)
    <3>1. opened'[u] <= opened[u] + 1
      BY <1>1, <1>3, <2>3 DEF Opens, TypeInv, TypeOK
    <3>2. ~Owes(req', h)
      BY <2>3, IdleTyped DEF Owes
    <3> QED
      BY <1>2, <1>3, <1>4, <2>1, <2>3, <3>1, <3>2
  <2>4. CASE Welcome(h)
    <3>1. opened'[u] = opened[u]
      BY <1>1, <1>3, <2>4 DEF Welcome, Opens, TypeInv, TypeOK
    <3> QED
      BY <2>2, <3>1
  <2>5. CASE Unlock(h)
    BY <1>1, <2>3, <2>5, FinishShape DEF Unlock, Owes, Owned
  <2>6. CASE Write(h) /\ req[h].goal = "reset" /\ Opens(u)
    BY <1>1, <2>3, <2>6, FinishShape DEF Write, Owes
  <2>7. CASE opened' = opened
    BY <2>2, <2>7
  <2> QED
    BY <1>6, <2>4, <2>5, <2>6, <2>7
    DEF Step, Fail, FailCount, Lock, CheckHistory, Write, Issue, ReadPurpose
<1> QED
  BY <1>5, <1>6

LEMMA EarnNext == EarnInv /\ [Next]_vars => EarnInv'
<1> SUFFICES ASSUME EarnInv, [Next]_vars PROVE EarnInv'
  OBVIOUS
<1>0. TypeInv /\ Turns /\ Owned /\ Earned
  BY DEF EarnInv
<1>1. TypeInv' /\ Turns' /\ Owned'
  BY <1>0, TypeNext, TurnsNext, OwnedNext
<1>2. CASE UNCHANGED vars
  <2>1. user' = user /\ chal' = chal /\ req' = req /\ opened' = opened
    BY <1>2 DEF vars
  <2>2. Earned'
    BY <1>0, <2>1 DEF Earned, Spent, Owes
  <2> QED
    BY <1>1, <2>2 DEF EarnInv
<1>3. ASSUME NEW h \in Handlers, Request(h) PROVE Earned'
  <2>1. PICK v \in Users, local \in Locals : Started(h, v, local) /\ req' = [req EXCEPT ![h] = local]
    BY <1>0, <1>3, RequestShape
  <2>2. /\ req'[h] = local /\ \A g \in Handlers \ {h} : req'[g] = req[g]
        /\ chal' = chal /\ opened' = opened /\ user' = user
    BY <1>0, <1>3, <2>1, StartedShape, RequestShape
  <2>3. ASSUME NEW u \in Serial
        PROVE  /\ opened'[u] <= Cardinality(Spent(chal', u))
               /\ \A g \in Handlers : req'[g].on = u =>
                    /\ Owes(req', g) => opened'[u] + 1 <= Cardinality(Spent(chal', u))
                    /\ req'[g].at = "consume" => ~chal'[req'[g].otp].used
                    /\ req'[g].at = "welcome" => ~user'[u].locked
    <3>1. opened'[u] <= Cardinality(Spent(chal', u))
      BY <1>0, <2>2 DEF Earned
    <3>2. ASSUME NEW g \in Handlers \ {h}, req'[g].on = u
          PROVE  /\ Owes(req', g) => opened'[u] + 1 <= Cardinality(Spent(chal', u))
                 /\ req'[g].at = "consume" => ~chal'[req'[g].otp].used
                 /\ req'[g].at = "welcome" => ~user'[u].locked
      BY <1>0, <2>2, <3>2 DEF Earned, Owes
    <3>3. ~Owes(req', h)
      BY <2>1, <2>2 DEF Owes, Started
    <3>4. req'[h].on = u => /\ req'[h].at = "consume" => ~chal'[req'[h].otp].used
                            /\ req'[h].at = "welcome" => ~user'[u].locked
      BY <2>1, <2>2 DEF Started
    <3> QED
      BY <3>1, <3>2, <3>3, <3>4
  <2> QED
    BY <2>3 DEF Earned
<1>4. ASSUME NEW h \in Handlers, Step(h) \/ Fail(h) PROVE Earned'
  <2>1. \A g \in Handlers \ {h} : req'[g] = req[g]
    BY <1>0, <1>4, StepOn
  <2>2. ASSUME NEW u \in Serial, req[h].on # u
        PROVE  /\ opened'[u] <= Cardinality(Spent(chal', u))
               /\ \A g \in Handlers : req'[g].on = u =>
                    /\ Owes(req', g) => opened'[u] + 1 <= Cardinality(Spent(chal', u))
                    /\ req'[g].at = "consume" => ~chal'[req'[g].otp].used
                    /\ req'[g].at = "welcome" => ~user'[u].locked
    <3>1. /\ opened'[u] = opened[u] /\ user'[u] = user[u] /\ Spent(chal', u) = Spent(chal, u)
          /\ req'[h].on # u
      BY <1>0, <1>4, <2>2, Foreign, AccessAssumption
    <3>2. ASSUME NEW g \in Handlers \ {h}, req[g].on = u, req[g].at = "consume"
          PROVE  ~chal'[req[g].otp].used
      <4>1. /\ req[g].otp \in Challenges /\ chal[req[g].otp].user = u /\ ~chal[req[g].otp].used
            /\ u \in Users
        BY <1>0, <3>2, AccessAssumption DEF TypeInv, Aware, Owned, Earned
      <4>2. req[g].otp \notin Spent(chal', u)
        BY <3>1, <4>1 DEF Spent
      <4>3. chal'[req[g].otp].user = u
        BY <1>1, <2>1, <3>2 DEF Owned
      <4> QED
        BY <4>1, <4>2, <4>3, <1>1 DEF Spent, TypeInv, TypeOK
    <3>3. opened'[u] <= Cardinality(Spent(chal', u))
      BY <1>0, <3>1 DEF Earned
    <3>4. ASSUME NEW g \in Handlers \ {h}, req'[g].on = u
          PROVE  /\ Owes(req', g) => opened'[u] + 1 <= Cardinality(Spent(chal', u))
                 /\ req'[g].at = "consume" => ~chal'[req'[g].otp].used
                 /\ req'[g].at = "welcome" => ~user'[u].locked
      <4>1. req'[g] = req[g]
        BY <2>1
      <4>2. Owes(req', g) <=> Owes(req, g)
        BY <4>1 DEF Owes
      <4> QED
        BY <1>0, <3>1, <3>2, <3>4, <4>1, <4>2 DEF Earned
    <3> QED
      BY <3>1, <3>3, <3>4
  <2>3. ASSUME NEW u \in Serial, req[h].on = u
        PROVE  /\ opened'[u] <= Cardinality(Spent(chal', u))
               /\ \A g \in Handlers : req'[g].on = u =>
                    /\ Owes(req', g) => opened'[u] + 1 <= Cardinality(Spent(chal', u))
                    /\ req'[g].at = "consume" => ~chal'[req'[g].otp].used
                    /\ req'[g].at = "welcome" => ~user'[u].locked
    <3>1. \A g \in Handlers \ {h} : req'[g].on # u
      BY <1>0, <2>1, <2>3 DEF Turns
    <3> QED
      BY <1>1, <1>4, <2>3, <3>1, EarnStep
  <2> QED
    BY <2>2, <2>3 DEF Earned
<1> QED
  BY <1>1, <1>2, <1>3, <1>4 DEF Next, EarnInv

LEMMA EarnInit == Init => EarnInv
<1> SUFFICES ASSUME Init PROVE EarnInv
  OBVIOUS
<1>1. TypeInv /\ Turns
  BY TypeInit, TurnsInit
<1>2. \A h \in Handlers : req[h].at = "idle" /\ req[h].on = NoUser
  BY IdleTyped DEF Init
<1>3. ASSUME NEW u \in Serial PROVE opened[u] = 0 /\ Spent(chal, u) = {}
  BY AccessAssumption DEF Init, Spent
<1>4. Owned
  BY <1>2 DEF Owned
<1>5. ASSUME NEW u \in Serial PROVE opened[u] <= Cardinality(Spent(chal, u))
  BY <1>3, FS_EmptySet
<1>6. Earned
  BY <1>2, <1>5, AccessAssumption DEF Earned
<1> QED
  BY <1>1, <1>4, <1>6 DEF EarnInv

\* UnlocksEarned: every unlock of a user has cost one of his challenges.
THEOREM UnlocksCost == Spec => []UnlocksEarned
<1>1. Spec => []EarnInv
  BY EarnInit, EarnNext, PTL DEF Spec
<1>2. EarnInv => UnlocksEarned
  BY DEF EarnInv, Earned, Spent, UnlocksEarned
<1> QED
  BY <1>1, <1>2, PTL

-----------------------------------------------------------------------------
(* The passwords.                                                          *)

\* No entry is among the Window entries before it.
Apart(s) == \A i, j \in DOMAIN s : i < j /\ j <= i + Window => s[i] # s[j]

\* A password on its way to the history was looked up in it.
Looked ==
  \A u \in Serial :
    /\ \A k \in Kinds : Apart(history[u][k])
    /\ \A h \in Handlers :
         req[h].on = u /\ req[h].at = "write" => req[h].new \notin Recent(history[u][req[h].kind])

ReuseInv == TypeInv /\ Turns /\ Looked

LEMMA ApartAppend ==
  ASSUME NEW s \in Seq(Passwords), Apart(s), NEW x \in Passwords, x \notin Recent(s)
  PROVE  Apart(Append(s, x))
<1> DEFINE t == Append(s, x)
<1>1. Len(t) = Len(s) + 1 /\ DOMAIN t = 1 .. Len(s) + 1 /\ DOMAIN s = 1 .. Len(s) /\ Len(s) \in Nat
  OBVIOUS
<1>2. t[Len(s) + 1] = x /\ \A i \in 1 .. Len(s) : t[i] = s[i]
  OBVIOUS
<1> HIDE DEF t
<1>3. ASSUME NEW i \in DOMAIN t, NEW j \in DOMAIN t, i < j, j <= i + Window
      PROVE  t[i] # t[j]
  <2>1. i \in 1 .. Len(s) /\ Window \in Nat
    BY <1>1, <1>3, AccessAssumption
  <2>2. CASE j \in 1 .. Len(s)
    BY <1>1, <1>2, <1>3, <2>1, <2>2 DEF Apart
  <2>3. CASE j = Len(s) + 1
    <3>1. i > Len(s) - Window
      BY <1>1, <1>3, <2>1, <2>3
    <3>2. s[i] \in Recent(s)
      BY <1>1, <2>1, <3>1 DEF Recent
    <3> QED
      BY <1>2, <2>1, <2>3, <3>2
  <2> QED
    BY <1>1, <2>2, <2>3
<1> QED
  BY <1>3 DEF Apart, t

\* The histories change by a Write, and then only that of its user and kind.
LEMMA HistoryStep ==
  ASSUME TypeInv, NEW h \in Handlers, Step(h) \/ Fail(h)
  PROVE  \/ history' = history
         \/ /\ Write(h) /\ req[h].on \in Users /\ req[h].kind \in Kinds /\ req[h].new \in Passwords
            /\ \A u \in Users, k \in Kinds :
                 history'[u][k] = IF u = req[h].on /\ k = req[h].kind
                                  THEN Append(history[u][k], req[h].new) ELSE history[u][k]
<1>1. CASE Write(h)
  <2>1. req[h].on \in Users /\ req[h].kind \in Kinds /\ req[h].new \in Passwords
    BY <1>1, AccessAssumption DEF Write, TypeInv, TypeOK, Locals
  <2>2. history' = [history EXCEPT ![req[h].on][req[h].kind] = Append(history[req[h].on][req[h].kind], req[h].new)]
    BY <1>1 DEF Write
  <2> QED
    BY <1>1, <2>1, <2>2 DEF TypeInv, TypeOK
<1> QED
  BY <1>1
  DEF Step, Fail, passwordVars, FailCount, Lock, Welcome, CheckHistory, Issue, Consume, ReadPurpose, Unlock

\* The stage at which a password has been looked up is reached only by that.
LEMMA LookedUp ==
  ASSUME TypeInv, NEW h \in Handlers, Step(h) \/ Fail(h), req'[h].at = "write"
  PROVE  /\ history' = history /\ req'[h].on = req[h].on /\ req'[h].kind = req[h].kind
         /\ req'[h].new = req[h].new /\ req[h].new \notin Recent(history[req[h].on][req[h].kind])
<1>1. CASE CheckHistory(h) /\ Goto(h, "write")
  <2>1. req[h].new \notin Recent(history[req[h].on][req[h].kind])
    <3>1. CASE Finish(h)
      BY <3>1, FinishShape, IdleTyped
    <3> QED
      BY <1>1, <3>1 DEF CheckHistory
  <2>2. history' = history
    BY <1>1 DEF CheckHistory, passwordVars
  <2> QED
    BY <1>1, <2>1, <2>2, GotoShape DEF Stages
<1>2. req'[h] # Idle /\ req'[h].at \notin {"lock", "history", "purpose", "unlock"}
  BY IdleTyped
<1>3. CASE CheckHistory(h)
  BY <1>1, <1>2, <1>3, FinishShape DEF CheckHistory
<1>4. req[h].at = "history"
  BY <1>2, StepAfter
<1>5. ~Fail(h)
  BY <1>2, FinishShape DEF Fail
<1> QED
  BY <1>3, <1>4, <1>5
  DEF Step, FailCount, Lock, Welcome, Write, Issue, Consume, ReadPurpose, Unlock

LEMMA ReuseNext == ReuseInv /\ [Next]_vars => ReuseInv'
<1> SUFFICES ASSUME ReuseInv, [Next]_vars PROVE ReuseInv'
  OBVIOUS
<1>0. TypeInv /\ Turns /\ Looked
  BY DEF ReuseInv
<1>1. TypeInv' /\ Turns'
  BY <1>0, TypeNext, TurnsNext
<1>2. CASE UNCHANGED vars
  <2>1. history' = history /\ req' = req
    BY <1>2 DEF vars, passwordVars
  <2>2. Looked'
    BY <1>0, <2>1 DEF Looked
  <2> QED
    BY <1>1, <2>2 DEF ReuseInv
<1>3. ASSUME NEW h \in Handlers, Request(h) PROVE Looked'
  <2>1. PICK v \in Users, local \in Locals : Started(h, v, local) /\ req' = [req EXCEPT ![h] = local]
    BY <1>0, <1>3, RequestShape
  <2>2. /\ req'[h] = local /\ \A g \in Handlers \ {h} : req'[g] = req[g]
        /\ history' = history /\ local.at # "write"
    BY <1>0, <1>3, <2>1, StartedShape, RequestShape DEF Started
  <2> QED
    BY <1>0, <2>2 DEF Looked
<1>4. ASSUME NEW h \in Handlers, Step(h) \/ Fail(h) PROVE Looked'
  <2>1. /\ \A g \in Handlers \ {h} : req'[g] = req[g]
        /\ req'[h] = Idle \/ req'[h].on = req[h].on
    BY <1>0, <1>4, StepOn
  <2>2. ASSUME NEW u \in Serial, NEW k \in Kinds PROVE Apart(history'[u][k])
    <3>1. u \in Users /\ history[u][k] \in Seq(Passwords) /\ Apart(history[u][k])
      BY <1>0, AccessAssumption DEF Looked, TypeInv, TypeOK
    <3>2. CASE history' = history
      BY <3>1, <3>2
    <3>3. CASE /\ Write(h) /\ req[h].new \in Passwords
               /\ history'[u][k] = IF u = req[h].on /\ k = req[h].kind
                                   THEN Append(history[u][k], req[h].new) ELSE history[u][k]
      <4>1. CASE u = req[h].on /\ k = req[h].kind
        <5>1. req[h].new \notin Recent(history[u][k])
          BY <1>0, <3>3, <4>1 DEF Looked, Write
        <5> QED
          BY <3>1, <3>3, <4>1, <5>1, ApartAppend
      <4> QED
        BY <3>1, <3>3, <4>1
    <3> QED
      BY <1>0, <1>4, <3>1, <3>2, <3>3, HistoryStep
  <2>3. ASSUME NEW u \in Serial, NEW g \in Handlers, req'[g].on = u, req'[g].at = "write"
        PROVE  req'[g].new \notin Recent(history'[u][req'[g].kind])
    <3>1. CASE g = h
      BY <1>0, <1>4, <2>3, <3>1, LookedUp
    <3>2. CASE g # h
      <4>1. req'[g] = req[g] /\ req[g].on = u /\ u \in Users /\ req[g].kind \in Kinds
        BY <1>0, <2>1, <2>3, <3>2, AccessAssumption DEF TypeInv, TypeOK, Locals
      <4>2. req[h].on # u
        BY <1>0, <3>2, <4>1 DEF Turns
      <4>3. history'[u][req[g].kind] = history[u][req[g].kind]
        BY <1>0, <1>4, <4>1, <4>2, HistoryStep
      <4>4. req[g].new \notin Recent(history[u][req[g].kind])
        BY <1>0, <2>3, <4>1 DEF Looked
      <4> QED
        BY <4>1, <4>3, <4>4
    <3> QED
      BY <3>1, <3>2
  <2> QED
    BY <2>2, <2>3 DEF Looked
<1> QED
  BY <1>1, <1>2, <1>3, <1>4 DEF Next, ReuseInv

LEMMA ReuseInit == Init => ReuseInv
<1> SUFFICES ASSUME Init PROVE ReuseInv
  OBVIOUS
<1>1. TypeInv /\ Turns
  BY TypeInit, TurnsInit
<1>2. ASSUME NEW u \in Serial, NEW k \in Kinds PROVE Apart(history[u][k])
  <2>1. history[u][k] = <<Initial>>
    BY AccessAssumption DEF Init
  <2> QED
    BY <2>1 DEF Apart
<1>3. Looked
  BY <1>2, IdleTyped DEF Init, Looked
<1> QED
  BY <1>1, <1>3 DEF ReuseInv

\* NoReuse: a new password differs from the last ones, however it was set.
THEOREM PasswordsDiffer == Spec => []NoReuse
<1>1. Spec => []ReuseInv
  BY ReuseInit, ReuseNext, PTL DEF Spec
<1>2. ReuseInv => NoReuse
  BY DEF ReuseInv, Looked, Apart, NoReuse
<1> QED
  BY <1>1, <1>2, PTL

=============================================================================
