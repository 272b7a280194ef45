--------------------------- MODULE PaymentsProofs ---------------------------
(***************************************************************************)
(* What holds of Payments for every value of its constants.                *)
(***************************************************************************)
EXTENDS Payments, TLAPS

(***************************************************************************)
(* Types.  A handler in flight is about a payment that exists, and one     *)
(* that has read a challenge or an edited amount holds a real one.         *)
(***************************************************************************)
HandlerOK ==
  \A h \in Handlers :
    /\ (req[h].at = "idle") <=> (req[h].on = NoPay)
    /\ req[h].on # NoPay => pay[req[h].on].status # "ABSENT"
    /\ req[h].at = "consume" => req[h].otp \in Challenges
    /\ req[h].at = "write" => req[h].amt > 0

TypeInv == TypeOK /\ HandlerOK

\* The rows of a posting extend the journal, and change nothing in it.
LEMMA Appended ==
  ASSUME NEW S, NEW j \in Seq(S), NEW r1 \in S, NEW r2 \in S
  PROVE  LET k == j \o <<r1, r2>> IN
         /\ k \in Seq(S)
         /\ Len(k) = Len(j) + 2
         /\ \A i \in 1 .. Len(j) : k[i] = j[i]
         /\ k[Len(j) + 1] = r1 /\ k[Len(j) + 2] = r2
  OBVIOUS

LEMMA TypeInit == Init => TypeInv
<1> SUFFICES ASSUME Init PROVE TypeInv
  OBVIOUS
<1>1. pay \in [Payments -> PaymentRows]
  BY DEF Init, NoPayment, PaymentRows, Statuses, Levels, NoLevel
<1>2. acct \in [Accounts -> AccountRows]
  BY DataAssumption DEF Init, AccountRows
<1>3. req \in [Handlers -> Locals]
  BY DEF Init, Idle, Locals, Stages
<1>4. otp \in [Challenges -> OtpRows]
  BY DEF Init, OtpRows
<1>5. /\ journal \in Seq(JournalRows) /\ cases \subseteq Payments
      /\ served \in Nat /\ reviewed \in [Payments -> Nat \union {Absent}]
  BY DEF Init
<1>8. settleOpen \in BOOLEAN /\ suspended \in BOOLEAN
  BY DEF Init
<1>6. \A p \in Payments : pay[p].status = "ABSENT"
  BY DEF Init, NoPayment
<1>7. HandlerOK
  BY DEF Init, Idle, HandlerOK
<1> QED
  BY <1>1, <1>2, <1>3, <1>4, <1>5, <1>6, <1>7, <1>8 DEF TypeInv, TypeOK

\* A handler in flight is about a payment with a row and a debit account.
LEMMA InFlight ==
  ASSUME TypeInv, NEW h \in Handlers, req[h].at # "idle"
  PROVE  /\ req[h] \in Locals
         /\ req[h].on \in Payments
         /\ pay[req[h].on] \in PaymentRows
         /\ pay[req[h].on].status # "ABSENT"
         /\ SourceOf(req[h].on) \in Sources
         /\ SourceOf(req[h].on) \in Accounts
  BY DataAssumption DEF TypeInv, TypeOK, HandlerOK, Locals, SourceOf

(***************************************************************************)
(* The shape of a step that handler h takes: it changes its own local      *)
(* record and, at most, the row of its own payment, which stays a payment  *)
(* with a positive amount and the same debit account.                      *)
(***************************************************************************)
LocalShape(h) ==
  /\ req' = [req EXCEPT ![h] = req'[h]] /\ req'[h] \in Locals
  /\ \/ req'[h] = Idle
     \/ /\ req'[h].on = req[h].on /\ req'[h].at \notin {"idle", "write"}
        /\ req'[h].at = "consume" => req'[h].otp \in Challenges

RowShape(h) ==
  LET p == req[h].on IN
  /\ pay' = [pay EXCEPT ![p] = pay'[p]] /\ pay'[p] \in PaymentRows
  /\ pay'[p].status # "ABSENT" /\ pay'[p].amount > 0
  /\ pay'[p].debit = pay[p].debit

RestOK ==
  /\ acct \in [Accounts -> AccountRows] /\ settleOpen \in BOOLEAN
  /\ journal \in Seq(JournalRows) /\ otp \in [Challenges -> OtpRows]
  /\ suspended \in BOOLEAN /\ cases \subseteq Payments
  /\ served \in Nat /\ reviewed \in [Payments -> Nat \union {Absent}]

Shape(h) == LocalShape(h) /\ RowShape(h) /\ RestOK'

LEMMA FinishShape ==
  ASSUME TypeInv, NEW h \in Handlers, Finish(h)
  PROVE  LocalShape(h)
  BY DEF Finish, LocalShape, Idle, Locals, Stages, TypeInv, TypeOK

LEMMA GotoShape ==
  ASSUME TypeInv, NEW h \in Handlers, NEW s \in Stages \ {"idle", "write", "consume"}, Goto(h, s)
  PROVE  LocalShape(h)
  BY DEF Goto, LocalShape, Locals, TypeInv, TypeOK

LEMMA SameRow ==
  ASSUME TypeInv, NEW h \in Handlers, req[h].at # "idle", UNCHANGED pay
  PROVE  RowShape(h)
  BY InFlight DEF RowShape, TypeInv, TypeOK

LEMMA NewStatus ==
  ASSUME TypeInv, NEW h \in Handlers, req[h].at # "idle", NEW s \in Statuses,
         pay' = [pay EXCEPT ![req[h].on].status = s]
  PROVE  RowShape(h)
  BY InFlight DEF RowShape, TypeInv, TypeOK, PaymentRows, Statuses

LEMMA NewLocal ==
  ASSUME TypeInv, NEW h \in Handlers, NEW l \in Locals, l.on = req[h].on,
         l.at \notin {"idle", "write"}, l.at = "consume" => l.otp \in Challenges,
         req' = [req EXCEPT ![h] = l]
  PROVE  LocalShape(h)
  BY DEF LocalShape, TypeInv, TypeOK

LEMMA NewRow ==
  ASSUME TypeInv, NEW h \in Handlers, req[h].at # "idle",
         NEW r \in PaymentRows, r.status # "ABSENT", r.amount > 0,
         r.debit = pay[req[h].on].debit, pay' = [pay EXCEPT ![req[h].on] = r]
  PROVE  RowShape(h)
  BY InFlight DEF RowShape, TypeInv, TypeOK

LEMMA NewBalance ==
  ASSUME TypeInv, NEW a \in Accounts, NEW r \in AccountRows, acct' = [acct EXCEPT ![a] = r]
  PROVE  acct' \in [Accounts -> AccountRows]
  BY DEF TypeInv, TypeOK

LEMMA SameRest ==
  ASSUME TypeInv, UNCHANGED <<ledgerVars, otp, freezeVars, served, reviewed>>
  PROVE  RestOK'
  BY DEF RestOK, ledgerVars, freezeVars, TypeInv, TypeOK

\* A posting writes two balances and two entries.
LEMMA PostCommitRest ==
  ASSUME TypeInv, NEW h \in Handlers, req[h].at # "idle", PostCommit(h)
  PROVE  RestOK'
<1> DEFINE p == req[h].on
           s == SourceOf(p)
           m == req[h].amt
           debited == req[h].bal - m
           credited == (IF req[h].settle = Absent THEN 0 ELSE req[h].settle) + m
           r1 == Row(p, s, "DEBIT", m, debited)
           r2 == Row(p, Settle, "CREDIT", m, credited)
<1>1. p \in Payments /\ s \in Accounts /\ Settle \in Accounts
  BY InFlight, DataAssumption
<1>2. m \in Nat /\ debited \in Int /\ credited \in Int
  BY InFlight DEF Locals
<1>3. r1 \in JournalRows /\ r2 \in JournalRows
  BY <1>1, <1>2 DEF Row, JournalRows
<1>4. journal' = journal \o <<r1, r2>>
  BY DEF PostCommit
<1>5. journal' \in Seq(JournalRows)
  BY <1>3, <1>4, Appended DEF TypeInv, TypeOK
<1>6. acct' = [acct EXCEPT ![s].clear = debited, ![Settle].clear = credited]
  BY DEF PostCommit
<1>7. acct' \in [Accounts -> AccountRows]
  <2> HIDE DEF s, debited, credited
  <2> QED
    BY <1>1, <1>2, <1>6 DEF AccountRows, TypeInv, TypeOK
<1>8. settleOpen' \in BOOLEAN
  BY DEF PostCommit
<1> QED
  BY <1>5, <1>7, <1>8 DEF PostCommit, RestOK, freezeVars, TypeInv, TypeOK

LEMMA HoldTypes ==
  ASSUME NEW r \in AccountRows, NEW m \in Nat
  PROVE  Reserve(r, m) \in AccountRows /\ Return(r, m) \in AccountRows
  BY DEF Reserve, Return, AccountRows

\* A release or a rejection writes one balance.
LEMMA GiveBackRest ==
  ASSUME TypeInv, NEW h \in Handlers, req[h].at # "idle", NEW st \in Statuses, GiveBack(h, st),
         reviewed' \in [Payments -> Nat \union {Absent}]
  PROVE  RestOK'
<1> DEFINE a == SourceOf(req[h].on)
<1>1. Return(acct[a], req[h].amt) \in AccountRows
  BY InFlight, HoldTypes DEF Locals, TypeInv, TypeOK
<1>2. acct' = [acct EXCEPT ![a] = Return(acct[a], req[h].amt)]
  BY InFlight DEF GiveBack, TypeInv, TypeOK
<1>3. acct' \in [Accounts -> AccountRows]
  BY <1>1, <1>2, InFlight, NewBalance
<1> QED
  BY <1>3 DEF GiveBack, RestOK, freezeVars, TypeInv, TypeOK

\* The write of submit: PROCESSING, and perhaps a value date.
LEMMA DispatchWrites ==
  ASSUME TypeInv, NEW h \in Handlers, req[h].at # "idle", Dispatch(h)
  PROVE  \E w \in BOOLEAN :
           pay' = [pay EXCEPT ![req[h].on] = [@ EXCEPT !.status = "PROCESSING", !.dated = w]]
<1>1. PICK late \in BOOLEAN :
        pay' = [pay EXCEPT ![req[h].on] =
                 [@ EXCEPT !.status = "PROCESSING",
                           !.dated = pay[req[h].on].dated
                                     \/ (OverLimit(req[h].amt) \/ (late /\ req[h].on \in Batch))]]
  BY DEF Dispatch
<1> DEFINE w == pay[req[h].on].dated \/ (OverLimit(req[h].amt) \/ (late /\ req[h].on \in Batch))
<1>2. w \in BOOLEAN
  OBVIOUS
<1>3. pay' = [pay EXCEPT ![req[h].on] = [@ EXCEPT !.status = "PROCESSING", !.dated = w]]
  BY <1>1
<1> QED
  BY <1>2, <1>3

\* Only a request that is in flight dies.
LEMMA FailsInFlight ==
  ASSUME TypeInv, NEW h \in Handlers, Fail(h)
  PROVE  req[h].at # "idle"
  BY DataAssumption, NoneAssumption DEF Fail, TypeInv, HandlerOK

\* Every step of a handler has that shape, and so has its death.
LEMMA StepShape ==
  ASSUME TypeInv, NEW h \in Handlers, Step(h) \/ Fail(h)
  PROVE  req[h].at # "idle" /\ Shape(h)
<1> USE DEF Shape
<1>1. CASE Score(h)
  <2>1. req[h].at # "idle"
    BY <1>1 DEF Score
  <2>2. LocalShape(h)
    BY <1>1, <2>1, GotoShape DEF Score, Stages, AfterVerdict, Levels
  <2>3. RowShape(h)
    <3>1. PICK l \in Levels : pay' = [pay EXCEPT ![req[h].on] = Scored(@, l)]
      BY <1>1 DEF Score
    <3> DEFINE r == Scored(pay[req[h].on], l)
    <3>2. /\ r \in PaymentRows /\ r.status = pay[req[h].on].status
          /\ r.amount = pay[req[h].on].amount /\ r.debit = pay[req[h].on].debit
      BY <2>1, InFlight DEF Scored, PaymentRows
    <3>3. pay' = [pay EXCEPT ![req[h].on] = r]
      BY <3>1, <2>1, InFlight DEF TypeInv, TypeOK
    <3> QED
      BY <2>1, <3>2, <3>3, InFlight, NewRow DEF TypeInv, TypeOK
  <2>4. RestOK'
    BY <1>1, <2>1, SameRest DEF Score
  <2> QED
    BY <2>1, <2>2, <2>3, <2>4
<1>2. CASE Block(h)
  <2>1. req[h].at # "idle"
    BY <1>2 DEF Block
  <2>2. LocalShape(h)
    BY <1>2, <2>1, GotoShape DEF Block, Stages
  <2>3. RowShape(h)
    BY <1>2, <2>1, NewStatus DEF Block, Statuses
  <2>4. RestOK'
    BY <1>2, <2>1, SameRest DEF Block
  <2> QED
    BY <2>1, <2>2, <2>3, <2>4
<1>3. CASE Freeze(h)
  <2>1. req[h].at # "idle"
    BY <1>3 DEF Freeze
  <2>2. LocalShape(h)
    BY <1>3, <2>1, GotoShape DEF Freeze, Stages
  <2>3. RowShape(h)
    BY <1>3, <2>1, SameRow DEF Freeze
  <2>4. RestOK'
    BY <1>3, <2>1, InFlight DEF Freeze, RestOK, ledgerVars, freezeVars, TypeInv, TypeOK
  <2> QED
    BY <2>1, <2>2, <2>3, <2>4
<1>4. CASE OpenCase(h)
  <2>1. req[h].at # "idle"
    BY <1>4 DEF OpenCase
  <2>2. LocalShape(h)
    BY <1>4, <2>1, FinishShape DEF OpenCase
  <2>3. RowShape(h)
    BY <1>4, <2>1, SameRow DEF OpenCase
  <2>4. RestOK'
    BY <1>4, <2>1, InFlight DEF OpenCase, RestOK, ledgerVars, freezeVars, TypeInv, TypeOK
  <2> QED
    BY <2>1, <2>2, <2>3, <2>4
<1>5. CASE IssueOtp(h)
  <2>1. req[h].at # "idle"
    BY <1>5 DEF IssueOtp
  <2>2. LocalShape(h)
    BY <1>5, <2>1, FinishShape, GotoShape DEF IssueOtp, Stages
  <2>3. RowShape(h)
    BY <1>5, <2>1, SameRow DEF IssueOtp
  <2>4. RestOK'
    BY <1>5, <2>1, InFlight DEF IssueOtp, RestOK, ledgerVars, freezeVars, TypeInv, TypeOK, OtpRows
  <2> QED
    BY <2>1, <2>2, <2>3, <2>4
<1>6. CASE MarkChallenged(h)
  <2>1. req[h].at # "idle"
    BY <1>6 DEF MarkChallenged
  <2>2. LocalShape(h)
    BY <1>6, <2>1, FinishShape DEF MarkChallenged
  <2>3. RowShape(h)
    BY <1>6, <2>1, NewStatus DEF MarkChallenged, Statuses
  <2>4. RestOK'
    BY <1>6, <2>1, SameRest DEF MarkChallenged
  <2> QED
    BY <2>1, <2>2, <2>3, <2>4
<1>7. CASE HoldRead(h)
  <2>1. req[h].at # "idle"
    BY <1>7 DEF HoldRead
  <2>2. LocalShape(h)
    <3> DEFINE l == [req[h] EXCEPT !.at = "hold", !.amt = pay[req[h].on].amount]
    <3>1. l \in Locals /\ l.on = req[h].on /\ l.at = "hold"
      BY <2>1, InFlight DEF Locals, Stages, PaymentRows
    <3>2. req' = [req EXCEPT ![h] = l]
      BY <1>7 DEF HoldRead, TypeInv, TypeOK
    <3> QED
      BY <3>1, <3>2, NewLocal
  <2>3. RowShape(h)
    BY <1>7, <2>1, SameRow DEF HoldRead
  <2>4. RestOK'
    BY <1>7, <2>1, SameRest DEF HoldRead
  <2> QED
    BY <2>1, <2>2, <2>3, <2>4
<1>8. CASE HoldCommit(h)
  <2>1. req[h].at # "idle"
    BY <1>8 DEF HoldCommit
  <2>2. LocalShape(h)
    BY <1>8, <2>1, FinishShape DEF HoldCommit
  <2>3. RowShape(h)
    BY <1>8, <2>1, NewStatus DEF HoldCommit, Statuses
  <2>4. RestOK'
    <3> DEFINE a == SourceOf(req[h].on)
    <3>1. Reserve(acct[a], req[h].amt) \in AccountRows
      BY <2>1, InFlight, HoldTypes DEF Locals, TypeInv, TypeOK
    <3>2. acct' = [acct EXCEPT ![a] = Reserve(acct[a], req[h].amt)]
      BY <1>8, <2>1, InFlight DEF HoldCommit, TypeInv, TypeOK
    <3>3. acct' \in [Accounts -> AccountRows]
      BY <2>1, <3>1, <3>2, InFlight, NewBalance
    <3> QED
      BY <1>8, <3>3 DEF HoldCommit, RestOK, freezeVars, TypeInv, TypeOK
  <2> QED
    BY <2>1, <2>2, <2>3, <2>4
<1>9. CASE VerifyRead(h)
  <2>1. req[h].at # "idle"
    BY <1>9 DEF VerifyRead
  <2>2. LocalShape(h)
    <3>1. PICK c \in Challenges : req' = [req EXCEPT ![h] = [@ EXCEPT !.at = "consume", !.otp = c]]
      BY <1>9 DEF VerifyRead
    <3> DEFINE l == [req[h] EXCEPT !.at = "consume", !.otp = c]
    <3>2. l \in Locals /\ l.on = req[h].on /\ l.at = "consume" /\ l.otp = c
      BY <2>1, InFlight DEF Locals, Stages
    <3>3. req' = [req EXCEPT ![h] = l]
      BY <3>1 DEF TypeInv, TypeOK
    <3> QED
      BY <3>2, <3>3, NewLocal
  <2>3. RowShape(h)
    BY <1>9, <2>1, SameRow DEF VerifyRead
  <2>4. RestOK'
    BY <1>9, <2>1, SameRest DEF VerifyRead
  <2> QED
    BY <2>1, <2>2, <2>3, <2>4
<1>10. CASE VerifyRefused(h)
  <2>1. req[h].at # "idle"
    BY <1>10 DEF VerifyRefused
  <2>2. LocalShape(h)
    BY <1>10, <2>1, FinishShape DEF VerifyRefused
  <2>3. RowShape(h)
    BY <1>10, <2>1, SameRow DEF VerifyRefused
  <2>4. RestOK'
    <3>1. otp' \in [Challenges -> OtpRows]
      BY <1>10 DEF VerifyRefused, TypeInv, TypeOK, OtpRows
    <3> QED
      BY <1>10, <3>1 DEF VerifyRefused, RestOK, ledgerVars, freezeVars, TypeInv, TypeOK
  <2> QED
    BY <2>1, <2>2, <2>3, <2>4
<1>11. CASE Consume(h)
  <2>1. req[h].at # "idle"
    BY <1>11 DEF Consume
  <2>2. LocalShape(h)
    BY <1>11, <2>1, FinishShape, GotoShape DEF Consume, Stages
  <2>3. RowShape(h)
    BY <1>11, <2>1, SameRow DEF Consume
  <2>4. RestOK'
    BY <1>11, <2>1, InFlight DEF Consume, RestOK, ledgerVars, freezeVars, TypeInv, TypeOK, OtpRows
  <2> QED
    BY <2>1, <2>2, <2>3, <2>4
<1>12. CASE Dispatch(h)
  <2>1. req[h].at # "idle"
    BY <1>12 DEF Dispatch
  <2>2. LocalShape(h)
    BY <1>12, <2>1, GotoShape DEF Dispatch, Stages
  <2>3. RowShape(h)
    <3>1. PICK w \in BOOLEAN :
            pay' = [pay EXCEPT ![req[h].on] = [@ EXCEPT !.status = "PROCESSING", !.dated = w]]
      BY <1>12, <2>1, InFlight, DispatchWrites
    <3> DEFINE r == [pay[req[h].on] EXCEPT !.status = "PROCESSING", !.dated = w]
    <3>2. /\ r \in PaymentRows /\ r.status = "PROCESSING"
          /\ r.amount = pay[req[h].on].amount /\ r.debit = pay[req[h].on].debit
      BY <2>1, InFlight DEF PaymentRows, Statuses
    <3>3. pay' = [pay EXCEPT ![req[h].on] = r]
      BY <3>1, <2>1, InFlight DEF TypeInv, TypeOK
    <3> QED
      BY <2>1, <3>2, <3>3, InFlight, NewRow DEF TypeInv, TypeOK
  <2>4. RestOK'
    BY <1>12, <2>1, SameRest DEF Dispatch
  <2> QED
    BY <2>1, <2>2, <2>3, <2>4
<1>13. CASE PostRead(h)
  <2>1. req[h].at # "idle"
    BY <1>13 DEF PostRead
  <2>2. LocalShape(h)
    <3> DEFINE l == [req[h] EXCEPT !.at = "source", !.amt = pay[req[h].on].amount]
    <3>1. l \in Locals /\ l.on = req[h].on /\ l.at = "source"
      BY <2>1, InFlight DEF Locals, Stages, PaymentRows
    <3>2. req' = [req EXCEPT ![h] = l]
      BY <1>13 DEF PostRead, TypeInv, TypeOK
    <3> QED
      BY <3>1, <3>2, NewLocal
  <2>3. RowShape(h)
    BY <1>13, <2>1, SameRow DEF PostRead
  <2>4. RestOK'
    BY <1>13, <2>1, SameRest DEF PostRead
  <2> QED
    BY <2>1, <2>2, <2>3, <2>4
<1>14. CASE SourceRead(h)
  <2>1. req[h].at # "idle"
    BY <1>14 DEF SourceRead
  <2>2. LocalShape(h)
    <3> DEFINE l == [req[h] EXCEPT !.at = "debit", !.bal = acct[SourceOf(req[h].on)].clear]
    <3>1. l \in Locals /\ l.on = req[h].on /\ l.at = "debit"
      BY <2>1, InFlight DEF Locals, Stages, AccountRows, TypeInv, TypeOK
    <3>2. req' = [req EXCEPT ![h] = l] \/ Finish(h)
      BY <1>14 DEF SourceRead, TypeInv, TypeOK
    <3> QED
      BY <3>1, <3>2, NewLocal, FinishShape
  <2>3. RowShape(h)
    BY <1>14, <2>1, SameRow DEF SourceRead
  <2>4. RestOK'
    BY <1>14, <2>1, SameRest DEF SourceRead
  <2> QED
    BY <2>1, <2>2, <2>3, <2>4
<1>15. CASE PostDebit(h)
  <2>1. req[h].at # "idle"
    BY <1>15 DEF PostDebit
  <2>2. LocalShape(h)
    <3>1. PICK b \in Int \union {Absent} :
            req' = [req EXCEPT ![h] = [@ EXCEPT !.at = "credit", !.settle = b]]
      <4> DEFINE b == IF SourceOf(req[h].on) = Settle THEN req[h].bal - req[h].amt
                      ELSE IF settleOpen THEN acct[Settle].clear ELSE Absent
      <4>1. b \in Int \union {Absent}
        BY <2>1, InFlight, DataAssumption DEF Locals, AccountRows, TypeInv, TypeOK
      <4>2. req' = [req EXCEPT ![h] = [@ EXCEPT !.at = "credit", !.settle = b]]
        BY <1>15 DEF PostDebit
      <4> QED
        BY <4>1, <4>2
    <3> DEFINE l == [req[h] EXCEPT !.at = "credit", !.settle = b]
    <3>2. l \in Locals /\ l.on = req[h].on /\ l.at = "credit"
      BY <2>1, InFlight DEF Locals, Stages
    <3>3. req' = [req EXCEPT ![h] = l]
      BY <3>1 DEF TypeInv, TypeOK
    <3> QED
      BY <3>2, <3>3, NewLocal
  <2>3. RowShape(h)
    BY <1>15, <2>1, SameRow DEF PostDebit
  <2>4. RestOK'
    BY <1>15, <2>1, SameRest DEF PostDebit
  <2> QED
    BY <2>1, <2>2, <2>3, <2>4
<1>16. CASE PostCommit(h)
  <2>1. req[h].at # "idle"
    BY <1>16 DEF PostCommit
  <2>2. LocalShape(h)
    BY <1>16, <2>1, FinishShape DEF PostCommit
  <2>3. RowShape(h)
    BY <1>16, <2>1, NewStatus DEF PostCommit, Statuses
  <2>4. RestOK'
    BY <1>16, <2>1, PostCommitRest
  <2> QED
    BY <2>1, <2>2, <2>3, <2>4
<1>17. CASE PostConflict(h)
  <2>1. req[h].at # "idle"
    BY <1>17 DEF PostConflict
  <2>2. LocalShape(h)
    BY <1>17, <2>1, FinishShape DEF PostConflict
  <2>3. RowShape(h)
    BY <1>17, <2>1, SameRow DEF PostConflict
  <2>4. RestOK'
    BY <1>17, <2>1, SameRest DEF PostConflict
  <2> QED
    BY <2>1, <2>2, <2>3, <2>4
<1>18. CASE UpdateWrite(h)
  <2>1. req[h].at # "idle"
    BY <1>18 DEF UpdateWrite
  <2>2. LocalShape(h)
    BY <1>18, <2>1, GotoShape DEF UpdateWrite, Stages
  <2>3. RowShape(h)
    BY <1>18, <2>1, InFlight DEF UpdateWrite, RowShape, TypeInv, TypeOK, PaymentRows, HandlerOK, Locals
  <2>4. RestOK'
    BY <1>18, <2>1, SameRest DEF UpdateWrite
  <2> QED
    BY <2>1, <2>2, <2>3, <2>4
<1>19. CASE Rescore(h)
  <2>1. req[h].at # "idle"
    BY <1>19 DEF Rescore
  <2>2. LocalShape(h)
    BY <1>19, <2>1, FinishShape DEF Rescore
  <2>3. RowShape(h)
    <3>1. PICK l \in Levels : pay' = [pay EXCEPT ![req[h].on] = Rescored(@, l)]
      BY <1>19 DEF Rescore
    <3> DEFINE r == Rescored(pay[req[h].on], l)
    <3>2. /\ r \in PaymentRows /\ r.status = pay[req[h].on].status
          /\ r.amount = pay[req[h].on].amount /\ r.debit = pay[req[h].on].debit
      BY <2>1, InFlight DEF Rescored, PaymentRows
    <3>3. pay' = [pay EXCEPT ![req[h].on] = r]
      BY <3>1, <2>1, InFlight DEF TypeInv, TypeOK
    <3> QED
      BY <2>1, <3>2, <3>3, InFlight, NewRow DEF TypeInv, TypeOK
  <2>4. RestOK'
    BY <1>19, <2>1, SameRest DEF Rescore
  <2> QED
    BY <2>1, <2>2, <2>3, <2>4
<1>20. CASE RemoveWrite(h)
  <2>1. req[h].at # "idle"
    BY <1>20 DEF RemoveWrite
  <2>2. LocalShape(h)
    BY <1>20, <2>1, FinishShape DEF RemoveWrite
  <2>3. RowShape(h)
    BY <1>20, <2>1, NewStatus DEF RemoveWrite, Statuses
  <2>4. RestOK'
    BY <1>20, <2>1, SameRest DEF RemoveWrite
  <2> QED
    BY <2>1, <2>2, <2>3, <2>4
<1>21. CASE ReleaseCommit(h)
  <2>1. req[h].at # "idle"
    BY <1>21 DEF ReleaseCommit
  <2>2. LocalShape(h)
    BY <1>21, <2>1, GotoShape DEF ReleaseCommit, Stages
  <2>3. RowShape(h)
    BY <1>21, <2>1, NewStatus DEF ReleaseCommit, GiveBack, Statuses
  <2>4. RestOK'
    BY <1>21, <2>1, GiveBackRest, InFlight DEF ReleaseCommit, Statuses, Locals, TypeInv, TypeOK
  <2> QED
    BY <2>1, <2>2, <2>3, <2>4
<1>22. CASE Approve(h)
  <2>1. req[h].at # "idle"
    BY <1>22 DEF Approve
  <2>2. LocalShape(h)
    BY <1>22, <2>1, FinishShape DEF Approve
  <2>3. RowShape(h)
    BY <1>22, <2>1, InFlight DEF Approve, RowShape, TypeInv, TypeOK, PaymentRows
  <2>4. RestOK'
    BY <1>22, <2>1, SameRest DEF Approve
  <2> QED
    BY <2>1, <2>2, <2>3, <2>4
<1>23. CASE RejectCommit(h)
  <2>1. req[h].at # "idle"
    BY <1>23 DEF RejectCommit
  <2>2. LocalShape(h)
    BY <1>23, <2>1, FinishShape DEF RejectCommit
  <2>3. RowShape(h)
    BY <1>23, <2>1, NewStatus DEF RejectCommit, GiveBack, Statuses
  <2>4. RestOK'
    BY <1>23, <2>1, GiveBackRest, InFlight DEF RejectCommit, Statuses, Locals, TypeInv, TypeOK
  <2> QED
    BY <2>1, <2>2, <2>3, <2>4
<1>24. CASE Fail(h)
  <2>1. req[h].at # "idle"
    BY <1>24, FailsInFlight
  <2>2. LocalShape(h)
    BY <1>24, <2>1, FinishShape DEF Fail
  <2>3. RowShape(h)
    BY <1>24, <2>1, SameRow DEF Fail
  <2>4. RestOK'
    BY <1>24 DEF Fail, RestOK, ledgerVars, freezeVars, TypeInv, TypeOK
  <2> QED
    BY <2>1, <2>2, <2>3, <2>4
<1> QED
  BY <1>1, <1>2, <1>3, <1>4, <1>5, <1>6, <1>7, <1>8, <1>9, <1>10, <1>11, <1>12, <1>13, <1>14, <1>15, <1>16, <1>17, <1>18, <1>19, <1>20, <1>21, <1>22, <1>23, <1>24 DEF Step

\* A request that begins: its handler leaves idle, with the payment it is about.
LEMMA BeginShape ==
  ASSUME TypeInv, NEW op, NEW h \in Handlers, NEW p \in Payments, pay[p].status # "ABSENT",
         NEW s \in Stages \ {"idle", "consume"}, NEW a \in Nat, s = "write" => a > 0,
         Begin(op, h, p, s, a), UNCHANGED <<pay, ledgerVars, otp, freezeVars, reviewed>>
  PROVE  TypeInv'
<1> DEFINE l == [Idle EXCEPT !.at = s, !.on = p, !.amt = a]
<1>0. Idle \in Locals
  BY DEF Idle, Locals, Stages
<1>1. l \in Locals /\ l.at = s /\ l.on = p /\ l.amt = a
  BY <1>0 DEF Locals
<1>2. req' = [req EXCEPT ![h] = l]
  BY DEF Begin
<1>3. req' \in [Handlers -> Locals]
  BY <1>1, <1>2 DEF TypeInv, TypeOK
<1>4. HandlerOK'
  BY <1>1, <1>2, NoneAssumption DEF HandlerOK, TypeInv, TypeOK
<1>5. served' \in Nat
  BY DEF Begin, TypeInv, TypeOK
<1> QED
  BY <1>3, <1>4, <1>5 DEF ledgerVars, freezeVars, TypeInv, TypeOK

LEMMA RequestTypes ==
  ASSUME TypeInv, NEW h \in Handlers, NEW p \in Payments, Request(h, p)
  PROVE  TypeInv'
<1> USE DEF Stages
<1>0. pay[p].amount \in Nat /\ pay[p].approved \in BOOLEAN
  BY DEF TypeInv, TypeOK, PaymentRows
<1>1. CASE BeginConfirm(h, p)
  BY <1>1, BeginShape DEF BeginConfirm, Editable
<1>2. CASE BeginSubmit(h, p)
  BY <1>0, <1>2, BeginShape DEF BeginSubmit, Submittable
<1>3. ASSUME NEW a \in Amounts, BeginUpdate(h, p, a) PROVE TypeInv'
  BY <1>3, BeginShape, DataAssumption DEF BeginUpdate, Editable, Positive
<1>4. CASE BeginRemove(h, p)
  BY <1>4, BeginShape DEF BeginRemove, Editable
<1>5. CASE BeginRelease(h, p)
  BY <1>0, <1>5, BeginShape DEF BeginRelease
<1>6. CASE BeginReject(h, p)
  BY <1>0, <1>6, BeginShape DEF BeginReject
<1> QED
  BY <1>1, <1>2, <1>3, <1>4, <1>5, <1>6 DEF Request

LEMMA InitiateTypes ==
  ASSUME TypeInv, NEW p \in Payments, NEW a \in Amounts, NEW s \in Sources, Initiate(p, a, s)
  PROVE  TypeInv'
<1>1. /\ Draft(a, s) \in PaymentRows /\ Draft(a, s).status = "NEW"
      /\ Draft(a, s).amount = a /\ Draft(a, s).debit = s
  BY DataAssumption DEF Draft, NoPayment, PaymentRows, Statuses, Levels, NoLevel
<1>2. pay' = [pay EXCEPT ![p] = Draft(a, s)]
  BY DEF Initiate
<1>3. pay' \in [Payments -> PaymentRows]
  BY <1>1, <1>2 DEF TypeInv, TypeOK
<1>4. \A q \in Payments :
        pay'[q].status # "ABSENT" => pay'[q].amount > 0 /\ pay'[q].debit \in Sources
  BY <1>1, <1>2 DEF Initiate, Positive, TypeInv, TypeOK
<1>5. HandlerOK'
  BY <1>1, <1>2 DEF Initiate, HandlerOK, Locals, TypeInv, TypeOK
<1>6. served' \in Nat
  BY DEF Initiate, TypeInv, TypeOK
<1> QED
  BY <1>3, <1>4, <1>5, <1>6 DEF Initiate, ledgerVars, freezeVars, TypeInv, TypeOK

LEMMA ShapeTypes ==
  ASSUME TypeInv, NEW h \in Handlers, req[h].at # "idle", Shape(h)
  PROVE  TypeInv'
<1>1. pay' \in [Payments -> PaymentRows]
  BY InFlight DEF Shape, RowShape, TypeInv, TypeOK
<1>2. req' \in [Handlers -> Locals]
  BY DEF Shape, LocalShape, TypeInv, TypeOK
<1>3. \A q \in Payments :
        pay'[q].status # "ABSENT" => pay'[q].amount > 0 /\ pay'[q].debit \in Sources
  BY InFlight DEF Shape, RowShape, SourceOf, TypeInv, TypeOK
<1>4. HandlerOK'
  <2> SUFFICES ASSUME NEW g \in Handlers
               PROVE  /\ (req'[g].at = "idle") <=> (req'[g].on = NoPay)
                      /\ req'[g].on # NoPay => pay'[req'[g].on].status # "ABSENT"
                      /\ req'[g].at = "consume" => req'[g].otp \in Challenges
                      /\ req'[g].at = "write" => req'[g].amt > 0
    BY DEF HandlerOK
  <2>1. CASE g = h
    BY <2>1, InFlight, NoneAssumption DEF Shape, LocalShape, RowShape, Idle, TypeInv, TypeOK
  <2>2. CASE g # h
    <3>1. req'[g] = req[g]
      BY <2>2 DEF Shape, LocalShape, TypeInv, TypeOK
    <3>2. req[g].on # NoPay => pay'[req[g].on].status # "ABSENT"
      BY InFlight DEF Shape, RowShape, TypeInv, TypeOK, HandlerOK, Locals
    <3> QED
      BY <3>1, <3>2 DEF TypeInv, HandlerOK
  <2> QED
    BY <2>1, <2>2
<1> QED
  BY <1>1, <1>2, <1>3, <1>4 DEF Shape, RestOK, TypeInv, TypeOK

LEMMA TypeStep == TypeInv /\ [Next]_vars => TypeInv'
<1> SUFFICES ASSUME TypeInv, [Next]_vars PROVE TypeInv'
  OBVIOUS
<1>1. ASSUME NEW p \in Payments, NEW a \in Amounts, NEW s \in Sources, Initiate(p, a, s)
      PROVE  TypeInv'
  BY <1>1, InitiateTypes
<1>2. ASSUME NEW h \in Handlers, NEW p \in Payments, Request(h, p) PROVE TypeInv'
  BY <1>2, RequestTypes
<1>3. ASSUME NEW h \in Handlers, Step(h) \/ Fail(h) PROVE TypeInv'
  BY <1>3, StepShape, ShapeTypes
<1>4. CASE UNCHANGED vars
  BY <1>4 DEF vars, TypeInv, TypeOK, HandlerOK
<1> QED
  BY <1>1, <1>2, <1>3, <1>4 DEF Next

LEMMA TypeAlways == Spec => []TypeInv
  BY TypeInit, TypeStep, PTL DEF Spec

\* In every state every column and every snapshot has a value of its type, and
\* every payment that exists a positive amount.
THEOREM TypeCorrect == Spec => []TypeOK
<1>1. TypeInv => TypeOK
  BY DEF TypeInv
<1> QED
  BY <1>1, TypeAlways, PTL

(***************************************************************************)
(* The flow of control: which stage follows which, and which stages write  *)
(* the journal and the challenges.                                         *)
(***************************************************************************)
Edges ==
  {<<"score", "issue">>, <<"score", "issueMark">>, <<"score", "holdRead">>, <<"score", "block">>,
   <<"block", "freeze">>, <<"freeze", "case">>, <<"issueMark", "mark">>, <<"holdRead", "hold">>,
   <<"verify", "consume">>, <<"consume", "dispatch">>, <<"dispatch", "holdRead">>,
   <<"dispatch", "post">>, <<"post", "source">>, <<"source", "debit">>, <<"debit", "credit">>,
   <<"write", "rescore">>, <<"release", "approve">>}

Flow(h) ==
  /\ req'[h] = Idle \/ <<req[h].at, req'[h].at>> \in Edges
  /\ req[h].at \notin {"issue", "issueMark", "verify", "consume"} => UNCHANGED otp
  /\ req[h].at # "credit" => UNCHANGED journal

LEMMA FinishFlow == ASSUME TypeInv, NEW h \in Handlers, Finish(h) PROVE req'[h] = Idle
  BY DEF Finish, TypeInv, TypeOK

LEMMA GotoFlow ==
  ASSUME TypeInv, NEW h \in Handlers, NEW s, Goto(h, s)
  PROVE  req'[h] = [req[h] EXCEPT !.at = s] /\ req'[h].at = s /\ req'[h].amt = req[h].amt
<1>1. req[h] \in Locals
  BY DEF TypeInv, TypeOK
<1>2. req'[h] = [req[h] EXCEPT !.at = s]
  BY DEF Goto, TypeInv, TypeOK
<1> QED
  BY <1>1, <1>2 DEF Locals

LEMMA StepFlow ==
  ASSUME TypeInv, NEW h \in Handlers, Step(h) \/ Fail(h)
  PROVE  Flow(h)
<1> USE DEF Flow, Edges, ledgerVars
<1>1. CASE Score(h)
  <2>1. PICK l \in Levels : Goto(h, AfterVerdict(l))
    BY <1>1 DEF Score
  <2>2. AfterVerdict(l) \in {"issue", "issueMark", "holdRead", "block"}
    BY DEF AfterVerdict, Levels
  <2>3. req[h].at = "score" /\ UNCHANGED <<otp, journal>>
    BY <1>1 DEF Score
  <2> QED
    BY <2>1, <2>2, <2>3, GotoFlow
<1>2. CASE Block(h)
  BY <1>2, GotoFlow DEF Block
<1>3. CASE Freeze(h)
  BY <1>3, GotoFlow DEF Freeze
<1>4. CASE OpenCase(h)
  BY <1>4, FinishFlow DEF OpenCase
<1>5. CASE IssueOtp(h)
  BY <1>5, FinishFlow, GotoFlow DEF IssueOtp
<1>6. CASE MarkChallenged(h)
  BY <1>6, FinishFlow DEF MarkChallenged
<1>7. CASE HoldRead(h)
  BY <1>7, FinishFlow DEF HoldRead, TypeInv, TypeOK, Locals
<1>8. CASE HoldCommit(h)
  BY <1>8, FinishFlow DEF HoldCommit
<1>9. CASE VerifyRead(h)
  BY <1>9, FinishFlow DEF VerifyRead, TypeInv, TypeOK, Locals
<1>10. CASE VerifyRefused(h)
  BY <1>10, FinishFlow DEF VerifyRefused
<1>11. CASE Consume(h)
  BY <1>11, FinishFlow, GotoFlow DEF Consume
<1>12. CASE Dispatch(h)
  BY <1>12, GotoFlow DEF Dispatch
<1>13. CASE PostRead(h)
  BY <1>13, FinishFlow DEF PostRead, TypeInv, TypeOK, Locals
<1>14. CASE SourceRead(h)
  BY <1>14, FinishFlow DEF SourceRead, TypeInv, TypeOK, Locals
<1>15. CASE PostDebit(h)
  BY <1>15, FinishFlow DEF PostDebit, TypeInv, TypeOK, Locals
<1>16. CASE PostCommit(h)
  BY <1>16, FinishFlow DEF PostCommit
<1>17. CASE PostConflict(h)
  BY <1>17, FinishFlow DEF PostConflict
<1>18. CASE UpdateWrite(h)
  BY <1>18, GotoFlow DEF UpdateWrite
<1>19. CASE Rescore(h)
  BY <1>19, FinishFlow DEF Rescore
<1>20. CASE RemoveWrite(h)
  BY <1>20, FinishFlow DEF RemoveWrite
<1>21. CASE ReleaseCommit(h)
  BY <1>21, GotoFlow DEF ReleaseCommit, GiveBack
<1>22. CASE Approve(h)
  BY <1>22, FinishFlow DEF Approve
<1>23. CASE RejectCommit(h)
  BY <1>23, FinishFlow DEF RejectCommit, GiveBack
<1>24. CASE Fail(h)
  BY <1>24, FinishFlow DEF Fail
<1> QED
  BY <1>1, <1>2, <1>3, <1>4, <1>5, <1>6, <1>7, <1>8, <1>9, <1>10, <1>11, <1>12, <1>13, <1>14, <1>15, <1>16, <1>17, <1>18, <1>19, <1>20, <1>21, <1>22, <1>23, <1>24 DEF Step

\* The action that a handler takes at the stages that matter below.
LEMMA ActionAt ==
  ASSUME NEW h \in Handlers, Step(h)
  PROVE  /\ req[h].at \in {"issue", "issueMark"} => IssueOtp(h)
         /\ req[h].at = "verify" => VerifyRead(h) \/ VerifyRefused(h)
         /\ req[h].at = "consume" => Consume(h)
         /\ req[h].at = "dispatch" => Dispatch(h)
         /\ req[h].at = "post" => PostRead(h)
         /\ req[h].at = "source" => SourceRead(h)
         /\ req[h].at = "debit" => PostDebit(h)
         /\ req[h].at = "credit" => PostCommit(h) \/ PostConflict(h)
  BY DEF Step, Score, Block, Freeze, OpenCase, IssueOtp, MarkChallenged, HoldRead, HoldCommit, VerifyRead, VerifyRefused, Consume, Dispatch, PostRead, SourceRead, PostDebit, PostCommit, PostConflict, UpdateWrite, Rescore, RemoveWrite, ReleaseCommit, Approve, RejectCommit

(***************************************************************************)
(* Authorised posting.  A handler past the comparison of the challenge     *)
(* with its payment, and every entry of the journal, is backed by a        *)
(* consumed challenge of that payment.                                     *)
(***************************************************************************)
Backed(p) == \E c \in Challenges : otp[c].used /\ otp[c].pay = p

AuthInv ==
  /\ AuthorisedPosting
  /\ \A h \in Handlers :
       req[h].at \in {"dispatch", "post", "source", "debit", "credit"} => Backed(req[h].on)

\* A challenge keeps its payment and stays consumed.
LEMMA BackedStays ==
  ASSUME TypeInv, [Next]_vars, NEW p \in Payments, Backed(p)
  PROVE  Backed(p)'
<1> PICK c \in Challenges : otp[c].used /\ otp[c].pay = p
  BY DEF Backed
<1> SUFFICES otp'[c].used /\ otp'[c].pay = p
  BY DEF Backed
<1>1. ASSUME NEW h \in Handlers, Step(h) \/ Fail(h)
      PROVE  otp'[c].used /\ otp'[c].pay = p
  <2>1. CASE Fail(h)
    BY <2>1 DEF Fail
  <2>2. CASE req[h].at \notin {"issue", "issueMark", "verify", "consume"}
    BY <1>1, <2>2, StepFlow DEF Flow
  <2>3. CASE IssueOtp(h)
    BY <2>3, NoneAssumption DEF IssueOtp, TypeInv, TypeOK, OtpRows
  <2>4. CASE VerifyRead(h) \/ VerifyRefused(h)
    BY <2>4 DEF VerifyRead, VerifyRefused, TypeInv, TypeOK, OtpRows
  <2>5. CASE Consume(h)
    BY <2>5 DEF Consume, TypeInv, TypeOK, OtpRows
  <2> QED
    BY <1>1, <2>1, <2>2, <2>3, <2>4, <2>5, ActionAt
<1>2. ASSUME NEW h \in Handlers, NEW q \in Payments, Request(h, q)
      PROVE  UNCHANGED otp
  BY <1>2 DEF Request, BeginConfirm, BeginSubmit, BeginUpdate, BeginRemove, BeginRelease, BeginReject
<1>3. ASSUME NEW q \in Payments, NEW a \in Amounts, NEW s \in Sources, Initiate(q, a, s)
      PROVE  UNCHANGED otp
  BY <1>3 DEF Initiate
<1> QED
  BY <1>1, <1>2, <1>3 DEF Next, vars

\* The local record that a request starts with.
LEMMA BeginFrame ==
  ASSUME TypeInv, NEW op, NEW h \in Handlers, NEW p \in Payments, NEW s, NEW a, Begin(op, h, p, s, a)
  PROVE  /\ req[h].at = "idle" /\ (Overlap \/ \A g \in Handlers : req[g].on # p)
         /\ req' = [req EXCEPT ![h] = req'[h]]
         /\ req'[h].at = s /\ req'[h].on = p /\ req'[h].amt = a
  BY DEF Begin, Idle, TypeInv, TypeOK

\* What a request that begins leaves alone.
LEMMA RequestFrame ==
  ASSUME TypeInv, NEW h \in Handlers, NEW p \in Payments, Request(h, p)
  PROVE  /\ req[h].at = "idle" /\ (Overlap \/ \A g \in Handlers : req[g].on # p)
         /\ req' = [req EXCEPT ![h] = req'[h]] /\ req'[h].on = p
         /\ req'[h].at \in {"issue", "score", "verify", "write", "delete", "release", "reject"}
         /\ UNCHANGED <<pay, acct, settleOpen, journal, otp, suspended, cases, reviewed>>
<1> USE DEF ledgerVars, freezeVars
<1>1. CASE BeginConfirm(h, p)
  BY <1>1, BeginFrame DEF BeginConfirm
<1>2. CASE BeginSubmit(h, p)
  BY <1>2, BeginFrame DEF BeginSubmit
<1>3. ASSUME NEW a \in Amounts, BeginUpdate(h, p, a)
      PROVE  /\ Begin("update", h, p, "write", a)
             /\ UNCHANGED <<pay, acct, settleOpen, journal, otp, suspended, cases, reviewed>>
  BY <1>3 DEF BeginUpdate
<1>4. CASE BeginRemove(h, p)
  BY <1>4, BeginFrame DEF BeginRemove
<1>5. CASE BeginRelease(h, p)
  BY <1>5, BeginFrame DEF BeginRelease
<1>6. CASE BeginReject(h, p)
  BY <1>6, BeginFrame DEF BeginReject
<1> QED
  BY <1>1, <1>2, <1>3, <1>4, <1>5, <1>6, BeginFrame DEF Request

\* The entries a posting adds, both for its own payment.
LEMMA NewEntries ==
  ASSUME TypeInv, NEW h \in Handlers, PostCommit(h)
  PROVE  /\ Len(journal') = Len(journal) + 2
         /\ \A i \in 1 .. Len(journal) : journal'[i] = journal[i]
         /\ LET d == journal'[Len(journal) + 1]
                c == journal'[Len(journal) + 2]
            IN  /\ d.pay = req[h].on /\ d.amount = req[h].amt /\ d.dir = "DEBIT"
                /\ c.pay = req[h].on /\ c.amount = req[h].amt /\ c.dir = "CREDIT"
<1> DEFINE p == req[h].on
           s == SourceOf(p)
           m == req[h].amt
           debited == req[h].bal - m
           credited == (IF req[h].settle = Absent THEN 0 ELSE req[h].settle) + m
           r1 == Row(p, s, "DEBIT", m, debited)
           r2 == Row(p, Settle, "CREDIT", m, credited)
<1>1. req[h].at # "idle" /\ journal' = journal \o <<r1, r2>>
  BY DEF PostCommit
<1>2. p \in Payments /\ s \in Accounts /\ Settle \in Accounts
  BY <1>1, InFlight, DataAssumption
<1>3. m \in Nat /\ debited \in Int /\ credited \in Int
  BY <1>1, InFlight DEF Locals
<1>4. r1 \in JournalRows /\ r2 \in JournalRows
  BY <1>2, <1>3 DEF Row, JournalRows
<1>5. /\ r1.pay = p /\ r1.amount = m /\ r1.dir = "DEBIT"
      /\ r2.pay = p /\ r2.amount = m /\ r2.dir = "CREDIT"
  BY DEF Row
<1> HIDE DEF p, m, r1, r2
<1>6. journal \in Seq(JournalRows)
  BY DEF TypeInv, TypeOK
<1>7. /\ Len(journal') = Len(journal) + 2
      /\ \A i \in 1 .. Len(journal) : journal'[i] = journal[i]
      /\ journal'[Len(journal) + 1] = r1 /\ journal'[Len(journal) + 2] = r2
  BY <1>1, <1>4, <1>6, Appended
<1> QED
  BY <1>5, <1>7 DEF p, m

\* Every entry is about a payment, and has an amount.
LEMMA EntryTypes ==
  ASSUME TypeInv, NEW i \in DOMAIN journal
  PROVE  journal[i].pay \in Payments /\ journal[i].amount \in Nat
<1>1. journal \in Seq(JournalRows)
  BY DEF TypeInv, TypeOK
<1>2. journal[i] \in JournalRows
  BY <1>1
<1> QED
  BY <1>2 DEF JournalRows

\* A step that is not a commit of a posting leaves the journal alone.
LEMMA JournalStep ==
  ASSUME TypeInv, NEW h \in Handlers, Step(h) \/ Fail(h)
  PROVE  UNCHANGED journal \/ (req[h].at = "credit" /\ PostCommit(h))
<1>1. CASE req[h].at # "credit"
  BY <1>1, StepFlow DEF Flow
<1>2. CASE req[h].at = "credit" /\ Step(h)
  BY <1>2, ActionAt DEF PostConflict, ledgerVars
<1>3. CASE Fail(h)
  BY <1>3 DEF Fail, ledgerVars
<1> QED
  BY <1>1, <1>2, <1>3

LEMMA AuthInit == Init => AuthInv
  BY DEF Init, Idle, AuthInv, AuthorisedPosting

\* Once backed, always backed, for every payment at once.
LEMMA AllBackedStay ==
  ASSUME TypeInv, [Next]_vars
  PROVE  \A q \in Payments : Backed(q) => \E c \in Challenges : otp'[c].used /\ otp'[c].pay = q
<1> TAKE q \in Payments
<1> HAVE Backed(q)
<1>1. Backed(q)'
  BY BackedStays
<1> QED
  BY <1>1 DEF Backed

\* A handler's step keeps the postings and the handlers backed.
LEMMA AuthStepOne ==
  ASSUME TypeInv, AuthInv, NEW h \in Handlers, Step(h) \/ Fail(h)
  PROVE  AuthInv'
<1>1. req[h].at # "idle" /\ req[h].on \in Payments /\ LocalShape(h) /\ Flow(h)
  BY StepShape, StepFlow, InFlight DEF Shape
<1>2. \A q \in Payments : Backed(q) => \E c \in Challenges : otp'[c].used /\ otp'[c].pay = q
  <2>1. [Next]_vars
    BY DEF Next
  <2> QED
    BY <2>1, AllBackedStay
<1>3. \A i \in DOMAIN journal :
        \E c \in Challenges : otp'[c].used /\ otp'[c].pay = journal[i].pay
  <2> SUFFICES ASSUME NEW i \in DOMAIN journal
               PROVE  journal[i].pay \in Payments /\ Backed(journal[i].pay)
    BY <1>2
  <2>1. journal[i].pay \in Payments
    BY EntryTypes
  <2>2. Backed(journal[i].pay)
    BY DEF AuthInv, AuthorisedPosting, Backed
  <2> QED
    BY <2>1, <2>2
<1>4. AuthorisedPosting'
  <2>1. CASE UNCHANGED journal
    BY <1>3, <2>1 DEF AuthorisedPosting
  <2>2. CASE req[h].at = "credit" /\ PostCommit(h)
    <3>1. Backed(req[h].on)
      BY <2>2 DEF AuthInv
    <3>2. \E c \in Challenges : otp'[c].used /\ otp'[c].pay = req[h].on
      BY <1>1, <1>2, <3>1
    <3>3. Len(journal) \in Nat /\ DOMAIN journal = 1 .. Len(journal)
      BY DEF TypeInv, TypeOK
    <3>4. DOMAIN journal' = 1 .. Len(journal')
      BY StepShape DEF Shape, RestOK
    <3>5. SUFFICES ASSUME NEW i \in DOMAIN journal'
                   PROVE  \E c \in Challenges : otp'[c].used /\ otp'[c].pay = journal'[i].pay
      BY DEF AuthorisedPosting
    <3>6. i \in 1 .. Len(journal) \/ i = Len(journal) + 1 \/ i = Len(journal) + 2
      <4>1. Len(journal') = Len(journal) + 2
        BY <2>2, NewEntries
      <4> QED
        BY <3>3, <3>4, <3>5, <4>1
    <3>7. i \in DOMAIN journal => journal'[i] = journal[i]
      BY <2>2, <3>3, NewEntries
    <3>8. i \notin DOMAIN journal => journal'[i].pay = req[h].on
      BY <2>2, <3>3, <3>6, NewEntries
    <3> QED
      BY <1>3, <3>2, <3>7, <3>8
  <2> QED
    BY <2>1, <2>2, JournalStep
<1>5. ASSUME NEW g \in Handlers, req'[g].at \in {"dispatch", "post", "source", "debit", "credit"}
      PROVE  \E c \in Challenges : otp'[c].used /\ otp'[c].pay = req'[g].on
  <2>1. CASE g # h
    <3>1. req'[g] = req[g]
      BY <1>1, <2>1 DEF LocalShape, TypeInv, TypeOK
    <3>2. Backed(req[g].on) /\ req[g].on \in Payments
      BY <1>5, <3>1, InFlight DEF AuthInv
    <3> QED
      BY <1>2, <3>1, <3>2
  <2>2. CASE g = h
    <3>1. req'[h] # Idle /\ req'[h].on = req[h].on
      BY <1>1, <1>5, <2>2 DEF LocalShape, Idle
    <3>2. CASE req'[h].at # "dispatch"
      <4>1. req[h].at \in {"dispatch", "post", "source", "debit", "credit"}
        BY <1>1, <1>5, <2>2, <3>1, <3>2 DEF Flow, Edges
      <4> QED
        BY <1>1, <1>2, <2>2, <3>1, <4>1 DEF AuthInv
    <3>3. CASE req'[h].at = "dispatch"
      <4>1. req[h].at = "consume"
        BY <1>1, <3>1, <3>3 DEF Flow, Edges
      <4>2. Consume(h)
        BY <3>1, <4>1, ActionAt, FinishFlow DEF Fail
      <4>3. req[h].otp \in Challenges
        BY <4>1 DEF TypeInv, HandlerOK
      <4>4. IsFor(req[h].otp, req[h].on)
        BY <3>1, <4>2, FinishFlow DEF Consume
      <4>5. otp' = [otp EXCEPT ![req[h].otp].used = TRUE]
        BY <4>2 DEF Consume
      <4>6. otp'[req[h].otp].pay = req[h].on
        BY <4>3, <4>4, <4>5 DEF IsFor, TypeInv, TypeOK, OtpRows
      <4>7. otp'[req[h].otp].used
        BY <4>3, <4>5 DEF TypeInv, TypeOK, OtpRows
      <4> QED
        BY <2>2, <3>1, <4>3, <4>6, <4>7
    <3> QED
      BY <3>2, <3>3
  <2> QED
    BY <2>1, <2>2
<1> QED
  BY <1>4, <1>5 DEF AuthInv, Backed

LEMMA AuthStep == TypeInv /\ AuthInv /\ [Next]_vars => AuthInv'
<1> SUFFICES ASSUME TypeInv, AuthInv, [Next]_vars PROVE AuthInv'
  OBVIOUS
<1>1. ASSUME NEW p \in Payments, NEW a \in Amounts, NEW s \in Sources, Initiate(p, a, s)
      PROVE  AuthInv'
  BY <1>1 DEF Initiate, ledgerVars, AuthInv, AuthorisedPosting, Backed
<1>2. ASSUME NEW h \in Handlers, NEW p \in Payments, Request(h, p) PROVE AuthInv'
  <2>1. /\ req' = [req EXCEPT ![h] = req'[h]] /\ UNCHANGED <<journal, otp>>
        /\ req'[h].at \notin {"dispatch", "post", "source", "debit", "credit"}
    BY <1>2, RequestFrame
  <2> QED
    BY <2>1 DEF AuthInv, AuthorisedPosting, Backed, TypeInv, TypeOK
<1>3. ASSUME NEW h \in Handlers, Step(h) \/ Fail(h) PROVE AuthInv'
  BY <1>3, AuthStepOne
<1>4. CASE UNCHANGED vars
  BY <1>4 DEF vars, AuthInv, AuthorisedPosting, Backed
<1> QED
  BY <1>1, <1>2, <1>3, <1>4 DEF Next

\* However requests interleave or die, every entry of the journal belongs to a
\* payment whose own challenge has been consumed.
THEOREM PostingsAuthorised == Spec => []AuthorisedPosting
<1>1. AuthInv => AuthorisedPosting
  BY DEF AuthInv
<1>2. Spec => [](TypeInv /\ AuthInv)
  BY TypeInit, TypeStep, AuthInit, AuthStep, PTL DEF Spec
<1> QED
  BY <1>1, <1>2, PTL

(***************************************************************************)
(* What a step does to the row of its payment: who may hold it, approve    *)
(* it, change its amount, and that a verdict is never taken back.          *)
(***************************************************************************)
RowFlow(h) ==
  LET r == pay[req[h].on]
      s == pay'[req[h].on]
  IN
  /\ s.level = r.level \/ s.level \in Levels
  /\ s.approved = r.approved \/ s.approved = FALSE \/ req[h].at = "approve"
  /\ s.status = "HELD" => r.status = "HELD" \/ req[h].at = "hold"
  /\ s.amount = r.amount \/ req[h].at = "write"
  /\ req[h].at = "score" => req'[h] = Idle \/ s.level \in Levels

LEMMA RowSame ==
  ASSUME NEW h \in Handlers, UNCHANGED pay, req[h].at = "score" => req'[h] = Idle
  PROVE  RowFlow(h)
  BY DEF RowFlow

LEMMA RowStatus ==
  ASSUME TypeInv, NEW h \in Handlers, req[h].at \notin {"idle", "score"}, NEW st \in Statuses,
         pay' = [pay EXCEPT ![req[h].on].status = st], st = "HELD" => req[h].at = "hold"
  PROVE  RowFlow(h)
<1>1. pay'[req[h].on] = [pay[req[h].on] EXCEPT !.status = st]
  BY InFlight DEF TypeInv, TypeOK
<1> QED
  BY <1>1, InFlight DEF RowFlow, PaymentRows

LEMMA StepRowFlow ==
  ASSUME TypeInv, NEW h \in Handlers, Step(h) \/ Fail(h)
  PROVE  RowFlow(h)
<1>0. req[h].at # "idle" /\ req[h].on \in Payments /\ pay[req[h].on] \in PaymentRows
  BY StepShape, InFlight
<1>1. CASE Score(h)
  <2>1. PICK l \in Levels : pay' = [pay EXCEPT ![req[h].on] = Scored(@, l)]
    BY <1>1 DEF Score
  <2>2. pay'[req[h].on] = [pay[req[h].on] EXCEPT !.level = l]
    BY <2>1, <1>0 DEF Scored, TypeInv, TypeOK
  <2> QED
    BY <2>2, <1>0 DEF RowFlow, PaymentRows
<1>2. CASE Block(h)
  <2>1. req[h].at = "block" /\ pay' = [pay EXCEPT ![req[h].on].status = "BLOCKED"]
    BY <1>2 DEF Block
  <2> QED
    BY <2>1, RowStatus DEF Statuses
<1>3. CASE Freeze(h)
  BY <1>3, RowSame DEF Freeze
<1>4. CASE OpenCase(h)
  BY <1>4, RowSame DEF OpenCase
<1>5. CASE IssueOtp(h)
  BY <1>5, RowSame DEF IssueOtp
<1>6. CASE MarkChallenged(h)
  <2>1. req[h].at = "mark" /\ pay' = [pay EXCEPT ![req[h].on].status = "CHALLENGED"]
    BY <1>6 DEF MarkChallenged
  <2> QED
    BY <2>1, RowStatus DEF Statuses
<1>7. CASE HoldRead(h)
  BY <1>7, RowSame DEF HoldRead
<1>8. CASE HoldCommit(h)
  BY <1>8, RowStatus DEF HoldCommit, Statuses
<1>9. CASE VerifyRead(h)
  BY <1>9, RowSame DEF VerifyRead
<1>10. CASE VerifyRefused(h)
  BY <1>10, RowSame DEF VerifyRefused
<1>11. CASE Consume(h)
  BY <1>11, RowSame DEF Consume
<1>12. CASE Dispatch(h)
  <2>1. PICK w \in BOOLEAN :
          pay' = [pay EXCEPT ![req[h].on] = [@ EXCEPT !.status = "PROCESSING", !.dated = w]]
    BY <1>12, <1>0, DispatchWrites
  <2>2. pay'[req[h].on] = [pay[req[h].on] EXCEPT !.status = "PROCESSING", !.dated = w]
    BY <2>1, <1>0 DEF TypeInv, TypeOK
  <2>3. req[h].at # "score"
    BY <1>12 DEF Dispatch
  <2> QED
    BY <2>2, <2>3, <1>0 DEF RowFlow, PaymentRows
<1>13. CASE PostRead(h)
  BY <1>13, RowSame DEF PostRead
<1>14. CASE SourceRead(h)
  BY <1>14, RowSame DEF SourceRead
<1>15. CASE PostDebit(h)
  BY <1>15, RowSame DEF PostDebit
<1>16. CASE PostCommit(h)
  <2>1. req[h].at = "credit" /\ pay' = [pay EXCEPT ![req[h].on].status = "COMPLETED"]
    BY <1>16 DEF PostCommit
  <2> QED
    BY <2>1, RowStatus DEF Statuses
<1>17. CASE PostConflict(h)
  BY <1>17, RowSame DEF PostConflict
<1>18. CASE UpdateWrite(h)
  <2>1. pay'[req[h].on] = [pay[req[h].on] EXCEPT !.amount = req[h].amt]
    BY <1>18, <1>0 DEF UpdateWrite, TypeInv, TypeOK
  <2>2. req[h].at = "write"
    BY <1>18 DEF UpdateWrite
  <2> QED
    BY <2>1, <2>2, <1>0 DEF RowFlow, PaymentRows
<1>19. CASE Rescore(h)
  <2>1. PICK l \in Levels : pay' = [pay EXCEPT ![req[h].on] = Rescored(@, l)]
    BY <1>19 DEF Rescore
  <2>2. pay'[req[h].on] = [pay[req[h].on] EXCEPT !.level = l, !.approved = FALSE]
    BY <2>1, <1>0 DEF Rescored, TypeInv, TypeOK
  <2>3. req[h].at # "score"
    BY <1>19 DEF Rescore
  <2> QED
    BY <2>2, <2>3, <1>0 DEF RowFlow, PaymentRows
<1>20. CASE RemoveWrite(h)
  <2>1. req[h].at = "delete" /\ pay' = [pay EXCEPT ![req[h].on].status = "DELETED"]
    BY <1>20 DEF RemoveWrite
  <2> QED
    BY <2>1, RowStatus DEF Statuses
<1>21. CASE ReleaseCommit(h)
  <2>1. req[h].at = "release" /\ pay' = [pay EXCEPT ![req[h].on].status = "NEW"]
    BY <1>21 DEF ReleaseCommit, GiveBack
  <2> QED
    BY <2>1, RowStatus DEF Statuses
<1>22. CASE Approve(h)
  <2>1. pay'[req[h].on] = [pay[req[h].on] EXCEPT !.approved = TRUE]
    BY <1>22, <1>0 DEF Approve, TypeInv, TypeOK
  <2>2. req[h].at = "approve"
    BY <1>22 DEF Approve
  <2> QED
    BY <2>1, <2>2, <1>0 DEF RowFlow, PaymentRows
<1>23. CASE RejectCommit(h)
  <2>1. req[h].at = "reject" /\ pay' = [pay EXCEPT ![req[h].on].status = "REJECTED"]
    BY <1>23 DEF RejectCommit, GiveBack
  <2> QED
    BY <2>1, RowStatus DEF Statuses
<1>24. CASE Fail(h)
  BY <1>24, RowSame, FinishFlow DEF Fail
<1> QED
  BY <1>1, <1>2, <1>3, <1>4, <1>5, <1>6, <1>7, <1>8, <1>9, <1>10, <1>11, <1>12, <1>13, <1>14, <1>15, <1>16, <1>17, <1>18, <1>19, <1>20, <1>21, <1>22, <1>23, <1>24 DEF Step

\* A step binds no challenge but to its own payment, when it issues one.
LEMMA OtpFlow ==
  ASSUME TypeInv, NEW h \in Handlers, Step(h) \/ Fail(h), NEW c \in Challenges
  PROVE  \/ otp'[c].pay = otp[c].pay
         \/ req[h].at \in {"issue", "issueMark"} /\ otp'[c].pay = req[h].on
<1>1. CASE Fail(h)
  BY <1>1 DEF Fail
<1>2. CASE req[h].at \notin {"issue", "issueMark", "verify", "consume"}
  BY <1>2, StepFlow DEF Flow
<1>3. CASE IssueOtp(h)
  <2>1. PICK d \in Challenges : otp' = [otp EXCEPT ![d].pay = req[h].on]
    BY <1>3 DEF IssueOtp
  <2>2. req[h].at \in {"issue", "issueMark"}
    BY <1>3 DEF IssueOtp
  <2> QED
    BY <2>1, <2>2 DEF TypeInv, TypeOK, OtpRows
<1>4. CASE VerifyRead(h) \/ VerifyRefused(h)
  <2>1. CASE UNCHANGED otp
    BY <2>1
  <2>2. ASSUME NEW d \in Challenges, otp' = [otp EXCEPT ![d].used = TRUE]
        PROVE  otp'[c].pay = otp[c].pay
    BY <2>2 DEF TypeInv, TypeOK, OtpRows
  <2> QED
    BY <1>4, <2>1, <2>2 DEF VerifyRead, VerifyRefused
<1>5. CASE Consume(h)
  BY <1>5 DEF Consume, TypeInv, TypeOK, OtpRows
<1> QED
  BY <1>1, <1>2, <1>3, <1>4, <1>5, ActionAt

\* What a request has read when it begins.
LEMMA RequestReads ==
  ASSUME TypeInv, NEW h \in Handlers, NEW p \in Payments, Request(h, p)
  PROVE  /\ pay[p].status \in {"NEW", "HELD", "CHALLENGED"}
         /\ req'[h].at = "issue" => pay[p].approved
         /\ req'[h].at \in {"release", "reject"} => pay[p].status = "HELD"
         /\ req'[h].at = "verify" => req'[h].amt = pay[p].amount
<1>1. CASE BeginConfirm(h, p)
  <2>1. pay[p].status \in {"NEW", "HELD"}
    BY <1>1 DEF BeginConfirm, Editable
  <2>2. req'[h].at = IF pay[p].approved THEN "issue" ELSE "score"
    BY <1>1, BeginFrame DEF BeginConfirm
  <2> QED
    BY <2>1, <2>2
<1>2. CASE BeginSubmit(h, p)
  BY <1>2, BeginFrame DEF BeginSubmit, Submittable
<1>3. ASSUME NEW a \in Amounts, BeginUpdate(h, p, a)
      PROVE  req'[h].at = "write" /\ pay[p].status \in {"NEW", "HELD"}
  BY <1>3, BeginFrame DEF BeginUpdate, Editable
<1>4. CASE BeginRemove(h, p)
  BY <1>4, BeginFrame DEF BeginRemove, Editable
<1>5. CASE BeginRelease(h, p)
  BY <1>5, BeginFrame DEF BeginRelease
<1>6. CASE BeginReject(h, p)
  BY <1>6, BeginFrame DEF BeginReject
<1> QED
  BY <1>1, <1>2, <1>3, <1>4, <1>5, <1>6 DEF Request

(***************************************************************************)
(* The cut-off queue.  A payment that can be held has been scored: every   *)
(* way to a hold passes the gateway, or a challenge that only a scored     *)
(* payment is issued, and a verdict is never taken back.                   *)
(***************************************************************************)
ScoredStages ==
  {"issue", "issueMark", "mark", "holdRead", "hold", "dispatch", "post", "source",
   "debit", "credit", "release", "approve", "reject"}

ScoredInv ==
  /\ \A p \in Payments : pay[p].status = "ABSENT" => pay[p].level = NoLevel
  /\ \A p \in Payments : pay[p].status = "HELD" \/ pay[p].approved => pay[p].level # NoLevel
  /\ \A c \in Challenges : otp[c].pay # NoPay => pay[otp[c].pay].level # NoLevel
  /\ \A h \in Handlers : req[h].at \in ScoredStages => pay[req[h].on].level # NoLevel

LEMMA ScoredInit == Init => ScoredInv
  BY NoneAssumption DEF Init, Idle, NoPayment, ScoredInv, ScoredStages

LEMMA ScoredStepOne ==
  ASSUME TypeInv, ScoredInv, NEW h \in Handlers, Step(h) \/ Fail(h)
  PROVE  ScoredInv'
<1> DEFINE p == req[h].on
<1>0. NoLevel \notin Levels
  BY DEF NoLevel, Levels
<1>1. req[h].at # "idle" /\ p \in Payments /\ LocalShape(h) /\ RowShape(h) /\ Flow(h) /\ RowFlow(h)
  BY StepShape, StepFlow, StepRowFlow, InFlight DEF Shape
<1>2. \A q \in Payments : q # p => pay'[q] = pay[q]
  BY <1>1 DEF RowShape, TypeInv, TypeOK
<1>3. \A q \in Payments : pay[q].level # NoLevel => pay'[q].level # NoLevel
  BY <1>0, <1>1, <1>2 DEF RowFlow
<1>4. ASSUME NEW q \in Payments, pay'[q].status = "ABSENT" PROVE pay'[q].level = NoLevel
  BY <1>1, <1>2, <1>4 DEF RowShape, ScoredInv
<1>5. ASSUME NEW q \in Payments, pay'[q].status = "HELD" \/ pay'[q].approved
      PROVE  pay'[q].level # NoLevel
  <2>1. CASE q # p
    BY <1>2, <1>5, <2>1 DEF ScoredInv
  <2>2. CASE q = p
    <3>1. CASE pay'[p].status = "HELD"
      <4>1. pay[p].status = "HELD" \/ req[h].at = "hold"
        BY <1>1, <3>1 DEF RowFlow
      <4> QED
        BY <1>1, <1>3, <2>2, <4>1 DEF ScoredInv, ScoredStages
    <3>2. CASE pay'[p].approved
      <4>1. pay[p].approved \/ req[h].at = "approve"
        BY <1>1, <3>2 DEF RowFlow
      <4> QED
        BY <1>1, <1>3, <2>2, <4>1 DEF ScoredInv, ScoredStages
    <3> QED
      BY <1>5, <2>2, <3>1, <3>2
  <2> QED
    BY <2>1, <2>2
<1>6. ASSUME NEW c \in Challenges, otp'[c].pay # NoPay PROVE pay'[otp'[c].pay].level # NoLevel
  <2>1. CASE otp'[c].pay = otp[c].pay
    <3>1. otp[c].pay \in Payments
      BY <1>6, <2>1 DEF TypeInv, TypeOK, OtpRows
    <3> QED
      BY <1>3, <1>6, <2>1, <3>1 DEF ScoredInv
  <2>2. CASE req[h].at \in {"issue", "issueMark"} /\ otp'[c].pay = p
    BY <1>1, <1>3, <2>2 DEF ScoredInv, ScoredStages
  <2> QED
    BY <2>1, <2>2, OtpFlow
<1>7. ASSUME NEW g \in Handlers, req'[g].at \in ScoredStages
      PROVE  pay'[req'[g].on].level # NoLevel
  <2>1. CASE g # h
    <3>1. req'[g] = req[g]
      BY <1>1, <2>1 DEF LocalShape, TypeInv, TypeOK
    <3>2. req[g].on \in Payments
      BY <1>7, <3>1, InFlight DEF ScoredStages
    <3> QED
      BY <1>3, <1>7, <3>1, <3>2 DEF ScoredInv
  <2>2. CASE g = h
    <3>1. req'[h] # Idle /\ req'[h].on = p
      BY <1>1, <1>7, <2>2 DEF LocalShape, Idle, ScoredStages
    <3>2. \/ req[h].at \in ScoredStages
          \/ req[h].at = "score"
          \/ req[h].at = "consume" /\ req'[h].at = "dispatch"
      BY <1>1, <1>7, <2>2, <3>1 DEF Flow, Edges, ScoredStages
    <3>3. CASE req[h].at \in ScoredStages
      BY <1>1, <1>3, <2>2, <3>1, <3>3 DEF ScoredInv
    <3>4. CASE req[h].at = "score"
      BY <1>0, <1>1, <2>2, <3>1, <3>4 DEF RowFlow
    <3>5. CASE req[h].at = "consume" /\ req'[h].at = "dispatch"
      <4>1. Consume(h)
        BY <3>1, <3>5, ActionAt, FinishFlow DEF Fail
      <4>2. req[h].otp \in Challenges
        BY <3>5 DEF TypeInv, HandlerOK
      <4>3. otp[req[h].otp].pay = p
        BY <3>1, <4>1, FinishFlow DEF Consume, IsFor
      <4> QED
        BY <1>1, <1>3, <2>2, <3>1, <4>2, <4>3, NoneAssumption DEF ScoredInv
    <3> QED
      BY <3>2, <3>3, <3>4, <3>5
  <2> QED
    BY <2>1, <2>2
<1> QED
  BY <1>4, <1>5, <1>6, <1>7 DEF ScoredInv

LEMMA ScoredInitiate ==
  ASSUME TypeInv, ScoredInv, NEW p \in Payments, NEW a \in Amounts, NEW s \in Sources,
         Initiate(p, a, s)
  PROVE  ScoredInv'
<1>1. pay[p].status = "ABSENT" /\ pay' = [pay EXCEPT ![p] = Draft(a, s)] /\ UNCHANGED <<otp, req>>
  BY DEF Initiate
<1>2. Draft(a, s).status = "NEW" /\ Draft(a, s).level = NoLevel /\ Draft(a, s).approved = FALSE
  BY DEF Draft, NoPayment
<1>3. pay[p].level = NoLevel
  BY <1>1 DEF ScoredInv
<1>4. pay'[p] = Draft(a, s) /\ \A q \in Payments : q # p => pay'[q] = pay[q]
  BY <1>1 DEF TypeInv, TypeOK
<1>5. \A q \in Payments : pay[q].level # NoLevel => pay'[q] = pay[q]
  BY <1>3, <1>4
<1>6. ASSUME NEW c \in Challenges, otp[c].pay # NoPay PROVE otp[c].pay \in Payments
  BY <1>6 DEF TypeInv, TypeOK, OtpRows
<1>7. ASSUME NEW h \in Handlers, req[h].at \in ScoredStages PROVE req[h].on \in Payments
  BY <1>7, InFlight DEF ScoredStages
<1>8. \A q \in Payments : pay'[q].status = "ABSENT" => pay'[q].level = NoLevel
  BY <1>2, <1>4 DEF ScoredInv
<1>9. \A q \in Payments : pay'[q].status = "HELD" \/ pay'[q].approved => pay'[q].level # NoLevel
  BY <1>2, <1>4 DEF ScoredInv
<1> QED
  BY <1>1, <1>5, <1>6, <1>7, <1>8, <1>9 DEF ScoredInv

LEMMA ScoredRequest ==
  ASSUME TypeInv, ScoredInv, NEW h \in Handlers, NEW p \in Payments, Request(h, p)
  PROVE  ScoredInv'
<1>1. /\ req' = [req EXCEPT ![h] = req'[h]] /\ req'[h].on = p /\ UNCHANGED <<pay, otp>>
      /\ req'[h].at \in {"issue", "score", "verify", "write", "delete", "release", "reject"}
  BY RequestFrame
<1>2. req'[h].at \in ScoredStages => pay[p].level # NoLevel
  BY <1>1, RequestReads DEF ScoredInv, ScoredStages
<1>3. \A g \in Handlers : g # h => req'[g] = req[g]
  BY <1>1 DEF TypeInv, TypeOK
<1> QED
  BY <1>1, <1>2, <1>3 DEF ScoredInv

LEMMA ScoredStep == TypeInv /\ ScoredInv /\ [Next]_vars => ScoredInv'
<1> SUFFICES ASSUME TypeInv, ScoredInv, [Next]_vars PROVE ScoredInv'
  OBVIOUS
<1>1. ASSUME NEW h \in Handlers, Step(h) \/ Fail(h) PROVE ScoredInv'
  BY <1>1, ScoredStepOne
<1>2. CASE UNCHANGED vars
  BY <1>2 DEF vars, ScoredInv
<1> QED
  BY <1>1, <1>2, ScoredInitiate, ScoredRequest DEF Next

\* A held payment has been scored, in any reachable state: the query of the
\* cut-off job, which asks for a null riskLevel, selects nothing.
LEMMA HeldIsScored ==
  Spec => [](\A p \in Payments : pay[p].status = "HELD" => pay[p].level # NoLevel)
<1>1. ScoredInv => \A p \in Payments : pay[p].status = "HELD" => pay[p].level # NoLevel
  BY DEF ScoredInv
<1>2. Spec => [](TypeInv /\ ScoredInv)
  BY TypeInit, TypeStep, ScoredInit, ScoredStep, PTL DEF Spec
<1> QED
  BY <1>1, <1>2, PTL

(***************************************************************************)
(* One request at a time about a payment.  Then a payment in the journal   *)
(* is COMPLETED and no handler is about it, so nothing can post it again;  *)
(* and the amount that a submit checked is the amount that it posts.       *)
(***************************************************************************)
Exclusive ==
  \A g, h \in Handlers : req[g].on = req[h].on /\ req[g].on # NoPay => g = h

PostedDone ==
  \A i \in DOMAIN journal :
    pay[journal[i].pay].status = "COMPLETED" /\ \A h \in Handlers : req[h].on # journal[i].pay

CheckedAmounts ==
  \A h \in Handlers :
    /\ req[h].at \in {"verify", "consume", "dispatch"} => req[h].amt = pay[req[h].on].amount
    /\ req[h].at = "post" => pay[req[h].on].amount <= Limit
    /\ req[h].at \in {"source", "debit", "credit"} => req[h].amt <= Limit

TurnsInv == Exclusive /\ PostedDone /\ CheckedAmounts /\ PostedOnce /\ LimitHolds

\* The amount in a submit's snapshot, from its first read to its commit.
LEMMA AmountFlow ==
  ASSUME TypeInv, NEW h \in Handlers, Step(h) \/ Fail(h), req'[h] # Idle
  PROVE  /\ req[h].at \in {"verify", "consume", "dispatch", "source", "debit"} =>
              req'[h].amt = req[h].amt
         /\ req[h].at = "dispatch" /\ req'[h].at = "post" => req[h].amt <= Limit
         /\ req[h].at = "post" => req'[h].amt = pay[req[h].on].amount
<1>1. Step(h)
  BY FinishFlow DEF Fail
<1>2. CASE req[h].at = "verify"
  <2>1. VerifyRead(h)
    BY <1>1, <1>2, ActionAt, FinishFlow DEF VerifyRefused
  <2> QED
    BY <1>2, <2>1 DEF VerifyRead, TypeInv, TypeOK, Locals
<1>3. CASE req[h].at = "consume"
  <2>1. Goto(h, "dispatch")
    BY <1>1, <1>3, ActionAt, FinishFlow DEF Consume
  <2> QED
    BY <1>3, <2>1, GotoFlow
<1>4. CASE req[h].at = "dispatch"
  <2>1. Dispatch(h)
    BY <1>1, <1>4, ActionAt
  <2>2. PICK s \in {"holdRead", "post"} : Goto(h, s) /\ (s = "post" => ~OverLimit(req[h].amt))
    BY <2>1 DEF Dispatch
  <2>3. req'[h].amt = req[h].amt /\ req'[h].at = s
    BY <2>2, GotoFlow
  <2>4. req[h].amt \in Nat /\ Limit \in Nat
    BY DataAssumption DEF TypeInv, TypeOK, Locals
  <2> QED
    BY <1>4, <2>2, <2>3, <2>4 DEF OverLimit
<1>5. CASE req[h].at = "post"
  <2>1. PostRead(h)
    BY <1>1, <1>5, ActionAt
  <2> QED
    BY <1>5, <2>1 DEF PostRead, TypeInv, TypeOK, Locals
<1>6. CASE req[h].at = "source"
  <2>1. SourceRead(h)
    BY <1>1, <1>6, ActionAt
  <2> QED
    BY <1>6, <2>1, FinishFlow DEF SourceRead, TypeInv, TypeOK, Locals
<1>7. CASE req[h].at = "debit"
  <2>1. PostDebit(h)
    BY <1>1, <1>7, ActionAt
  <2> QED
    BY <1>7, <2>1 DEF PostDebit, TypeInv, TypeOK, Locals
<1> QED
  BY <1>2, <1>3, <1>4, <1>5, <1>6, <1>7

LEMMA TurnsInit == Init => TurnsInv
  BY DEF Init, Idle, TurnsInv, Exclusive, PostedDone, CheckedAmounts, PostedOnce, LimitHolds, IsDebit

\* A handler's step leaves the rows of the others alone.
LEMMA TurnsLocal ==
  ASSUME TypeInv, TurnsInv, NEW h \in Handlers, Step(h) \/ Fail(h)
  PROVE  /\ \A g \in Handlers : g # h => req'[g] = req[g]
         /\ req'[h].on \in {NoPay, req[h].on}
         /\ \A q \in Payments : q # req[h].on => pay'[q] = pay[q]
         /\ \A g \in Handlers : g # h => req[g].on # req[h].on
<1>1. req[h].at # "idle" /\ req[h].on \in Payments /\ LocalShape(h) /\ RowShape(h)
  BY StepShape, InFlight DEF Shape
<1>2. \A g \in Handlers : g # h => req'[g] = req[g]
  BY <1>1 DEF LocalShape, TypeInv, TypeOK
<1>3. req'[h].on \in {NoPay, req[h].on}
  BY <1>1 DEF LocalShape, Idle
<1>4. \A q \in Payments : q # req[h].on => pay'[q] = pay[q]
  BY <1>1 DEF RowShape, TypeInv, TypeOK
<1>5. \A g \in Handlers : g # h => req[g].on # req[h].on
  BY <1>1, NoneAssumption DEF TurnsInv, Exclusive
<1> QED
  BY <1>2, <1>3, <1>4, <1>5

LEMMA TurnsExclusive ==
  ASSUME TypeInv, TurnsInv, NEW h \in Handlers, Step(h) \/ Fail(h)
  PROVE  Exclusive'
  BY TurnsLocal DEF TurnsInv, Exclusive

\* What was posted before the step is done, and stays so.
LEMMA TurnsOldEntries ==
  ASSUME TypeInv, TurnsInv, NEW h \in Handlers, Step(h) \/ Fail(h), NEW i \in DOMAIN journal
  PROVE  /\ journal[i].pay # req[h].on
         /\ pay'[journal[i].pay].status = "COMPLETED"
         /\ \A g \in Handlers : req'[g].on # journal[i].pay
<1>1. journal[i].pay \in Payments
  BY EntryTypes
<1>2. pay[journal[i].pay].status = "COMPLETED" /\ \A g \in Handlers : req[g].on # journal[i].pay
  BY DEF TurnsInv, PostedDone
<1> QED
  BY <1>1, <1>2, TurnsLocal, NoneAssumption

LEMMA TurnsAmounts ==
  ASSUME TypeInv, TurnsInv, NEW h \in Handlers, Step(h) \/ Fail(h)
  PROVE  CheckedAmounts'
<1> SUFFICES ASSUME NEW g \in Handlers
             PROVE  /\ req'[g].at \in {"verify", "consume", "dispatch"} =>
                         req'[g].amt = pay'[req'[g].on].amount
                    /\ req'[g].at = "post" => pay'[req'[g].on].amount <= Limit
                    /\ req'[g].at \in {"source", "debit", "credit"} => req'[g].amt <= Limit
  BY DEF CheckedAmounts
<1>1. CASE g # h
  <2>1. req'[g] = req[g] /\ req[g].on # req[h].on
    BY <1>1, TurnsLocal
  <2>2. req[g].at # "idle" => pay'[req[g].on] = pay[req[g].on]
    BY <2>1, TurnsLocal, InFlight
  <2> QED
    BY <2>1, <2>2 DEF TurnsInv, CheckedAmounts
<1>2. CASE g = h /\ req'[h] = Idle
  BY <1>2 DEF Idle
<1>3. CASE g = h /\ req'[h] # Idle
  <2>1. /\ req'[h].on = req[h].on /\ req'[h].at # "verify"
        /\ <<req[h].at, req'[h].at>> \in Edges
    BY <1>3, StepShape, StepFlow DEF Shape, LocalShape, Flow, Edges
  <2>2. req[h].at # "write" => pay'[req[h].on].amount = pay[req[h].on].amount
    BY StepRowFlow DEF RowFlow
  <2>3. CASE req'[h].at = "consume"
    BY <1>3, <2>1, <2>2, <2>3, AmountFlow DEF Edges, TurnsInv, CheckedAmounts
  <2>4. CASE req'[h].at = "dispatch"
    BY <1>3, <2>1, <2>2, <2>4, AmountFlow DEF Edges, TurnsInv, CheckedAmounts
  <2>5. CASE req'[h].at = "post"
    BY <1>3, <2>1, <2>2, <2>5, AmountFlow DEF Edges, TurnsInv, CheckedAmounts
  <2>6. CASE req'[h].at = "source"
    BY <1>3, <2>1, <2>2, <2>6, AmountFlow DEF Edges, TurnsInv, CheckedAmounts
  <2>7. CASE req'[h].at = "debit"
    BY <1>3, <2>1, <2>2, <2>7, AmountFlow DEF Edges, TurnsInv, CheckedAmounts
  <2>8. CASE req'[h].at = "credit"
    BY <1>3, <2>1, <2>2, <2>8, AmountFlow DEF Edges, TurnsInv, CheckedAmounts
  <2> QED
    BY <1>3, <2>1, <2>3, <2>4, <2>5, <2>6, <2>7, <2>8
<1> QED
  BY <1>1, <1>2, <1>3

\* The two entries of a commit, against those before it.
LEMMA TurnsCommit ==
  ASSUME TypeInv, TurnsInv, NEW h \in Handlers, PostCommit(h)
  PROVE  PostedDone' /\ PostedOnce' /\ LimitHolds'
<1> DEFINE p == req[h].on
           n == Len(journal)
<1>0. Step(h) /\ req[h].at = "credit" /\ req'[h] = Idle
  BY FinishFlow DEF Step, PostCommit
<1>1. p \in Payments /\ req[h].amt \in Nat /\ Limit \in Nat
  BY <1>0, InFlight, DataAssumption DEF Locals
<1>2. n \in Nat /\ DOMAIN journal = 1 .. n
  BY DEF TypeInv, TypeOK
<1>3. /\ Len(journal') = n + 2
      /\ \A i \in 1 .. n : journal'[i] = journal[i]
      /\ journal'[n + 1].pay = p /\ journal'[n + 1].amount = req[h].amt
      /\ journal'[n + 2].pay = p /\ journal'[n + 2].amount = req[h].amt
      /\ journal'[n + 2].dir = "CREDIT"
  BY NewEntries
<1>4. DOMAIN journal' = 1 .. (n + 2)
  BY <1>0, <1>3, StepShape DEF Shape, RestOK
<1>5. \A i \in DOMAIN journal' : i \in DOMAIN journal \/ i = n + 1 \/ i = n + 2
  BY <1>2, <1>4
<1>6. \A i \in DOMAIN journal :
        /\ journal'[i] = journal[i] /\ journal[i].pay # p
        /\ pay'[journal[i].pay].status = "COMPLETED"
        /\ \A g \in Handlers : req'[g].on # journal[i].pay
  BY <1>0, <1>2, <1>3, TurnsOldEntries
<1>7. pay'[p].status = "COMPLETED" /\ \A g \in Handlers : req'[g].on # p
  <2>1. pay'[p].status = "COMPLETED"
    BY <1>1, InFlight DEF PostCommit, TypeInv, TypeOK, PaymentRows
  <2>2. req'[h].on # p
    BY <1>0, <1>1, NoneAssumption DEF Idle
  <2>3. \A g \in Handlers : g # h => req'[g].on # p
    BY <1>0, TurnsLocal
  <2> QED
    BY <2>1, <2>2, <2>3
<1>8. PostedDone'
  BY <1>3, <1>5, <1>6, <1>7 DEF PostedDone
<1>9. PostedOnce'
  <2> SUFFICES ASSUME NEW i \in DOMAIN journal', NEW j \in DOMAIN journal',
                      journal'[i].dir = "DEBIT", journal'[j].dir = "DEBIT",
                      journal'[i].pay = journal'[j].pay
               PROVE  i = j
    BY DEF PostedOnce, IsDebit
  <2>1. i # n + 2 /\ j # n + 2
    BY <1>3
  <2>2. CASE i \in DOMAIN journal /\ j \in DOMAIN journal
    BY <1>6, <2>2 DEF TurnsInv, PostedOnce, IsDebit
  <2>3. CASE i \in DOMAIN journal /\ j = n + 1
    BY <1>3, <1>6, <2>3
  <2>4. CASE i = n + 1 /\ j \in DOMAIN journal
    BY <1>3, <1>6, <2>4
  <2> QED
    BY <1>5, <2>1, <2>2, <2>3, <2>4
<1>10. LimitHolds'
  <2>1. req[h].amt <= Limit
    BY <1>0 DEF TurnsInv, CheckedAmounts
  <2>2. \A i \in DOMAIN journal : journal'[i].amount <= Limit
    BY <1>6 DEF TurnsInv, LimitHolds
  <2> QED
    BY <1>3, <1>5, <2>1, <2>2 DEF LimitHolds
<1> QED
  BY <1>8, <1>9, <1>10

LEMMA TurnsStepOne ==
  ASSUME TypeInv, TurnsInv, NEW h \in Handlers, Step(h) \/ Fail(h)
  PROVE  TurnsInv'
<1>1. CASE PostCommit(h)
  BY <1>1, TurnsExclusive, TurnsAmounts, TurnsCommit DEF TurnsInv
<1>2. CASE UNCHANGED journal
  <2>1. PostedDone'
    BY <1>2, TurnsOldEntries DEF PostedDone
  <2>2. PostedOnce' /\ LimitHolds'
    BY <1>2 DEF TurnsInv, PostedOnce, LimitHolds, IsDebit
  <2> QED
    BY <2>1, <2>2, TurnsExclusive, TurnsAmounts DEF TurnsInv
<1> QED
  BY <1>1, <1>2, JournalStep

LEMMA TurnsInitiate ==
  ASSUME TypeInv, TurnsInv, NEW p \in Payments, NEW a \in Amounts, NEW s \in Sources,
         Initiate(p, a, s)
  PROVE  TurnsInv'
<1>1. /\ pay[p].status = "ABSENT" /\ UNCHANGED <<req, journal>>
      /\ \A q \in Payments : q # p => pay'[q] = pay[q]
  BY DEF Initiate, ledgerVars, TypeInv, TypeOK
<1>2. \A i \in DOMAIN journal : journal[i].pay # p /\ journal[i].pay \in Payments
  BY <1>1, EntryTypes DEF TurnsInv, PostedDone
<1>3. \A h \in Handlers : req[h].at # "idle" => req[h].on # p /\ req[h].on \in Payments
  BY <1>1, InFlight
<1>4. Exclusive' /\ PostedOnce' /\ LimitHolds'
  BY <1>1 DEF TurnsInv, Exclusive, PostedOnce, LimitHolds, IsDebit
<1>5. PostedDone'
  BY <1>1, <1>2 DEF TurnsInv, PostedDone
<1>6. CheckedAmounts'
  BY <1>1, <1>3 DEF TurnsInv, CheckedAmounts
<1> QED
  BY <1>4, <1>5, <1>6 DEF TurnsInv

LEMMA TurnsRequest ==
  ASSUME TypeInv, TurnsInv, ~Overlap, NEW h \in Handlers, NEW p \in Payments, Request(h, p)
  PROVE  TurnsInv'
<1>1. /\ \A g \in Handlers : req[g].on # p
      /\ req'[h].on = p /\ UNCHANGED <<pay, journal>>
      /\ req'[h].at \in {"issue", "score", "verify", "write", "delete", "release", "reject"}
  BY RequestFrame
<1>2. \A g \in Handlers : g # h => req'[g] = req[g]
  BY RequestFrame DEF TypeInv, TypeOK
<1>3. req'[h].at = "verify" => req'[h].amt = pay[p].amount
  BY RequestReads
<1>4. \A i \in DOMAIN journal : journal[i].pay # p
  BY RequestReads DEF TurnsInv, PostedDone
<1>5. Exclusive'
  BY <1>1, <1>2 DEF TurnsInv, Exclusive
<1>6. PostedDone'
  BY <1>1, <1>2, <1>4 DEF TurnsInv, PostedDone
<1>7. CheckedAmounts'
  BY <1>1, <1>2, <1>3 DEF TurnsInv, CheckedAmounts
<1>8. PostedOnce' /\ LimitHolds'
  BY <1>1 DEF TurnsInv, PostedOnce, LimitHolds, IsDebit
<1> QED
  BY <1>5, <1>6, <1>7, <1>8 DEF TurnsInv

LEMMA TurnsStep == ~Overlap /\ TypeInv /\ TurnsInv /\ [Next]_vars => TurnsInv'
<1> SUFFICES ASSUME ~Overlap, TypeInv, TurnsInv, [Next]_vars PROVE TurnsInv'
  OBVIOUS
<1>1. ASSUME NEW h \in Handlers, Step(h) \/ Fail(h) PROVE TurnsInv'
  BY <1>1, TurnsStepOne
<1>2. CASE UNCHANGED vars
  BY <1>2 DEF vars, TurnsInv, Exclusive, PostedDone, CheckedAmounts, PostedOnce, LimitHolds, IsDebit
<1> QED
  BY <1>1, <1>2, TurnsInitiate, TurnsRequest DEF Next

LEMMA TurnsAlways == ASSUME ~Overlap PROVE Spec => []TurnsInv
<1>1. Spec => [](TypeInv /\ TurnsInv)
  <2>1. TypeInv /\ TurnsInv /\ [Next]_vars => TurnsInv'
    BY TurnsStep
  <2> QED
    BY <2>1, TypeInit, TypeStep, TurnsInit, PTL DEF Spec
<1> QED
  BY <1>1, PTL

\* Where a payment has one request at a time, no order of requests and no death
\* of one posts a payment twice: submit does not check that its status write
\* found the status it had read.
THEOREM NoSecondPosting == ASSUME ~Overlap PROVE Spec => []PostedOnce
<1>1. TurnsInv => PostedOnce
  BY DEF TurnsInv
<1> QED
  BY <1>1, TurnsAlways, PTL

\* There, too, no posting exceeds the limit, which is compared with the amount
\* submit read and not with the amount that is posted.
THEOREM NoPostingOverLimit == ASSUME ~Overlap PROVE Spec => []LimitHolds
<1>1. TurnsInv => LimitHolds
  BY DEF TurnsInv
<1> QED
  BY <1>1, TurnsAlways, PTL

=============================================================================
