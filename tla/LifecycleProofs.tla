--------------------------- MODULE LifecycleProofs ---------------------------
(***************************************************************************)
(* Where a payment has one request at a time, Payments implements          *)
(* PaymentLifecycle, and a decision is still true of the row when it is    *)
(* acted on: no write looks again at what its request read first.          *)
(***************************************************************************)
EXTENDS PaymentsProofs

\* The statuses a payment can have while a request about it is at a stage.
StatusAt(stage) ==
  CASE stage \in {"score", "issueMark", "mark", "block", "write", "rescore", "delete"} -> {"NEW", "HELD"}
    [] stage \in {"holdRead", "hold"} -> {"NEW", "HELD", "PROCESSING"}
    [] stage \in {"freeze", "case"} -> {"BLOCKED"}
    [] stage \in {"verify", "consume", "dispatch"} -> {"NEW", "CHALLENGED"}
    [] stage \in {"post", "source", "debit", "credit"} -> {"PROCESSING"}
    [] stage \in {"release", "reject"} -> {"HELD"}
    [] stage = "approve" -> {"NEW"}
    [] stage \in {"idle", "issue"} -> Statuses

StageInv ==
  \A h \in Handlers : req[h].at # "idle" => pay[req[h].on].status \in StatusAt(req[h].at)

LifeInv == TypeInv /\ TurnsInv /\ StageInv

-----------------------------------------------------------------------------
(* What a step does to the status of its payment.                          *)

Writes ==
  {<<"block", "BLOCKED">>, <<"mark", "CHALLENGED">>, <<"hold", "HELD">>, <<"dispatch", "PROCESSING">>,
   <<"delete", "DELETED">>, <<"release", "NEW">>, <<"reject", "REJECTED">>}

StatusFlow(h) ==
  LET was == pay[req[h].on].status
      is == pay'[req[h].on].status
  IN
  \/ /\ is = was /\ UNCHANGED journal
     /\ req'[h] = Idle \/ req[h].at \notin {"block", "dispatch", "release"}
  \/ <<req[h].at, is>> \in Writes /\ UNCHANGED journal
  \/ PostCommit(h) /\ is = "COMPLETED"

LEMMA StatusKept ==
  ASSUME NEW h \in Handlers, UNCHANGED <<pay, journal>>,
         req'[h] = Idle \/ req[h].at \notin {"block", "dispatch", "release"}
  PROVE  StatusFlow(h)
  BY DEF StatusFlow

LEMMA StatusWritten ==
  ASSUME TypeInv, NEW h \in Handlers, req[h].at # "idle", NEW st \in Statuses,
         pay' = [pay EXCEPT ![req[h].on].status = st], <<req[h].at, st>> \in Writes, UNCHANGED journal
  PROVE  StatusFlow(h)
<1>1. pay'[req[h].on] = [pay[req[h].on] EXCEPT !.status = st]
  BY InFlight DEF TypeInv, TypeOK
<1> QED
  BY <1>1, InFlight DEF StatusFlow, PaymentRows

LEMMA StepStatus ==
  ASSUME TypeInv, NEW h \in Handlers, Step(h) \/ Fail(h)
  PROVE  StatusFlow(h)
<1>0. req[h].at # "idle" /\ req[h].on \in Payments /\ pay[req[h].on] \in PaymentRows
  BY StepShape, InFlight
<1> USE DEF Writes, Statuses, ledgerVars
<1>1. CASE Score(h)
  <2>1. PICK l \in Levels : pay' = [pay EXCEPT ![req[h].on] = Scored(@, l)]
    BY <1>1 DEF Score
  <2>2. pay'[req[h].on] = [pay[req[h].on] EXCEPT !.level = l]
    BY <2>1, <1>0 DEF Scored, TypeInv, TypeOK
  <2>3. req[h].at = "score" /\ UNCHANGED journal
    BY <1>1 DEF Score
  <2> QED
    BY <2>2, <2>3, <1>0 DEF StatusFlow, PaymentRows
<1>2. CASE Block(h) \/ MarkChallenged(h) \/ HoldCommit(h) \/ RemoveWrite(h)
  BY <1>0, <1>2, StatusWritten DEF Block, MarkChallenged, HoldCommit, RemoveWrite
<1>3. CASE ReleaseCommit(h) \/ RejectCommit(h)
  BY <1>0, <1>3, StatusWritten DEF ReleaseCommit, RejectCommit, GiveBack
<1>4. CASE \/ Freeze(h) \/ OpenCase(h) \/ IssueOtp(h) \/ HoldRead(h) \/ VerifyRead(h) \/ VerifyRefused(h)
           \/ Consume(h) \/ PostRead(h) \/ SourceRead(h) \/ PostDebit(h) \/ PostConflict(h)
  BY <1>4, StatusKept
  DEF Freeze, OpenCase, IssueOtp, HoldRead, VerifyRead, VerifyRefused, Consume, PostRead, SourceRead, PostDebit, PostConflict
<1>5. CASE Dispatch(h)
  <2>1. PICK w \in BOOLEAN :
          pay' = [pay EXCEPT ![req[h].on] = [@ EXCEPT !.status = "PROCESSING", !.dated = w]]
    BY <1>5, <1>0, DispatchWrites
  <2>2. pay'[req[h].on] = [pay[req[h].on] EXCEPT !.status = "PROCESSING", !.dated = w]
    BY <2>1, <1>0 DEF TypeInv, TypeOK
  <2>3. req[h].at = "dispatch" /\ UNCHANGED journal
    BY <1>5 DEF Dispatch
  <2> QED
    BY <2>2, <2>3, <1>0 DEF StatusFlow, PaymentRows
<1>6. CASE PostCommit(h)
  <2>1. pay' = [pay EXCEPT ![req[h].on].status = "COMPLETED"]
    BY <1>6 DEF PostCommit
  <2>2. pay'[req[h].on].status = "COMPLETED"
    BY <1>0, <2>1 DEF TypeInv, TypeOK, PaymentRows
  <2> QED
    BY <1>6, <2>2 DEF StatusFlow
<1>7. CASE UpdateWrite(h)
  <2>1. pay'[req[h].on] = [pay[req[h].on] EXCEPT !.amount = req[h].amt]
    BY <1>7, <1>0 DEF UpdateWrite, TypeInv, TypeOK
  <2>2. req[h].at = "write" /\ UNCHANGED journal
    BY <1>7 DEF UpdateWrite
  <2> QED
    BY <2>1, <2>2, <1>0 DEF StatusFlow, PaymentRows
<1>8. CASE Rescore(h)
  <2>1. PICK l \in Levels : pay' = [pay EXCEPT ![req[h].on] = Rescored(@, l)]
    BY <1>8 DEF Rescore
  <2>2. pay'[req[h].on] = [pay[req[h].on] EXCEPT !.level = l, !.approved = FALSE]
    BY <2>1, <1>0 DEF Rescored, TypeInv, TypeOK
  <2>3. req[h].at = "rescore" /\ UNCHANGED journal
    BY <1>8 DEF Rescore
  <2> QED
    BY <2>2, <2>3, <1>0 DEF StatusFlow, PaymentRows
<1>9. CASE Approve(h)
  <2>1. pay'[req[h].on] = [pay[req[h].on] EXCEPT !.approved = TRUE]
    BY <1>9, <1>0 DEF Approve, TypeInv, TypeOK
  <2>2. req[h].at = "approve" /\ UNCHANGED journal
    BY <1>9 DEF Approve
  <2> QED
    BY <2>1, <2>2, <1>0 DEF StatusFlow, PaymentRows
<1>10. CASE Fail(h)
  BY <1>10, StatusKept, FinishFlow DEF Fail
<1> QED
  BY <1>1, <1>2, <1>3, <1>4, <1>5, <1>6, <1>7, <1>8, <1>9, <1>10 DEF Step

\* The status a request has read when it begins.
LEMMA RequestStatus ==
  ASSUME TypeInv, NEW h \in Handlers, NEW p \in Payments, Request(h, p)
  PROVE  pay[p].status \in StatusAt(req'[h].at)
<1> USE DEF StatusAt, Statuses
<1>1. CASE BeginConfirm(h, p)
  <2>1. pay[p].status \in {"NEW", "HELD"}
    BY <1>1 DEF BeginConfirm, Editable
  <2>2. req'[h].at = IF pay[p].approved THEN "issue" ELSE "score"
    BY <1>1, BeginFrame DEF BeginConfirm
  <2> QED
    BY <2>1, <2>2
<1>2. CASE BeginSubmit(h, p)
  BY <1>2, BeginFrame DEF BeginSubmit, Submittable
<1>3. ASSUME NEW a \in Amounts, BeginUpdate(h, p, a)
      PROVE  req'[h].at = "write" /\ pay[p].status \in {"NEW", "HELD"}
  BY <1>3, BeginFrame DEF BeginUpdate, Editable
<1>4. CASE BeginRemove(h, p)
  BY <1>4, BeginFrame DEF BeginRemove, Editable
<1>5. CASE BeginRelease(h, p)
  BY <1>5, BeginFrame DEF BeginRelease
<1>6. CASE BeginReject(h, p)
  BY <1>6, BeginFrame DEF BeginReject
<1> QED
  BY <1>1, <1>2, <1>3, <1>4, <1>5, <1>6 DEF Request

-----------------------------------------------------------------------------
(* The invariant.                                                          *)

LEMMA StageStep ==
  ASSUME LifeInv, NEW h \in Handlers, Step(h) \/ Fail(h)
  PROVE  StageInv'
<1> DEFINE p == req[h].on
<1>0. TypeInv /\ TurnsInv
  BY DEF LifeInv
<1>1. /\ p \in Payments /\ req[h].at # "idle" /\ Flow(h) /\ StatusFlow(h)
      /\ pay'[p] \in PaymentRows /\ pay'[p].status # "ABSENT"
      /\ req'[h] = Idle \/ req'[h].on = p
  BY <1>0, StepShape, StepFlow, StepStatus, InFlight DEF Shape, LocalShape, RowShape
<1>2. pay[p].status \in StatusAt(req[h].at)
  BY <1>1 DEF LifeInv, StageInv
<1>3. ASSUME NEW g \in Handlers \ {h}, req'[g].at # "idle"
      PROVE  pay'[req'[g].on].status \in StatusAt(req'[g].at)
  <2>1. req'[g] = req[g] /\ req[g].on # p
    BY <1>0, TurnsLocal
  <2>2. pay'[req[g].on] = pay[req[g].on]
    BY <1>0, <1>3, <2>1, TurnsLocal, InFlight
  <2> QED
    BY <1>3, <2>1, <2>2 DEF LifeInv, StageInv
<1>4. ASSUME req'[h].at # "idle" PROVE pay'[p].status \in StatusAt(req'[h].at)
  <2>1. <<req[h].at, req'[h].at>> \in Edges /\ req'[h] # Idle
    BY <1>1, <1>4 DEF Flow, Idle
  <2>2. ~PostCommit(h)
    BY <1>0, <2>1, FinishFlow DEF PostCommit
  <2>3. CASE <<req[h].at, pay'[p].status>> \in Writes
    BY <2>1, <2>3 DEF Writes, Edges, StatusAt
  <2>4. CASE pay'[p].status = pay[p].status /\ req[h].at \notin {"block", "dispatch", "release"}
    <3>1. pay'[p].status \in Statuses
      BY <1>1 DEF PaymentRows
    <3> QED
      BY <1>2, <2>1, <2>4, <3>1 DEF Edges, StatusAt
  <2> QED
    BY <1>1, <2>1, <2>2, <2>3, <2>4 DEF StatusFlow
<1> QED
  BY <1>1, <1>3, <1>4 DEF StageInv, Idle

LEMMA StageNext == ~Overlap /\ LifeInv /\ [Next]_vars => LifeInv'
<1> SUFFICES ASSUME ~Overlap, LifeInv, [Next]_vars PROVE LifeInv'
  OBVIOUS
<1>0. TypeInv /\ TurnsInv /\ StageInv
  BY DEF LifeInv
<1>1. TypeInv' /\ TurnsInv'
  BY <1>0, TypeStep, TurnsStep
<1>2. CASE UNCHANGED vars
  <2>1. pay' = pay /\ req' = req
    BY <1>2 DEF vars
  <2>2. StageInv'
    BY <1>0, <2>1 DEF StageInv
  <2> QED
    BY <1>1, <2>2 DEF LifeInv
<1>3. ASSUME NEW p \in Payments, NEW a \in Amounts, NEW s \in Sources, Initiate(p, a, s)
      PROVE  StageInv'
  <2>1. /\ pay[p].status = "ABSENT" /\ req' = req
        /\ \A q \in Payments : q # p => pay'[q] = pay[q]
    BY <1>0, <1>3 DEF Initiate, TypeInv, TypeOK
  <2>2. \A h \in Handlers : req[h].at # "idle" => req[h].on # p /\ req[h].on \in Payments
    BY <1>0, <2>1, InFlight
  <2> QED
    BY <1>0, <2>1, <2>2 DEF StageInv
<1>4. ASSUME NEW h \in Handlers, NEW p \in Payments, Request(h, p)
      PROVE  StageInv'
  <2>1. req'[h].on = p /\ pay' = pay /\ \A g \in Handlers : g # h => req'[g] = req[g]
    BY <1>0, <1>4, RequestFrame DEF TypeInv, TypeOK
  <2>2. pay[p].status \in StatusAt(req'[h].at)
    BY <1>0, <1>4, RequestStatus
  <2> QED
    BY <1>0, <2>1, <2>2 DEF StageInv
<1>5. ASSUME NEW h \in Handlers, Step(h) \/ Fail(h) PROVE StageInv'
  BY <1>5, StageStep
<1> QED
  BY <1>1, <1>2, <1>3, <1>4, <1>5 DEF Next, LifeInv

LEMMA LifeInit == Init => LifeInv
<1>1. Init => StageInv
  BY DEF Init, Idle, StageInv
<1> QED
  BY <1>1, TypeInit, TurnsInit DEF LifeInv

LEMMA LifeAlways == ASSUME ~Overlap PROVE Spec => []LifeInv
<1>1. LifeInv /\ [Next]_vars => LifeInv'
  BY StageNext
<1> QED
  BY <1>1, LifeInit, PTL DEF Spec

-----------------------------------------------------------------------------
(* The refinement.                                                         *)

StatusOf == [p \in Payments |-> pay[p].status]
Posted == {journal[i].pay : i \in {j \in DOMAIN journal : IsDebit(j)}}

LEMMA Refined ==
  /\ Lifecycle!Spec <=> Lifecycle!Init /\ [][Lifecycle!Next]_<<StatusOf, Posted>>
  /\ Lifecycle!Init <=> StatusOf = [p \in Payments |-> "ABSENT"] /\ Posted = {}
  BY DEF Lifecycle!Spec, Lifecycle!Init, StatusOf, Posted

\* One row gets a status.
LEMMA StatusMoves ==
  ASSUME TypeInv, NEW p \in Payments, NEW st,
         \A q \in Payments : q # p => pay'[q] = pay[q], pay'[p].status = st
  PROVE  StatusOf' = [StatusOf EXCEPT ![p] = st]
  BY DEF StatusOf

\* A payment with a debit in the journal is COMPLETED.
LEMMA PostedCompleted ==
  ASSUME TurnsInv, NEW p \in Payments, pay[p].status # "COMPLETED"
  PROVE  p \notin Posted
  BY DEF Posted, TurnsInv, PostedDone

\* A commit adds its payment to those posted.
LEMMA PostedGrows ==
  ASSUME TypeInv, NEW h \in Handlers, PostCommit(h)
  PROVE  Posted' = Posted \union {req[h].on}
<1> DEFINE n == Len(journal)
<1>1. /\ Len(journal') = n + 2
      /\ \A i \in 1 .. n : journal'[i] = journal[i]
      /\ journal'[n + 1].pay = req[h].on /\ journal'[n + 1].dir = "DEBIT"
      /\ journal'[n + 2].dir = "CREDIT"
  BY NewEntries
<1>2. n \in Nat /\ DOMAIN journal = 1 .. n
  BY DEF TypeInv, TypeOK
<1>3. DOMAIN journal' = 1 .. (n + 2)
  <2>1. Step(h)
    BY DEF Step
  <2> QED
    BY <1>1, <2>1, StepShape DEF Shape, RestOK
<1>4. \A i \in DOMAIN journal' : i \in 1 .. n \/ i = n + 1 \/ i = n + 2
  BY <1>2, <1>3
<1>5. 1 .. n \subseteq DOMAIN journal' /\ n + 1 \in DOMAIN journal'
  BY <1>2, <1>3
<1> HIDE DEF n
<1>6. ASSUME NEW x \in Posted' PROVE x \in Posted \union {req[h].on}
  <2>1. PICK i \in DOMAIN journal' : journal'[i].dir = "DEBIT" /\ x = journal'[i].pay
    BY <1>6 DEF Posted, IsDebit
  <2> QED
    BY <1>1, <1>2, <1>4, <2>1 DEF Posted, IsDebit
<1>7. ASSUME NEW x \in Posted \union {req[h].on} PROVE x \in Posted'
  <2>1. \E i \in DOMAIN journal' : journal'[i].dir = "DEBIT" /\ x = journal'[i].pay
    BY <1>1, <1>2, <1>5, <1>7 DEF Posted, IsDebit
  <2> QED
    BY <2>1 DEF Posted, IsDebit
<1> QED
  BY <1>6, <1>7

\* A step of a handler is a step of the lifecycle, or none.
LEMMA StepRefines ==
  ASSUME LifeInv, NEW h \in Handlers, Step(h) \/ Fail(h)
  PROVE  Lifecycle!Next \/ (StatusOf' = StatusOf /\ Posted' = Posted)
<1>0. TypeInv /\ TurnsInv
  BY DEF LifeInv
<1> PICK p \in Payments : p = req[h].on
  BY <1>0, StepShape, InFlight
<1> DEFINE st == pay'[p].status
<1>1. /\ p \in Payments /\ req[h].at # "idle" /\ StatusFlow(h)
      /\ \A q \in Payments : q # p => pay'[q] = pay[q]
  BY <1>0, StepShape, StepStatus, InFlight, TurnsLocal
<1>2. StatusOf' = [StatusOf EXCEPT ![p] = st] /\ StatusOf[p] = pay[p].status
  BY <1>0, <1>1, StatusMoves DEF StatusOf
<1>3. pay[p].status \in StatusAt(req[h].at)
  BY <1>1 DEF LifeInv, StageInv
<1>4. CASE pay'[p].status = pay[p].status /\ UNCHANGED journal
  <2>1. StatusOf' = StatusOf
    BY <1>2, <1>4 DEF StatusOf
  <2>2. Posted' = Posted
    BY <1>4 DEF Posted, IsDebit
  <2> QED
    BY <2>1, <2>2
<1>5. CASE <<req[h].at, st>> \in Writes /\ UNCHANGED journal
  <2>1. Posted' = Posted
    BY <1>5 DEF Posted, IsDebit
  <2>2. \/ st \in {"BLOCKED", "CHALLENGED", "DELETED"} /\ pay[p].status \in {"NEW", "HELD"}
        \/ st = "HELD" /\ pay[p].status \in {"NEW", "HELD", "PROCESSING"}
        \/ st = "PROCESSING" /\ pay[p].status \in {"NEW", "CHALLENGED"}
        \/ st \in {"NEW", "REJECTED"} /\ pay[p].status = "HELD"
    BY <1>3, <1>5 DEF Writes, StatusAt
  <2> HIDE DEF st
  <2>3. Lifecycle!Stop(p) \/ Lifecycle!Hold(p) \/ Lifecycle!Challenge(p) \/ Lifecycle!Dispatch(p) \/ Lifecycle!Review(p)
    BY <1>2, <2>1, <2>2
    DEF StatusOf, Posted, Lifecycle!Stop, Lifecycle!Hold, Lifecycle!Challenge, Lifecycle!Dispatch,
        Lifecycle!Review, Lifecycle!Move, Lifecycle!Open, Lifecycle!Ready
  <2> QED
    BY <1>1, <2>3 DEF Lifecycle!Next
<1>6. CASE PostCommit(h) /\ st = "COMPLETED"
  <2>1. pay[p].status = "PROCESSING"
    BY <1>3, <1>6 DEF PostCommit, StatusAt
  <2>2. p \notin Posted /\ Posted' = Posted \union {p}
    BY <1>0, <1>1, <1>6, <2>1, PostedCompleted, PostedGrows
  <2> HIDE DEF st
  <2>3. Lifecycle!Post(p)
    BY <1>2, <1>6, <2>1, <2>2 DEF StatusOf, Posted, Lifecycle!Post
  <2> QED
    BY <1>1, <2>3 DEF Lifecycle!Next
<1> QED
  BY <1>1, <1>4, <1>5, <1>6 DEF StatusFlow

LEMMA NextRefines == LifeInv /\ [Next]_vars => [Lifecycle!Next]_<<StatusOf, Posted>>
<1> SUFFICES ASSUME LifeInv, [Next]_vars
             PROVE  Lifecycle!Next \/ (StatusOf' = StatusOf /\ Posted' = Posted)
  OBVIOUS
<1>1. CASE UNCHANGED <<pay, journal>>
  BY <1>1 DEF StatusOf, Posted, IsDebit
<1>2. ASSUME NEW p \in Payments, NEW a \in Amounts, NEW s \in Sources, Initiate(p, a, s)
      PROVE  Lifecycle!Next
  <2>1. /\ pay[p].status = "ABSENT" /\ journal' = journal /\ pay'[p].status = "NEW"
        /\ \A q \in Payments : q # p => pay'[q] = pay[q]
    BY <1>2 DEF Initiate, ledgerVars, Draft, NoPayment, LifeInv, TypeInv, TypeOK
  <2>2. StatusOf' = [StatusOf EXCEPT ![p] = "NEW"] /\ StatusOf[p] = "ABSENT"
    BY <2>1, StatusMoves DEF StatusOf, LifeInv
  <2>3. Posted' = Posted
    BY <2>1 DEF Posted, IsDebit
  <2>4. Lifecycle!Create(p)
    BY <2>2, <2>3 DEF StatusOf, Posted, Lifecycle!Create, Lifecycle!Move
  <2> QED
    BY <2>4 DEF Lifecycle!Next
<1>3. ASSUME NEW h \in Handlers, NEW p \in Payments, Request(h, p)
      PROVE  UNCHANGED <<pay, journal>>
  BY <1>3, RequestFrame DEF LifeInv
<1> QED
  BY <1>1, <1>2, <1>3, StepRefines DEF Next, vars

\* LifecycleSpec: every behaviour is one of PaymentLifecycle, so that money
\* moves once, with the step to COMPLETED, and the statuses go only its ways.
THEOREM LifecycleImplemented == ASSUME ~Overlap PROVE Spec => LifecycleSpec
<1>1. Init => Lifecycle!Init
  <2>1. Init => StatusOf = [p \in Payments |-> "ABSENT"] /\ Posted = {}
    BY DEF Init, NoPayment, StatusOf, Posted
  <2> QED
    BY <2>1, Refined
<1>2. LifeInv /\ [Next]_vars => [Lifecycle!Next]_<<StatusOf, Posted>>
  BY NextRefines
<1>3. Spec => []LifeInv
  BY LifeAlways
<1>4. Lifecycle!Spec <=> Lifecycle!Init /\ [][Lifecycle!Next]_<<StatusOf, Posted>>
  BY Refined
<1> QED
  BY <1>1, <1>2, <1>3, <1>4, PTL DEF Spec, LifecycleSpec

-----------------------------------------------------------------------------
(* What is settled.                                                        *)

LEMMA SettledStep ==
  ASSUME LifeInv, [Next]_vars, NEW p \in Payments
  PROVE  /\ pay[p].status \in {"PROCESSING", "COMPLETED"} => pay'[p].amount = pay[p].amount
         /\ pay[p].status = "COMPLETED" => pay'[p].status = "COMPLETED"
<1>0. TypeInv /\ TurnsInv
  BY DEF LifeInv
<1>1. ASSUME NEW h \in Handlers, Step(h) \/ Fail(h), req[h].on = p
      PROVE  /\ pay[p].status \in {"PROCESSING", "COMPLETED"} => pay'[p].amount = pay[p].amount
             /\ pay[p].status = "COMPLETED" => pay'[p].status = "COMPLETED"
  <2>1. /\ req[h].at # "idle" /\ StatusFlow(h) /\ RowFlow(h)
        /\ pay[p].status \in StatusAt(req[h].at)
    BY <1>0, <1>1, StepShape, StepStatus, StepRowFlow DEF LifeInv, StageInv
  <2>2. req[h].at = "write" => pay[p].status \in {"NEW", "HELD"}
    BY <2>1 DEF StatusAt
  <2>3. <<req[h].at, pay'[p].status>> \in Writes => pay[p].status # "COMPLETED"
    BY <2>1 DEF StatusAt, Writes
  <2> QED
    BY <1>1, <2>1, <2>2, <2>3 DEF RowFlow, StatusFlow
<1>2. ASSUME NEW h \in Handlers, Step(h) \/ Fail(h), req[h].on # p
      PROVE  pay'[p] = pay[p]
  BY <1>0, <1>2, TurnsLocal
<1>3. ASSUME NEW h \in Handlers, NEW q \in Payments, Request(h, q)
      PROVE  pay' = pay
  BY <1>0, <1>3, RequestFrame
<1>4. ASSUME NEW q \in Payments, NEW a \in Amounts, NEW s \in Sources, Initiate(q, a, s),
             pay[p].status # "ABSENT"
      PROVE  pay'[p] = pay[p]
  BY <1>0, <1>4 DEF Initiate, TypeInv, TypeOK
<1> QED
  BY <1>1, <1>2, <1>3, <1>4 DEF Next, vars

\* SettledIsFinal: no write of an edit, a removal or a review that was accepted
\* earlier reaches a payment that is being or has been posted.
THEOREM SettledStays == ASSUME ~Overlap PROVE Spec => SettledIsFinal
<1> DEFINE Final ==
      \A p \in Payments :
        /\ pay[p].status \in {"PROCESSING", "COMPLETED"} => pay'[p].amount = pay[p].amount
        /\ pay[p].status = "COMPLETED" => pay'[p].status = "COMPLETED"
<1>1. LifeInv /\ [Next]_vars => [Final]_vars
  BY SettledStep
<1>2. Spec => []LifeInv
  BY LifeAlways
<1>3. SettledIsFinal <=> [][Final]_vars
  BY DEF SettledIsFinal
<1> QED
  BY <1>1, <1>2, <1>3, PTL DEF Spec

-----------------------------------------------------------------------------
(* Reviews and verdicts, until a request about the payment dies.           *)

\* What a statement writes besides the status.
LEMMA StageWrites ==
  ASSUME TypeInv, NEW h \in Handlers, Step(h)
  PROVE  /\ req[h].at = "release" => reviewed' = [reviewed EXCEPT ![req[h].on] = req[h].amt]
         /\ req[h].at # "release" => reviewed' = reviewed
         /\ req[h].at = "write" => req'[h].at = "rescore"
         /\ req[h].at = "release" => req'[h].at = "approve"
         /\ req[h].at = "holdRead" => req'[h].at = "hold"
         /\ req[h].at = "rescore" => pay'[req[h].on].approved = FALSE
         /\ req[h].at = "approve" => pay'[req[h].on].approved = TRUE
         /\ req[h].at = "hold" => pay'[req[h].on].status = "HELD"
         /\ req[h].at = "block" => pay'[req[h].on].status = "BLOCKED"
         /\ req[h].at = "score" => /\ pay'[req[h].on].level \in Levels
                                  /\ req'[h].at = AfterVerdict(pay'[req[h].on].level)
<1>0. req[h].at # "idle" /\ req[h].on \in Payments /\ pay[req[h].on] \in PaymentRows /\ req[h] \in Locals
  BY StepShape, InFlight
<1>1. CASE Score(h)
  <2>1. PICK l \in Levels : pay' = [pay EXCEPT ![req[h].on] = Scored(@, l)] /\ Goto(h, AfterVerdict(l))
    BY <1>1 DEF Score
  <2>2. pay'[req[h].on] = [pay[req[h].on] EXCEPT !.level = l]
    BY <2>1, <1>0 DEF Scored, TypeInv, TypeOK
  <2>3. pay'[req[h].on].level = l
    BY <2>2, <1>0 DEF PaymentRows
  <2>4. req'[h].at = AfterVerdict(l)
    BY <2>1, GotoFlow
  <2>5. req[h].at = "score" /\ reviewed' = reviewed
    BY <1>1 DEF Score
  <2> QED
    BY <2>3, <2>4, <2>5
<1>2. CASE UpdateWrite(h)
  BY <1>2, GotoFlow DEF UpdateWrite
<1>3. CASE ReleaseCommit(h)
  BY <1>3, GotoFlow DEF ReleaseCommit
<1>4. CASE HoldRead(h)
  <2>1. req'[h] = [req[h] EXCEPT !.at = "hold", !.amt = pay[req[h].on].amount]
    BY <1>4 DEF HoldRead, TypeInv, TypeOK
  <2>2. req'[h].at = "hold"
    BY <1>0, <2>1 DEF Locals
  <2> QED
    BY <1>4, <2>2 DEF HoldRead
<1>5. CASE Rescore(h)
  <2>1. PICK l \in Levels : pay' = [pay EXCEPT ![req[h].on] = Rescored(@, l)]
    BY <1>5 DEF Rescore
  <2>2. pay'[req[h].on].approved = FALSE
    BY <2>1, <1>0 DEF Rescored, TypeInv, TypeOK, PaymentRows
  <2> QED
    BY <1>5, <2>2 DEF Rescore
<1>6. CASE Approve(h)
  <2>1. pay'[req[h].on].approved = TRUE
    BY <1>6, <1>0 DEF Approve, TypeInv, TypeOK, PaymentRows
  <2> QED
    BY <1>6, <2>1 DEF Approve
<1>7. CASE HoldCommit(h)
  <2>1. pay'[req[h].on].status = "HELD"
    BY <1>7, <1>0 DEF HoldCommit, TypeInv, TypeOK, PaymentRows
  <2> QED
    BY <1>7, <2>1 DEF HoldCommit
<1>8. CASE Block(h)
  <2>1. pay'[req[h].on].status = "BLOCKED"
    BY <1>8, <1>0 DEF Block, TypeInv, TypeOK, PaymentRows
  <2> QED
    BY <1>8, <2>1 DEF Block
<1>9. CASE /\ req[h].at \notin {"release", "write", "holdRead", "rescore", "approve", "hold", "block", "score"}
           /\ reviewed' = reviewed
  BY <1>9
<1> QED
  BY <1>1, <1>2, <1>3, <1>4, <1>5, <1>6, <1>7, <1>8, <1>9
  DEF Step, Freeze, OpenCase, IssueOtp, MarkChallenged, VerifyRead, VerifyRefused, Consume, Dispatch,
      PostRead, SourceRead, PostDebit, PostCommit, PostConflict, RemoveWrite, RejectCommit, GiveBack

\* A verdict is written by a scoring, and an approval taken back by an edit.
LEMMA VerdictKept ==
  ASSUME TypeInv, NEW h \in Handlers, Step(h)
  PROVE  /\ req[h].at \notin {"score", "rescore"} => pay'[req[h].on].level = pay[req[h].on].level
         /\ req[h].at # "rescore" => (pay[req[h].on].approved => pay'[req[h].on].approved)
<1>0. req[h].at # "idle" /\ req[h].on \in Payments /\ pay[req[h].on] \in PaymentRows /\ pay \in [Payments -> PaymentRows]
  BY StepShape, InFlight DEF TypeInv, TypeOK
<1>1. CASE Score(h)
  <2>1. PICK l \in Levels : pay' = [pay EXCEPT ![req[h].on] = Scored(@, l)]
    BY <1>1 DEF Score
  <2>2. pay'[req[h].on] = [pay[req[h].on] EXCEPT !.level = l]
    BY <2>1, <1>0 DEF Scored
  <2> QED
    BY <1>0, <1>1, <2>2 DEF PaymentRows, Score
<1>2. CASE Rescore(h)
  BY <1>2 DEF Rescore
<1>3. CASE UNCHANGED pay
  BY <1>3
<1>4. ASSUME NEW st, pay' = [pay EXCEPT ![req[h].on].status = st]
      PROVE  pay'[req[h].on].level = pay[req[h].on].level /\ pay'[req[h].on].approved = pay[req[h].on].approved
  BY <1>0, <1>4 DEF PaymentRows
<1>5. CASE Dispatch(h)
  <2>1. PICK w \in BOOLEAN :
          pay' = [pay EXCEPT ![req[h].on] = [@ EXCEPT !.status = "PROCESSING", !.dated = w]]
    BY <1>5, <1>0, DispatchWrites
  <2>2. pay'[req[h].on] = [pay[req[h].on] EXCEPT !.status = "PROCESSING", !.dated = w]
    BY <2>1, <1>0
  <2> QED
    BY <2>2, <1>0 DEF PaymentRows
<1>6. CASE UpdateWrite(h)
  <2>1. pay'[req[h].on] = [pay[req[h].on] EXCEPT !.amount = req[h].amt]
    BY <1>6, <1>0 DEF UpdateWrite
  <2> QED
    BY <2>1, <1>0 DEF PaymentRows
<1>7. CASE Approve(h)
  <2>1. pay'[req[h].on] = [pay[req[h].on] EXCEPT !.approved = TRUE]
    BY <1>7, <1>0 DEF Approve
  <2> QED
    BY <2>1, <1>0 DEF PaymentRows
<1>8. CASE \/ Block(h) \/ MarkChallenged(h) \/ HoldCommit(h) \/ RemoveWrite(h) \/ ReleaseCommit(h)
           \/ RejectCommit(h) \/ PostCommit(h)
  <2>1. \E st : pay' = [pay EXCEPT ![req[h].on].status = st]
    BY <1>8 DEF Block, MarkChallenged, HoldCommit, RemoveWrite, ReleaseCommit, RejectCommit, GiveBack, PostCommit
  <2> QED
    BY <1>4, <2>1
<1> QED
  BY <1>1, <1>2, <1>3, <1>5, <1>6, <1>7, <1>8
  DEF Step, Freeze, OpenCase, IssueOtp, HoldRead, VerifyRead, VerifyRefused, Consume,
      PostRead, SourceRead, PostDebit, PostConflict

\* An approved payment has the amount that was reviewed, unless the edit that
\* will take the approval back is between its two statements.
ReviewInv ==
  /\ \A p \in Payments :
       pay[p].approved /\ Whole(p) =>
         \/ pay[p].amount = reviewed[p]
         \/ \E h \in Handlers : req[h].on = p /\ req[h].at = "rescore"
  /\ \A h \in Handlers :
       /\ req[h].at = "release" => req[h].amt = pay[req[h].on].amount
       /\ req[h].at = "approve" => pay[req[h].on].amount = reviewed[req[h].on]

LEMMA ReviewStep ==
  ASSUME LifeInv, ReviewInv, NEW h \in Handlers, Step(h)
  PROVE  ReviewInv'
<1> PICK p \in Payments : p = req[h].on
  BY StepShape, InFlight DEF LifeInv
<1>0. TypeInv /\ TurnsInv
  BY DEF LifeInv
<1>1. /\ req[h].at # "idle" /\ Flow(h) /\ RowFlow(h)
      /\ req'[h] = Idle \/ req'[h].on = p
      /\ reviewed \in [Payments -> Nat \union {Absent}]
  BY <1>0, StepShape, StepFlow, StepRowFlow DEF Shape, LocalShape, TypeInv, TypeOK
<1>2. /\ \A g \in Handlers : g # h => req'[g] = req[g] /\ req[g].on # p
      /\ \A q \in Payments : q # p => pay'[q] = pay[q]
  BY <1>0, TurnsLocal
<1>3. \A q \in Payments : q # p => reviewed'[q] = reviewed[q]
  BY <1>0, <1>1, StageWrites
<1>4. ASSUME NEW q \in Payments, q # p, pay'[q].approved, Whole(q)'
      PROVE  \/ pay'[q].amount = reviewed'[q]
             \/ \E g \in Handlers : req'[g].on = q /\ req'[g].at = "rescore"
  BY <1>2, <1>3, <1>4 DEF ReviewInv, Whole
<1>5. /\ req[h].at = "release" => reviewed'[p] = pay'[p].amount
      /\ req[h].at # "release" => reviewed'[p] = reviewed[p]
      /\ req[h].at # "write" => pay'[p].amount = pay[p].amount
  BY <1>0, <1>1, StageWrites DEF ReviewInv, RowFlow
<1>6. ASSUME pay'[p].approved, Whole(p)'
      PROVE  \/ pay'[p].amount = reviewed'[p]
             \/ \E g \in Handlers : req'[g].on = p /\ req'[g].at = "rescore"
  <2>1. CASE req[h].at \in {"release", "approve"}
    BY <1>5, <2>1 DEF ReviewInv
  <2>2. CASE req[h].at = "write"
    <3>1. req'[h].at = "rescore"
      BY <1>0, <2>2, StageWrites
    <3> QED
      BY <1>1, <3>1 DEF Idle
  <2>3. CASE req[h].at \notin {"release", "approve", "write", "rescore"}
    <3>1. pay[p].approved
      BY <1>1, <1>6, <2>3 DEF RowFlow
    <3>2. ~\E g \in Handlers : req[g].on = p /\ req[g].at = "rescore"
      BY <1>2, <2>3
    <3> QED
      BY <1>5, <1>6, <2>3, <3>1, <3>2 DEF ReviewInv, Whole
  <2>4. CASE req[h].at = "rescore"
    BY <1>0, <1>6, <2>4, StageWrites
  <2> QED
    BY <2>1, <2>2, <2>3, <2>4
<1>7. ASSUME NEW g \in Handlers \ {h}, req'[g].at \in {"release", "approve"}
      PROVE  /\ req'[g].at = "release" => req'[g].amt = pay'[req'[g].on].amount
             /\ req'[g].at = "approve" => pay'[req'[g].on].amount = reviewed'[req'[g].on]
  <2>1. req'[g] = req[g] /\ req[g].on # p
    BY <1>2
  <2>2. req[g].on \in Payments
    BY <1>0, <1>7, <2>1, InFlight
  <2> QED
    BY <1>2, <1>3, <2>1, <2>2 DEF ReviewInv
<1>8. /\ req'[h].at # "release"
      /\ req'[h].at = "approve" => req[h].at = "release" /\ req'[h].on = p
  BY <1>1 DEF Flow, Edges, Idle
<1>9. req'[h].at = "approve" => pay'[req'[h].on].amount = reviewed'[req'[h].on]
  BY <1>5, <1>8
<1> QED
  BY <1>4, <1>6, <1>7, <1>8, <1>9 DEF ReviewInv

\* The amount an authorizer's request gives back is the one it read.
LEMMA ReleaseReads ==
  ASSUME TypeInv, NEW h \in Handlers, NEW p \in Payments, Request(h, p)
  PROVE  req'[h].at \in {"release", "reject"} => req'[h].amt = pay[p].amount
<1>1. CASE BeginConfirm(h, p)
  <2>1. req'[h].at = IF pay[p].approved THEN "issue" ELSE "score"
    BY <1>1, BeginFrame DEF BeginConfirm
  <2> QED
    BY <2>1
<1>2. CASE BeginSubmit(h, p)
  <2>1. Begin("submit", h, p, "verify", pay[p].amount)
    BY <1>2 DEF BeginSubmit
  <2>2. req'[h].at = "verify"
    BY <2>1, BeginFrame
  <2> QED
    BY <2>2
<1>3. ASSUME NEW a \in Amounts, BeginUpdate(h, p, a) PROVE req'[h].at = "write"
  <2>1. Begin("update", h, p, "write", a)
    BY <1>3 DEF BeginUpdate
  <2> QED
    BY <2>1, BeginFrame
<1>4. CASE BeginRemove(h, p)
  <2>1. Begin("remove", h, p, "delete", 0)
    BY <1>4 DEF BeginRemove
  <2>2. req'[h].at = "delete"
    BY <2>1, BeginFrame
  <2> QED
    BY <2>2
<1>5. CASE BeginRelease(h, p)
  <2>1. Begin("release", h, p, "release", pay[p].amount)
    BY <1>5 DEF BeginRelease
  <2> QED
    BY <2>1, BeginFrame
<1>6. CASE BeginReject(h, p)
  <2>1. Begin("reject", h, p, "reject", pay[p].amount)
    BY <1>6 DEF BeginReject
  <2> QED
    BY <2>1, BeginFrame
<1> QED
  BY <1>1, <1>2, <1>3, <1>4, <1>5, <1>6 DEF Request

\* A request that dies leaves its payment unreviewed, and the others as they are.
LEMMA ReviewFail ==
  ASSUME LifeInv, ReviewInv, NEW h \in Handlers, Fail(h)
  PROVE  ReviewInv'
<1> PICK p \in Payments : p = req[h].on
  BY StepShape, InFlight DEF LifeInv
<1>0. TypeInv /\ TurnsInv
  BY DEF LifeInv
<1>1. /\ pay' = pay /\ req'[h] = Idle /\ ~Whole(p)'
      /\ \A q \in Payments : q # p => reviewed'[q] = reviewed[q]
  BY <1>0 DEF Fail, Finish, Whole, TypeInv, TypeOK
<1>2. \A g \in Handlers : g # h => req'[g] = req[g] /\ req[g].on # p
  BY <1>0, TurnsLocal
<1>3. ASSUME NEW q \in Payments, pay'[q].approved, Whole(q)'
      PROVE  \/ pay'[q].amount = reviewed'[q]
             \/ \E g \in Handlers : req'[g].on = q /\ req'[g].at = "rescore"
  <2>1. q # p /\ reviewed'[q] = reviewed[q] /\ pay[q].approved /\ Whole(q)
    BY <1>1, <1>3 DEF Whole
  <2>2. \A g \in Handlers : req[g].on = q => req'[g] = req[g]
    BY <1>2, <2>1
  <2> QED
    BY <1>1, <2>1, <2>2 DEF ReviewInv
<1>4. ASSUME NEW g \in Handlers, req'[g].at \in {"release", "approve"}
      PROVE  /\ req'[g].at = "release" => req'[g].amt = pay'[req'[g].on].amount
             /\ req'[g].at = "approve" => pay'[req'[g].on].amount = reviewed'[req'[g].on]
  <2>1. g # h /\ req'[g] = req[g] /\ req[g].on # p
    BY <1>1, <1>2, <1>4 DEF Idle
  <2>2. req[g].on \in Payments
    BY <1>0, <1>4, <2>1, InFlight
  <2> QED
    BY <1>1, <2>1, <2>2 DEF ReviewInv
<1> QED
  BY <1>3, <1>4 DEF ReviewInv

LEMMA ReviewNext == ~Overlap /\ LifeInv /\ ReviewInv /\ [Next]_vars => ReviewInv'
<1> SUFFICES ASSUME ~Overlap, LifeInv, ReviewInv, [Next]_vars PROVE ReviewInv'
  OBVIOUS
<1>0. TypeInv /\ TurnsInv
  BY DEF LifeInv
<1>1. CASE UNCHANGED vars
  BY <1>1 DEF vars, ReviewInv, Whole
<1>2. ASSUME NEW h \in Handlers, Step(h) PROVE ReviewInv'
  BY <1>2, ReviewStep
<1>3. ASSUME NEW p \in Payments, NEW a \in Amounts, NEW s \in Sources, Initiate(p, a, s)
      PROVE  ReviewInv'
  <2>1. /\ pay[p].status = "ABSENT" /\ req' = req /\ reviewed' = reviewed /\ ~pay'[p].approved
        /\ \A q \in Payments : q # p => pay'[q] = pay[q]
    BY <1>0, <1>3 DEF Initiate, Draft, NoPayment, TypeInv, TypeOK
  <2>2. \A h \in Handlers : req[h].at # "idle" => req[h].on # p /\ req[h].on \in Payments
    BY <1>0, <2>1, InFlight
  <2> QED
    BY <2>1, <2>2 DEF ReviewInv, Whole
<1>4. ASSUME NEW h \in Handlers, NEW p \in Payments, Request(h, p)
      PROVE  ReviewInv'
  <2>1. /\ req'[h].on = p /\ pay' = pay /\ \A g \in Handlers : g # h => req'[g] = req[g]
        /\ req'[h].at \in {"issue", "score", "verify", "write", "delete", "release", "reject"}
        /\ req[h].at = "idle"
    BY <1>0, <1>4, RequestFrame DEF TypeInv, TypeOK
  <2>2. reviewed' = reviewed
    BY <1>4 DEF Request, BeginConfirm, BeginSubmit, BeginUpdate, BeginRemove, BeginRelease, BeginReject
  <2>3. req'[h].at = "release" => req'[h].amt = pay[p].amount
    BY <1>0, <1>4, ReleaseReads
  <2> QED
    BY <2>1, <2>2, <2>3 DEF ReviewInv, Whole
<1>5. ASSUME NEW h \in Handlers, Fail(h) PROVE ReviewInv'
  BY <1>5, ReviewFail
<1> QED
  BY <1>1, <1>2, <1>3, <1>4, <1>5 DEF Next

\* ApprovalFollowsReview: an approval is for the amount that was released,
\* unless a request about the payment has died since.
THEOREM ApprovedAsReviewed == ASSUME ~Overlap PROVE Spec => []ApprovalFollowsReview
<1>1. Init => ReviewInv
  BY DEF Init, Idle, NoPayment, ReviewInv
<1>2. LifeInv /\ ReviewInv /\ [Next]_vars => ReviewInv'
  BY ReviewNext
<1>3. Spec => []LifeInv
  BY LifeAlways
<1>4. ReviewInv => ApprovalFollowsReview
  BY DEF ReviewInv, ApprovalFollowsReview
<1> QED
  BY <1>1, <1>2, <1>3, <1>4, PTL DEF Spec

-----------------------------------------------------------------------------
(* The gate.                                                               *)

Safe(r) == r.level \in {"LOW", "MEDIUM"} \/ r.approved

\* About a payment nobody edits, a request is on its way to stop it, or to
\* approve it.
Stopping(p) ==
  \E h \in Handlers : req[h].on = p /\ req[h].at \in {"block", "holdRead", "hold", "approve"}

Gated(p) ==
  /\ \A h \in Handlers : req[h].on = p =>
       /\ req[h].at \notin {"write", "rescore"}
       /\ req[h].at \in {"issueMark", "mark"} => Safe(pay[p])
  /\ pay[p].status \in {"NEW", "CHALLENGED", "PROCESSING"} =>
       pay[p].level = NoLevel \/ Safe(pay[p]) \/ Stopping(p)
  /\ pay[p].status = "COMPLETED" => Safe(pay[p])

\* Nobody is editing p.
Unedited(p) == \A h \in Handlers : req[h].on = p => req[h].at \notin {"write", "rescore"}

GateInv ==
  \A p \in Payments : "update" \notin Ops[p] => Unedited(p) /\ (Whole(p) => Gated(p))

\* Nothing about the payment changes.
LEMMA GateSame ==
  ASSUME NEW p \in Payments, Gated(p), pay'[p] = pay[p],
         \A h \in Handlers : req'[h].on = p \/ req[h].on = p => req'[h] = req[h]
  PROVE  Gated(p)'
<1>1. Stopping(p)' <=> Stopping(p)
  BY DEF Stopping
<1> QED
  BY <1>1 DEF Gated, Safe

LEMMA GateStep ==
  ASSUME LifeInv, ScoredInv, NEW h \in Handlers, Step(h), NEW p \in Payments, p = req[h].on, Gated(p)
  PROVE  Gated(p)'
<1>0. TypeInv /\ TurnsInv
  BY DEF LifeInv
<1>1. /\ req[h].at # "idle" /\ Flow(h) /\ RowFlow(h) /\ StatusFlow(h)
      /\ req'[h] = Idle \/ req'[h].on = p
      /\ pay[p].status \in StatusAt(req[h].at)
  BY <1>0, StepShape, StepFlow, StepRowFlow, StepStatus DEF Shape, LocalShape, LifeInv, StageInv
<1>2. \A g \in Handlers : g # h => req'[g].on # p /\ req[g].on # p
  BY <1>0, TurnsLocal
<1>3. req[h].at \notin {"write", "rescore"}
  BY DEF Gated
<1>4. req[h].at # "score" => pay'[p].level = pay[p].level
  BY <1>0, <1>3, VerdictKept
<1>5. pay[p].approved => pay'[p].approved
  BY <1>0, <1>3, VerdictKept
\* A verdict decides what comes next.
<1>6. CASE req[h].at = "score"
  <2>1. /\ pay'[p].level \in Levels /\ req'[h].at = AfterVerdict(pay'[p].level)
    BY <1>0, <1>6, StageWrites
  <2>2. /\ pay'[p].level \in {"LOW", "MEDIUM"} /\ req'[h].at \in {"issue", "issueMark"}
        \/ req'[h].at \in {"holdRead", "block"}
    BY <2>1 DEF AfterVerdict, Levels
  <2>3. pay'[p].status # "COMPLETED"
    BY <1>1, <1>6 DEF StatusFlow, Writes, StatusAt, PostCommit
  <2>4. req'[h].on = p
    BY <1>1, <2>2 DEF Idle
  <2>5. Safe(pay'[p]) \/ Stopping(p)'
    BY <2>2, <2>4 DEF Safe, Stopping
  <2>6. ASSUME NEW g \in Handlers, req'[g].on = p
        PROVE  /\ req'[g].at \notin {"write", "rescore"}
               /\ req'[g].at \in {"issueMark", "mark"} => Safe(pay'[p])
    BY <1>2, <2>2, <2>6 DEF Safe
  <2> QED
    BY <2>3, <2>5, <2>6 DEF Gated
\* Any other statement keeps what was safe.
<1>7. CASE req[h].at # "score"
  <2>1. Safe(pay[p]) => Safe(pay'[p])
    BY <1>4, <1>5, <1>7 DEF Safe
  <2>2. pay[p].level = NoLevel => pay'[p].level = NoLevel
    BY <1>4, <1>7
  <2>3. ASSUME NEW g \in Handlers, req'[g].on = p
        PROVE  /\ req'[g].at \notin {"write", "rescore"}
               /\ req'[g].at \in {"issueMark", "mark"} => Safe(pay'[p])
    <3>1. g = h
      BY <1>2, <2>3
    <3>2. CASE req'[h] = Idle
      BY <3>1, <3>2 DEF Idle
    <3>3. CASE <<req[h].at, req'[h].at>> \in Edges
      <4>1. req'[h].at \notin {"write", "rescore", "issueMark"} /\ (req'[h].at = "mark" => req[h].at = "issueMark")
        BY <1>3, <1>7, <3>3 DEF Edges
      <4>2. req[h].at = "issueMark" => Safe(pay[p])
        BY DEF Gated
      <4> QED
        BY <2>1, <3>1, <4>1, <4>2
    <3> QED
      BY <1>1, <3>2, <3>3 DEF Flow
  <2>4. CASE req[h].at = "approve"
    <3>1. Safe(pay'[p])
      BY <1>0, <2>4, StageWrites DEF Safe
    <3> QED
      BY <2>3, <3>1 DEF Gated
  <2>5. CASE req[h].at \in {"block", "hold"}
    <3>1. pay'[p].status \in {"BLOCKED", "HELD"}
      BY <1>0, <2>5, StageWrites
    <3> QED
      BY <2>3, <3>1 DEF Gated
  <2>6. CASE req[h].at \in {"holdRead", "release"}
    <3>1. req'[h].at \in {"hold", "approve"}
      BY <1>0, <2>6, StageWrites
    <3>2. req'[h].on = p
      BY <1>1, <3>1 DEF Idle
    <3>3. Stopping(p)'
      BY <3>1, <3>2 DEF Stopping
    <3>4. pay'[p].status # "COMPLETED"
      BY <1>1, <2>6 DEF StatusFlow, Writes, StatusAt, PostCommit
    <3> QED
      BY <2>3, <3>3, <3>4 DEF Gated
  <2>7. CASE req[h].at \in {"mark", "credit"}
    <3>1. req[h].at = "mark" => Safe(pay[p])
      BY DEF Gated
    <3>2. req[h].at = "credit" => pay[p].level # NoLevel /\ pay[p].status = "PROCESSING" /\ ~Stopping(p)
      BY <1>1, <1>2 DEF ScoredInv, ScoredStages, StatusAt, Stopping
    <3>3. Safe(pay[p])
      BY <2>7, <3>1, <3>2 DEF Gated
    <3> QED
      BY <2>1, <2>3, <3>3 DEF Gated
  <2>8. CASE req[h].at \notin {"approve", "block", "hold", "holdRead", "release", "mark", "credit"}
    <3>1. ~Stopping(p)
      BY <1>2, <2>8 DEF Stopping
    <3>2. \/ pay'[p].status = pay[p].status
          \/ pay'[p].status \in {"DELETED", "REJECTED"}
          \/ pay'[p].status = "PROCESSING" /\ pay[p].status \in {"NEW", "CHALLENGED"}
      BY <1>1, <2>8 DEF StatusFlow, Writes, StatusAt, PostCommit
    <3> QED
      BY <2>1, <2>2, <2>3, <3>1, <3>2 DEF Gated
  <2> QED
    BY <2>4, <2>5, <2>6, <2>7, <2>8
<1> QED
  BY <1>6, <1>7

LEMMA WriteAsked ==
  ASSUME TypeInv, NEW h \in Handlers, NEW p \in Payments, Request(h, p), "update" \notin Ops[p]
  PROVE  req'[h].at # "write"
<1>1. CASE BeginConfirm(h, p)
  <2>1. req'[h].at = IF pay[p].approved THEN "issue" ELSE "score"
    BY <1>1, BeginFrame DEF BeginConfirm
  <2> QED
    BY <2>1
<1>2. ASSUME NEW op, NEW s, NEW a, Begin(op, h, p, s, a) PROVE req'[h].at = s
  BY <1>2, BeginFrame
<1>3. \A a \in Amounts : ~BeginUpdate(h, p, a)
  BY DEF BeginUpdate, Begin
<1> QED
  BY <1>1, <1>2, <1>3 DEF Request, BeginSubmit, BeginRemove, BeginRelease, BeginReject

\* No statement but the first of an edit leads into one.
LEMMA UneditedStep ==
  ASSUME TypeInv, NEW h \in Handlers, Step(h) \/ Fail(h), NEW p \in Payments, Unedited(p)
  PROVE  Unedited(p)'
<1>1. /\ req' = [req EXCEPT ![h] = req'[h]] /\ Flow(h)
      /\ req'[h] = Idle \/ req'[h].on = req[h].on
  BY StepShape, StepFlow DEF Shape, LocalShape
<1>2. ASSUME NEW g \in Handlers, req'[g].on = p PROVE req'[g].at \notin {"write", "rescore"}
  <2>1. CASE g # h
    BY <1>1, <1>2, <2>1 DEF Unedited, TypeInv, TypeOK
  <2>2. CASE g = h /\ req'[h] = Idle
    BY <2>2 DEF Idle
  <2>3. CASE g = h /\ req'[h] # Idle
    <3>1. req[h].on = p /\ req[h].at \notin {"write", "rescore"}
      BY <1>1, <1>2, <2>3 DEF Unedited
    <3>2. <<req[h].at, req'[h].at>> \in Edges
      BY <1>1, <2>3 DEF Flow
    <3> QED
      BY <2>3, <3>1, <3>2 DEF Edges
  <2> QED
    BY <2>1, <2>2, <2>3
<1> QED
  BY <1>2 DEF Unedited

\* A release makes a payment whole again: the approval is then on its way.
LEMMA GateRelease ==
  ASSUME LifeInv, NEW h \in Handlers, Step(h), req[h].at = "release",
         NEW p \in Payments, p = req[h].on
  PROVE  Gated(p)'
<1>0. TypeInv /\ TurnsInv
  BY DEF LifeInv
<1>1. req'[h].at = "approve" /\ req'[h].on = p
  <2>1. req'[h].at = "approve"
    BY <1>0, StageWrites
  <2>2. req'[h] = Idle \/ req'[h].on = p
    BY <1>0, StepShape DEF Shape, LocalShape
  <2> QED
    BY <2>1, <2>2 DEF Idle
<1>2. \A g \in Handlers : g # h => req'[g].on # p
  BY <1>0, TurnsLocal
<1>3. pay'[p].status # "COMPLETED"
  BY <1>0, StepStatus DEF StatusFlow, Writes, StatusAt, PostCommit, LifeInv, StageInv
<1>4. Stopping(p)'
  BY <1>1 DEF Stopping
<1> QED
  BY <1>1, <1>2, <1>3, <1>4 DEF Gated

LEMMA GateNext == ~Overlap /\ LifeInv /\ ScoredInv /\ GateInv /\ [Next]_vars => GateInv'
<1> SUFFICES ASSUME ~Overlap, LifeInv, ScoredInv, GateInv, [Next]_vars,
                    NEW p \in Payments, "update" \notin Ops[p]
             PROVE  Unedited(p)' /\ (Whole(p) => Gated(p))'
  BY DEF GateInv
<1>0. TypeInv /\ TurnsInv /\ Unedited(p) /\ (Whole(p) => Gated(p))
  BY DEF LifeInv, GateInv
<1>1. CASE UNCHANGED vars
  <2>1. pay' = pay /\ req' = req /\ reviewed' = reviewed
    BY <1>1 DEF vars
  <2>2. Gated(p) => Gated(p)'
    BY <2>1, GateSame
  <2> QED
    BY <1>0, <2>1, <2>2 DEF Unedited, Whole
<1>2. ASSUME NEW h \in Handlers, Step(h) PROVE Unedited(p)' /\ (Whole(p) => Gated(p))'
  <2>0. Unedited(p)'
    BY <1>0, <1>2, UneditedStep
  <2>1. CASE req[h].on = p /\ req[h].at = "release"
    BY <1>0, <1>2, <2>0, <2>1, GateRelease
  <2>2. CASE req[h].on = p /\ req[h].at # "release"
    <3>1. Whole(p)' => Whole(p)
      BY <1>0, <1>2, <2>2, StageWrites DEF Whole
    <3>2. Gated(p) => Gated(p)'
      BY <1>0, <1>2, <2>2, GateStep
    <3> QED
      BY <1>0, <2>0, <3>1, <3>2
  <2>3. CASE req[h].on # p
    <3>1. /\ pay'[p] = pay[p] /\ \A g \in Handlers : g # h => req'[g] = req[g]
          /\ req'[h].on # p
      BY <1>0, <1>2, <2>3, TurnsLocal, NoneAssumption
    <3>2. Gated(p) => Gated(p)'
      BY <2>3, <3>1, GateSame
    <3>3. Whole(p)' => Whole(p)
      BY <1>0, <1>2, <2>3, StageWrites DEF Whole, TypeInv, TypeOK
    <3> QED
      BY <1>0, <2>0, <3>2, <3>3
  <2> QED
    BY <2>1, <2>2, <2>3
<1>3. ASSUME NEW q \in Payments, NEW a \in Amounts, NEW s \in Sources, Initiate(q, a, s)
      PROVE  Unedited(p)' /\ (Whole(p) => Gated(p))'
  <2>1. /\ pay[q].status = "ABSENT" /\ req' = req /\ reviewed' = reviewed
        /\ pay'[q].status = "NEW" /\ pay'[q].level = NoLevel
        /\ p # q => pay'[p] = pay[p]
    BY <1>0, <1>3 DEF Initiate, Draft, NoPayment, TypeInv, TypeOK
  <2>2. CASE p = q
    <3>1. \A h \in Handlers : req[h].on # p
      BY <1>0, <2>1, <2>2, NoneAssumption DEF TypeInv, HandlerOK
    <3> QED
      BY <2>1, <2>2, <3>1 DEF Gated, Unedited
  <2>3. CASE p # q
    <3>1. Gated(p) => Gated(p)'
      BY <2>1, <2>3, GateSame
    <3> QED
      BY <1>0, <2>1, <3>1 DEF Unedited, Whole
  <2> QED
    BY <2>2, <2>3
<1>4. ASSUME NEW h \in Handlers, NEW q \in Payments, Request(h, q)
      PROVE  Unedited(p)' /\ (Whole(p) => Gated(p))'
  <2>1. /\ req'[h].on = q /\ pay' = pay /\ \A g \in Handlers : g # h => req'[g] = req[g]
        /\ req'[h].at \in {"issue", "score", "verify", "write", "delete", "release", "reject"}
        /\ req[h].at = "idle" /\ req[h].on = NoPay
        /\ \A g \in Handlers : req[g].on # q
    BY <1>0, <1>4, RequestFrame DEF TypeInv, TypeOK, HandlerOK
  <2>2. reviewed' = reviewed
    BY <1>4 DEF Request, BeginConfirm, BeginSubmit, BeginUpdate, BeginRemove, BeginRelease, BeginReject
  <2>3. CASE p # q
    <3>1. Gated(p) => Gated(p)'
      BY <2>1, <2>3, GateSame, NoneAssumption
    <3>2. Unedited(p)'
      BY <1>0, <2>1, <2>3 DEF Unedited
    <3> QED
      BY <1>0, <2>2, <3>1, <3>2 DEF Whole
  <2>4. CASE p = q
    <3>1. req'[h].at # "write"
      BY <1>0, <1>4, <2>4, WriteAsked
    <3>2. ~Stopping(p)
      BY <2>1, <2>4 DEF Stopping
    <3>3. \A g \in Handlers : req'[g].on = p => req'[g].at \notin {"write", "rescore", "issueMark", "mark"}
      BY <2>1, <2>4, <3>1
    <3>4. Gated(p) => Gated(p)'
      BY <2>1, <3>2, <3>3 DEF Gated
    <3> QED
      BY <1>0, <2>2, <3>3, <3>4 DEF Unedited, Whole
  <2> QED
    BY <2>3, <2>4
<1>5. ASSUME NEW h \in Handlers, Fail(h) PROVE Unedited(p)' /\ (Whole(p) => Gated(p))'
  <2>0. Unedited(p)'
    BY <1>0, <1>5, UneditedStep
  <2>1. req[h].on \in Payments /\ pay' = pay /\ reviewed' = [reviewed EXCEPT ![req[h].on] = Absent]
    BY <1>0, <1>5, StepShape, InFlight DEF Fail
  <2>2. CASE req[h].on = p
    BY <1>0, <2>0, <2>1, <2>2 DEF Whole, TypeInv, TypeOK
  <2>3. CASE req[h].on # p
    <3>1. \A g \in Handlers : (g # h => req'[g] = req[g]) /\ req'[h].on # p
      BY <1>0, <1>5, <2>3, TurnsLocal, NoneAssumption
    <3>2. Gated(p) => Gated(p)'
      BY <2>1, <2>3, <3>1, GateSame
    <3>3. Whole(p)' => Whole(p)
      BY <1>0, <2>1, <2>3 DEF Whole, TypeInv, TypeOK
    <3> QED
      BY <1>0, <2>0, <3>2, <3>3
  <2> QED
    BY <2>2, <2>3
<1> QED
  BY <1>1, <1>2, <1>3, <1>4, <1>5 DEF Next

\* RiskGate: what is posted was scored LOW or MEDIUM, or approved, unless a
\* request about the payment has died since its last release.
THEOREM GateHolds == ASSUME ~Overlap PROVE Spec => []RiskGate
<1>1. Init => GateInv
  BY NoneAssumption DEF Init, Idle, NoPayment, GateInv, Gated, Unedited
<1>2. LifeInv /\ ScoredInv /\ GateInv /\ [Next]_vars => GateInv'
  BY GateNext
<1>3. Spec => []LifeInv
  BY LifeAlways
<1>4. TypeInv /\ ScoredInv /\ [Next]_vars => ScoredInv'
  BY ScoredStep
<1>5. LifeInv => TypeInv
  BY DEF LifeInv
<1>6. GateInv => RiskGate
  BY DEF GateInv, Gated, Safe, RiskGate
<1>7. Init => ScoredInv
  BY ScoredInit
<1> QED
  BY <1>1, <1>2, <1>3, <1>4, <1>5, <1>6, <1>7, PTL DEF Spec

-----------------------------------------------------------------------------
(* A block is reported, in any interleaving of requests.                   *)

ReportInv ==
  /\ \A p \in Payments :
       pay[p].status = "BLOCKED" /\ Whole(p) =>
         \/ suspended /\ p \in cases
         \/ \E h \in Handlers : req[h].on = p /\ req[h].at \in {"freeze", "case"}
  /\ \A h \in Handlers : req[h].at = "case" => suspended

\* What the three statements of a block write, and that no other undoes it.
LEMMA ReportWrites ==
  ASSUME TypeInv, NEW h \in Handlers, Step(h)
  PROVE  /\ suspended => suspended'
         /\ cases \subseteq cases'
         /\ req[h].at = "block" => req'[h].at = "freeze"
         /\ req[h].at = "freeze" => req'[h].at = "case" /\ suspended'
         /\ req[h].at = "case" => req[h].on \in cases'
<1>1. CASE Block(h)
  BY <1>1, GotoFlow DEF Block, freezeVars
<1>2. CASE Freeze(h)
  BY <1>2, GotoFlow DEF Freeze
<1>3. CASE OpenCase(h)
  BY <1>3 DEF OpenCase
<1>4. CASE req[h].at \notin {"block", "freeze", "case"} /\ UNCHANGED freezeVars
  BY <1>4 DEF freezeVars
<1> QED
  BY <1>1, <1>2, <1>3, <1>4
  DEF Step, Score, IssueOtp, MarkChallenged, HoldRead, HoldCommit, VerifyRead, VerifyRefused,
      Consume, Dispatch, PostRead, SourceRead, PostDebit, PostCommit, PostConflict, UpdateWrite,
      Rescore, RemoveWrite, ReleaseCommit, Approve, RejectCommit, GiveBack

\* One handler moves, and writes at most the row of its payment.
LEMMA OneMoves ==
  ASSUME TypeInv, NEW h \in Handlers, Step(h) \/ Fail(h)
  PROVE  /\ req[h].at # "idle" /\ req[h].on \in Payments
         /\ req'[h] = Idle \/ req'[h].on = req[h].on
         /\ \A g \in Handlers : g # h => req'[g] = req[g]
         /\ \A q \in Payments : q # req[h].on => pay'[q] = pay[q]
<1>1. req[h].at # "idle" /\ req[h].on \in Payments /\ LocalShape(h) /\ RowShape(h)
  BY StepShape, InFlight DEF Shape
<1> QED
  BY <1>1 DEF LocalShape, RowShape, TypeInv, TypeOK

LEMMA ReportStep ==
  ASSUME TypeInv, ReportInv, NEW h \in Handlers, Step(h)
  PROVE  ReportInv'
<1> DEFINE p == req[h].on
<1>1. /\ req[h].at # "idle" /\ p \in Payments
      /\ req'[h] = Idle \/ req'[h].on = p
      /\ \A g \in Handlers : g # h => req'[g] = req[g]
      /\ \A q \in Payments : q # p => pay'[q] = pay[q]
  BY OneMoves
<1>2. /\ suspended => suspended'
      /\ cases \subseteq cases'
      /\ req[h].at = "block" => req'[h].at = "freeze"
      /\ req[h].at = "freeze" => req'[h].at = "case" /\ suspended'
      /\ req[h].at = "case" => p \in cases'
  BY ReportWrites
<1>3. ASSUME NEW q \in Payments, pay'[q].status = "BLOCKED", Whole(q)'
      PROVE  \/ suspended' /\ q \in cases'
             \/ \E g \in Handlers : req'[g].on = q /\ req'[g].at \in {"freeze", "case"}
  <2>1. CASE q = p /\ req[h].at \in {"block", "freeze"}
    <3>1. req'[h].at \in {"freeze", "case"}
      BY <1>2, <2>1
    <3> QED
      BY <1>1, <2>1, <3>1 DEF Idle
  <2>2. CASE q = p /\ req[h].at = "case"
    BY <1>2, <2>2 DEF ReportInv
  <2>3. CASE q = p /\ req[h].at \notin {"block", "freeze", "case"}
    <3>1. pay[q].status = "BLOCKED" /\ req[h].at # "release"
      <4>1. StatusFlow(h)
        BY StepStatus
      <4>2. req[h].at = "release" => req'[h].at = "approve"
        BY StageWrites
      <4>3. req[h].at = "release" => req'[h] # Idle
        BY <4>2 DEF Idle
      <4> QED
        BY <1>3, <2>3, <4>1, <4>3 DEF StatusFlow, Writes
    <3>2. Whole(q)
      BY <1>3, <3>1, StageWrites DEF Whole
    <3>3. CASE suspended /\ q \in cases
      BY <1>2, <3>3
    <3>4. ASSUME NEW g \in Handlers, req[g].on = q, req[g].at \in {"freeze", "case"}
          PROVE  req'[g].on = q /\ req'[g].at \in {"freeze", "case"}
      BY <1>1, <2>3, <3>4
    <3> QED
      BY <1>3, <3>1, <3>2, <3>3, <3>4 DEF ReportInv
  <2>4. CASE q # p
    <3>1. pay[q].status = "BLOCKED" /\ Whole(q)
      BY <1>1, <1>3, <2>4, StageWrites DEF Whole, TypeInv, TypeOK
    <3>2. \A g \in Handlers : req[g].on = q => req'[g] = req[g]
      BY <1>1, <2>4
    <3> QED
      BY <1>2, <3>1, <3>2 DEF ReportInv
  <2> QED
    BY <2>1, <2>2, <2>3, <2>4
<1>4. ASSUME NEW g \in Handlers, req'[g].at = "case" PROVE suspended'
  <2>1. CASE g # h
    BY <1>1, <1>2, <1>4, <2>1 DEF ReportInv
  <2>2. CASE g = h
    <3>1. <<req[h].at, "case">> \in Edges
      BY <1>4, <2>2, StepFlow DEF Flow, Idle
    <3> QED
      BY <1>2, <3>1 DEF Edges
  <2> QED
    BY <2>1, <2>2
<1> QED
  BY <1>3, <1>4 DEF ReportInv

LEMMA ReportFail ==
  ASSUME TypeInv, ReportInv, NEW h \in Handlers, Fail(h)
  PROVE  ReportInv'
<1> DEFINE p == req[h].on
<1>1. /\ p \in Payments /\ req'[h] = Idle
      /\ \A g \in Handlers : g # h => req'[g] = req[g]
  BY OneMoves, FinishFlow DEF Fail
<1>2. /\ pay' = pay /\ suspended' = suspended /\ cases' = cases
      /\ reviewed' = [reviewed EXCEPT ![p] = Absent]
  BY DEF Fail, freezeVars
<1>3. reviewed'[p] = Absent /\ \A q \in Payments : q # p => reviewed'[q] = reviewed[q]
  BY <1>1, <1>2 DEF TypeInv, TypeOK
<1>4. ASSUME NEW q \in Payments, q # p, NEW g \in Handlers, req[g].on = q PROVE req'[g] = req[g]
  BY <1>1, <1>4
<1>5. \A g \in Handlers : req'[g].at = "case" => suspended'
  BY <1>1, <1>2 DEF ReportInv, Idle
<1>6. ASSUME NEW q \in Payments, pay'[q].status = "BLOCKED", Whole(q)'
      PROVE  \/ suspended' /\ q \in cases'
             \/ \E g \in Handlers : req'[g].on = q /\ req'[g].at \in {"freeze", "case"}
  <2>1. q # p /\ pay[q].status = "BLOCKED" /\ Whole(q)
    BY <1>2, <1>3, <1>6 DEF Whole
  <2> QED
    BY <1>2, <1>4, <2>1 DEF ReportInv
<1> QED
  BY <1>5, <1>6 DEF ReportInv

LEMMA ReportNext == TypeInv /\ ReportInv /\ [Next]_vars => ReportInv'
<1> SUFFICES ASSUME TypeInv, ReportInv, [Next]_vars PROVE ReportInv'
  OBVIOUS
<1>1. CASE UNCHANGED vars
  BY <1>1 DEF vars, ReportInv, Whole
<1>2. ASSUME NEW p \in Payments, NEW a \in Amounts, NEW s \in Sources, Initiate(p, a, s)
      PROVE  ReportInv'
  <2>1. /\ req' = req /\ suspended' = suspended /\ cases' = cases /\ reviewed' = reviewed
        /\ pay'[p].status = "NEW" /\ \A q \in Payments : q # p => pay'[q] = pay[q]
    BY <1>2 DEF Initiate, Draft, NoPayment, freezeVars, TypeInv, TypeOK
  <2> QED
    BY <2>1 DEF ReportInv, Whole
<1>3. ASSUME NEW h \in Handlers, NEW p \in Payments, Request(h, p) PROVE ReportInv'
  <2>1. /\ pay' = pay /\ \A g \in Handlers : g # h => req'[g] = req[g]
        /\ req'[h].at \in {"issue", "score", "verify", "write", "delete", "release", "reject"}
        /\ req[h].at = "idle"
    BY <1>3, RequestFrame DEF TypeInv, TypeOK
  <2>2. suspended' = suspended /\ cases' = cases /\ reviewed' = reviewed
    BY <1>3 DEF Request, BeginConfirm, BeginSubmit, BeginUpdate, BeginRemove, BeginRelease,
                BeginReject, freezeVars
  <2>3. \A g \in Handlers : req[g].at \in {"freeze", "case"} => req'[g] = req[g]
    BY <2>1
  <2>4. \A g \in Handlers : req'[g].at = "case" => req[g].at = "case"
    BY <2>1
  <2> QED
    BY <2>1, <2>2, <2>3, <2>4 DEF ReportInv, Whole
<1> QED
  BY <1>1, <1>2, <1>3, ReportStep, ReportFail DEF Next

\* BlockedIsReported: however requests interleave, a payment that is blocked has
\* its customer suspended and a case opened, once its requests are over and
\* none of them died.
THEOREM BlocksReported == Spec => []BlockedIsReported
<1>1. Init => ReportInv
  BY DEF Init, Idle, NoPayment, ReportInv
<1>2. ReportInv => BlockedIsReported
  BY DEF ReportInv, BlockedIsReported
<1> QED
  BY <1>1, <1>2, ReportNext, TypeAlways, PTL DEF Spec

=============================================================================
