------------------------------ MODULE DeskProofs ------------------------------
(***************************************************************************)
(* Whose money goes where, and what the pages say of it, for any number of *)
(* tabs, payees, payments and requests in flight, and for any answers the  *)
(* pages get; the way the rows of the payments go, and what weighs in a    *)
(* verdict.                                                                *)
(***************************************************************************)
EXTENDS Desk, TLAPS

\* Rows are records with these fields, whatever a request has put in them.
PayeeFields == {"status", "number", "name", "fetched", "age"}
PaymentFields == {"status", "amount", "to", "approved", "cool", "named", "paid"}

PayeeShape == DOMAIN payee = Payees /\ \A b \in Payees : DOMAIN payee[b] = PayeeFields
PaymentShape == DOMAIN pay = Payments /\ \A p \in Payments : DOMAIN pay[p] = PaymentFields

\* The account number a payment was made out to is one its payee was activated
\* with.
NamedIsVetted ==
  \A p \in Payments : pay[p].status # "ABSENT" =>
    pay[p].to \in Payees /\ pay[p].named \in vetted[pay[p].to]

\* A payment that is completed was paid to the number its payee had then.
RowsVetted == PayeeShape /\ PaymentShape /\ DOMAIN vetted = Payees /\ ActiveIsVetted /\ NamedIsVetted

LEMMA Reviewed == RowsVetted => PaidAccountReviewed
  BY DEF RowsVetted, NamedIsVetted, PaidAccountReviewed

LEMMA RowsStutter ==
  ASSUME RowsVetted, UNCHANGED bankVars
  PROVE  RowsVetted'
  BY DEF RowsVetted, PayeeShape, PaymentShape, ActiveIsVetted, ActivePayees, NamedIsVetted,
         bankVars, payeeVars, paymentVars

LEMMA RowsInit == Init => RowsVetted
<1> SUFFICES ASSUME Init PROVE RowsVetted
  OBVIOUS
<1>1. /\ payee \in [Payees -> PayeeRows]
      /\ \A b \in Payees : payee[b].status # "ABSENT" => payee[b].number \in Numbers
      /\ pay \in [Payments -> PaymentRows]
      /\ \A p \in Payments : pay[p].status # "ABSENT" =>
           /\ pay[p].to \in Payees
           /\ pay[p].named = payee[pay[p].to].number
           /\ pay[p].named \in Numbers
      /\ vetted = [b \in Payees |-> {payee[b].number} \ {NoNumber}]
  BY SceneAssumption DEF Init
<1>2. PayeeShape /\ PaymentShape
  BY <1>1 DEF PayeeShape, PaymentShape, PayeeRows, PaymentRows, PayeeFields, PaymentFields
<1>3. ActiveIsVetted
  BY <1>1, PayeeAssumption DEF ActiveIsVetted, ActivePayees
<1>4. NamedIsVetted
  BY <1>1, PayeeAssumption DEF NamedIsVetted
<1> QED
  BY <1>1, <1>2, <1>3, <1>4 DEF RowsVetted

-----------------------------------------------------------------------------
(* The rows of payees.  A payment keeps what it was made out to.            *)

\* A step of the payees that keeps the rows' shape, takes nothing back from
\* what they were activated with, and leaves the payments alone.
PayeeStep ==
  /\ PayeeShape' /\ DOMAIN vetted' = Payees /\ ActiveIsVetted'
  /\ \A b \in Payees : vetted[b] \subseteq vetted'[b]

LEMMA PayeeStepKeeps ==
  ASSUME RowsVetted, PayeeStep, UNCHANGED paymentVars
  PROVE  RowsVetted'
  BY DEF RowsVetted, PayeeStep, PaymentShape, NamedIsVetted, paymentVars

LEMMA CreateStep ==
  ASSUME RowsVetted, NEW b, NEW number, NEW name, NEW fetched, CreatePayee(b, number, name, fetched)
  PROVE  PayeeStep
<1>1. /\ vetted' = vetted /\ DOMAIN payee' = Payees
      /\ \A d \in Payees : payee'[d] = payee[d] \/
           (DOMAIN payee'[d] = PayeeFields /\ payee'[d].status = "PENDING")
  BY DEF CreatePayee, RowsVetted, PayeeShape, PayeeFields
<1> QED
  BY <1>1 DEF RowsVetted, PayeeStep, PayeeShape, ActiveIsVetted, ActivePayees

LEMMA UpdateStep ==
  ASSUME RowsVetted, NEW b, NEW number, NEW name, UpdatePayee(b, number, name)
  PROVE  PayeeStep
<1>1. /\ vetted' = vetted /\ DOMAIN payee' = Payees
      /\ \A d \in Payees : payee'[d] = payee[d] \/
           (DOMAIN payee'[d] = PayeeFields /\ payee'[d].status = "PENDING")
  BY DEF UpdatePayee, RowsVetted, PayeeShape, PayeeFields
<1> QED
  BY <1>1 DEF RowsVetted, PayeeStep, PayeeShape, ActiveIsVetted, ActivePayees

LEMMA ActivateStep ==
  ASSUME RowsVetted, NEW B, ActivatePayees(B)
  PROVE  PayeeStep
<1> DEFINE hit == B \intersect PendingPayees
<1>1. /\ payee' = [d \in Payees |->
            IF d \in hit THEN [payee[d] EXCEPT !.status = "ACTIVE", !.age = "new"] ELSE payee[d]]
      /\ vetted' = [d \in Payees |->
            IF d \in hit THEN vetted[d] \union {payee[d].number} ELSE vetted[d]]
  BY DEF ActivatePayees
<1> HIDE DEF hit
<1>2. ASSUME NEW d \in Payees
      PROVE  /\ DOMAIN payee'[d] = PayeeFields
             /\ vetted[d] \subseteq vetted'[d]
             /\ payee'[d].status = "ACTIVE" => payee'[d].number \in vetted'[d]
  <2>1. CASE d \in hit
    <3>1. payee'[d] = [payee[d] EXCEPT !.status = "ACTIVE", !.age = "new"]
      BY <1>1, <2>1
    <3>2. DOMAIN payee'[d] = PayeeFields /\ payee'[d].number = payee[d].number
      BY <3>1 DEF RowsVetted, PayeeShape, PayeeFields
    <3>3. vetted'[d] = vetted[d] \union {payee[d].number}
      BY <1>1, <2>1
    <3> QED
      BY <3>2, <3>3
  <2>2. CASE d \notin hit
    BY <1>1, <2>2 DEF RowsVetted, PayeeShape, ActiveIsVetted, ActivePayees
  <2> QED
    BY <2>1, <2>2
<1> QED
  BY <1>1, <1>2 DEF PayeeStep, PayeeShape, ActiveIsVetted, ActivePayees

\* Rejecting, removing and the passing of time.
LEMMA RestStep ==
  ASSUME RowsVetted, UNCHANGED vetted, DOMAIN payee' = Payees,
         \A d \in Payees : DOMAIN payee'[d] = PayeeFields /\
           (payee'[d].status = "ACTIVE" =>
              payee[d].status = "ACTIVE" /\ payee'[d].number = payee[d].number)
  PROVE  PayeeStep
  BY DEF RowsVetted, PayeeStep, PayeeShape, ActiveIsVetted, ActivePayees

LEMMA RejectStep ==
  ASSUME RowsVetted, NEW B, RejectPayees(B)
  PROVE  PayeeStep
<1>1. \A d \in Payees : payee'[d] = payee[d] \/ payee'[d] = [payee[d] EXCEPT !.status = "REJECTED"]
  BY DEF RejectPayees
<1>2. DOMAIN payee' = Payees /\ UNCHANGED vetted
  BY DEF RejectPayees
<1>3. \A d \in Payees : DOMAIN payee'[d] = PayeeFields /\
        (payee'[d].status = "ACTIVE" =>
           payee[d].status = "ACTIVE" /\ payee'[d].number = payee[d].number)
  BY <1>1 DEF RowsVetted, PayeeShape, PayeeFields
<1> QED
  BY <1>2, <1>3, RestStep

LEMMA RemoveStep ==
  ASSUME RowsVetted, NEW B, RemovePayees(B)
  PROVE  PayeeStep
<1>1. \A d \in Payees : payee'[d] = payee[d] \/ payee'[d] = [payee[d] EXCEPT !.status = "DELETED"]
  BY DEF RemovePayees
<1>2. DOMAIN payee' = Payees /\ UNCHANGED vetted
  BY DEF RemovePayees
<1>3. \A d \in Payees : DOMAIN payee'[d] = PayeeFields /\
        (payee'[d].status = "ACTIVE" =>
           payee[d].status = "ACTIVE" /\ payee'[d].number = payee[d].number)
  BY <1>1 DEF RowsVetted, PayeeShape, PayeeFields
<1> QED
  BY <1>2, <1>3, RestStep

LEMMA RipenStep ==
  ASSUME RowsVetted, NEW b \in Payees, Ripen(b)
  PROVE  PayeeStep
<1>1. DOMAIN payee' = Payees /\ UNCHANGED vetted
  BY DEF Ripen, RowsVetted, PayeeShape
<1>2. \A d \in Payees : payee'[d] = payee[d] \/ payee'[d] = [payee[d] EXCEPT !.age = "aged"]
  BY DEF Ripen, RowsVetted, PayeeShape
<1>3. \A d \in Payees : DOMAIN payee'[d] = PayeeFields /\
        (payee'[d].status = "ACTIVE" =>
           payee[d].status = "ACTIVE" /\ payee'[d].number = payee[d].number)
  BY <1>2 DEF RowsVetted, PayeeShape, PayeeFields
<1> QED
  BY <1>1, <1>3, RestStep

-----------------------------------------------------------------------------
(* The rows of payments.                                                   *)

\* After initiate a payment keeps its payee and the number it was made out to.
LEMMA MarkStep ==
  ASSUME RowsVetted, UNCHANGED payeeVars, DOMAIN pay' = Payments,
         \A p \in Payments :
           \/ pay'[p] = pay[p]
           \/ /\ pay[p].status # "ABSENT"
              /\ DOMAIN pay'[p] = PaymentFields
              /\ pay'[p].to = pay[p].to /\ pay'[p].named = pay[p].named
  PROVE  RowsVetted'
<1>1. PayeeShape' /\ DOMAIN vetted' = Payees /\ ActiveIsVetted'
  BY DEF RowsVetted, payeeVars, PayeeShape, ActiveIsVetted, ActivePayees
<1>2. PaymentShape'
  BY DEF RowsVetted, PaymentShape
<1>3. NamedIsVetted'
  BY DEF RowsVetted, NamedIsVetted, payeeVars
<1> QED
  BY <1>1, <1>2, <1>3 DEF RowsVetted

\* What confirm, submit, an edit, a removal and a review write.
LEMMA FieldStep ==
  ASSUME RowsVetted, UNCHANGED payeeVars, NEW p, pay[p].status # "ABSENT",
         NEW s, NEW x, NEW y,
         \/ pay' = [pay EXCEPT ![p] = [@ EXCEPT !.status = s, !.cool = x]]
         \/ pay' = [pay EXCEPT ![p] = [@ EXCEPT !.status = s, !.paid = x]]
         \/ pay' = [pay EXCEPT ![p] = [@ EXCEPT !.amount = s, !.approved = x, !.cool = y]]
         \/ pay' = [pay EXCEPT ![p] = [@ EXCEPT !.amount = s, !.cool = y]]
         \/ pay' = [pay EXCEPT ![p] = [@ EXCEPT !.status = s, !.approved = x]]
         \/ pay' = [pay EXCEPT ![p] = [@ EXCEPT !.status = s]]
  PROVE  RowsVetted'
<1>1. DOMAIN pay' = Payments /\ \A q \in Payments : q # p => pay'[q] = pay[q]
  BY DEF RowsVetted, PaymentShape
<1>2. CASE p \notin Payments
  BY <1>1, <1>2, MarkStep
<1>3. CASE p \in Payments
  <2>1. DOMAIN pay[p] = PaymentFields /\ DOMAIN pay = Payments
    BY <1>3 DEF RowsVetted, PaymentShape
  <2>2. \/ pay'[p] = [pay[p] EXCEPT !.status = s, !.cool = x]
        \/ pay'[p] = [pay[p] EXCEPT !.status = s, !.paid = x]
        \/ pay'[p] = [pay[p] EXCEPT !.amount = s, !.approved = x, !.cool = y]
        \/ pay'[p] = [pay[p] EXCEPT !.amount = s, !.cool = y]
        \/ pay'[p] = [pay[p] EXCEPT !.status = s, !.approved = x]
        \/ pay'[p] = [pay[p] EXCEPT !.status = s]
    BY <1>3, <2>1
  <2>3. DOMAIN pay'[p] = PaymentFields /\ pay'[p].to = pay[p].to /\ pay'[p].named = pay[p].named
    <3>1. CASE pay'[p] = [pay[p] EXCEPT !.status = s, !.cool = x]
      BY <2>1, <3>1 DEF PaymentFields
    <3>2. CASE pay'[p] = [pay[p] EXCEPT !.status = s, !.paid = x]
      BY <2>1, <3>2 DEF PaymentFields
    <3>3. CASE pay'[p] = [pay[p] EXCEPT !.amount = s, !.approved = x, !.cool = y]
      BY <2>1, <3>3 DEF PaymentFields
    <3>4. CASE pay'[p] = [pay[p] EXCEPT !.amount = s, !.cool = y]
      BY <2>1, <3>4 DEF PaymentFields
    <3>5. CASE pay'[p] = [pay[p] EXCEPT !.status = s, !.approved = x]
      BY <2>1, <3>5 DEF PaymentFields
    <3>6. CASE pay'[p] = [pay[p] EXCEPT !.status = s]
      BY <2>1, <3>6 DEF PaymentFields
    <3> QED
      BY <2>2, <3>1, <3>2, <3>3, <3>4, <3>5, <3>6
  <2> QED
    BY <1>1, <2>3, MarkStep
<1> QED
  BY <1>2, <1>3

LEMMA InitiateStep ==
  ASSUME RowsVetted, NEW c, Initiate(c)
  PROVE  RowsVetted'
<1>1. CASE UNCHANGED bankVars
  BY <1>1, RowsStutter
<1> DEFINE k == calls[c]
           row == [NoPayment EXCEPT !.status = "NEW", !.amount = k.with.amount, !.to = k.with.to,
                                    !.named = payee[k.with.to].number]
<1>2. CASE /\ k.with.to \in ActivePayees
           /\ pay' = [pay EXCEPT ![k.on] = row]
           /\ UNCHANGED payeeVars
  <2>1. DOMAIN row = PaymentFields /\ row.to = k.with.to /\ row.named = payee[k.with.to].number
    BY DEF NoPayment, PaymentFields
  <2>2. k.with.to \in Payees /\ payee[k.with.to].number \in vetted[k.with.to]
    BY <1>2 DEF RowsVetted, ActiveIsVetted, ActivePayees
  <2> HIDE DEF row
  <2>3. /\ DOMAIN pay' = Payments
        /\ \A p \in Payments : pay'[p] = pay[p] \/ pay'[p] = row
    BY <1>2 DEF RowsVetted, PaymentShape
  <2>4. PaymentShape'
    BY <2>1, <2>3 DEF RowsVetted, PaymentShape
  <2>5. NamedIsVetted'
    BY <1>2, <2>1, <2>2, <2>3 DEF RowsVetted, NamedIsVetted, payeeVars
  <2>6. PayeeShape' /\ DOMAIN vetted' = Payees /\ ActiveIsVetted'
    BY <1>2 DEF RowsVetted, payeeVars, PayeeShape, ActiveIsVetted, ActivePayees
  <2> QED
    BY <2>4, <2>5, <2>6 DEF RowsVetted
<1> QED
  BY <1>1, <1>2 DEF Initiate, Refuse

LEMMA ConfirmStep ==
  ASSUME RowsVetted, NEW c, Confirm(c)
  PROVE  RowsVetted'
<1> DEFINE p == calls[c].on
<1>1. CASE UNCHANGED <<payeeVars, pay>>
  BY <1>1, MarkStep DEF RowsVetted, PaymentShape
<1>2. ASSUME NEW status, NEW cool, pay[p].status \in Editable, UNCHANGED payeeVars,
             pay' = [pay EXCEPT ![p] = [@ EXCEPT !.status = status, !.cool = cool]]
      PROVE  RowsVetted'
  BY <1>2, FieldStep DEF Editable
<1>3. CASE pay[p].status \in Editable /\ ~pay[p].approved
  BY <1>2, <1>3 DEF Confirm
<1> QED
  BY <1>1, <1>3 DEF Confirm, Refuse, bankVars, paymentVars, Challenge, Reply

LEMMA SubmitStep ==
  ASSUME RowsVetted, NEW c, Submit(c)
  PROVE  RowsVetted'
<1> DEFINE p == calls[c].on
<1>1. CASE UNCHANGED <<payeeVars, pay>>
  BY <1>1, MarkStep DEF RowsVetted, PaymentShape
<1>2. ASSUME NEW status, pay[p].status \in Submittable, UNCHANGED payeeVars, Settled(p, status)
      PROVE  RowsVetted'
  <2> DEFINE paid == IF status = "COMPLETED" THEN payee[pay[p].to].number
                     ELSE pay[p].paid
  <2>1. pay' = [pay EXCEPT ![p] = [@ EXCEPT !.status = status, !.paid = paid]]
    BY <1>2 DEF Settled
  <2> HIDE DEF paid
  <2> QED
    BY <1>2, <2>1, FieldStep DEF Submittable
<1> QED
  BY <1>1, <1>2 DEF Submit, Refuse, bankVars, paymentVars

LEMMA UpdatePaymentStep ==
  ASSUME RowsVetted, NEW c, Update(c)
  PROVE  RowsVetted'
<1> DEFINE p == calls[c].on
<1>1. CASE UNCHANGED bankVars
  BY <1>1, RowsStutter
<1>2. ASSUME NEW a, NEW cool, pay[p].status \in Editable, UNCHANGED payeeVars,
             \/ pay' = [pay EXCEPT ![p] = [@ EXCEPT !.amount = a, !.approved = FALSE, !.cool = cool]]
             \/ pay' = [pay EXCEPT ![p] = [@ EXCEPT !.amount = a, !.cool = cool]]
      PROVE  RowsVetted'
  <2>1. pay[p].status # "ABSENT"
    BY <1>2 DEF Editable
  <2>2. CASE pay' = [pay EXCEPT ![p] = [@ EXCEPT !.amount = a, !.approved = FALSE, !.cool = cool]]
    BY <1>2, <2>1, <2>2, FieldStep
  <2>3. CASE pay' = [pay EXCEPT ![p] = [@ EXCEPT !.amount = a, !.cool = cool]]
    BY <1>2, <2>1, <2>3, FieldStep
  <2> QED
    BY <1>2, <2>2, <2>3
<1> QED
  BY <1>1, <1>2 DEF Update, Refuse

LEMMA RemovePaymentStep ==
  ASSUME RowsVetted, NEW c, Remove(c)
  PROVE  RowsVetted'
<1> DEFINE p == calls[c].on
<1>1. CASE UNCHANGED bankVars
  BY <1>1, RowsStutter
<1>2. CASE /\ pay[p].status \in Editable /\ UNCHANGED payeeVars
           /\ pay' = [pay EXCEPT ![p] = [@ EXCEPT !.status = "DELETED"]]
  BY <1>2, FieldStep DEF Editable
<1> QED
  BY <1>1, <1>2 DEF Remove, Refuse

LEMMA ReviewStep ==
  ASSUME RowsVetted, NEW c, Review(c)
  PROVE  RowsVetted'
<1> DEFINE p == calls[c].on
<1>1. CASE UNCHANGED bankVars
  BY <1>1, RowsStutter
<1>2. CASE /\ pay[p].status = "HELD" /\ UNCHANGED payeeVars
           /\ pay' = [pay EXCEPT ![p] = [@ EXCEPT !.status = "NEW", !.approved = TRUE]]
  BY <1>2, FieldStep
<1>3. CASE /\ pay[p].status = "HELD" /\ UNCHANGED payeeVars
           /\ \E status : pay' = [pay EXCEPT ![p] = [@ EXCEPT !.status = status]]
  BY <1>3, FieldStep
<1> QED
  BY <1>1, <1>2, <1>3 DEF Review, Refuse

-----------------------------------------------------------------------------
(* The server, and the pages, which write no row.                          *)

LEMMA KeepPayeeStep ==
  ASSUME RowsVetted, NEW c, KeepPayee(c)
  PROVE  RowsVetted'
  BY CreateStep, UpdateStep, PayeeStepKeeps, RowsStutter DEF KeepPayee, Refuse

LEMMA ChangePayeesStep ==
  ASSUME RowsVetted, NEW c, ChangePayees(c)
  PROVE  RowsVetted'
  BY ActivateStep, RejectStep, RemoveStep, PayeeStepKeeps DEF ChangePayees

\* Requests that write no payee and no payment.
LEMMA OtherRequests ==
  ASSUME RowsVetted, NEW c,
         \/ Resend(c) \/ FetchName(c) \/ Report(c) \/ Score1(c) \/ SendCode(c) \/ Recover(c)
         \/ ChangeOwn(c) \/ SignIn(c)
  PROVE  RowsVetted'
<1>1. UNCHANGED <<payeeVars, pay>>
  BY DEF Resend, FetchName, Report, Score1, SendCode, Recover, ChangeOwn, SignIn, Refuse,
         bankVars, paymentVars
<1> QED
  BY <1>1, MarkStep DEF RowsVetted, PaymentShape

LEMMA ServeRows ==
  ASSUME RowsVetted, NEW c, ServeCall(c)
  PROVE  RowsVetted'
<1>1. CASE Handle(c)
  BY <1>1, InitiateStep, ConfirmStep, SubmitStep, UpdatePaymentStep, RemovePaymentStep, ReviewStep,
     KeepPayeeStep, ChangePayeesStep, OtherRequests DEF Handle
<1> QED
  BY <1>1, RowsStutter DEF ServeCall

LEMMA WizardRows ==
  ASSUME NEW t, Wizards(t)
  PROVE  UNCHANGED bankVars
  BY DEF Wizards, PickMode, LeaveMode, CancelForm, PressNext, BackToForm, PressConfirm, PressSubmit,
         PressResend, CloseModal, Turn, Ask

LEMMA ModifyRows ==
  ASSUME NEW t, Modifies(t)
  PROVE  UNCHANGED bankVars
  BY DEF Modifies, OpenSend, OpenEdit, OpenDelete, SubmitSend, CloseSend, SaveEdit, CloseEdit,
         PressDelete, CloseDelete, Turn, Ask

LEMMA PayeeingRows ==
  ASSUME NEW t, Payeeing(t)
  PROVE  UNCHANGED bankVars
  BY DEF Payeeing, StartAdd, StartEdit, PressFetch, TypeInto, FormNext, FormBack, SubmitForm,
         CancelPayee, Toggle, PressActivate, OpenErase, PressErase, CloseErase, Turn, Ask

LEMMA IdentityRows ==
  ASSUME NEW t, Identity(t) \/ Others(t)
  PROVE  UNCHANGED bankVars
  BY DEF Identity, RequestCode, UseCode, ResendCode, ChangePassword, Generate, ResetWithOtp,
         EditContact, CancelContact, RequestSave, SaveContact, CloseConfirm,
         Others, PressReview, ApplyPreset, PressScore, RunAll, PressReport, PressLogin, Turn, Ask

LEMMA MoveRows ==
  ASSUME NEW t, Moves(t)
  PROVE  UNCHANGED bankVars
  BY DEF Moves, Visit, OpenUrl, Logout, Expire, Refresh, Bounce, Push, Reload

LEMMA AnswerRows ==
  ASSUME NEW c, Answer(c) \/ Break(c) \/ Vanish(c)
  PROVE  UNCHANGED bankVars
  BY DEF Answer, Break, Vanish, Bounce, Reload, Continue

LEMMA RowsNext == RowsVetted /\ [Next]_vars => RowsVetted'
<1> SUFFICES ASSUME RowsVetted, [Next]_vars PROVE RowsVetted'
  OBVIOUS
<1>1. ASSUME NEW t \in Tabs,
             Wizards(t) \/ Modifies(t) \/ Payeeing(t) \/ Identity(t) \/ Others(t) \/ Moves(t)
      PROVE  RowsVetted'
  BY <1>1, WizardRows, ModifyRows, PayeeingRows, IdentityRows, MoveRows, RowsStutter
<1>2. ASSUME NEW c \in Slots, Serve(c) PROVE RowsVetted'
  BY <1>2, ServeRows DEF Serve
<1>3. ASSUME NEW c \in Slots, Answer(c) \/ Break(c) \/ Vanish(c) PROVE RowsVetted'
  BY <1>3, AnswerRows, RowsStutter
<1>4. ASSUME NEW b \in Payees, Age(b) PROVE RowsVetted'
  BY <1>4, RipenStep, PayeeStepKeeps DEF Age
<1>5. CASE UNCHANGED vars
  BY <1>5, RowsStutter DEF vars
<1> QED
  BY <1>1, <1>2, <1>3, <1>4, <1>5 DEF Next

\* Money goes to an account number its payee was activated with, or to one the
\* payee has been given since the payment was initiated: whatever the pages
\* send, and however their requests cross.
THEOREM PaymentsGoToReviewedAccounts == Spec => []PaidAccountReviewed
<1>1. Spec => []RowsVetted
  BY RowsInit, RowsNext, PTL DEF Spec
<1> QED
  BY <1>1, Reviewed, PTL

\* No order of edits, rejections, removals and activations makes an account
\* number payable that its payee was not activated with.
THEOREM PayableIsVetted == Spec => []ActiveIsVetted
<1>1. Spec => []RowsVetted
  BY RowsInit, RowsNext, PTL DEF Spec
<1>2. RowsVetted => ActiveIsVetted
  BY DEF RowsVetted
<1> QED
  BY <1>1, <1>2, PTL

-----------------------------------------------------------------------------
(* The backend of the desk, which serves a request in one step, moves a     *)
(* payment as the lifecycle promises.                                       *)

StatusOf == [p \in Payments |-> pay[p].status]
Posted == {p \in Payments : pay[p].status = "COMPLETED"}
Lifecycle == INSTANCE PaymentLifecycle WITH status <- StatusOf, posted <- Posted

\* Submit dispatches a payment and holds or posts it, in one step.
Passes(p) ==
  /\ StatusOf[p] \in Lifecycle!Ready
  /\ \/ StatusOf' = [StatusOf EXCEPT ![p] = "HELD"] /\ UNCHANGED Posted
     \/ StatusOf' = [StatusOf EXCEPT ![p] = "COMPLETED"] /\ Posted' = Posted \union {p}

Follows == Lifecycle!Next \/ (\E p \in Payments : Passes(p)) \/ UNCHANGED <<StatusOf, Posted>>

\* From status s to status r: the steps of the lifecycle, and what submit does.
Edge(s, r) ==
  \/ s = "ABSENT" /\ r = "NEW"
  \/ s \in {"NEW", "HELD"} /\ r \in {"BLOCKED", "DELETED", "HELD", "CHALLENGED"}
  \/ s \in {"NEW", "CHALLENGED"} /\ r \in {"PROCESSING", "HELD", "COMPLETED"}
  \/ s = "HELD" /\ r \in {"NEW", "REJECTED"}

LEMMA StatusSame ==
  ASSUME \A p \in Payments : pay'[p].status = pay[p].status
  PROVE  Follows
<1>1. StatusOf' = StatusOf /\ Posted' = Posted
  BY DEF StatusOf, Posted
<1> QED
  BY <1>1 DEF Follows

LEMMA EdgeFollows ==
  ASSUME NEW p \in Payments, \A q \in Payments : q # p => pay'[q].status = pay[q].status,
         Edge(pay[p].status, pay'[p].status)
  PROVE  Follows
<1> DEFINE s == pay[p].status
           r == pay'[p].status
<1>1. StatusOf[p] = s /\ StatusOf' = [StatusOf EXCEPT ![p] = r]
  BY DEF StatusOf
<1>2. s # "COMPLETED"
  BY DEF Edge
<1>3. Posted' = IF r = "COMPLETED" THEN Posted \union {p} ELSE Posted
  BY <1>2 DEF Posted
<1> HIDE DEF s, r
<1>4. CASE r = "COMPLETED" \/ (r = "HELD" /\ s \in {"NEW", "CHALLENGED"})
  <2>1. s \in {"NEW", "CHALLENGED"}
    BY <1>4 DEF Edge, s, r
  <2>2. Passes(p)
    BY <1>1, <1>3, <1>4, <2>1 DEF Passes, Lifecycle!Ready
  <2> QED
    BY <2>2 DEF Follows
<1>5. CASE r # "COMPLETED" /\ ~(r = "HELD" /\ s \in {"NEW", "CHALLENGED"})
  <2>1. UNCHANGED Posted
    BY <1>3, <1>5
  <2>2. \/ s \in {"ABSENT"} /\ r = "NEW"
        \/ s \in {"NEW", "HELD"} /\ r \in {"BLOCKED", "DELETED", "HELD", "CHALLENGED"}
        \/ s \in {"NEW", "CHALLENGED"} /\ r = "PROCESSING"
        \/ s = "HELD" /\ r \in {"NEW", "REJECTED"}
    BY <1>5 DEF Edge, s, r
  <2>3. \/ Lifecycle!Create(p) \/ Lifecycle!Stop(p) \/ Lifecycle!Hold(p) \/ Lifecycle!Challenge(p)
        \/ Lifecycle!Dispatch(p) \/ Lifecycle!Review(p)
    BY <1>1, <2>1, <2>2
    DEF Lifecycle!Create, Lifecycle!Stop, Lifecycle!Hold, Lifecycle!Challenge, Lifecycle!Dispatch,
        Lifecycle!Review, Lifecycle!Move, Lifecycle!Open, Lifecycle!Ready
  <2> QED
    BY <2>3 DEF Follows, Lifecycle!Next
<1> QED
  BY <1>4, <1>5

\* A write to one row that moves its status along an edge, or keeps it.
LEMMA WriteFollows ==
  ASSUME RowsVetted, NEW p, NEW row, pay' = [pay EXCEPT ![p] = row],
         p \in Payments => Edge(pay[p].status, row.status) \/ row.status = pay[p].status
  PROVE  Follows
<1>1. DOMAIN pay = Payments /\ \A q \in Payments : q # p => pay'[q] = pay[q]
  BY DEF RowsVetted, PaymentShape
<1>2. CASE p \notin Payments
  BY <1>1, <1>2, StatusSame
<1>3. CASE p \in Payments
  <2>1. pay'[p] = row
    BY <1>1, <1>3
  <2> QED
    BY <1>1, <1>3, <2>1, EdgeFollows, StatusSame
<1> QED
  BY <1>2, <1>3

\* What an update of a row's status and of one or two other fields leaves it.
LEMMA WrittenStatus ==
  ASSUME NEW row, DOMAIN row = PaymentFields, NEW s, NEW x, NEW y
  PROVE  /\ [row EXCEPT !.status = s, !.cool = x].status = s
         /\ [row EXCEPT !.status = s, !.paid = x].status = s
         /\ [row EXCEPT !.status = s, !.approved = x].status = s
         /\ [row EXCEPT !.status = s].status = s
         /\ [row EXCEPT !.amount = s, !.approved = x, !.cool = y].status = row.status
         /\ [row EXCEPT !.amount = s, !.cool = y].status = row.status
  BY DEF PaymentFields

LEMMA HandleFollows ==
  ASSUME RowsVetted, NEW c, Handle(c)
  PROVE  Follows
<1> DEFINE p == calls[c].on
<1>0. CASE UNCHANGED pay
  BY <1>0, StatusSame
<1>1. p \in Payments => DOMAIN pay[p] = PaymentFields
  BY DEF RowsVetted, PaymentShape
<1> HIDE DEF p
<1>2. CASE /\ pay[p].status = "ABSENT"
           /\ \E row : row.status = "NEW" /\ pay' = [pay EXCEPT ![p] = row]
  BY <1>2, WriteFollows DEF Edge
<1>3. ASSUME NEW s, NEW x, pay[p].status \in Editable,
             s = pay[p].status \/ s \in {"CHALLENGED", "HELD", "BLOCKED"},
             pay' = [pay EXCEPT ![p] = [@ EXCEPT !.status = s, !.cool = x]]
      PROVE  Follows
  <2> DEFINE row == [pay[p] EXCEPT !.status = s, !.cool = x]
  <2>1. p \in Payments => row.status = s
    BY <1>1, WrittenStatus
  <2>2. pay' = [pay EXCEPT ![p] = row]
    BY <1>3
  <2> HIDE DEF row
  <2>3. p \in Payments => Edge(pay[p].status, row.status) \/ row.status = pay[p].status
    BY <1>3, <2>1 DEF Editable, Edge
  <2> QED
    BY <2>2, <2>3, WriteFollows
<1>4. ASSUME NEW s, pay[p].status \in Submittable, s \in {"HELD", "COMPLETED", "PROCESSING"}, Settled(p, s)
      PROVE  Follows
  <2> DEFINE paid == IF s = "COMPLETED" THEN payee[pay[p].to].number ELSE pay[p].paid
             row == [pay[p] EXCEPT !.status = s, !.paid = paid]
  <2> HIDE DEF paid
  <2>1. p \in Payments => row.status = s
    BY <1>1, WrittenStatus
  <2>2. pay' = [pay EXCEPT ![p] = row]
    BY <1>4 DEF Settled, paid
  <2> HIDE DEF row
  <2>3. p \in Payments => Edge(pay[p].status, row.status)
    BY <1>4, <2>1 DEF Submittable, Edge
  <2> QED
    BY <2>2, <2>3, WriteFollows
<1>5. ASSUME NEW a, NEW cool,
             \/ pay' = [pay EXCEPT ![p] = [@ EXCEPT !.amount = a, !.approved = FALSE, !.cool = cool]]
             \/ pay' = [pay EXCEPT ![p] = [@ EXCEPT !.amount = a, !.cool = cool]]
      PROVE  Follows
  <2>1. PICK row : pay' = [pay EXCEPT ![p] = row] /\ (p \in Payments => row.status = pay[p].status)
    <3> DEFINE rescored == [pay[p] EXCEPT !.amount = a, !.approved = FALSE, !.cool = cool]
               written == [pay[p] EXCEPT !.amount = a, !.cool = cool]
    <3>1. p \in Payments => rescored.status = pay[p].status /\ written.status = pay[p].status
      BY <1>1, WrittenStatus
    <3>2. pay' = [pay EXCEPT ![p] = rescored] \/ pay' = [pay EXCEPT ![p] = written]
      BY <1>5
    <3> HIDE DEF rescored, written
    <3> QED
      BY <3>1, <3>2
  <2> QED
    BY <2>1, WriteFollows
<1>6. CASE pay[p].status \in Editable /\ pay' = [pay EXCEPT ![p].status = "DELETED"]
  <2> DEFINE row == [pay[p] EXCEPT !.status = "DELETED"]
  <2>1. p \in Payments => row.status = "DELETED"
    BY <1>1, WrittenStatus
  <2>2. pay' = [pay EXCEPT ![p] = row]
    BY <1>6
  <2> HIDE DEF row
  <2>3. p \in Payments => Edge(pay[p].status, row.status)
    BY <1>6, <2>1 DEF Editable, Edge
  <2> QED
    BY <2>2, <2>3, WriteFollows
<1>7. ASSUME NEW s \in {"NEW", "REJECTED"}, pay[p].status = "HELD",
             \/ pay' = [pay EXCEPT ![p] = [@ EXCEPT !.status = s, !.approved = TRUE]]
             \/ pay' = [pay EXCEPT ![p] = [@ EXCEPT !.status = s]]
      PROVE  Follows
  <2>1. PICK row : pay' = [pay EXCEPT ![p] = row] /\ (p \in Payments => row.status = s)
    <3> DEFINE approved == [pay[p] EXCEPT !.status = s, !.approved = TRUE]
               freed == [pay[p] EXCEPT !.status = s]
    <3>1. p \in Payments => approved.status = s /\ freed.status = s
      BY <1>1, WrittenStatus
    <3>2. pay' = [pay EXCEPT ![p] = approved] \/ pay' = [pay EXCEPT ![p] = freed]
      BY <1>7
    <3> HIDE DEF approved, freed
    <3> QED
      BY <3>1, <3>2
  <2>2. p \in Payments => Edge(pay[p].status, row.status)
    BY <1>7, <2>1 DEF Edge
  <2> QED
    BY <2>1, <2>2, WriteFollows
<1>8. CASE Initiate(c)
  <2> DEFINE new == [NoPayment EXCEPT !.status = "NEW", !.amount = calls[c].with.amount,
                       !.to = calls[c].with.to, !.named = payee[calls[c].with.to].number]
  <2>1. new.status = "NEW"
    BY DEF NoPayment
  <2> HIDE DEF new
  <2>2. UNCHANGED pay \/ (pay[p].status = "ABSENT" /\ pay' = [pay EXCEPT ![p] = new])
    BY <1>8 DEF Initiate, Refuse, bankVars, paymentVars, new, p
  <2> QED
    BY <1>0, <1>2, <2>1, <2>2
<1>9. CASE Confirm(c)
  <2>1. CASE pay[p].status \in Editable /\ ~pay[p].approved
    BY <1>3, <1>9, <2>1 DEF Confirm, p
  <2> QED
    BY <1>0, <1>9, <2>1 DEF Confirm, Refuse, bankVars, paymentVars, p
<1>10. CASE Submit(c)
  BY <1>0, <1>4, <1>10 DEF Submit, Refuse, bankVars, paymentVars, p
<1>11. CASE Update(c)
  BY <1>0, <1>5, <1>11 DEF Update, Refuse, bankVars, paymentVars, p
<1>12. CASE Remove(c)
  BY <1>0, <1>6, <1>12 DEF Remove, Refuse, bankVars, paymentVars, p
<1>13. CASE Review(c)
  BY <1>0, <1>7, <1>13 DEF Review, Refuse, bankVars, paymentVars, p
<1>14. CASE \/ KeepPayee(c) \/ ChangePayees(c) \/ Resend(c) \/ FetchName(c) \/ Report(c) \/ Score1(c)
            \/ SendCode(c) \/ Recover(c) \/ ChangeOwn(c) \/ SignIn(c)
  <2>1. UNCHANGED pay
    BY <1>14 DEF KeepPayee, ChangePayees, Resend, FetchName, Report, Score1, SendCode, Recover,
       ChangeOwn, SignIn, Refuse, bankVars, paymentVars
  <2> QED
    BY <1>0, <2>1
<1> QED
  BY <1>8, <1>9, <1>10, <1>11, <1>12, <1>13, <1>14 DEF Handle

LEMMA NextFollows == RowsVetted /\ [Next]_vars => Follows
<1> SUFFICES ASSUME RowsVetted, [Next]_vars PROVE Follows
  OBVIOUS
<1>1. CASE UNCHANGED pay
  BY <1>1, StatusSame
<1>2. ASSUME NEW t \in Tabs,
             Wizards(t) \/ Modifies(t) \/ Payeeing(t) \/ Identity(t) \/ Others(t) \/ Moves(t)
      PROVE  UNCHANGED bankVars
  BY <1>2, WizardRows, ModifyRows, PayeeingRows, IdentityRows, MoveRows
<1>3. ASSUME NEW c \in Slots, Serve(c) PROVE Follows
  BY <1>1, <1>3, HandleFollows DEF Serve, ServeCall, bankVars, paymentVars
<1>4. ASSUME NEW c \in Slots, Answer(c) \/ Break(c) \/ Vanish(c) PROVE UNCHANGED bankVars
  BY <1>4, AnswerRows
<1>5. ASSUME NEW b \in Payees, Age(b) PROVE UNCHANGED pay
  BY <1>5 DEF Age, paymentVars
<1>6. CASE UNCHANGED vars
  BY <1>1, <1>6 DEF vars, bankVars, paymentVars
<1> QED
  BY <1>1, <1>2, <1>3, <1>4, <1>5, <1>6 DEF Next, bankVars, paymentVars

\* However the requests of the pages cross, the rows of the payments go the way
\* the lifecycle promises: a payment is completed from NEW or CHALLENGED and
\* never twice, and nothing leaves BLOCKED, DELETED, REJECTED or COMPLETED.
THEOREM DeskFollowsLifecycle ==
  Spec => [][Lifecycle!Next \/ \E p \in Payments : Passes(p)]_<<StatusOf, Posted>>
<1>1. Spec => []RowsVetted
  BY RowsInit, RowsNext, PTL DEF Spec
<1>2. RowsVetted /\ [Next]_vars => [Lifecycle!Next \/ \E p \in Payments : Passes(p)]_<<StatusOf, Posted>>
  BY NextFollows DEF Follows
<1> QED
  BY <1>1, <1>2, PTL DEF Spec

-----------------------------------------------------------------------------
(* The verdict of the heuristics, for any event.                           *)

Events == [count : Nat, age : Ages, amount : Nat, dear : BOOLEAN, mismatch : BOOLEAN]
Rank == [LOW |-> 0, MEDIUM |-> 1, HIGH |-> 2, CRITICAL |-> 3]

\* Nothing that counts against d is missing in e.
NoSafer(d, e) ==
  /\ d.count <= e.count /\ d.amount <= e.amount
  /\ d.age = "new" => e.age = "new"
  /\ d.dear => e.dear
  /\ d.mismatch => e.mismatch

LEMMA ScoreGrows ==
  ASSUME NEW d \in Events, NEW e \in Events, NoSafer(d, e)
  PROVE  Score(d) \in 5 .. 99 /\ Score(e) \in 5 .. 99 /\ Score(d) <= Score(e)
<1>1. Velocity(d) \in {0, 20, 70} /\ Velocity(e) \in {0, 20, 70} /\ Velocity(d) <= Velocity(e)
  BY DEF Velocity, Events, NoSafer
<1>2. Cooling(d) \in {0, 20, 45} /\ Cooling(e) \in {0, 20, 45} /\ Cooling(d) <= Cooling(e)
  BY DEF Cooling, Big, Events, NoSafer
<1> DEFINE Dear(x) == IF x.dear THEN 25 ELSE 0
           Large(x) == IF x.amount >= High THEN 15 ELSE 0
           Other(x) == IF x.mismatch THEN 40 ELSE 0
<1>3. Dear(d) \in {0, 25} /\ Dear(e) \in {0, 25} /\ Dear(d) <= Dear(e)
  BY DEF NoSafer
<1>4. Large(d) \in {0, 15} /\ Large(e) \in {0, 15} /\ Large(d) <= Large(e)
  BY DEF High, Events, NoSafer
<1>5. Other(d) \in {0, 40} /\ Other(e) \in {0, 40} /\ Other(d) <= Other(e)
  BY DEF NoSafer
<1> DEFINE Sum(x) == 5 + Velocity(x) + Cooling(x) + Dear(x) + Large(x) + Other(x)
<1>6. \A x : Score(x) = IF Sum(x) > 99 THEN 99 ELSE Sum(x)
  BY DEF Score
<1> HIDE DEF Dear, Large, Other
<1>7. Sum(d) \in Int /\ Sum(e) \in Int /\ Sum(d) >= 5 /\ Sum(d) <= Sum(e)
  BY <1>1, <1>2, <1>3, <1>4, <1>5
<1> HIDE DEF Sum
<1> QED
  BY <1>6, <1>7

\* The heuristics are monotone: a faster burst, a larger amount, a payee who has
\* just been activated or whose name differs never gets a milder verdict.
THEOREM SuspicionRaisesVerdict ==
  ASSUME NEW d \in Events, NEW e \in Events, NoSafer(d, e)
  PROVE  Rank[Heuristic(d)] <= Rank[Heuristic(e)]
<1>1. Score(d) \in 5 .. 99 /\ Score(e) \in 5 .. 99 /\ Score(d) <= Score(e)
  BY ScoreGrows
<1>2. \A s \in 5 .. 99 :
        Rank[BandOf(s)] = IF s < 25 THEN 0 ELSE IF s < 50 THEN 1 ELSE IF s < 75 THEN 2 ELSE 3
  BY DEF BandOf, Rank
<1> QED
  BY <1>1, <1>2 DEF Heuristic

-----------------------------------------------------------------------------
(* What the pages say of it.                                               *)

\* Of the rows P: a payment said to be blocked is, with its customer; one said
\* to be completed is completed.
Told(P, frozen, outcome, p) ==
  /\ outcome = "BLOCKED" => p \in Payments /\ P[p].status = "BLOCKED" /\ frozen
  /\ outcome = "COMPLETED" => p \in Payments /\ P[p].status = "COMPLETED"

Sound(P, frozen, pg) ==
  /\ "at" \in DOMAIN pg
  /\ pg.at = "initiate" =>
       /\ DOMAIN pg = DOMAIN Wizard /\ pg.draft \in Payments \union {NoPay}
       /\ Told(P, frozen, pg.final.outcome, pg.final.of)
  /\ pg.at = "modify" =>
       /\ DOMAIN pg = DOMAIN Dialogs /\ pg.send \in Payments \union {NoPay}
       /\ Told(P, frozen, pg.done.outcome, pg.done.of)
  /\ pg.at = "report" => DOMAIN pg = {"at", "result", "busy"} /\ (pg.result => frozen)

\* The requests of the three pages that report on a payment or on the account.
Fits(kind, at) ==
  /\ at = "initiate" => kind \in {"initiate", "confirm", "submit", "resend"}
  /\ at = "modify" => kind \in {"confirm", "submit", "update", "remove"}
  /\ at = "report" => kind = "report"

Tells(P, frozen, kind, on, a) ==
  a.is = "done" => /\ kind \in {"confirm", "submit"} => Told(P, frozen, a.got.outcome, on)
                   /\ kind = "report" => frozen

CallFields == {"tab", "kind", "on", "with", "as", "live", "ans"}
Honest(P, frozen, k) ==
  /\ DOMAIN k = CallFields
  /\ k.kind \in {"initiate", "confirm", "submit"} => k.on \in Payments
  /\ Tells(P, frozen, k.kind, k.on, k.ans)

PagesSound == DOMAIN page = Tabs /\ \A t \in Tabs : Sound(pay, suspended, page[t])
CallsHonest ==
  /\ DOMAIN calls = Slots
  /\ \A c \in Slots : /\ Honest(pay, suspended, calls[c])
                      /\ calls[c].tab \in Tabs \union {NoTab}
                      /\ calls[c].tab \in Tabs /\ calls[c].live =>
                           Fits(calls[c].kind, page[calls[c].tab].at)

Truth == PagesSound /\ CallsHonest

LEMMA TruthTells == Truth => OutcomeTruthful
  BY DEF Truth, PagesSound, Sound, Told, OutcomeTruthful

LEMMA MountedSound ==
  ASSUME NEW P, NEW frozen, NEW at
  PROVE  Sound(P, frozen, Mounted(at)) /\ Mounted(at).at = at
<1>1. CASE at = "initiate"
  BY <1>1 DEF Mounted, Wizard, Sound, Told, NoShown
<1>2. CASE at = "modify"
  BY <1>2 DEF Mounted, Dialogs, Sound, Told, NoShown
<1>3. CASE at = "report"
  BY <1>3 DEF Mounted, Sound, Recovering
<1>4. CASE at \notin {"initiate", "modify", "report"}
  <2>1. "at" \in DOMAIN Mounted(at) /\ Mounted(at).at = at
    BY <1>4 DEF Mounted, Maintenance, EventForm
  <2> QED
    BY <1>4, <2>1 DEF Sound
<1> QED
  BY <1>1, <1>2, <1>3, <1>4

LEMMA NoCallHonest ==
  ASSUME NEW P, NEW frozen
  PROVE  Honest(P, frozen, NoCall) /\ NoCall.tab = NoTab
  BY DEF NoCall, Honest, CallFields, Tells

LEMMA TruthInit == Init => Truth
<1> SUFFICES ASSUME Init PROVE Truth
  OBVIOUS
<1>1. PagesSound
  BY MountedSound DEF Init, PagesSound
<1>2. CallsHonest
  BY NoCallHonest, BrowserAssumption DEF Init, CallsHonest
<1> QED
  BY <1>1, <1>2 DEF Truth

-----------------------------------------------------------------------------
(* A verdict stands: nothing unblocks, reopens or reinstates.              *)

Stands ==
  /\ suspended => suspended'
  /\ \A p \in Payments : pay[p].status \in {"BLOCKED", "COMPLETED"} => pay'[p].status = pay[p].status

LEMMA StandsWrite ==
  ASSUME RowsVetted, NEW p, pay[p].status \notin {"BLOCKED", "COMPLETED"}, suspended => suspended',
         NEW row, pay' = [pay EXCEPT ![p] = row]
  PROVE  Stands
  BY DEF Stands, RowsVetted, PaymentShape

LEMMA StandsRest ==
  ASSUME UNCHANGED pay, suspended => suspended'
  PROVE  Stands
  BY DEF Stands

LEMMA SoundStays ==
  ASSUME Stands, NEW pg, Sound(pay, suspended, pg)
  PROVE  Sound(pay', suspended', pg)
  BY DEF Stands, Sound, Told

LEMMA HonestStays ==
  ASSUME Stands, NEW k, Honest(pay, suspended, k)
  PROVE  Honest(pay', suspended', k)
  BY DEF Stands, Honest, Tells, Told

LEMMA HandleStands ==
  ASSUME RowsVetted, NEW c, Handle(c)
  PROVE  Stands
<1> DEFINE p == calls[c].on
<1>1. CASE Refuse(c)
  BY <1>1, StandsRest DEF Refuse, bankVars, paymentVars
<1>2. CASE Initiate(c)
  <2>1. ASSUME NEW row, pay[p].status = "ABSENT", UNCHANGED suspended, pay' = [pay EXCEPT ![p] = row]
        PROVE  Stands
    BY <2>1, StandsWrite
  <2> QED
    BY <1>1, <1>2, <2>1 DEF Initiate
<1>3. CASE Confirm(c)
  <2>1. CASE UNCHANGED <<pay, suspended>>
    BY <2>1, StandsRest
  <2>2. ASSUME NEW status, NEW cool, pay[p].status \in Editable,
               UNCHANGED suspended \/ suspended' = TRUE,
               pay' = [pay EXCEPT ![p] = [@ EXCEPT !.status = status, !.cool = cool]]
        PROVE  Stands
    <3>1. suspended => suspended'
      BY <2>2
    <3> QED
      BY <2>2, <3>1, StandsWrite DEF Editable
  <2>3. CASE pay[p].status \in Editable /\ ~pay[p].approved
    BY <1>3, <2>2, <2>3 DEF Confirm
  <2> QED
    BY <1>1, <1>3, <2>1, <2>3 DEF Confirm
<1>4. CASE Submit(c)
  <2>1. ASSUME NEW status, pay[p].status \in Submittable, UNCHANGED suspended, Settled(p, status)
        PROVE  Stands
    BY <2>1, StandsWrite DEF Submittable, Settled
  <2> QED
    BY <1>1, <1>4, <2>1, StandsRest DEF Submit
<1>5. CASE Update(c)
  <2>1. ASSUME NEW a, NEW cool, pay[p].status \in Editable, UNCHANGED suspended,
               \/ pay' = [pay EXCEPT ![p] = [@ EXCEPT !.amount = a, !.approved = FALSE, !.cool = cool]]
               \/ pay' = [pay EXCEPT ![p] = [@ EXCEPT !.amount = a, !.cool = cool]]
        PROVE  Stands
    BY <2>1, StandsWrite DEF Editable
  <2> QED
    BY <1>1, <1>5, <2>1 DEF Update
<1>6. CASE Remove(c)
  <2>1. CASE /\ pay[p].status \in Editable /\ UNCHANGED suspended
             /\ pay' = [pay EXCEPT ![p].status = "DELETED"]
    BY <2>1, StandsWrite DEF Editable
  <2> QED
    BY <1>1, <1>6, <2>1 DEF Remove
<1>7. CASE Review(c)
  <2>1. ASSUME NEW s, pay[p].status = "HELD", UNCHANGED suspended,
               \/ pay' = [pay EXCEPT ![p] = [@ EXCEPT !.status = s, !.approved = TRUE]]
               \/ pay' = [pay EXCEPT ![p] = [@ EXCEPT !.status = s]]
        PROVE  Stands
    BY <2>1, StandsWrite
  <2> QED
    BY <1>1, <1>7, <2>1 DEF Review
<1>8. CASE \/ KeepPayee(c) \/ ChangePayees(c) \/ Resend(c) \/ FetchName(c) \/ Report(c) \/ Score1(c)
           \/ SendCode(c) \/ Recover(c) \/ ChangeOwn(c) \/ SignIn(c)
  <2>1. UNCHANGED pay /\ (suspended => suspended')
    BY <1>8 DEF KeepPayee, ChangePayees, Resend, FetchName, Report, Score1, SendCode, Recover,
       ChangeOwn, SignIn, Refuse, bankVars, paymentVars
  <2> QED
    BY <2>1, StandsRest
<1> QED
  BY <1>2, <1>3, <1>4, <1>5, <1>6, <1>7, <1>8 DEF Handle

-----------------------------------------------------------------------------
(* The server tells what it has done.                                      *)

LEMMA RefusalTells ==
  ASSUME NEW P, NEW frozen, NEW kind, NEW on
  PROVE  Tells(P, frozen, kind, on, Refusal) /\ Tells(P, frozen, kind, on, Unauthorized)
  BY DEF Tells, Refusal, Unauthorized

LEMMA OtherwiseTells ==
  ASSUME NEW P, NEW frozen, NEW kind, NEW on, NEW a, kind \notin {"confirm", "submit", "report"}
  PROVE  Tells(P, frozen, kind, on, a)
  BY DEF Tells

LEMMA VerdictTells ==
  ASSUME NEW P, NEW frozen, NEW kind, NEW on, NEW outcome, NEW n, kind \in {"confirm", "submit"},
         Told(P, frozen, outcome, on)
  PROVE  Tells(P, frozen, kind, on, Done([outcome |-> outcome, otp |-> n]))
  BY DEF Tells, Done

LEMMA ConfirmTells ==
  ASSUME RowsVetted, NEW c, NEW p \in Payments, calls[c].on = p, calls[c].kind = "confirm", Confirm(c)
  PROVE  \E a : Reply(c, a) /\ Tells(pay', suspended', "confirm", p, a)
<1>1. CASE Reply(c, Refusal)
  BY <1>1, RefusalTells
<1>2. ASSUME NEW outcome \in {"OTP", "CHALLENGE", "HELD"}, Challenge(c, p, outcome) \/ Verdict(c, outcome)
      PROVE  \E a : Reply(c, a) /\ Tells(pay', suspended', "confirm", p, a)
  <2>1. Told(pay', suspended', outcome, p)
    BY DEF Told
  <2>2. \E n : Reply(c, Done([outcome |-> outcome, otp |-> n]))
    BY <1>2 DEF Challenge, Verdict
  <2> QED
    BY <2>1, <2>2, VerdictTells
<1>3. ASSUME NEW cool, Verdict(c, "BLOCKED"), suspended' = TRUE,
             pay' = [pay EXCEPT ![p] = [@ EXCEPT !.status = "BLOCKED", !.cool = cool]]
      PROVE  \E a : Reply(c, a) /\ Tells(pay', suspended', "confirm", p, a)
  <2>1. pay'[p] = [pay[p] EXCEPT !.status = "BLOCKED", !.cool = cool]
    BY <1>3 DEF RowsVetted, PaymentShape
  <2>2. pay'[p].status = "BLOCKED"
    BY <2>1 DEF RowsVetted, PaymentShape, PaymentFields
  <2>3. Told(pay', suspended', "BLOCKED", p)
    BY <1>3, <2>2 DEF Told
  <2>4. Tells(pay', suspended', "confirm", p, Done([outcome |-> "BLOCKED", otp |-> 0]))
    BY <2>3, VerdictTells
  <2> QED
    BY <1>3, <2>4 DEF Verdict
<1> QED
  BY <1>1, <1>2, <1>3 DEF Confirm, Refuse

LEMMA SubmitTells ==
  ASSUME RowsVetted, NEW c, NEW p \in Payments, calls[c].on = p, calls[c].kind = "submit", Submit(c)
  PROVE  \E a : Reply(c, a) /\ Tells(pay', suspended', "submit", p, a)
<1>1. CASE Reply(c, Refusal)
  BY <1>1, RefusalTells
<1>2. CASE Verdict(c, "HELD_CUTOFF")
  <2>1. Told(pay', suspended', "HELD_CUTOFF", p)
    BY DEF Told
  <2> QED
    BY <1>2, <2>1, VerdictTells DEF Verdict
<1>3. CASE Settled(p, "COMPLETED") /\ Verdict(c, "COMPLETED")
  <2>1. pay'[p] = [pay[p] EXCEPT !.status = "COMPLETED", !.paid = payee[pay[p].to].number]
    BY <1>3 DEF Settled, RowsVetted, PaymentShape
  <2>2. pay'[p].status = "COMPLETED"
    BY <2>1 DEF RowsVetted, PaymentShape, PaymentFields
  <2>3. Told(pay', suspended', "COMPLETED", p)
    BY <2>2 DEF Told
  <2>4. Tells(pay', suspended', "submit", p, Done([outcome |-> "COMPLETED", otp |-> 0]))
    BY <2>3, VerdictTells
  <2> QED
    BY <1>3, <2>4 DEF Verdict
<1> QED
  BY <1>1, <1>2, <1>3 DEF Submit, Refuse, Unfunded

LEMMA ReportTells ==
  ASSUME NEW c, NEW on, Report(c)
  PROVE  \E a : Reply(c, a) /\ Tells(pay', suspended', "report", on, a)
<1>1. CASE Reply(c, Refusal)
  BY <1>1, RefusalTells
<1>2. CASE suspended' = TRUE /\ Reply(c, Done("report"))
  <2>1. Tells(pay', suspended', "report", on, Done("report"))
    BY <1>2 DEF Tells
  <2> QED
    BY <1>2, <2>1
<1> QED
  BY <1>1, <1>2 DEF Report, Refuse

\* Whatever the server does, it replies.
LEMMA HandleReplies ==
  ASSUME NEW c, Handle(c)
  PROVE  \E a : Reply(c, a)
<1>1. ASSUME NEW a, Reply(c, a) PROVE \E x : Reply(c, x)
  BY <1>1
<1>2. CASE Refuse(c)
  BY <1>2 DEF Refuse
<1>3. CASE Initiate(c)
  BY <1>2, <1>3 DEF Initiate
<1>4. CASE Confirm(c)
  BY <1>2, <1>4 DEF Confirm, Challenge, Verdict
<1>5. CASE Submit(c)
  BY <1>2, <1>5 DEF Submit, Unfunded, Verdict
<1>6. CASE Update(c) \/ Remove(c) \/ Review(c)
  BY <1>2, <1>6 DEF Update, Remove, Review
<1>7. CASE Resend(c) \/ FetchName(c) \/ Score1(c) \/ SendCode(c) \/ Recover(c) \/ ChangeOwn(c) \/ SignIn(c)
  BY <1>2, <1>7 DEF Resend, FetchName, Score1, SendCode, Recover, ChangeOwn, SignIn
<1>8. CASE KeepPayee(c) \/ ChangePayees(c) \/ Report(c)
  BY <1>2, <1>8 DEF KeepPayee, ChangePayees, Report
<1> QED
  BY <1>3, <1>4, <1>5, <1>6, <1>7, <1>8 DEF Handle

LEMMA ServeTruth ==
  ASSUME RowsVetted, Truth, NEW c \in Slots, Serve(c)
  PROVE  Truth'
<1> DEFINE k == calls[c]
<1>1. Honest(pay, suspended, k)
  BY DEF Truth, CallsHonest
<1>2. PICK a : Reply(c, a) /\ Tells(pay', suspended', k.kind, k.on, a)
  <2>1. CASE Reply(c, Unauthorized)
    BY <2>1, RefusalTells
  <2>2. CASE Handle(c) /\ k.kind = "confirm"
    BY <1>1, <2>2, ConfirmTells DEF Handle, Honest
  <2>3. CASE Handle(c) /\ k.kind = "submit"
    BY <1>1, <2>3, SubmitTells DEF Handle, Honest
  <2>4. CASE Handle(c) /\ k.kind = "report"
    BY <2>4, ReportTells DEF Handle
  <2>5. CASE Handle(c) /\ k.kind \notin {"confirm", "submit", "report"}
    BY <2>5, HandleReplies, OtherwiseTells
  <2> QED
    BY <2>1, <2>2, <2>3, <2>4, <2>5 DEF Serve, ServeCall
<1>3. Stands
  <2>1. CASE UNCHANGED bankVars
    BY <2>1, StandsRest DEF bankVars, paymentVars
  <2> QED
    BY <2>1, HandleStands DEF Serve, ServeCall
<1>4. UNCHANGED page
  BY DEF Serve, tabVars
<1>5. PagesSound'
  BY <1>3, <1>4, SoundStays DEF Truth, PagesSound
<1>6. DOMAIN calls' = Slots /\ \A d \in Slots : d # c => calls'[d] = calls[d]
  BY <1>2 DEF Reply, Truth, CallsHonest
<1>7. /\ Honest(pay', suspended', calls'[c]) /\ calls'[c].tab \in {k.tab, NoTab}
      /\ calls'[c].tab # NoTab => calls'[c].live = k.live /\ calls'[c].kind = k.kind
  <2>1. CASE k.tab = NoTab
    <3>1. calls'[c] = NoCall
      BY <1>2, <2>1 DEF Reply, Truth, CallsHonest
    <3> QED
      BY <3>1, NoCallHonest
  <2>2. CASE k.tab # NoTab
    <3>1. calls'[c] = [k EXCEPT !.ans = a]
      BY <1>2, <2>2 DEF Reply, Truth, CallsHonest
    <3>2. /\ DOMAIN calls'[c] = CallFields /\ calls'[c].ans = a /\ calls'[c].tab = k.tab
          /\ calls'[c].kind = k.kind /\ calls'[c].on = k.on /\ calls'[c].live = k.live
      BY <1>1, <3>1 DEF Honest, CallFields
    <3> QED
      BY <1>1, <1>2, <3>2 DEF Honest
  <2> QED
    BY <2>1, <2>2
<1>8. CallsHonest'
  BY <1>3, <1>4, <1>6, <1>7, HonestStays, BrowserAssumption DEF Truth, CallsHonest
<1> QED
  BY <1>5, <1>8 DEF Truth

-----------------------------------------------------------------------------
(* The user: what he does on a page leaves what it says, or takes it off.  *)

LEMMA TurnTruth ==
  ASSUME Truth, NEW t \in Tabs, NEW pg, Turn(t, pg), Sound(pay, suspended, pg), pg.at = page[t].at
  PROVE  Truth'
<1>1. /\ DOMAIN page' = Tabs /\ page'[t] = pg /\ \A u \in Tabs : u # t => page'[u] = page[u]
      /\ UNCHANGED <<pay, suspended, calls>>
  BY DEF Turn, Truth, PagesSound, bankVars, paymentVars
<1>2. PagesSound'
  BY <1>1 DEF Truth, PagesSound
<1>3. CallsHonest'
  BY <1>1 DEF Truth, CallsHonest
<1> QED
  BY <1>2, <1>3 DEF Truth

LEMMA AskTruth ==
  ASSUME Truth, NEW t \in Tabs, NEW pg, NEW kind, NEW on, NEW with, Ask(t, pg, kind, on, with),
         Sound(pay, suspended, pg), pg.at = page[t].at, Fits(kind, page[t].at),
         kind \in {"initiate", "confirm", "submit"} => on \in Payments
  PROVE  Truth'
<1> DEFINE new == [tab |-> t, kind |-> kind, on |-> on, with |-> with,
                   as |-> token[t], live |-> TRUE, ans |-> Waiting]
<1>1. /\ DOMAIN page' = Tabs /\ page'[t] = pg /\ \A u \in Tabs : u # t => page'[u] = page[u]
      /\ UNCHANGED <<pay, suspended>>
  BY DEF Ask, Truth, PagesSound, bankVars, paymentVars
<1>2. PICK x : calls' = [calls EXCEPT ![x] = new]
  BY DEF Ask
<1>3. /\ Honest(pay, suspended, new)
      /\ new.tab = t /\ new.kind = kind
  BY DEF Honest, CallFields, Tells, Waiting
<1> HIDE DEF new
<1>4. DOMAIN calls' = Slots /\ \A c \in Slots : calls'[c] = calls[c] \/ calls'[c] = new
  BY <1>2 DEF Truth, CallsHonest
<1>5. PagesSound'
  BY <1>1 DEF Truth, PagesSound
<1>6. CallsHonest'
  BY <1>1, <1>3, <1>4 DEF Truth, CallsHonest
<1> QED
  BY <1>5, <1>6 DEF Truth

\* A page that says nothing of a payment or of the account.
LEMMA TurnElsewhere ==
  ASSUME Truth, NEW t \in Tabs, NEW pg, Turn(t, pg), "at" \in DOMAIN pg, pg.at = page[t].at,
         page[t].at \notin {"initiate", "modify", "report"}
  PROVE  Truth'
  BY TurnTruth DEF Sound

LEMMA AskElsewhere ==
  ASSUME Truth, NEW t \in Tabs, NEW pg, NEW kind, NEW on, NEW with, Ask(t, pg, kind, on, with),
         "at" \in DOMAIN pg, pg.at = page[t].at,
         page[t].at \notin {"initiate", "modify", "report"},
         kind \notin {"initiate", "confirm", "submit"}
  PROVE  Truth'
  BY AskTruth DEF Sound, Fits

LEMMA WizardTruth ==
  ASSUME Truth, NEW t \in Tabs, Wizards(t)
  PROVE  Truth'
<1> DEFINE pg == page[t]
<1>1. CASE pg.at # "initiate"
  BY <1>1 DEF Wizards, PickMode, LeaveMode, CancelForm, PressNext, BackToForm, PressConfirm,
     PressSubmit, PressResend, CloseModal, OnWizard
<1>2. CASE pg.at = "initiate"
  <2>1. /\ DOMAIN pg = DOMAIN Wizard /\ pg.draft \in Payments \union {NoPay}
        /\ Told(pay, suspended, pg.final.outcome, pg.final.of) /\ Sound(pay, suspended, pg)
    BY <1>2 DEF Truth, PagesSound, Sound
  <2>2. ASSUME NEW q, Turn(t, q), DOMAIN q = DOMAIN Wizard, q.at = "initiate",
               q.draft \in {pg.draft, NoPay}, q.final \in {pg.final, NoShown}
        PROVE  Truth'
    <3>1. Told(pay, suspended, q.final.outcome, q.final.of)
      BY <2>1, <2>2 DEF Told, NoShown
    <3>2. Sound(pay, suspended, q)
      BY <2>1, <2>2, <3>1 DEF Sound, Wizard
    <3> QED
      BY <1>2, <2>2, <3>2, TurnTruth
  <2>3. ASSUME NEW q, NEW kind, NEW on, NEW with, Ask(t, q, kind, on, with),
               q = pg \/ q = [pg EXCEPT !.busy = TRUE],
               kind \in {"initiate", "confirm", "submit", "resend"}, kind # "resend" => on \in Payments
        PROVE  Truth'
    <3>1. /\ DOMAIN q = DOMAIN Wizard /\ q.at = "initiate" /\ q.draft = pg.draft /\ q.final = pg.final
      BY <1>2, <2>1, <2>3 DEF Wizard
    <3>2. Sound(pay, suspended, q)
      BY <2>1, <3>1 DEF Sound, Wizard
    <3>3. Fits(kind, pg.at)
      BY <1>2, <2>3 DEF Fits
    <3> HIDE DEF pg
    <3> QED
      BY <1>2, <2>3, <3>1, <3>2, <3>3, AskTruth DEF pg
  <2>4. CASE PickMode(t) \/ BackToForm(t) \/ CloseModal(t)
    BY <1>2, <2>1, <2>2, <2>4 DEF PickMode, BackToForm, CloseModal, Wizard
  <2>5. CASE LeaveMode(t)
    BY <1>2, <2>1, <2>2, <2>5 DEF LeaveMode, Emptied, Wizard
  <2>6. CASE CancelForm(t)
    BY <1>2, <2>1, <2>2, <2>6 DEF CancelForm, Emptied, Wizard
  <2>7. CASE PressNext(t)
    BY <2>3, <2>7 DEF PressNext
  <2>8. CASE PressConfirm(t)
    BY <2>1, <2>3, <2>8 DEF PressConfirm
  <2>9. CASE PressSubmit(t)
    BY <2>1, <2>3, <2>9 DEF PressSubmit
  <2>10. CASE PressResend(t)
    BY <2>3, <2>10 DEF PressResend
  <2> QED
    BY <2>4, <2>5, <2>6, <2>7, <2>8, <2>9, <2>10 DEF Wizards
<1> QED
  BY <1>1, <1>2

LEMMA ModifyTruth ==
  ASSUME Truth, NEW t \in Tabs, Modifies(t)
  PROVE  Truth'
<1> DEFINE pg == page[t]
<1>1. CASE pg.at # "modify"
  BY <1>1 DEF Modifies, OpenSend, OpenEdit, OpenDelete, SubmitSend, CloseSend, SaveEdit, CloseEdit,
     PressDelete, CloseDelete, OnRows
<1>2. CASE pg.at = "modify"
  <2>1. /\ DOMAIN pg = DOMAIN Dialogs /\ pg.send \in Payments \union {NoPay}
        /\ Told(pay, suspended, pg.done.outcome, pg.done.of)
    BY <1>2 DEF Truth, PagesSound, Sound
  <2>2. ASSUME NEW q, DOMAIN q = DOMAIN Dialogs, q.at = "modify",
               q.send \in Payments \union {NoPay}, q.done \in {pg.done, NoShown}
        PROVE  Sound(pay, suspended, q)
    <3>1. Told(pay, suspended, q.done.outcome, q.done.of)
      BY <2>1, <2>2 DEF Told, NoShown
    <3> QED
      BY <2>1, <2>2, <3>1 DEF Sound, Dialogs
  <2>3. ASSUME NEW q, Turn(t, q), DOMAIN q = DOMAIN Dialogs, q.at = "modify",
               q.send \in {pg.send, NoPay}, q.done \in {pg.done, NoShown}
        PROVE  Truth'
    BY <1>2, <2>1, <2>2, <2>3, TurnTruth
  <2>4. ASSUME NEW q, NEW kind, NEW on, NEW with, Ask(t, q, kind, on, with),
               DOMAIN q = DOMAIN Dialogs, q.at = "modify",
               q.send \in Payments \union {NoPay}, q.done \in {pg.done, NoShown},
               kind \in {"confirm", "submit", "update", "remove"},
               kind \in {"confirm", "submit"} => on \in Payments
        PROVE  Truth'
    <3>1. Fits(kind, page[t].at)
      BY <1>2, <2>4 DEF Fits
    <3>2. Sound(pay, suspended, q)
      BY <2>2, <2>4
    <3> QED
      BY <1>2, <2>4, <3>1, <3>2, AskTruth
  <2>5. ASSUME NEW p \in Payments, OpenSend(t, p) PROVE Truth'
    <3> DEFINE q == [pg EXCEPT !.send = p, !.conf = NoConf, !.done = NoShown, !.busy = TRUE]
    <3>1. DOMAIN q = DOMAIN Dialogs /\ q.at = "modify" /\ q.send = p /\ q.done = NoShown
      BY <1>2, <2>1 DEF Dialogs
    <3>2. Ask(t, q, "confirm", p, Nothing)
      BY <2>5 DEF OpenSend
    <3> HIDE DEF q
    <3> QED
      BY <2>4, <3>1, <3>2
  <2>6. ASSUME NEW p, OpenEdit(t, p) \/ OpenDelete(t, p) PROVE Truth'
    BY <1>2, <2>1, <2>3, <2>6 DEF OpenEdit, OpenDelete, Dialogs
  <2>7. CASE SubmitSend(t)
    BY <1>2, <2>1, <2>4, <2>7 DEF SubmitSend, Dialogs
  <2>8. CASE CloseSend(t)
    BY <1>2, <2>1, <2>3, <2>8 DEF CloseSend, Dialogs
  <2>9. CASE SaveEdit(t)
    BY <1>2, <2>1, <2>4, <2>9 DEF SaveEdit, Dialogs
  <2>10. CASE CloseEdit(t) \/ CloseDelete(t)
    BY <1>2, <2>1, <2>3, <2>10 DEF CloseEdit, CloseDelete, Dialogs
  <2>11. CASE PressDelete(t)
    BY <1>2, <2>1, <2>4, <2>11 DEF PressDelete
  <2> QED
    BY <2>5, <2>6, <2>7, <2>8, <2>9, <2>10, <2>11 DEF Modifies
<1> QED
  BY <1>1, <1>2

LEMMA PayeeTruth ==
  ASSUME Truth, NEW t \in Tabs, Payeeing(t)
  PROVE  Truth'
<1>1. "at" \in DOMAIN page[t]
  BY DEF Truth, PagesSound, Sound
<1>2. CASE StartAdd(t) \/ StartEdit(t) \/ CancelPayee(t)
  BY <1>1, <1>2, TurnElsewhere DEF StartAdd, StartEdit, CancelPayee, Maintenance
<1>3. CASE PressFetch(t) \/ SubmitForm(t)
  BY <1>1, <1>3, AskElsewhere DEF PressFetch, SubmitForm, OnForm
<1>4. CASE TypeInto(t) \/ FormNext(t) \/ FormBack(t)
  BY <1>1, <1>4, TurnElsewhere DEF TypeInto, FormNext, FormBack, OnForm
<1>5. CASE Toggle(t) \/ OpenErase(t) \/ CloseErase(t)
  BY <1>1, <1>5, TurnElsewhere DEF Toggle, OpenErase, CloseErase
<1>6. CASE PressErase(t)
  BY <1>1, <1>6, AskElsewhere DEF PressErase
<1>7. ASSUME NEW kind \in {"activate", "refuse"}, PressActivate(t, kind) PROVE Truth'
  BY <1>1, <1>7, AskElsewhere DEF PressActivate
<1> QED
  BY <1>2, <1>3, <1>4, <1>5, <1>6, <1>7 DEF Payeeing

LEMMA IdentityTruth ==
  ASSUME Truth, NEW t \in Tabs, Identity(t)
  PROVE  Truth'
<1>1. "at" \in DOMAIN page[t]
  BY DEF Truth, PagesSound, Sound
<1>2. CASE RequestCode(t) \/ UseCode(t) \/ ResendCode(t)
  BY <1>1, <1>2, AskElsewhere DEF RequestCode, UseCode, ResendCode, OnRecovery
<1>3. CASE ChangePassword(t) \/ Generate(t) \/ ResetWithOtp(t) \/ SaveContact(t)
  BY <1>1, <1>3, AskElsewhere DEF ChangePassword, Generate, ResetWithOtp, SaveContact
<1>4. CASE EditContact(t) \/ CancelContact(t) \/ RequestSave(t) \/ CloseConfirm(t)
  BY <1>1, <1>4, TurnElsewhere DEF EditContact, CancelContact, RequestSave, CloseConfirm
<1> QED
  BY <1>2, <1>3, <1>4 DEF Identity

LEMMA OtherTruth ==
  ASSUME Truth, NEW t \in Tabs, Others(t)
  PROVE  Truth'
<1>1. "at" \in DOMAIN page[t]
  BY DEF Truth, PagesSound, Sound
<1>2. ASSUME NEW p, NEW kind \in {"release", "reject"}, PressReview(t, p, kind) PROVE Truth'
  BY <1>1, <1>2, AskElsewhere DEF PressReview
<1>3. CASE ApplyPreset(t)
  BY <1>1, <1>3, TurnElsewhere DEF ApplyPreset
<1>4. CASE PressScore(t) \/ PressLogin(t)
  BY <1>1, <1>4, AskElsewhere DEF PressScore, PressLogin
<1>5. CASE RunAll(t)
  <2> DEFINE q == [page[t] EXCEPT !.busy = TRUE, !.results = {}]
  <2>1. page[t].at = "command" /\ "at" \in DOMAIN q /\ q.at = page[t].at
    BY <1>1, <1>5 DEF RunAll
  <2>2. Ask(t, q, "watch", Nothing, 1)
    BY <1>5 DEF RunAll
  <2> HIDE DEF q
  <2> QED
    BY <2>1, <2>2, AskElsewhere
<1>6. CASE PressReport(t)
  <2> DEFINE q == [page[t] EXCEPT !.busy = TRUE]
  <2>1. page[t].at = "report" /\ Ask(t, q, "report", Nothing, Nothing)
    BY <1>6 DEF PressReport
  <2>2. DOMAIN page[t] = {"at", "result", "busy"} /\ (page[t].result => suspended)
    BY <2>1 DEF Truth, PagesSound, Sound
  <2>3. DOMAIN q = {"at", "result", "busy"} /\ q.at = "report" /\ q.result = page[t].result
    BY <2>1, <2>2
  <2> HIDE DEF q
  <2>4. Sound(pay, suspended, q)
    BY <2>2, <2>3 DEF Sound
  <2> QED
    BY <2>1, <2>3, <2>4, AskTruth DEF Fits
<1> QED
  BY <1>2, <1>3, <1>4, <1>5, <1>6 DEF Others

-----------------------------------------------------------------------------
(* Moving between pages.                                                   *)

\* A page is mounted; what the old one has asked for is kept, or forgotten.
LEMMA MountTruth ==
  ASSUME Truth, NEW t \in Tabs, NEW at, page' = [page EXCEPT ![t] = Mounted(at)],
         UNCHANGED <<pay, suspended>>, DOMAIN calls' = Slots,
         \A c \in Slots :
           \/ calls[c].tab # t /\ calls'[c] = calls[c]
           \/ /\ Honest(pay, suspended, calls'[c]) /\ calls'[c].tab \in Tabs \union {NoTab}
              /\ calls'[c].tab = NoTab \/ (calls'[c].tab = t /\ ~calls'[c].live)
  PROVE  Truth'
<1>1. /\ DOMAIN page' = Tabs /\ page'[t] = Mounted(at)
      /\ \A u \in Tabs : u # t => page'[u] = page[u]
  BY DEF Truth, PagesSound
<1>2. PagesSound'
  BY <1>1, MountedSound DEF Truth, PagesSound
<1>3. CallsHonest'
  BY <1>1, BrowserAssumption DEF Truth, CallsHonest
<1> QED
  BY <1>2, <1>3 DEF Truth

LEMMA UnmountedHonest ==
  ASSUME NEW t \in Tabs, NEW all, \A c \in Slots : Honest(pay, suspended, all[c])
  PROVE  /\ DOMAIN Unmounted(t, all) = Slots
         /\ \A c \in Slots :
              \/ all[c].tab # t /\ Unmounted(t, all)[c] = all[c]
              \/ /\ Honest(pay, suspended, Unmounted(t, all)[c])
                 /\ Unmounted(t, all)[c].tab = t /\ ~Unmounted(t, all)[c].live
<1>1. ASSUME NEW c \in Slots, all[c].tab = t
      PROVE  /\ Honest(pay, suspended, Unmounted(t, all)[c])
             /\ Unmounted(t, all)[c].tab = t /\ ~Unmounted(t, all)[c].live
  <2> DEFINE k == [all[c] EXCEPT !.live = FALSE]
  <2>1. Unmounted(t, all)[c] = k
    BY <1>1 DEF Unmounted
  <2>2. /\ DOMAIN k = CallFields /\ k.kind = all[c].kind /\ k.on = all[c].on /\ k.ans = all[c].ans
        /\ k.tab = t /\ ~k.live
    BY <1>1 DEF Honest, CallFields
  <2> HIDE DEF k
  <2> QED
    BY <2>1, <2>2 DEF Honest
<1> QED
  BY <1>1 DEF Unmounted

LEMMA GoneHonest ==
  ASSUME NEW k, Honest(pay, suspended, k)
  PROVE  Honest(pay, suspended, Gone(k)) /\ Gone(k).tab = NoTab
<1>1. CASE k.ans = Waiting
  <2> DEFINE g == [k EXCEPT !.tab = NoTab, !.live = FALSE]
  <2>1. Gone(k) = g
    BY <1>1 DEF Gone
  <2>2. /\ DOMAIN g = CallFields /\ g.kind = k.kind /\ g.on = k.on /\ g.ans = k.ans
        /\ g.tab = NoTab
    BY DEF Honest, CallFields
  <2> HIDE DEF g
  <2> QED
    BY <2>1, <2>2 DEF Honest
<1>2. CASE k.ans # Waiting
  BY <1>2, NoCallHonest DEF Gone
<1> QED
  BY <1>1, <1>2

LEMMA PushTruth ==
  ASSUME Truth, NEW t \in Tabs, NEW at, Push(t, at)
  PROVE  Truth'
<1>1. /\ page' = [page EXCEPT ![t] = Mounted(at)] /\ calls' = Unmounted(t, calls)
      /\ UNCHANGED <<pay, suspended>>
  BY DEF Push, bankVars, paymentVars
<1>2. /\ DOMAIN calls' = Slots
      /\ \A c \in Slots :
           \/ calls[c].tab # t /\ calls'[c] = calls[c]
           \/ Honest(pay, suspended, calls'[c]) /\ calls'[c].tab = t /\ ~calls'[c].live
  BY <1>1, UnmountedHonest DEF Truth, CallsHonest
<1> QED
  BY <1>1, <1>2, MountTruth

LEMMA ReloadTruth ==
  ASSUME Truth, NEW t \in Tabs, NEW at, Reload(t, at)
  PROVE  Truth'
<1>1. /\ page' = [page EXCEPT ![t] = Mounted(at)] /\ UNCHANGED <<pay, suspended>>
      /\ DOMAIN calls' = Slots
      /\ \A c \in Slots : calls'[c] = IF calls[c].tab = t THEN Gone(calls[c]) ELSE calls[c]
  BY DEF Reload, Discarded, bankVars, paymentVars
<1>2. \A c \in Slots :
        \/ calls[c].tab # t /\ calls'[c] = calls[c]
        \/ Honest(pay, suspended, calls'[c]) /\ calls'[c].tab = NoTab
  BY <1>1, GoneHonest DEF Truth, CallsHonest
<1> QED
  BY <1>1, <1>2, MountTruth

\* The rows and the pages stay, and so do the requests.
LEMMA TruthStays ==
  ASSUME Truth, Stands, UNCHANGED <<page, calls>>
  PROVE  Truth'
<1>1. PagesSound'
  BY SoundStays DEF Truth, PagesSound
<1>2. CallsHonest'
  BY HonestStays DEF Truth, CallsHonest
<1> QED
  BY <1>1, <1>2 DEF Truth

LEMMA MoveTruth ==
  ASSUME Truth, NEW t \in Tabs, Moves(t)
  PROVE  Truth'
<1>1. CASE UNCHANGED <<bankVars, page, calls>>
  BY <1>1, StandsRest, TruthStays DEF bankVars, paymentVars
<1> QED
  BY <1>1, PushTruth, ReloadTruth DEF Moves, Visit, OpenUrl, Logout, Expire, Refresh, Bounce

-----------------------------------------------------------------------------
(* Answers.                                                                *)

LEMMA WizardSound ==
  ASSUME NEW pg, NEW k, Sound(pay, suspended, pg), pg.at = "initiate",
         Honest(pay, suspended, k), Fits(k.kind, "initiate")
  PROVE  Sound(pay, suspended, WizardAfter(pg, k)) /\ WizardAfter(pg, k).at = "initiate"
<1> DEFINE q == WizardAfter(pg, k)
<1>1. /\ DOMAIN pg = DOMAIN Wizard /\ pg.draft \in Payments \union {NoPay}
      /\ Told(pay, suspended, pg.final.outcome, pg.final.of)
  BY DEF Sound
<1>2. k.kind \in {"initiate", "confirm", "submit", "resend"}
  BY DEF Fits
<1>3. ASSUME NEW r, DOMAIN r = DOMAIN Wizard, r.at = "initiate", r.draft \in Payments \union {NoPay},
             Told(pay, suspended, r.final.outcome, r.final.of)
      PROVE  Sound(pay, suspended, r)
  BY <1>3 DEF Sound, Wizard
<1>4. CASE k.kind = "resend" \/ ~Ok(k)
  <2>1. q = pg \/ q = [pg EXCEPT !.conf.otp = k.ans.got] \/ q = [pg EXCEPT !.busy = FALSE]
    BY <1>4 DEF WizardAfter
  <2>2. DOMAIN q = DOMAIN Wizard /\ q.at = "initiate" /\ q.draft = pg.draft /\ q.final = pg.final
    BY <1>1, <2>1 DEF Wizard
  <2> QED
    BY <1>1, <1>3, <2>2
<1>5. CASE k.kind = "initiate" /\ Ok(k)
  <2>1. q = [[pg EXCEPT !.busy = FALSE] EXCEPT !.draft = k.on, !.step = 1]
    BY <1>5 DEF WizardAfter
  <2>2. DOMAIN q = DOMAIN Wizard /\ q.at = "initiate" /\ q.draft = k.on /\ q.final = pg.final
    BY <1>1, <2>1 DEF Wizard
  <2> QED
    BY <1>1, <1>3, <1>5, <2>2 DEF Honest
<1>6. CASE k.kind = "submit" /\ Ok(k)
  <2>1. q = [[pg EXCEPT !.busy = FALSE] EXCEPT !.final = ShownAfter(k), !.open = FALSE, !.step = 2]
    BY <1>6 DEF WizardAfter
  <2>2. DOMAIN q = DOMAIN Wizard /\ q.at = "initiate" /\ q.draft = pg.draft /\ q.final = ShownAfter(k)
    BY <1>1, <2>1 DEF Wizard
  <2>3. Told(pay, suspended, q.final.outcome, q.final.of)
    BY <1>6, <2>2 DEF ShownAfter, Honest, Tells, Told, Ok
  <2> QED
    BY <1>1, <1>3, <2>2, <2>3
<1>7. CASE k.kind = "confirm" /\ Ok(k)
  <2>1. \/ q = [[pg EXCEPT !.busy = FALSE] EXCEPT !.conf = ConfOf(k), !.open = TRUE]
        \/ q = [[pg EXCEPT !.busy = FALSE] EXCEPT !.conf = ConfOf(k), !.final = ShownOf(k), !.step = 2]
    BY <1>7 DEF WizardAfter
  <2>2. /\ DOMAIN q = DOMAIN Wizard /\ q.at = "initiate" /\ q.draft = pg.draft
        /\ q.final \in {pg.final, ShownOf(k)}
    BY <1>1, <2>1 DEF Wizard
  <2>3. Told(pay, suspended, q.final.outcome, q.final.of)
    BY <1>1, <1>7, <2>2 DEF ShownOf, Honest, Tells, Ok
  <2> QED
    BY <1>1, <1>3, <2>2, <2>3
<1> QED
  BY <1>2, <1>4, <1>5, <1>6, <1>7

LEMMA ModifySound ==
  ASSUME NEW pg, NEW k, Sound(pay, suspended, pg), pg.at = "modify",
         Honest(pay, suspended, k), Fits(k.kind, "modify")
  PROVE  Sound(pay, suspended, ModifyAfter(pg, k)) /\ ModifyAfter(pg, k).at = "modify"
<1> DEFINE q == ModifyAfter(pg, k)
<1>1. /\ DOMAIN pg = DOMAIN Dialogs /\ pg.send \in Payments \union {NoPay}
      /\ Told(pay, suspended, pg.done.outcome, pg.done.of)
  BY DEF Sound
<1>2. k.kind \in {"confirm", "submit", "update", "remove"}
  BY DEF Fits
<1>3. ASSUME NEW r, DOMAIN r = DOMAIN Dialogs, r.at = "modify", r.send \in Payments \union {NoPay},
             r.done = pg.done \/ (k.kind \in {"confirm", "submit"} /\ Ok(k) /\ r.done = ShownOf(k))
      PROVE  Sound(pay, suspended, r)
  <2>1. Told(pay, suspended, r.done.outcome, r.done.of)
    BY <1>1, <1>3 DEF ShownOf, Honest, Tells, Ok
  <2> QED
    BY <1>3, <2>1 DEF Sound, Dialogs
<1>4. CASE k.kind = "remove"
  <2>1. q = pg \/ q = [pg EXCEPT !.del = NoPay]
    BY <1>4 DEF ModifyAfter
  <2> QED
    BY <1>1, <1>3, <2>1 DEF Dialogs
<1>5. CASE k.kind = "update"
  <2>1. q = [pg EXCEPT !.saving = FALSE, !.edit = IF Ok(k) THEN NoPay ELSE @]
    BY <1>5 DEF ModifyAfter
  <2>2. DOMAIN q = DOMAIN Dialogs /\ q.at = "modify" /\ q.send = pg.send /\ q.done = pg.done
    BY <1>1, <2>1 DEF Dialogs
  <2> QED
    BY <1>1, <1>3, <2>2
<1>6. CASE k.kind = "submit"
  <2>1. q = [pg EXCEPT !.busy = FALSE, !.done = IF Ok(k) THEN ShownOf(k) ELSE @]
    BY <1>6 DEF ModifyAfter
  <2>2. /\ DOMAIN q = DOMAIN Dialogs /\ q.at = "modify" /\ q.send = pg.send
        /\ q.done = IF Ok(k) THEN ShownOf(k) ELSE pg.done
    BY <1>1, <2>1 DEF Dialogs
  <2> QED
    BY <1>1, <1>3, <1>6, <2>2
<1>7. CASE k.kind = "confirm" /\ ~Ok(k)
  <2>1. q = [pg EXCEPT !.busy = FALSE, !.send = NoPay]
    BY <1>7 DEF ModifyAfter
  <2>2. DOMAIN q = DOMAIN Dialogs /\ q.at = "modify" /\ q.send = NoPay /\ q.done = pg.done
    BY <1>1, <2>1 DEF Dialogs
  <2> QED
    BY <1>3, <2>2
<1>8. CASE k.kind = "confirm" /\ Ok(k)
  <2>1. q = [pg EXCEPT !.busy = FALSE, !.conf = ConfOf(k),
                       !.done = IF Challenged(k.ans.got.outcome) THEN @ ELSE ShownOf(k)]
    BY <1>8 DEF ModifyAfter
  <2>2. /\ DOMAIN q = DOMAIN Dialogs /\ q.at = "modify" /\ q.send = pg.send
        /\ q.done = IF Challenged(k.ans.got.outcome) THEN pg.done ELSE ShownOf(k)
    BY <1>1, <2>1 DEF Dialogs
  <2> QED
    BY <1>1, <1>3, <1>8, <2>2
<1> QED
  BY <1>2, <1>4, <1>5, <1>6, <1>7, <1>8

LEMMA ReportSound ==
  ASSUME NEW pg, NEW k, Sound(pay, suspended, pg), pg.at = "report",
         Honest(pay, suspended, k), Fits(k.kind, "report")
  PROVE  Sound(pay, suspended, ReportAfter(pg, k)) /\ ReportAfter(pg, k).at = "report"
<1>1. DOMAIN pg = {"at", "result", "busy"} /\ (pg.result => suspended)
  BY DEF Sound
<1>2. Ok(k) => suspended
  BY DEF Fits, Honest, Tells, Ok
<1>3. /\ DOMAIN ReportAfter(pg, k) = {"at", "result", "busy"} /\ ReportAfter(pg, k).at = "report"
      /\ ReportAfter(pg, k).result = (pg.result \/ Ok(k))
  BY <1>1 DEF ReportAfter
<1> QED
  BY <1>1, <1>2, <1>3 DEF Sound

LEMMA AfterSound ==
  ASSUME NEW pg, NEW k, Sound(pay, suspended, pg), Honest(pay, suspended, k), Fits(k.kind, pg.at)
  PROVE  Sound(pay, suspended, After(pg, k)) /\ After(pg, k).at = pg.at
<1>1. CASE pg.at = "initiate"
  <2>1. After(pg, k) = WizardAfter(pg, k)
    BY <1>1 DEF After, Recovering
  <2> QED
    BY <1>1, <2>1, WizardSound
<1>2. CASE pg.at = "modify"
  <2>1. After(pg, k) = ModifyAfter(pg, k)
    BY <1>2 DEF After, Recovering
  <2> QED
    BY <1>2, <2>1, ModifySound
<1>3. CASE pg.at = "report"
  <2>1. After(pg, k) = ReportAfter(pg, k)
    BY <1>3 DEF After, Recovering
  <2> QED
    BY <1>3, <2>1, ReportSound
<1>4. CASE pg.at \notin {"initiate", "modify", "report"}
  <2>1. SUFFICES "at" \in DOMAIN After(pg, k) /\ After(pg, k).at = pg.at
    BY <1>4 DEF Sound
  <2>2. "at" \in DOMAIN pg
    BY DEF Sound
  <2>3. CASE pg.at = "maintenance"
    <3>1. After(pg, k) = MaintenanceAfter(pg, k)
      BY <2>3 DEF After, Recovering
    <3> QED
      BY <2>2, <2>3, <3>1 DEF MaintenanceAfter, Maintenance
  <2>4. CASE pg.at \in {"activate", "delete"}
    <3>1. After(pg, k) = ListAfter(pg, k)
      BY <2>4 DEF After, Recovering
    <3>2. \/ After(pg, k) = pg
          \/ After(pg, k) = [pg EXCEPT !.selected = {}, !.confirm = FALSE]
          \/ After(pg, k) = [pg EXCEPT !.selected = {}]
      BY <3>1 DEF ListAfter
    <3> QED
      BY <2>2, <3>2
  <2>5. CASE pg.at \in {"console", "command"}
    <3>1. After(pg, k) \in {ConsoleAfter(pg, k), CommandAfter(pg, k)}
      BY <2>5 DEF After, Recovering
    <3> QED
      BY <2>2, <3>1 DEF ConsoleAfter, CommandAfter
  <2>6. CASE pg.at \in Recovering
    <3>1. After(pg, k) = RecoverAfter(pg, k)
      BY <2>6 DEF After, Recovering
    <3>2. CASE k.kind \in {"resend", "resettxn"}
      BY <2>2, <3>1, <3>2 DEF RecoverAfter
    <3>3. CASE k.kind = "profile"
      BY <2>2, <3>1, <3>3 DEF RecoverAfter
    <3>4. CASE k.kind \in {"askreset", "askunlock"}
      BY <2>2, <3>1, <3>4 DEF RecoverAfter
    <3>5. CASE k.kind \notin {"resend", "resettxn", "profile", "askreset", "askunlock"}
      BY <2>2, <3>1, <3>5 DEF RecoverAfter
    <3> QED
      BY <3>2, <3>3, <3>4, <3>5
  <2>7. CASE pg.at \notin Recovering \union {"maintenance", "activate", "delete", "console", "command"}
    <3>1. After(pg, k) = [pg EXCEPT !.busy = FALSE]
      BY <1>4, <2>7 DEF After
    <3> QED
      BY <2>2, <3>1
  <2> QED
    BY <2>3, <2>4, <2>5, <2>6, <2>7
<1> QED
  BY <1>1, <1>2, <1>3, <1>4

\* The answer k of request c, whose slot is then empty, or holds the next one
\* of the loop.
LEMMA ContinueTruth ==
  ASSUME Truth, NEW c \in Slots, NEW t \in Tabs, NEW k, NEW rest, Continue(t, c, k, rest),
         calls[c].tab = t, k.tab = t, k.kind = calls[c].kind, k.live = calls[c].live,
         Honest(pay, suspended, k),
         DOMAIN rest = Slots, \A d \in Slots : d # c => rest[d] = calls[d],
         Honest(pay, suspended, rest[c]), rest[c].tab = NoTab
  PROVE  Truth'
<1>0. UNCHANGED <<pay, suspended>>
  BY DEF Continue, bankVars, paymentVars
<1>1. \A d \in Slots : Honest(pay, suspended, rest[d])
  BY DEF Truth, CallsHonest
<1>2. CASE Ok(k) /\ k.kind \in {"login", "reset", "unlock"}
  <2>1. PICK at : page' = [page EXCEPT ![t] = Mounted(at)]
    BY <1>2 DEF Continue
  <2>2. calls' = Unmounted(t, rest)
    BY <1>2 DEF Continue
  <2>3. /\ DOMAIN calls' = Slots
        /\ \A d \in Slots :
             \/ rest[d].tab # t /\ calls'[d] = rest[d]
             \/ Honest(pay, suspended, calls'[d]) /\ calls'[d].tab = t /\ ~calls'[d].live
    BY <1>1, <2>2, UnmountedHonest
  <2>4. \A d \in Slots :
           \/ calls[d].tab # t /\ calls'[d] = calls[d]
           \/ /\ Honest(pay, suspended, calls'[d]) /\ calls'[d].tab \in Tabs \union {NoTab}
              /\ calls'[d].tab = NoTab \/ (calls'[d].tab = t /\ ~calls'[d].live)
    BY <1>1, <2>3
  <2> QED
    BY <1>0, <2>1, <2>3, <2>4, MountTruth
<1>3. CASE ~(Ok(k) /\ k.kind \in {"login", "reset", "unlock"})
  <2> DEFINE again == [k EXCEPT !.with = @ + 1, !.as = token[t], !.ans = Waiting]
  <2>1. page' = [page EXCEPT ![t] = IF k.live THEN After(page[t], k) ELSE page[t]]
    BY <1>3 DEF Continue
  <2>2. calls' = rest \/ calls' = [rest EXCEPT ![c] = again]
    BY <1>3 DEF Continue
  <2>3. /\ DOMAIN again = CallFields /\ again.tab = t /\ again.kind = k.kind
        /\ again.on = k.on /\ again.live = k.live /\ again.ans = Waiting
    BY DEF Honest, CallFields
  <2> HIDE DEF again
  <2>4. Honest(pay, suspended, again)
    BY <2>3 DEF Honest, Tells, Waiting
  <2>5. k.live => Fits(k.kind, page[t].at)
    BY DEF Truth, CallsHonest
  <2>6. Sound(pay, suspended, page[t])
    BY DEF Truth, PagesSound
  <2>7. /\ DOMAIN page' = Tabs /\ \A u \in Tabs : u # t => page'[u] = page[u]
        /\ Sound(pay, suspended, page'[t]) /\ page'[t].at = page[t].at
    BY <2>1, <2>5, <2>6, AfterSound DEF Truth, PagesSound
  <2>8. PagesSound'
    BY <1>0, <2>7 DEF Truth, PagesSound
  <2>9. /\ DOMAIN calls' = Slots /\ \A d \in Slots : d # c => calls'[d] = calls[d]
        /\ Honest(pay, suspended, calls'[c])
        /\ \/ calls'[c].tab = NoTab
           \/ calls'[c].tab = t /\ calls'[c].kind = k.kind /\ calls'[c].live = k.live
    BY <2>2, <2>3, <2>4
  <2>10. CallsHonest'
    BY <1>0, <2>5, <2>7, <2>9, BrowserAssumption DEF Truth, CallsHonest
  <2> QED
    BY <2>8, <2>10 DEF Truth
<1> QED
  BY <1>2, <1>3

LEMMA AnswerTruth ==
  ASSUME Truth, NEW c \in Slots, Answer(c)
  PROVE  Truth'
<1> DEFINE k == calls[c]
           t == calls[c].tab
           rest == [calls EXCEPT ![c] = NoCall]
<1>1. t \in Tabs /\ Honest(pay, suspended, k)
  BY DEF Answer, Truth, CallsHonest
<1>2. CASE Bounce(t)
  BY <1>1, <1>2, ReloadTruth DEF Bounce
<1>3. CASE Continue(t, c, k, rest)
  <2>1. /\ DOMAIN rest = Slots /\ \A d \in Slots : d # c => rest[d] = calls[d]
        /\ rest[c] = NoCall
    BY DEF Truth, CallsHonest
  <2>2. Honest(pay, suspended, rest[c]) /\ rest[c].tab = NoTab
    BY <2>1, NoCallHonest
  <2>3. k.tab = t /\ k.kind = calls[c].kind /\ k.live = calls[c].live /\ calls[c].tab = t
    OBVIOUS
  <2> HIDE DEF k, t, rest
  <2> QED
    BY <1>1, <1>3, <2>1, <2>2, <2>3, ContinueTruth
<1> QED
  BY <1>2, <1>3 DEF Answer

LEMMA BreakTruth ==
  ASSUME Truth, NEW c \in Slots, Break(c)
  PROVE  Truth'
<1> DEFINE t == calls[c].tab
           k == [calls[c] EXCEPT !.ans = Refusal]
           rest == [calls EXCEPT ![c] = Gone(calls[c])]
<1>1. t \in Tabs /\ Honest(pay, suspended, calls[c]) /\ DOMAIN calls = Slots
  BY DEF Break, Truth, CallsHonest
<1>2. /\ DOMAIN k = CallFields /\ k.tab = t /\ k.kind = calls[c].kind /\ k.live = calls[c].live
      /\ k.on = calls[c].on /\ k.ans = Refusal
  BY <1>1 DEF CallFields, Honest
<1>3. DOMAIN rest = Slots /\ (\A d \in Slots : d # c => rest[d] = calls[d]) /\ rest[c] = Gone(calls[c])
  BY <1>1
<1>4. Continue(t, c, k, rest)
  BY DEF Break
<1>5. calls[c].tab = t
  OBVIOUS
<1> HIDE DEF t, k, rest
<1>6. Honest(pay, suspended, k)
  BY <1>1, <1>2, RefusalTells DEF Honest
<1>7. Honest(pay, suspended, rest[c]) /\ rest[c].tab = NoTab
  BY <1>1, <1>3, GoneHonest
<1> QED
  BY <1>1, <1>2, <1>3, <1>4, <1>5, <1>6, <1>7, ContinueTruth

LEMMA VanishTruth ==
  ASSUME Truth, NEW c \in Slots, Vanish(c)
  PROVE  Truth'
<1>1. /\ DOMAIN calls' = Slots /\ \A d \in Slots : d # c => calls'[d] = calls[d]
      /\ calls'[c] = NoCall /\ UNCHANGED <<page, pay, suspended>>
  BY DEF Vanish, tabVars, bankVars, paymentVars, Truth, CallsHonest
<1>2. PagesSound'
  BY <1>1 DEF Truth, PagesSound
<1>3. CallsHonest'
  BY <1>1, NoCallHonest, BrowserAssumption DEF Truth, CallsHonest
<1> QED
  BY <1>2, <1>3 DEF Truth

LEMMA TruthNext == RowsVetted /\ Truth /\ [Next]_vars => Truth'
<1> SUFFICES ASSUME RowsVetted, Truth, [Next]_vars PROVE Truth'
  OBVIOUS
<1>1. CASE UNCHANGED <<pay, suspended, page, calls>>
  BY <1>1, StandsRest, TruthStays
<1>2. ASSUME NEW b \in Payees, Age(b) PROVE Truth'
  BY <1>1, <1>2 DEF Age, paymentVars, tabVars
<1>3. CASE UNCHANGED vars
  BY <1>1, <1>3 DEF vars, bankVars, paymentVars, tabVars
<1>4. ASSUME NEW t \in Tabs,
             Wizards(t) \/ Modifies(t) \/ Payeeing(t) \/ Identity(t) \/ Others(t) \/ Moves(t)
      PROVE  Truth'
  BY <1>4, WizardTruth, ModifyTruth, PayeeTruth, IdentityTruth, OtherTruth, MoveTruth
<1>5. ASSUME NEW c \in Slots, Serve(c) \/ Answer(c) \/ Break(c) \/ Vanish(c) PROVE Truth'
  BY <1>5, ServeTruth, AnswerTruth, BreakTruth, VanishTruth
<1> QED
  BY <1>2, <1>3, <1>4, <1>5 DEF Next

\* A page that says a payment is blocked or completed, or the account frozen,
\* tells what the backend has done: whichever of the answers it shows are late,
\* and whatever else has been asked for since.
THEOREM PagesTellTheTruth == Spec => []OutcomeTruthful
<1>1. Spec => []RowsVetted
  BY RowsInit, RowsNext, PTL DEF Spec
<1>2. Spec => []Truth
  BY <1>1, TruthInit, TruthNext, PTL DEF Spec
<1> QED
  BY <1>2, TruthTells, PTL

=============================================================================
