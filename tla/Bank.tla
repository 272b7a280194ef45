-------------------------------- MODULE Bank --------------------------------
(***************************************************************************)
(* The backend as the browser sees it: a request is in flight until the    *)
(* server has served it and the page has taken its answer.  Each request   *)
(* is served in one step here, to its end or to a statement it dies at; two *)
(* interleaved one statement at a time are the subject of module Payments. *)
(*                                                                         *)
(* The controllers pass a request on as it is, once JwtAuthGuard has       *)
(* accepted its token.                                                     *)
(***************************************************************************)
EXTENDS Beneficiaries, Scorer, Sequences

CONSTANTS
  Payments,    \* payments, each with the customer reference its form carries
  Amounts,     \* rupees a form may carry
  Limit,       \* per-transaction limit
  Users,       \* users of the customer
  Authorizers, \* those whose role is AUTHORIZER
  Slots,       \* requests that can be in flight at the same time (bound)
  ModelOn,     \* is the scoring model enabled
  NoPay, NoUser, NoTab, Nothing    \* "none" values

ASSUME BankAssumption ==
  /\ Amounts \subseteq Nat \ {0} /\ Limit \in Nat
  /\ Authorizers \subseteq Users /\ NoUser \notin Users
  /\ NoPay \notin Payments /\ ModelOn \in BOOLEAN

VARIABLES
  pay,         \* pay[p]: the row of payment p
  otp,         \* payment challenges in the order of issue: of which payment, used?
  suspended,   \* customer.status = SUSPENDED
  calls        \* calls[c]: the request in slot c, with its answer once it is served

paymentVars == <<pay, otp, suspended>>
bankVars == <<payeeVars, paymentVars>>

Editable == {"NEW", "HELD"}
Submittable == {"NEW", "CHALLENGED"}
Statuses == {"NEW", "HELD", "CHALLENGED", "BLOCKED", "PROCESSING", "COMPLETED",
             "REJECTED", "DELETED"}

\* cool, named and paid are history: the heuristics last found the payee still
\* cooling and the amount big; the account number at initiate; the one paid.
NoPayment == [status |-> "ABSENT", amount |-> 0, to |-> Nothing, approved |-> FALSE,
              cool |-> FALSE, named |-> NoNumber, paid |-> NoNumber]

PaymentRows ==
  [status : Statuses \union {"ABSENT"}, amount : Amounts \union {0}, to : Payees \union {Nothing},
   approved : BOOLEAN, cool : BOOLEAN, named : Numbers \union {NoNumber},
   paid : Numbers \union {NoNumber}]

-----------------------------------------------------------------------------
(* Requests and answers.                                                   *)

\* tab and as: where it comes from and the user its token is for; live: is the
\* page that sent it still mounted; on and with: what it is about.
NoCall == [tab |-> NoTab, kind |-> "none", on |-> Nothing, with |-> Nothing,
           as |-> NoUser, live |-> FALSE, ans |-> [is |-> "none"]]

Waiting == [is |-> "waiting"]
Refusal == [is |-> "refused"]              \* 400, 403, 404, 500
Unauthorized == [is |-> "401"]
Done(x) == [is |-> "done", got |-> x]

\* The answer waits for the page; nobody waits for that of a request whose
\* document is gone.
Reply(c, a) ==
  calls' = [calls EXCEPT ![c] = IF @.tab = NoTab THEN NoCall ELSE [@ EXCEPT !.ans = a]]

Refuse(c) == Reply(c, Refusal) /\ UNCHANGED bankVars

-----------------------------------------------------------------------------
(* The gateway.                                                            *)

\* buildPaymentEvent, the part the heuristics look at.  How many payments the
\* last hour had and what their mean is depends on the customer's history.
Event(p, amount, count, dear) ==
  LET b == pay[p].to IN
  [count |-> count, age |-> payee[b].age, amount |-> amount, dear |-> dear,
   mismatch |-> Mismatch(b)]

Assessments(p, amount) ==
  UNION {Verdicts(Event(p, amount, count, dear), ModelOn) :
           count \in {1, 9, 21}, dear \in BOOLEAN}

StillCooling(p, amount, v) ==
  v.by = "heuristic" /\ payee[pay[p].to].age = "new" /\ amount > 50000

-----------------------------------------------------------------------------
(* PaymentsService.                                                        *)

\* A reference that is used, or a payee that is not active, is refused.
Initiate(c) ==
  LET k == calls[c] IN
  IF pay[k.on].status = "ABSENT" /\ k.with.to \in ActivePayees
  THEN /\ pay' = [pay EXCEPT ![k.on] =
            [NoPayment EXCEPT !.status = "NEW", !.amount = k.with.amount, !.to = k.with.to,
                              !.named = payee[k.with.to].number]]
       /\ Reply(c, Done(k.on))
       /\ UNCHANGED <<payeeVars, otp, suspended>>
  ELSE Refuse(c)

\* A challenge for p, and the answer that names it.
Challenge(c, p, outcome) ==
  /\ otp' = Append(otp, [pay |-> p, used |-> FALSE])
  /\ Reply(c, Done([outcome |-> outcome, otp |-> Len(otp) + 1]))

Verdict(c, outcome) == Reply(c, Done([outcome |-> outcome, otp |-> 0]))

\* It may die after any statement: its verdict is stored, but not acted on; the
\* payment is blocked, the customer frozen or not, and nobody told.  A challenge
\* it issued and did not answer with is not kept: no page can name it.
Confirm(c) ==
  LET p == calls[c].on IN
  IF pay[p].status \notin Editable THEN Refuse(c)
  ELSE IF pay[p].approved
  THEN /\ Challenge(c, p, "OTP") \/ (Reply(c, Refusal) /\ UNCHANGED otp)
       /\ UNCHANGED <<payeeVars, pay, suspended>>
  ELSE \E v \in Assessments(p, pay[p].amount) :
    LET decision == Decide(v.level)
        scored(status) == [pay EXCEPT ![p] =
          [@ EXCEPT !.status = status, !.cool = StillCooling(p, pay[p].amount, v)]]
    IN
    /\ UNCHANGED payeeVars
    /\ \/ /\ decision = "EXECUTE"
          /\ pay' = scored(pay[p].status) /\ Challenge(c, p, "OTP") /\ UNCHANGED suspended
       \/ /\ decision = "CHALLENGE"
          /\ pay' = scored("CHALLENGED") /\ Challenge(c, p, "CHALLENGE") /\ UNCHANGED suspended
       \/ /\ decision = "HOLD"
          /\ pay' = scored("HELD") /\ Verdict(c, "HELD") /\ UNCHANGED <<otp, suspended>>
       \/ /\ decision = "BLOCK"
          /\ pay' = scored("BLOCKED") /\ UNCHANGED otp
          /\ \/ suspended' = TRUE /\ (Verdict(c, "BLOCKED") \/ Reply(c, Refusal))
             \/ UNCHANGED suspended /\ Reply(c, Refusal)
       \/ pay' = scored(pay[p].status) /\ Reply(c, Refusal) /\ UNCHANGED <<otp, suspended>>

\* Wrong password or code, or a challenge that is not there or used up: refused.
\* A challenge of another payment is consumed, and then refused, as one of its
\* own is if the request dies there.  Over the limit or after the cut-off the
\* payment is held; without funds, or if the request dies, it stays PROCESSING.
Settled(p, status) ==
  LET paid == IF status = "COMPLETED" THEN payee[pay[p].to].number ELSE pay[p].paid
  IN  pay' = [pay EXCEPT ![p] = [@ EXCEPT !.status = status, !.paid = paid]]

UnfundedReply(c) == Reply(c, Done([outcome |-> "COMPLETED", otp |-> 0]))   \* mutant
Unfunded(c) == Reply(c, Refusal)

Submit(c) ==
  LET p == calls[c].on
      n == calls[c].with.otp
  IN
  \/ Refuse(c)
  \/ /\ pay[p].status \in Submittable
     /\ n \in DOMAIN otp /\ ~otp[n].used
     /\ otp' = [otp EXCEPT ![n].used = TRUE]
     /\ UNCHANGED <<payeeVars, suspended>>
     /\ \/ Reply(c, Refusal) /\ UNCHANGED pay
        \/ /\ otp[n].pay = p
           /\ \/ Settled(p, "HELD") /\ Verdict(c, "HELD_CUTOFF")
              \/ pay[p].amount <= Limit /\ Settled(p, "COMPLETED") /\ Verdict(c, "COMPLETED")
              \/ Settled(p, "PROCESSING") /\ Unfunded(c)

\* The amount is written first, the new verdict and the approval taken back last:
\* of a request that dies in between only the amount stays.  cool is then what
\* the heuristics would have found.
Update(c) ==
  LET p == calls[c].on
      a == calls[c].with
  IN
  IF pay[p].status \notin Editable THEN Refuse(c)
  ELSE \E v \in Assessments(p, a) :
    /\ \/ /\ pay' = [pay EXCEPT ![p] = [@ EXCEPT !.amount = a, !.approved = FALSE,
                                                 !.cool = StillCooling(p, a, v)]]
          /\ Reply(c, Done(p))
       \/ /\ pay' = [pay EXCEPT ![p] = [@ EXCEPT !.amount = a, !.cool = StillCooling(p, a, v)]]
          /\ Reply(c, Refusal)
    /\ UNCHANGED <<payeeVars, otp, suspended>>

Remove(c) ==
  IF pay[calls[c].on].status \notin Editable THEN Refuse(c)
  ELSE /\ pay' = [pay EXCEPT ![calls[c].on].status = "DELETED"]
       /\ Reply(c, Done(calls[c].on))
       /\ UNCHANGED <<payeeVars, otp, suspended>>

\* AnalystService, for an authorizer and a payment that is still held.  The row
\* is NEW before it is approved, and REJECTED before the model is told.
Review(c) ==
  LET k == calls[c]
      p == k.on
  IN
  IF k.as \notin Authorizers \/ pay[p].status # "HELD" THEN Refuse(c)
  ELSE /\ \/ /\ k.kind = "release"
             /\ \/ /\ pay' = [pay EXCEPT ![p] = [@ EXCEPT !.status = "NEW", !.approved = TRUE]]
                   /\ Reply(c, Done(p))
                \/ /\ pay' = [pay EXCEPT ![p] = [@ EXCEPT !.status = "NEW"]]
                   /\ Reply(c, Refusal)
          \/ /\ k.kind = "reject"
             /\ pay' = [pay EXCEPT ![p] = [@ EXCEPT !.status = "REJECTED"]]
             /\ Reply(c, Done(p)) \/ Reply(c, Refusal)
       /\ UNCHANGED <<payeeVars, otp, suspended>>

\* RecoveryService.resend: a new code under the same request id, unless the
\* challenge is used, too young or at its limit of resends.
Resend(c) ==
  LET n == calls[c].with IN
  /\ \/ Reply(c, Refusal)
     \/ n \in DOMAIN otp /\ ~otp[n].used /\ Reply(c, Done(n))
  /\ UNCHANGED bankVars

-----------------------------------------------------------------------------
(* BeneficiariesService, DisputesService, the model proxy and the login.   *)

KeepPayee(c) ==
  LET k == calls[c] IN
  IF (k.kind = "create") # (payee[k.on].status = "ABSENT") THEN Refuse(c)
  ELSE /\ \/ k.kind = "create" /\ CreatePayee(k.on, k.with.number, k.with.name, k.with.fetched)
          \/ k.kind = "edit" /\ UpdatePayee(k.on, k.with.number, k.with.name)
       /\ Reply(c, Done(k.on))
       /\ UNCHANGED paymentVars

ChangePayees(c) ==
  LET k == calls[c] IN
  /\ \/ k.kind = "activate" /\ ActivatePayees(k.on)
     \/ k.kind = "refuse" /\ RejectPayees(k.on)
     \/ k.kind = "erase" /\ RemovePayees(k.on)
  /\ Reply(c, Done(k.on))
  /\ UNCHANGED paymentVars

FetchName(c) == Reply(c, Done(HolderOf[calls[c].with])) /\ UNCHANGED bankVars

\* report: a form that is not valid is refused.  Else the customer is suspended
\* first, then the case, its note and the mail are written, and any may fail.
Report(c) ==
  \/ Refuse(c)
  \/ /\ suspended' = TRUE
     /\ Reply(c, Refusal) \/ Reply(c, Done("report"))
     /\ UNCHANGED <<payeeVars, pay, otp>>

\* The proxy hands the event on and the model's answer or error back, with the
\* model's own status: a 401, if it does not take the proxy's key.
Score1(c) ==
  /\ \/ Reply(c, Refusal)
     \/ ModelOn /\ Reply(c, Unauthorized)
     \/ ModelOn /\ Reply(c, Done(calls[c].with))
  /\ UNCHANGED bankVars

\* RecoveryService and AuthService, whose rows module Access models: a code may
\* be sent or, for a stranger or a user who is not locked, not; the code is
\* consumed and the new password may be refused after it; the old password may
\* be wrong.  No one compares a challenge with what it was issued for.
SendCode(c) ==
  \/ (Reply(c, Refusal) \/ Reply(c, Done(0))) /\ UNCHANGED bankVars
  \/ /\ otp' = Append(otp, [pay |-> NoPay, used |-> FALSE])
     /\ Reply(c, Done(Len(otp) + 1))
     /\ UNCHANGED <<payeeVars, pay, suspended>>

Recover(c) ==
  LET n == calls[c].with IN
  \/ Refuse(c)
  \/ /\ n \in DOMAIN otp /\ ~otp[n].used
     /\ otp' = [otp EXCEPT ![n].used = TRUE]
     /\ Reply(c, Refusal) \/ Reply(c, Done(n))
     /\ UNCHANGED <<payeeVars, pay, suspended>>

ChangeOwn(c) == (Reply(c, Refusal) \/ Reply(c, Done(calls[c].as))) /\ UNCHANGED bankVars

SignInAnyone(c) == (Reply(c, Done(Nothing)) \/ Reply(c, Unauthorized)) /\ UNCHANGED bankVars  \* mutant
\* The credentials are right, wrong (401) or the user is locked (403).
SignIn(c) ==
  /\ \/ Reply(c, Done(calls[c].with))
     \/ Reply(c, Unauthorized)
     \/ Reply(c, Refusal)
  /\ UNCHANGED bankVars

\* The server serves the request in slot c.  JwtAuthGuard turns a request
\* without a valid token away; the login, the recovery and the proxy need none.
Unguarded == {"login", "resend", "askreset", "askunlock", "reset", "unlock", "resettxn",
              "score", "watch"}

Handle(c) ==
  LET kind == calls[c].kind IN
  \/ kind = "initiate" /\ Initiate(c)
  \/ kind = "confirm" /\ Confirm(c)
  \/ kind = "submit" /\ Submit(c)
  \/ kind = "update" /\ Update(c)
  \/ kind = "remove" /\ Remove(c)
  \/ kind = "resend" /\ Resend(c)
  \/ kind \in {"release", "reject"} /\ Review(c)
  \/ kind \in {"create", "edit"} /\ KeepPayee(c)
  \/ kind \in {"activate", "refuse", "erase"} /\ ChangePayees(c)
  \/ kind = "fetch" /\ FetchName(c)
  \/ kind = "report" /\ Report(c)
  \/ kind \in {"score", "watch"} /\ Score1(c)
  \/ kind \in {"askreset", "askunlock"} /\ SendCode(c)
  \/ kind \in {"reset", "unlock", "resettxn"} /\ Recover(c)
  \/ kind \in {"change", "profile"} /\ ChangeOwn(c)
  \/ kind = "login" /\ SignIn(c)

ServeCall(c) ==
  /\ calls[c].ans = Waiting
  /\ IF calls[c].kind \in Unguarded \/ calls[c].as # NoUser
     THEN Handle(c)
     ELSE Reply(c, Unauthorized) /\ UNCHANGED bankVars

=============================================================================
