------------------------------ MODULE Payments ------------------------------
(***************************************************************************)
(* The payment pipeline of one customer: PaymentsService (initiate,        *)
(* confirm, submit, update, remove), LedgerService (hold, release, post),  *)
(* AnalystService (release, reject) and the part of OtpService they use.   *)
(*                                                                         *)
(* Every request is served by a handler.  A handler runs from one database *)
(* statement to the next; between two statements any other handler may     *)
(* run, because every one of them is behind an "await".  What a handler    *)
(* read stays in its local record req[h] and is used later, whatever the   *)
(* database holds by then.                                                 *)
(*                                                                         *)
(* A database transaction (READ COMMITTED) shows its writes at its commit. *)
(* From its first write to the source account until the commit it owns     *)
(* that row, and any other writer of the row waits.                        *)
(***************************************************************************)
EXTENDS Integers, Sequences, FiniteSets, FiniteSetsExt

CONSTANTS
  Payments,      \* identities of the payments the customer may create
  Handlers,      \* requests that can be in flight at the same time
  Accounts,      \* accounts of the customer, the settlement account included
  Settle,        \* the SETTLE-<customer> counter-account
  Sources,       \* accounts the customer debits
  Challenges,    \* OTP request ids; as many as can be issued (bound)
  Amounts,       \* amounts a client may send
  Limit,         \* per-transaction limit
  Opening,       \* opening clear balance of every account
  Batch,         \* payments on a rail with a cut-off (NEFT, RTGS)
  Ops,           \* Ops[p]: kinds of request the clients send about payment p
  Overlap,       \* may two requests about one payment be in flight together
  Mortal,        \* payments whose requests may die between two statements
  MaxRequests,   \* number of requests the clients send (bound)
  NoPay, NoOtp, NoAccount, Absent    \* "none" values

Levels == {"LOW", "MEDIUM", "HIGH", "CRITICAL"}
NoLevel == "NONE"                    \* riskLevel is null until scored

Kinds == {"initiate", "confirm", "submit", "update", "remove", "release", "reject"}

ASSUME DataAssumption ==
  /\ Settle \in Accounts /\ Sources \subseteq Accounts
  /\ Batch \subseteq Payments
  /\ Amounts \subseteq Nat /\ Limit \in Nat
  /\ Opening \in [Accounts -> Nat] /\ Opening[Settle] = 0
  /\ Ops \in [Payments -> SUBSET Kinds]
  /\ Overlap \in BOOLEAN /\ Mortal \subseteq Payments
  /\ MaxRequests \in Nat

\* There is something to add up: a customer has finitely many accounts and
\* payments.
ASSUME FiniteAssumption == IsFiniteSet(Accounts) /\ IsFiniteSet(Payments)

ASSUME NoneAssumption ==
  /\ NoPay \notin Payments /\ NoOtp \notin Challenges
  /\ NoAccount \notin Accounts /\ Absent \notin Int

VARIABLES
  pay,         \* pay[p]: the row of payment p
  acct,        \* acct[a]: clearBalance and holdAmount of account a
  settleOpen,  \* has the settlement account been created
  journal,     \* ledger entries, in commit order
  otp,         \* otp[c]: the payment challenge c is for, and whether consumed
  suspended,   \* customer.status = SUSPENDED
  cases,       \* payments with an AI_FLAGGED case
  req,         \* req[h]: where handler h is, and what it has read
  served,      \* requests begun so far (bounded by MaxRequests)
  reviewed     \* history: reviewed[p] is the amount last released by an authorizer,
               \* or Absent once a request about p has died since

ledgerVars == <<acct, settleOpen, journal>>
freezeVars == <<suspended, cases>>
vars == <<pay, acct, settleOpen, journal, otp, suspended, cases, req, served, reviewed>>

-----------------------------------------------------------------------------
(* The data.                                                               *)

Statuses == {"NEW", "HELD", "CHALLENGED", "BLOCKED",
             "PROCESSING", "COMPLETED", "REJECTED", "DELETED"}

\* Statuses accepted by update, remove and confirm.  PENDING_AUTH is in the
\* list too, but no code ever writes it.
EditableAfterPosting == {"NEW", "HELD", "COMPLETED"}      \* mutant
Editable == {"NEW", "HELD"}

\* Statuses accepted by submit.
SubmittableAgain == {"NEW", "CHALLENGED", "COMPLETED"}    \* mutant
SubmittableHeld  == {"NEW", "CHALLENGED", "HELD"}         \* mutant
Submittable == {"NEW", "CHALLENGED"}

NoPayment == [status |-> "ABSENT", amount |-> 0, level |-> NoLevel,
              approved |-> FALSE, dated |-> FALSE, debit |-> NoAccount]

\* A payment as initiate creates it: no risk level, no value date.
Draft(a, s) == [NoPayment EXCEPT !.status = "NEW", !.amount = a, !.debit = s]

\* The amount check of initiate and update, and the strict limit of submit.
AnyAmount(a) == a >= 0                                    \* mutant
Positive(a) == a > 0
OverLimitByOne(a) == a > Limit + 1                        \* mutant
OverLimit(a) == a > Limit

\* The columns that a scoring writes: confirm writes the verdict alone, update
\* writes it and takes an earlier approval back.
Scored(r, l) == [r EXCEPT !.level = l]
RescoredKept(r, l) == [r EXCEPT !.level = l]              \* mutant
Rescored(r, l) == [r EXCEPT !.level = l, !.approved = FALSE]

\* What confirm does next for a verdict: the decision table of the gateway.
AfterVerdict(l) ==
  [LOW |-> "issue", MEDIUM |-> "issueMark", HIGH |-> "holdRead", CRITICAL |-> "block"][l]

\* holdAmount: { increment } and { decrement }, evaluated by the database.
ReserveSkipped(r, a) == r                                 \* mutant
Reserve(r, a) == [r EXCEPT !.hold = @ + a]
Return(r, a) == [r EXCEPT !.hold = @ - a]
Available(r) == r.clear - r.hold

Row(p, a, d, m, b) == [pay |-> p, acct |-> a, dir |-> d, amount |-> m, after |-> b]

-----------------------------------------------------------------------------
(* The handlers.                                                           *)

Stages == {"idle", "score", "issue", "issueMark", "mark", "block", "freeze",
           "case", "holdRead", "hold", "verify", "consume", "dispatch", "post",
           "source", "debit", "credit", "write", "rescore", "delete",
           "release", "approve", "reject"}

\* amt, bal and settle are the snapshots a handler holds: an amount, the
\* source balance, and the settlement balance or Absent.
Idle == [at |-> "idle", on |-> NoPay, amt |-> 0, otp |-> NoOtp, bal |-> 0, settle |-> 0]

Goto(h, stage) == req' = [req EXCEPT ![h].at = stage]
Finish(h) == req' = [req EXCEPT ![h] = Idle]

\* A client sends a request about p and handler h starts on it, at the given
\* stage and with the amount a in its snapshot.  A request whose first read
\* refuses it changes nothing and is not a step.
Begin(op, h, p, stage, a) ==
  /\ op \in Ops[p]
  /\ served < MaxRequests
  /\ req[h].at = "idle"
  /\ Overlap \/ \A g \in Handlers : req[g].on # p
  /\ served' = served + 1
  /\ req' = [req EXCEPT ![h] = [Idle EXCEPT !.at = stage, !.on = p, !.amt = a]]

\* The account p debits, and who owns the row of account a: a posting that has
\* written its debit and has not committed.
SourceOf(p) == pay[p].debit
\* (The mutant takes the row with the first read, outside the transaction.)
LockedFromRead(h, a) ==                                   \* mutant
  \E g \in Handlers : req[g].at \in {"debit", "credit"} /\ SourceOf(req[g].on) = a
Locked(h, a) ==
  \E g \in Handlers \ {h} : req[g].at = "credit" /\ SourceOf(req[g].on) = a

-----------------------------------------------------------------------------
(* initiate.  One insert.                                                  *)

Initiate(p, a, s) ==
  /\ "initiate" \in Ops[p]
  /\ served < MaxRequests
  /\ pay[p].status = "ABSENT"
  /\ Positive(a)
  /\ s = Settle => settleOpen
  /\ pay' = [pay EXCEPT ![p] = Draft(a, s)]
  /\ served' = served + 1
  /\ UNCHANGED <<ledgerVars, otp, freezeVars, req, reviewed>>

-----------------------------------------------------------------------------
(* confirm.                                                                *)

\* The first read.  An approved payment skips the gateway.
BeginConfirm(h, p) ==
  /\ pay[p].status \in Editable
  /\ Begin("confirm", h, p, IF pay[p].approved THEN "issue" ELSE "score", 0)
  /\ UNCHANGED <<pay, ledgerVars, otp, freezeVars, reviewed>>

\* The gateway answers, with any level, and the level is stored.
Score(h) ==
  /\ req[h].at = "score"
  /\ \E l \in Levels :
       /\ pay' = [pay EXCEPT ![req[h].on] = Scored(@, l)]
       /\ Goto(h, AfterVerdict(l))
  /\ UNCHANGED <<ledgerVars, otp, freezeVars, served, reviewed>>

\* CRITICAL: the payment is blocked, then the customer suspended, then a case
\* opened, in three statements.
BlockOnly(h) ==                                           \* mutant
  /\ req[h].at = "block"
  /\ pay' = [pay EXCEPT ![req[h].on].status = "BLOCKED"]
  /\ Finish(h)
  /\ UNCHANGED <<ledgerVars, otp, freezeVars, served, reviewed>>
Block(h) ==
  /\ req[h].at = "block"
  /\ pay' = [pay EXCEPT ![req[h].on].status = "BLOCKED"]
  /\ Goto(h, "freeze")
  /\ UNCHANGED <<ledgerVars, otp, freezeVars, served, reviewed>>

Freeze(h) ==
  /\ req[h].at = "freeze"
  /\ suspended' = TRUE
  /\ Goto(h, "case")
  /\ UNCHANGED <<pay, ledgerVars, otp, cases, served, reviewed>>

OpenCase(h) ==
  /\ req[h].at = "case"
  /\ cases' = cases \union {req[h].on}
  /\ Finish(h)
  /\ UNCHANGED <<pay, ledgerVars, otp, suspended, served, reviewed>>

\* LOW, MEDIUM or approved: a fresh challenge bound to the payment.  MEDIUM
\* writes CHALLENGED afterwards, whatever the status has become.
IssueOtp(h) ==
  /\ req[h].at \in {"issue", "issueMark"}
  /\ \E c \in Challenges :
       /\ otp[c].pay = NoPay
       /\ otp' = [otp EXCEPT ![c].pay = req[h].on]
  /\ IF req[h].at = "issueMark" THEN Goto(h, "mark") ELSE Finish(h)
  /\ UNCHANGED <<pay, ledgerVars, freezeVars, served, reviewed>>

MarkChallenged(h) ==
  /\ req[h].at = "mark"
  /\ pay' = [pay EXCEPT ![req[h].on].status = "CHALLENGED"]
  /\ Finish(h)
  /\ UNCHANGED <<ledgerVars, otp, freezeVars, served, reviewed>>

-----------------------------------------------------------------------------
(* LedgerService.holdPayment: used by confirm (HIGH) and by submit.        *)

HoldRead(h) ==
  /\ req[h].at = "holdRead"
  /\ req' = [req EXCEPT ![h] = [@ EXCEPT !.at = "hold", !.amt = pay[req[h].on].amount]]
  /\ UNCHANGED <<pay, ledgerVars, otp, freezeVars, served, reviewed>>

HoldCommit(h) ==
  LET p == req[h].on IN
  /\ req[h].at = "hold"
  /\ ~Locked(h, SourceOf(p))
  /\ acct' = [acct EXCEPT ![SourceOf(p)] = Reserve(@, req[h].amt)]
  /\ pay' = [pay EXCEPT ![p].status = "HELD"]
  /\ Finish(h)
  /\ UNCHANGED <<settleOpen, journal, otp, freezeVars, served, reviewed>>

-----------------------------------------------------------------------------
(* submit.                                                                 *)

\* The first read; its amount is what the limit is later checked against.
BeginSubmit(h, p) ==
  /\ pay[p].status \in Submittable
  /\ Begin("submit", h, p, "verify", pay[p].amount)
  /\ UNCHANGED <<pay, ledgerVars, otp, freezeVars, reviewed>>

\* OtpService.verify reads the challenge the client names and the code is
\* right ...
VerifyRead(h) ==
  /\ req[h].at = "verify"
  /\ \E c \in Challenges :
       /\ otp[c].pay # NoPay /\ ~otp[c].used
       /\ req' = [req EXCEPT ![h] = [@ EXCEPT !.at = "consume", !.otp = c]]
  /\ UNCHANGED <<pay, ledgerVars, otp, freezeVars, served, reviewed>>

\* ... or it is wrong, expired, unknown or the password is wrong: the request
\* is refused, and a wrong code may be the one that burns its challenge.
VerifyRefused(h) ==
  /\ req[h].at = "verify"
  /\ \/ UNCHANGED otp
     \/ \E c \in Challenges :
          /\ otp[c].pay # NoPay /\ ~otp[c].used
          /\ otp' = [otp EXCEPT ![c].used = TRUE]
  /\ Finish(h)
  /\ UNCHANGED <<pay, ledgerVars, freezeVars, served, reviewed>>

\* The challenge is consumed, and only then compared with the payment.
IsForAny(c, p) == otp[c].pay # NoPay                      \* mutant
IsFor(c, p) == otp[c].pay = p
Consume(h) ==
  /\ req[h].at = "consume"
  /\ otp' = [otp EXCEPT ![req[h].otp].used = TRUE]
  /\ IF IsFor(req[h].otp, req[h].on) THEN Goto(h, "dispatch") ELSE Finish(h)
  /\ UNCHANGED <<pay, ledgerVars, freezeVars, served, reviewed>>

\* Over the limit, or on a batch rail after the cut-off (at any time of day):
\* to be held for the next working day; otherwise to be posted.
Dispatch(h) ==
  LET p == req[h].on IN
  /\ req[h].at = "dispatch"
  /\ \E late \in BOOLEAN :
       LET wait == OverLimit(req[h].amt) \/ (late /\ p \in Batch) IN
       /\ pay' = [pay EXCEPT ![p] = [@ EXCEPT !.status = "PROCESSING", !.dated = pay[p].dated \/ wait]]
       /\ Goto(h, IF wait THEN "holdRead" ELSE "post")
  /\ UNCHANGED <<ledgerVars, otp, freezeVars, served, reviewed>>

-----------------------------------------------------------------------------
(* LedgerService.postPayment: one transaction, four statements that other  *)
(* handlers can come between.                                              *)

PostRead(h) ==
  /\ req[h].at = "post"
  /\ req' = [req EXCEPT ![h] = [@ EXCEPT !.at = "source", !.amt = pay[req[h].on].amount]]
  /\ UNCHANGED <<pay, ledgerVars, otp, freezeVars, served, reviewed>>

\* Reads the source account.  Without enough available funds the transaction
\* is abandoned and the payment stays PROCESSING.
SourceRead(h) ==
  LET source == acct[SourceOf(req[h].on)] IN
  /\ req[h].at = "source"
  /\ IF Available(source) >= req[h].amt
     THEN req' = [req EXCEPT ![h] = [@ EXCEPT !.at = "debit", !.bal = source.clear]]
     ELSE Finish(h)
  /\ UNCHANGED <<pay, ledgerVars, otp, freezeVars, served, reviewed>>

\* Writes the source balance, which takes the row, and reads the settlement
\* account: a debit of the settlement account itself reads its own write.
PostDebit(h) ==
  LET s == SourceOf(req[h].on) IN
  /\ req[h].at = "debit"
  /\ ~Locked(h, s)
  /\ req' = [req EXCEPT ![h] =
       [@ EXCEPT !.at = "credit",
                 !.settle = IF s = Settle THEN req[h].bal - req[h].amt
                            ELSE IF settleOpen THEN acct[Settle].clear
                            ELSE Absent]]
  /\ UNCHANGED <<pay, ledgerVars, otp, freezeVars, served, reviewed>>

\* Writes the settlement account, the two entries and COMPLETED, and commits.
PostCommit(h) ==
  LET p == req[h].on
      s == SourceOf(p)
      m == req[h].amt
      debited == req[h].bal - m
      credited == (IF req[h].settle = Absent THEN 0 ELSE req[h].settle) + m
  IN
  /\ req[h].at = "credit"
  /\ ~Locked(h, Settle)
  /\ ~(req[h].settle = Absent /\ settleOpen)
  /\ acct' = [acct EXCEPT ![s].clear = debited, ![Settle].clear = credited]
  /\ settleOpen' = TRUE
  /\ journal' = journal \o <<Row(p, s, "DEBIT", m, debited),
                             Row(p, Settle, "CREDIT", m, credited)>>
  /\ pay' = [pay EXCEPT ![p].status = "COMPLETED"]
  /\ Finish(h)
  /\ UNCHANGED <<otp, freezeVars, served, reviewed>>

\* Both postings found no settlement account; the second to create it violates
\* the unique account number and its transaction is rolled back.
PostConflict(h) ==
  /\ req[h].at = "credit"
  /\ req[h].settle = Absent /\ settleOpen
  /\ Finish(h)
  /\ UNCHANGED <<pay, ledgerVars, otp, freezeVars, served, reviewed>>

-----------------------------------------------------------------------------
(* update and remove.                                                      *)

BeginUpdate(h, p, a) ==
  /\ pay[p].status \in Editable
  /\ Positive(a)
  /\ Begin("update", h, p, "write", a)
  /\ UNCHANGED <<pay, ledgerVars, otp, freezeVars, reviewed>>

UpdateWrite(h) ==
  /\ req[h].at = "write"
  /\ pay' = [pay EXCEPT ![req[h].on].amount = req[h].amt]
  /\ Goto(h, "rescore")
  /\ UNCHANGED <<ledgerVars, otp, freezeVars, served, reviewed>>

\* The verdict on the new amount is stored; the status is left as it is.
Rescore(h) ==
  /\ req[h].at = "rescore"
  /\ \E l \in Levels : pay' = [pay EXCEPT ![req[h].on] = Rescored(@, l)]
  /\ Finish(h)
  /\ UNCHANGED <<ledgerVars, otp, freezeVars, served, reviewed>>

BeginRemove(h, p) ==
  /\ pay[p].status \in Editable
  /\ Begin("remove", h, p, "delete", 0)
  /\ UNCHANGED <<pay, ledgerVars, otp, freezeVars, reviewed>>

RemoveWrite(h) ==
  /\ req[h].at = "delete"
  /\ pay' = [pay EXCEPT ![req[h].on].status = "DELETED"]
  /\ Finish(h)
  /\ UNCHANGED <<ledgerVars, otp, freezeVars, served, reviewed>>

-----------------------------------------------------------------------------
(* The authorizer's release and reject: LedgerService.releaseHold.         *)

\* Reads the payment; only a HELD one can be released or rejected.
BeginRelease(h, p) ==
  /\ pay[p].status = "HELD"
  /\ Begin("release", h, p, "release", pay[p].amount)
  /\ UNCHANGED <<pay, ledgerVars, otp, freezeVars, reviewed>>

BeginReject(h, p) ==
  /\ pay[p].status = "HELD"
  /\ Begin("reject", h, p, "reject", pay[p].amount)
  /\ UNCHANGED <<pay, ledgerVars, otp, freezeVars, reviewed>>

\* Returns the amount it read and writes the status, without looking again.
GiveBack(h, status) ==
  LET p == req[h].on IN
  /\ ~Locked(h, SourceOf(p))
  /\ acct' = [acct EXCEPT ![SourceOf(p)] = Return(@, req[h].amt)]
  /\ pay' = [pay EXCEPT ![p].status = status]
  /\ UNCHANGED <<settleOpen, journal, otp, freezeVars, served>>

ReleaseCommit(h) ==
  /\ req[h].at = "release"
  /\ GiveBack(h, "NEW")
  /\ Goto(h, "approve")
  /\ reviewed' = [reviewed EXCEPT ![req[h].on] = req[h].amt]

Approve(h) ==
  /\ req[h].at = "approve"
  /\ pay' = [pay EXCEPT ![req[h].on].approved = TRUE]
  /\ Finish(h)
  /\ UNCHANGED <<ledgerVars, otp, freezeVars, served, reviewed>>

RejectCommit(h) ==
  /\ req[h].at = "reject"
  /\ GiveBack(h, "REJECTED")
  /\ Finish(h)
  /\ UNCHANGED reviewed

-----------------------------------------------------------------------------
(* A request dies between two statements: an exception nobody catches, or  *)
(* the process.  An open transaction is rolled back, every statement that  *)
(* is already committed stays.                                             *)

FailHalfPosted(h) ==                                      \* mutant
  /\ req[h].on \in Mortal
  /\ acct' = IF req[h].at = "credit"
             THEN [acct EXCEPT ![SourceOf(req[h].on)].clear = req[h].bal - req[h].amt]
             ELSE acct
  /\ Finish(h)
  /\ reviewed' = [reviewed EXCEPT ![req[h].on] = Absent]
  /\ UNCHANGED <<pay, settleOpen, journal, otp, freezeVars, served>>
Fail(h) ==
  /\ req[h].on \in Mortal
  /\ Finish(h)
  /\ reviewed' = [reviewed EXCEPT ![req[h].on] = Absent]
  /\ UNCHANGED <<pay, ledgerVars, otp, freezeVars, served>>

-----------------------------------------------------------------------------
Init ==
  /\ pay = [p \in Payments |-> NoPayment]
  /\ acct = [a \in Accounts |-> [clear |-> Opening[a], hold |-> 0]]
  /\ settleOpen = FALSE
  /\ journal = << >>
  /\ otp = [c \in Challenges |-> [pay |-> NoPay, used |-> FALSE]]
  /\ suspended = FALSE
  /\ cases = {}
  /\ req = [h \in Handlers |-> Idle]
  /\ served = 0
  /\ reviewed = [p \in Payments |-> 0]

Request(h, p) ==
  \/ BeginConfirm(h, p)
  \/ BeginSubmit(h, p)
  \/ \E a \in Amounts : BeginUpdate(h, p, a)
  \/ BeginRemove(h, p)
  \/ BeginRelease(h, p)
  \/ BeginReject(h, p)

\* The steps the server takes by itself once a request is in.
Step(h) ==
  \/ Score(h) \/ Block(h) \/ Freeze(h) \/ OpenCase(h)
  \/ IssueOtp(h) \/ MarkChallenged(h)
  \/ HoldRead(h) \/ HoldCommit(h)
  \/ VerifyRead(h) \/ VerifyRefused(h) \/ Consume(h) \/ Dispatch(h)
  \/ PostRead(h) \/ SourceRead(h) \/ PostDebit(h) \/ PostCommit(h) \/ PostConflict(h)
  \/ UpdateWrite(h) \/ Rescore(h) \/ RemoveWrite(h)
  \/ ReleaseCommit(h) \/ Approve(h) \/ RejectCommit(h)

Next ==
  \/ \E p \in Payments, a \in Amounts, s \in Sources : Initiate(p, a, s)
  \/ \E h \in Handlers, p \in Payments : Request(h, p)
  \/ \E h \in Handlers : Step(h) \/ Fail(h)

Spec == Init /\ [][Next]_vars

\* The event loop and the database serve every pending statement; clients and
\* failures owe nothing.
FairSpec == Spec /\ \A h \in Handlers : WF_vars(Step(h))

-----------------------------------------------------------------------------
(* The properties.                                                         *)

\* Every column and every snapshot has a value of its type; a payment that
\* exists has a positive amount and a debit account, whatever order its
\* amount was edited in.
PaymentRows ==
  [status : Statuses \union {"ABSENT"}, amount : Nat, level : Levels \union {NoLevel},
   approved : BOOLEAN, dated : BOOLEAN, debit : Sources \union {NoAccount}]
AccountRows == [clear : Int, hold : Int]
JournalRows ==
  [pay : Payments, acct : Accounts, dir : {"DEBIT", "CREDIT"}, amount : Nat, after : Int]
OtpRows == [pay : Payments \union {NoPay}, used : BOOLEAN]
Locals ==
  [at : Stages, on : Payments \union {NoPay}, amt : Nat,
   otp : Challenges \union {NoOtp}, bal : Int, settle : Int \union {Absent}]

TypeOK ==
  /\ pay \in [Payments -> PaymentRows]
  /\ acct \in [Accounts -> AccountRows]
  /\ settleOpen \in BOOLEAN
  /\ journal \in Seq(JournalRows)
  /\ otp \in [Challenges -> OtpRows]
  /\ suspended \in BOOLEAN /\ cases \subseteq Payments
  /\ req \in [Handlers -> Locals]
  /\ served \in Nat
  /\ reviewed \in [Payments -> Nat \union {Absent}]
  /\ \A p \in Payments :
       pay[p].status # "ABSENT" => pay[p].amount > 0 /\ pay[p].debit \in Sources

IsDebit(i) == journal[i].dir = "DEBIT"

\* Money leaves an account only for a payment whose own challenge has been
\* consumed, however the requests interleave or die: submit compares the
\* challenge with the payment only after consuming it.
AuthorisedPosting ==
  \A i \in DOMAIN journal :
    \E c \in Challenges : otp[c].used /\ otp[c].pay = journal[i].pay

\* A payment is debited at most once.
PostedOnce ==
  \A i, j \in DOMAIN journal :
    IsDebit(i) /\ IsDebit(j) /\ journal[i].pay = journal[j].pay => i = j

\* No posting exceeds the per-transaction limit, although submit compares the
\* limit with an amount read at its start and postPayment posts the amount it
\* reads itself.
LimitHolds == \A i \in DOMAIN journal : journal[i].amount <= Limit

\* The payments implement their lifecycle.
Lifecycle == INSTANCE PaymentLifecycle WITH
  status <- [p \in Payments |-> pay[p].status],
  posted <- {journal[i].pay : i \in {j \in DOMAIN journal : IsDebit(j)}}

LifecycleSpec == Lifecycle!Spec

\* The statement of an account: every entry continues from the one before,
\* the first from the opening balance, and the last shows the balance.
Entries(a) == {i \in DOMAIN journal : journal[i].acct = a}
BalanceBefore(a, i) ==
  LET earlier == {j \in Entries(a) : j < i}
  IN  IF earlier = {} THEN Opening[a] ELSE journal[Max(earlier)].after
StatementChain ==
  \A a \in Accounts :
    /\ \A i \in Entries(a) :
         journal[i].after = BalanceBefore(a, i)
                            + (IF IsDebit(i) THEN -journal[i].amount ELSE journal[i].amount)
    /\ acct[a].clear = BalanceBefore(a, Len(journal) + 1)

\* No step makes or loses money.
Conservation ==
  SumFunctionOnSet([a \in Accounts |-> acct[a].clear], Accounts) =
  SumFunctionOnSet(Opening, Accounts)

\* The holdAmount of an account covers all its held payments.
HeldOn(a) == {p \in Payments : pay[p].status = "HELD" /\ pay[p].debit = a}
HeldFundsReserved ==
  \A a \in Accounts :
    acct[a].hold >= SumFunctionOnSet([p \in Payments |-> pay[p].amount], HeldOn(a))

\* No request about p has died since the last release of p.
Whole(p) == reviewed[p] # Absent

\* An approval is for the amount the authorizer released, once no request
\* about the payment is in flight and none has died: an update that dies before
\* it scores leaves the old approval on a new amount.
ApprovalFollowsReview ==
  \A p \in Payments :
    pay[p].approved /\ Whole(p) /\ (\A h \in Handlers : req[h].on # p) =>
      pay[p].amount = reviewed[p]

\* Of the payments nobody edits, what has been posted was scored LOW or MEDIUM,
\* or approved by an authorizer: a payment that is confirmed again keeps the
\* challenges of its earlier verdicts, and only its status stops them.  (Not so
\* once a confirm has died before it carried its verdict out.)
RiskGate ==
  \A p \in Payments :
    pay[p].status = "COMPLETED" /\ Whole(p) /\ "update" \notin Ops[p] =>
      pay[p].level \in {"LOW", "MEDIUM"} \/ pay[p].approved

\* A payment that stays blocked has its customer suspended and a case opened,
\* unless a request about it has died between the three writes.
BlockedIsReported ==
  \A p \in Payments :
    pay[p].status = "BLOCKED" /\ Whole(p) /\ (\A h \in Handlers : req[h].on # p) =>
      suspended /\ p \in cases

\* A payment that is PROCESSING or COMPLETED keeps its amount, and a COMPLETED
\* one its status: an edit or a removal writes without looking at the status
\* again.
SettledIsFinal ==
  [][\A p \in Payments :
       /\ pay[p].status \in {"PROCESSING", "COMPLETED"} => pay'[p].amount = pay[p].amount
       /\ pay[p].status = "COMPLETED" => pay'[p].status = "COMPLETED"]_vars

\* Every request is answered: no interleaving leaves handlers waiting for each
\* other's rows.  (A confirm also stops where the instance has no challenge left.)
OutOfChallenges(h) ==
  req[h].at \in {"issue", "issueMark"} /\ \A c \in Challenges : otp[c].pay # NoPay
RequestsFinish ==
  \A h \in Handlers : (req[h].at # "idle") ~> (req[h].at = "idle" \/ OutOfChallenges(h))

=============================================================================
