------------------------------- MODULE Cutoff -------------------------------
(***************************************************************************)
(* LedgerService.runCutoff, the job that is to post what the cut-off held. *)
(*                                                                         *)
(* It runs beside the requests of Payments: a query, then for each payment *)
(* it found a decrement of the hold and a posting, with an "await" between *)
(* any two of them.  The handler Cron is its own; it serves no client, and *)
(* posts by the statements of postPayment as a submit does.                *)
(***************************************************************************)
EXTENDS Payments

CONSTANT Cron    \* the handler of the job

VARIABLES
  running,       \* is the job between its query and its end
  due,           \* what its query found and it has not come to: payment and amount
  reached        \* payments whose value date has come

cronVars == <<vars, running, due, reached>>

\* The payments that the query selects, each with the amount it reads.
\* "riskLevel: null" is NoLevel.
Selected(p) ==
  pay[p].status = "HELD" /\ pay[p].level = NoLevel /\ pay[p].dated /\ p \in reached
CutoffDue == {<<p, pay[p].amount>> : p \in {q \in Payments : Selected(q)}}

-----------------------------------------------------------------------------
(* The requests of the clients.  A submit that holds a payment again sets a *)
(* new value date.                                                         *)

Client(p) ==
  /\ \/ \E a \in Amounts, s \in Sources : Initiate(p, a, s)
     \/ \E h \in Handlers \ {Cron} : Request(h, p)
  /\ UNCHANGED <<running, due, reached>>

Postponed(h) ==
  {p \in Payments : req[h].at = "dispatch" /\ req'[h].at = "holdRead" /\ req[h].on = p}

Serve(h) ==
  /\ Step(h)
  /\ reached' = reached \ Postponed(h)
  /\ UNCHANGED <<running, due>>

\* An exception in a posting of the job is caught there and the loop goes on;
\* the death of the process drops what is left of it.
Die(h) ==
  /\ Fail(h)
  /\ IF h = Cron THEN running' = FALSE /\ due' = {} ELSE UNCHANGED <<running, due>>
  /\ UNCHANGED reached

\* The next working day comes.
ValueDate(p) ==
  /\ pay[p].dated /\ p \notin reached
  /\ reached' = reached \union {p}
  /\ UNCHANGED <<vars, running, due>>

-----------------------------------------------------------------------------
(* The job.                                                                *)

\* 19:30 of a weekday.
CutoffRun ==
  /\ ~running
  /\ running' = TRUE
  /\ due' = CutoffDue
  /\ UNCHANGED <<vars, reached>>

\* Takes the next payment: returns the amount the query read, whatever the
\* payment is by now, and starts its posting.
CutoffRelease(p, a) ==
  /\ running /\ req[Cron].at = "idle"
  /\ <<p, a>> \in due
  /\ ~Locked(Cron, SourceOf(p))
  /\ acct' = [acct EXCEPT ![SourceOf(p)] = Return(@, a)]
  /\ req' = [req EXCEPT ![Cron] = [Idle EXCEPT !.at = "post", !.on = p]]
  /\ due' = due \ {<<p, a>>}
  /\ UNCHANGED <<pay, settleOpen, journal, otp, freezeVars, served, reviewed, running, reached>>

CutoffEnd ==
  /\ running /\ due = {} /\ req[Cron].at = "idle"
  /\ running' = FALSE
  /\ UNCHANGED <<vars, due, reached>>

Job == CutoffRun \/ (\E p \in Payments, a \in Amounts : CutoffRelease(p, a)) \/ CutoffEnd

-----------------------------------------------------------------------------
CutoffInit == Init /\ running = FALSE /\ due = {} /\ reached = {}

CutoffNext ==
  \/ \E p \in Payments : Client(p) \/ ValueDate(p)
  \/ \E h \in Handlers : Serve(h) \/ Die(h)
  \/ Job

\* Evenings and working days come, and the server and the database serve every
\* pending statement; clients and failures owe nothing.
CutoffSpec ==
  /\ CutoffInit /\ [][CutoffNext]_cronVars
  /\ WF_cronVars(Job)
  /\ \A p \in Payments : WF_cronVars(ValueDate(p))
  /\ \A h \in Handlers : WF_cronVars(Serve(h))

-----------------------------------------------------------------------------
\* Held by the cut-off or the limit, not by fraud, and the value date has come.
HeldByCutoff(p) ==
  /\ pay[p].status = "HELD" /\ pay[p].dated /\ p \in reached
  /\ pay[p].level \notin {"HIGH", "CRITICAL"}

\* The comment of the job: it "releases HELD-by-cutoff payments (valueDate
\* reached) into the ledger".  No such payment stays held.
CutoffReleases == \A p \in Payments : HeldByCutoff(p) ~> ~HeldByCutoff(p)

=============================================================================
