-------------------------------- MODULE Desk --------------------------------
(***************************************************************************)
(* The pages at work: what a user may do on each, what it sends, and what  *)
(* the page makes of the answer.  Buttons are pressed in any order that    *)
(* the page allows; a toast is not part of the state.                      *)
(***************************************************************************)
EXTENDS Credentials

CONSTANTS Watchers, Presets     \* events of the command center; presets of a form

ASSUME DeskAssumption == Watchers \in Nat \ {0} /\ Presets \in Nat \ {0}

Challenged(outcome) == outcome \in {"OTP", "CHALLENGE"}

-----------------------------------------------------------------------------
(* payments/initiate: mode, form, preview, one-time code, confirmation.    *)

OnWizard(t) == page[t].at = "initiate" /\ page[t].mode /\ ~page[t].open
\* reset: neither the modal nor busy is touched.
Emptied(pg) == [pg EXCEPT !.step = 0, !.draft = NoPay, !.conf = NoConf, !.final = NoShown]

PickMode(t) ==
  /\ page[t].at = "initiate" /\ ~page[t].mode
  /\ Turn(t, [page[t] EXCEPT !.mode = TRUE]) /\ UNCHANGED over

\* "Back" of the header, and "New Payment".
LeaveMode(t) ==
  /\ OnWizard(t)
  /\ Turn(t, Emptied([page[t] EXCEPT !.mode = FALSE])) /\ Abandon(t)

CancelForm(t) ==
  /\ OnWizard(t) /\ page[t].step = 0
  /\ Turn(t, Emptied(page[t])) /\ Abandon(t)

PressNext(t) ==
  /\ OnWizard(t) /\ page[t].step = 0 /\ ~page[t].busy
  /\ \E p \in Payments, b \in cache[t].initiate, a \in scene.amounts :
       Ask(t, [page[t] EXCEPT !.busy = TRUE], "initiate", p, [to |-> b, amount |-> a])
  /\ Abandon(t)

BackToForm(t) ==
  /\ OnWizard(t) /\ page[t].step = 1 /\ page[t].draft # NoPay
  /\ Turn(t, [page[t] EXCEPT !.step = 0]) /\ UNCHANGED over

PressConfirm(t) ==
  /\ OnWizard(t) /\ page[t].step = 1 /\ page[t].draft # NoPay /\ ~page[t].busy
  /\ Ask(t, [page[t] EXCEPT !.busy = TRUE], "confirm", page[t].draft, Nothing)
  /\ UNCHANGED over

\* Without a draft or a confirmation the handler fails before it sends.
Submission(pg) == [otp |-> pg.conf.otp, after |-> pg.conf.outcome]
SubmitTwice(t) ==                                         \* mutant
  /\ page[t].at = "initiate" /\ page[t].mode /\ page[t].open
  /\ page[t].draft # NoPay /\ page[t].conf # NoConf
  /\ Ask(t, [page[t] EXCEPT !.busy = TRUE], "submit", page[t].draft, Submission(page[t]))
  /\ UNCHANGED over
PressSubmit(t) ==
  /\ page[t].at = "initiate" /\ page[t].mode /\ page[t].open /\ ~page[t].busy
  /\ page[t].draft # NoPay /\ page[t].conf # NoConf
  /\ Ask(t, [page[t] EXCEPT !.busy = TRUE], "submit", page[t].draft, Submission(page[t]))
  /\ UNCHANGED over

PressResend(t) ==
  /\ page[t].at = "initiate" /\ page[t].mode /\ page[t].open /\ page[t].conf # NoConf
  /\ Ask(t, page[t], "resend", Nothing, page[t].conf.otp) /\ UNCHANGED over

CloseModal(t) ==
  /\ page[t].at = "initiate" /\ page[t].mode /\ page[t].open
  /\ Turn(t, [page[t] EXCEPT !.open = FALSE]) /\ UNCHANGED over

\* confirm's outcome, spread over the answer, wins: only its status tells a
\* payment that went through from one that is held.
ShownAfter(k) ==
  [outcome |-> IF k.ans.got.outcome = "COMPLETED" THEN "COMPLETED" ELSE "submitted",
   of |-> k.on]

ConfOf(k) == [outcome |-> k.ans.got.outcome, otp |-> k.ans.got.otp, of |-> k.on]
ShownOf(k) == [outcome |-> k.ans.got.outcome, of |-> k.on]

WizardAfter(pg, k) ==
  IF k.kind = "resend"
  THEN IF Ok(k) /\ pg.conf # NoConf THEN [pg EXCEPT !.conf.otp = k.ans.got] ELSE pg
  ELSE LET free == [pg EXCEPT !.busy = FALSE] IN
       CASE ~Ok(k) -> free
         [] Ok(k) /\ k.kind = "initiate" -> [free EXCEPT !.draft = k.on, !.step = 1]
         [] Ok(k) /\ k.kind = "submit" ->
              [free EXCEPT !.final = ShownAfter(k), !.open = FALSE, !.step = 2]
         [] OTHER ->
              IF Challenged(k.ans.got.outcome)
              THEN [free EXCEPT !.conf = ConfOf(k), !.open = TRUE]
              ELSE [free EXCEPT !.conf = ConfOf(k), !.final = ShownOf(k), !.step = 2]

-----------------------------------------------------------------------------
(* payments/modify: authorize and send, edit, delete.                      *)

OnRows(t) == page[t].at = "modify" /\ ~Covered(page[t])

OpenSend(t, p) ==
  /\ OnRows(t) /\ p \in cache[t].modify
  /\ Ask(t, [page[t] EXCEPT !.send = p, !.conf = NoConf, !.done = NoShown, !.busy = TRUE],
         "confirm", p, Nothing)
  /\ UNCHANGED over

SubmitSend(t) ==
  LET pg == page[t] IN
  /\ pg.at = "modify" /\ pg.send # NoPay /\ pg.done = NoShown
  /\ Challenged(pg.conf.outcome) /\ ~pg.busy
  /\ Ask(t, [pg EXCEPT !.busy = TRUE], "submit", pg.send, Submission(pg))
  /\ UNCHANGED over

CloseSend(t) ==
  /\ page[t].at = "modify" /\ page[t].send # NoPay
  /\ Turn(t, [page[t] EXCEPT !.send = NoPay, !.conf = NoConf, !.done = NoShown])
  /\ Abandon(t)

OpenEdit(t, p) ==
  /\ OnRows(t) /\ p \in cache[t].modify
  /\ Turn(t, [page[t] EXCEPT !.edit = p]) /\ UNCHANGED over

SaveEdit(t) ==
  /\ page[t].at = "modify" /\ page[t].edit # NoPay /\ ~page[t].saving
  /\ \E a \in scene.amounts : Ask(t, [page[t] EXCEPT !.saving = TRUE], "update", page[t].edit, a)
  /\ UNCHANGED over

CloseEdit(t) ==
  /\ page[t].at = "modify" /\ page[t].edit # NoPay
  /\ Turn(t, [page[t] EXCEPT !.edit = NoPay]) /\ Abandon(t)

OpenDelete(t, p) ==
  /\ OnRows(t) /\ p \in cache[t].modify
  /\ Turn(t, [page[t] EXCEPT !.del = p]) /\ UNCHANGED over

PressDelete(t) ==
  /\ page[t].at = "modify" /\ page[t].del # NoPay
  /\ Ask(t, page[t], "remove", page[t].del, Nothing) /\ UNCHANGED over

CloseDelete(t) ==
  /\ page[t].at = "modify" /\ page[t].del # NoPay
  /\ Turn(t, [page[t] EXCEPT !.del = NoPay]) /\ Abandon(t)

ModifyAfter(pg, k) ==
  CASE k.kind = "remove" -> IF Ok(k) THEN [pg EXCEPT !.del = NoPay] ELSE pg
    [] k.kind = "update" ->
         [pg EXCEPT !.saving = FALSE, !.edit = IF Ok(k) THEN NoPay ELSE @]
    [] k.kind = "submit" ->
         [pg EXCEPT !.busy = FALSE, !.done = IF Ok(k) THEN ShownOf(k) ELSE @]
    [] OTHER ->
         IF ~Ok(k) THEN [pg EXCEPT !.busy = FALSE, !.send = NoPay]
         ELSE [pg EXCEPT !.busy = FALSE, !.conf = ConfOf(k),
                         !.done = IF Challenged(k.ans.got.outcome) THEN @ ELSE ShownOf(k)]

-----------------------------------------------------------------------------
(* analyst: an authorizer, by the stored role, releases or rejects a row.  *)

PressReview(t, p, kind) ==
  /\ page[t].at = "analyst" /\ store[t] \in Authorizers /\ ~page[t].busy
  /\ p \in cache[t].analyst
  /\ Ask(t, [page[t] EXCEPT !.busy = TRUE], kind, p, Nothing) /\ UNCHANGED over

-----------------------------------------------------------------------------
(* beneficiary/maintenance, activate and delete.                           *)

OnForm(t, step) ==
  page[t].at = "maintenance" /\ page[t].view = "form" /\ page[t].step = step

StartAdd(t) ==
  /\ page[t].at = "maintenance" /\ page[t].view = "list"
  /\ \E b \in Payees, number \in scene.numbers, name \in scene.names :
       Turn(t, [Maintenance EXCEPT !.view = "form", !.row = b, !.number = number,
                                   !.name = name, !.busy = page[t].busy])
  /\ UNCHANGED over

StartEdit(t) ==
  /\ page[t].at = "maintenance" /\ page[t].view = "list"
  /\ \E row \in cache[t].maintenance :
       Turn(t, [Maintenance EXCEPT !.view = "form", !.row = row.of, !.editing = TRUE,
                  !.number = row.was.number, !.name = row.was.name,
                  !.fetched = row.was.fetched, !.busy = page[t].busy])
  /\ UNCHANGED over

PressFetch(t) ==
  /\ OnForm(t, 0)
  /\ Ask(t, page[t], "fetch", Nothing, page[t].number) /\ UNCHANGED over

\* Typing another name or number leaves the fetched name.
TypeInto(t) ==
  /\ OnForm(t, 0)
  /\ \/ \E number \in scene.numbers : Turn(t, [page[t] EXCEPT !.number = number])
     \/ \E name \in scene.names : Turn(t, [page[t] EXCEPT !.name = name])
  /\ UNCHANGED over

FormNext(t) == OnForm(t, 0) /\ Turn(t, [page[t] EXCEPT !.step = 1]) /\ UNCHANGED over
FormBack(t) == OnForm(t, 1) /\ Turn(t, [page[t] EXCEPT !.step = 0]) /\ UNCHANGED over

SubmitForm(t) ==
  LET pg == page[t] IN
  /\ OnForm(t, 1) /\ ~pg.busy
  /\ Ask(t, [pg EXCEPT !.busy = TRUE], IF pg.editing THEN "edit" ELSE "create", pg.row,
         [number |-> pg.number, name |-> pg.name, fetched |-> pg.fetched])
  /\ UNCHANGED over

\* "Back to list" and "Cancel".
CancelPayee(t) ==
  /\ page[t].at = "maintenance" /\ page[t].view = "form"
  /\ Turn(t, [Maintenance EXCEPT !.busy = page[t].busy]) /\ Abandon(t)

MaintenanceAfter(pg, k) ==
  CASE k.kind = "fetch" -> IF Ok(k) THEN [pg EXCEPT !.fetched = k.ans.got] ELSE pg
    [] OTHER -> IF Ok(k) THEN Maintenance ELSE [pg EXCEPT !.busy = FALSE]

Toggled(B, b) == IF b \in B THEN B \ {b} ELSE B \union {b}

Toggle(t) ==
  /\ page[t].at \in {"activate", "delete"} /\ ~Covered(page[t])
  /\ \E b \in cache[t][page[t].at] :
       Turn(t, [page[t] EXCEPT !.selected = Toggled(@, b)])
  /\ UNCHANGED over

PressActivate(t, kind) ==
  /\ page[t].at = "activate" /\ page[t].selected # {}
  /\ Ask(t, page[t], kind, page[t].selected, Nothing) /\ UNCHANGED over

OpenErase(t) ==
  /\ page[t].at = "delete" /\ ~page[t].confirm /\ page[t].selected # {}
  /\ Turn(t, [page[t] EXCEPT !.confirm = TRUE]) /\ UNCHANGED over

PressErase(t) ==
  /\ page[t].at = "delete" /\ page[t].confirm
  /\ Ask(t, page[t], "erase", page[t].selected, Nothing) /\ UNCHANGED over

CloseErase(t) ==
  /\ page[t].at = "delete" /\ page[t].confirm
  /\ Turn(t, [page[t] EXCEPT !.confirm = FALSE]) /\ Abandon(t)

ListAfter(pg, k) ==
  CASE ~Ok(k) -> pg
    [] Ok(k) /\ k.kind = "erase" -> [pg EXCEPT !.selected = {}, !.confirm = FALSE]
    [] OTHER -> [pg EXCEPT !.selected = {}]

-----------------------------------------------------------------------------
(* sentinel, disputes/report and login.                                    *)

ApplyPreset(t) ==
  /\ page[t].at = "console"
  /\ \E i \in (1 .. Presets) \ {page[t].preset} :
       Turn(t, [page[t] EXCEPT !.preset = i, !.result = 0])
  /\ Abandon(t)

PressScore(t) ==
  /\ page[t].at = "console" /\ ~page[t].busy
  /\ Ask(t, [page[t] EXCEPT !.busy = TRUE], "score", Nothing, page[t].preset)
  /\ UNCHANGED over

\* runAll: an event for each watcher, one after the other.
RunAll(t) ==
  /\ page[t].at = "command" /\ ~page[t].busy
  /\ Ask(t, [page[t] EXCEPT !.busy = TRUE, !.results = {}], "watch", Nothing, 1)
  /\ UNCHANGED over

PressReport(t) ==
  /\ page[t].at = "report" /\ ~page[t].result /\ ~page[t].busy
  /\ Ask(t, [page[t] EXCEPT !.busy = TRUE], "report", Nothing, Nothing) /\ UNCHANGED over

PressLogin(t) ==
  /\ "login" \in scene.reach[t] /\ page[t].at = "login" /\ ~page[t].busy
  /\ \E u \in Users : Ask(t, [page[t] EXCEPT !.busy = TRUE], "login", Nothing, u)
  /\ UNCHANGED over

ConsoleStuck(pg, k) ==                                    \* mutant
  IF Ok(k) THEN [pg EXCEPT !.busy = FALSE, !.result = k.ans.got] ELSE [pg EXCEPT !.result = 0]
\* send: a failure takes the last result off.
ConsoleAfter(pg, k) == [pg EXCEPT !.busy = FALSE, !.result = IF Ok(k) THEN k.ans.got ELSE 0]

CommandAfter(pg, k) ==
  [pg EXCEPT !.results = @ \union {k.with}, !.busy = k.with < Watchers]

ReportAfter(pg, k) == [pg EXCEPT !.busy = FALSE, !.result = @ \/ Ok(k)]

-----------------------------------------------------------------------------
(* Answers.                                                                *)

After(pg, k) ==
  CASE pg.at = "initiate" -> WizardAfter(pg, k)
    [] pg.at = "modify" -> ModifyAfter(pg, k)
    [] pg.at = "maintenance" -> MaintenanceAfter(pg, k)
    [] pg.at \in {"activate", "delete"} -> ListAfter(pg, k)
    [] pg.at = "console" -> ConsoleAfter(pg, k)
    [] pg.at = "command" -> CommandAfter(pg, k)
    [] pg.at = "report" -> ReportAfter(pg, k)
    [] pg.at \in Recovering -> RecoverAfter(pg, k)
    [] OTHER -> [pg EXCEPT !.busy = FALSE]

\* The continuation of request k of t.  An unmounted page ignores it; but the
\* loop of runAll goes on, the store is written, and the router is called.
Continue(t, c, k, rest) ==
  /\ IF Ok(k) /\ k.kind \in {"login", "reset", "unlock"}
     THEN /\ page' = [page EXCEPT ![t] =
                       Mounted(IF k.kind = "login" THEN "dashboard" ELSE "login")]
          /\ calls' = Unmounted(t, rest)
     ELSE /\ page' = [page EXCEPT ![t] = IF k.live THEN After(@, k) ELSE @]
          /\ calls' = IF k.kind = "watch" /\ k.with < Watchers
                      THEN [rest EXCEPT ![c] = [k EXCEPT !.with = @ + 1, !.as = token[t],
                                                         !.ans = Waiting]]
                      ELSE rest
  /\ CASE k.kind = "login" /\ Ok(k) -> SetSession(t, k.ans.got)
       [] k.kind = "profile" /\ Ok(k) -> UpdateUser(t, k.ans.got)
       [] OTHER -> /\ token' = IF k.ans = Unauthorized THEN [token EXCEPT ![t] = NoUser] ELSE token
                   /\ UNCHANGED <<store, contact>>
  /\ UNCHANGED <<bankVars, cache, spent, scene>>

\* The answer reaches the page.  A 401 takes the document with it, unless the
\* login page is shown.
Answer(c) ==
  LET k == calls[c]
      t == k.tab
  IN
  /\ t # NoTab /\ k.ans # Waiting
  /\ IF k.ans = Unauthorized /\ page[t].at # "login"
     THEN Bounce(t)
     ELSE Continue(t, c, k, [calls EXCEPT ![c] = NoCall]) /\ UNCHANGED over

\* The connection breaks: the page hears of an error, the server may not.
Break(c) ==
  LET k == calls[c] IN
  /\ scene.breaks /\ k.tab # NoTab
  /\ Continue(k.tab, c, [k EXCEPT !.ans = Refusal], [calls EXCEPT ![c] = Gone(k)])
  /\ Abandon(k.tab)

-----------------------------------------------------------------------------
\* A scene starts from rows that the operations leave behind, none of which has
\* got round the cooling period, and its forms are filled in with amounts,
\* account numbers and names there are.
ASSUME SceneAssumption ==
  \A s \in Scenes :
    /\ s.amounts \subseteq Amounts /\ s.numbers \subseteq Numbers /\ s.names \subseteq Names
    /\ s.start.payee \in [Payees -> PayeeRows]
    /\ \A b \in Payees : s.start.payee[b].status # "ABSENT" =>
         s.start.payee[b].number \in Numbers /\ s.start.payee[b].name \in Names
    /\ s.start.pay \in [Payments -> PaymentRows]
    /\ \A p \in Payments : LET row == s.start.pay[p] IN
         row.status = "COMPLETED" /\ row.cool => row.approved
    /\ \A p \in Payments : s.start.pay[p].status # "ABSENT" =>
         /\ s.start.pay[p].to \in Payees
         /\ s.start.pay[p].named = s.start.payee[s.start.pay[p].to].number
         /\ s.start.pay[p].named \in Numbers

Init ==
  /\ scene \in Scenes
  /\ payee = scene.start.payee /\ vetted = [b \in Payees |-> {payee[b].number} \ {NoNumber}]
  /\ pay = scene.start.pay
  /\ otp = <<>> /\ suspended = FALSE
  /\ calls = [c \in Slots |-> NoCall]
  /\ token = scene.who /\ store = scene.who /\ contact = scene.who
  /\ page = [t \in Tabs |-> Mounted(IF scene.who[t] = NoUser THEN "login" ELSE "dashboard")]
  /\ cache = [t \in Tabs |-> Unloaded]
  /\ over = [t \in Tabs |-> FALSE] /\ spent = 0

Wizards(t) ==
  \/ PickMode(t) \/ LeaveMode(t) \/ CancelForm(t) \/ PressNext(t) \/ BackToForm(t)
  \/ PressConfirm(t) \/ PressSubmit(t) \/ PressResend(t) \/ CloseModal(t)

Modifies(t) ==
  \/ \E p \in Payments : OpenSend(t, p) \/ OpenEdit(t, p) \/ OpenDelete(t, p)
  \/ SubmitSend(t) \/ CloseSend(t) \/ SaveEdit(t) \/ CloseEdit(t)
  \/ PressDelete(t) \/ CloseDelete(t)

Payeeing(t) ==
  \/ StartAdd(t) \/ StartEdit(t) \/ PressFetch(t) \/ TypeInto(t) \/ FormNext(t)
  \/ FormBack(t) \/ SubmitForm(t) \/ CancelPayee(t)
  \/ Toggle(t) \/ OpenErase(t) \/ PressErase(t) \/ CloseErase(t)
  \/ \E kind \in {"activate", "refuse"} : PressActivate(t, kind)

Others(t) ==
  \/ \E p \in Payments, kind \in {"release", "reject"} : PressReview(t, p, kind)
  \/ ApplyPreset(t) \/ PressScore(t) \/ RunAll(t) \/ PressReport(t) \/ PressLogin(t)

Moves(t) ==
  \/ \E at \in scene.reach[t] : Visit(t, at) \/ OpenUrl(t, at)
  \/ Logout(t) \/ Expire(t) \/ Refresh(t)

Next ==
  \/ \E t \in Tabs : Wizards(t) \/ Modifies(t) \/ Payeeing(t) \/ Identity(t) \/ Others(t) \/ Moves(t)
  \/ \E c \in Slots : Serve(c) \/ Answer(c) \/ Break(c) \/ Vanish(c)
  \/ \E b \in Payees : Age(b)

Spec == Init /\ [][Next]_vars

\* A request that has arrived is served and its answer delivered; users press
\* nothing they do not want to, and connections need not break.
FairSpec == Spec /\ \A c \in Slots : WF_vars(Serve(c) \/ Answer(c))

-----------------------------------------------------------------------------
(* Properties.                                                             *)

\* Every variable of the desk holds values of its kind.
TypeOK ==
  /\ PayeesTyped
  /\ pay \in [Payments -> PaymentRows]
  /\ \A n \in DOMAIN otp : otp[n] \in [pay : Payments \union {NoPay}, used : BOOLEAN]
  /\ suspended \in BOOLEAN /\ over \in [Tabs -> BOOLEAN]
  /\ {token, store, contact} \subseteq [Tabs -> Users \union {NoUser}]
  /\ \A c \in Slots : calls[c].tab \in Tabs \union {NoTab} /\ calls[c].as \in Users \union {NoUser}
  /\ \A t \in Tabs : page[t].at \in scene.reach[t] \union {"login", "dashboard"}

\* The 50000-rupee, 30-minute cooling period the backend's comment on activate
\* promises: a payment that the heuristics last found to be a big one to a
\* payee still cooling is not completed before an authorizer has released it,
\* as long as it is sent and edited from one browser, whose user waits for each
\* answer before he turns to something else.
CoolingPeriod ==
  \A p \in Payments :
    pay[p].status = "COMPLETED" /\ pay[p].cool /\ ~pay[p].approved => \E t \in Tabs : over[t]

\* Money goes to an account number its payee was activated with, or to one the
\* payee has been given since the payment was initiated.
PaidAccountReviewed ==
  \A p \in Payments : pay[p].status = "COMPLETED" =>
    pay[p].paid \in vetted[pay[p].to] \/ pay[p].paid # pay[p].named

\* What a dialog shows is about its own payment or preset: the verdict, the
\* challenge its code is for and the result, and no payment is submitted twice
\* at the same time; as long as its user waits for each answer.
DialogOwnsAnswers ==
  \A t \in Tabs : over[t] \/
    LET pg == page[t]
        Own(p) == /\ pg.conf # NoConf => pg.conf.of = p
                  /\ pg.conf.otp # 0 => otp[pg.conf.otp].pay = p
    IN
    /\ pg.at = "initiate" /\ pg.open => Own(pg.draft)
    /\ pg.at = "initiate" /\ pg.step = 2 => pg.final.of = pg.draft
    /\ pg.at = "modify" => Own(pg.send) /\ (pg.done # NoShown => pg.done.of = pg.send)
    /\ pg.at = "console" => pg.result \in {0, pg.preset}
    /\ Cardinality({c \in Slots : calls[c].tab = t /\ calls[c].kind = "submit"}) <= 1

\* A page that says a payment is blocked or completed, or the account frozen,
\* tells what the backend has done.
OutcomeTruthful ==
  \A t \in Tabs :
    LET pg == page[t]
        True(shown) ==
          /\ shown.outcome = "BLOCKED" => pay[shown.of].status = "BLOCKED" /\ suspended
          /\ shown.outcome = "COMPLETED" => pay[shown.of].status = "COMPLETED"
    IN
    /\ pg.at = "initiate" => True(pg.final)
    /\ pg.at = "modify" => True(pg.done)
    /\ pg.at = "report" /\ pg.result => suspended

\* Requests are sent in the name of the user the pages show; and the mail and
\* phone they show are that user's, as long as he waits for each answer.
ActsAsShown ==
  \A t \in Tabs : token[t] \in {NoUser, store[t]} /\ (over[t] \/ contact[t] = store[t])

\* A page that is waiting does not wait for ever: whatever becomes of the
\* request, the buttons come back or the page is another one.
Waits(t) == \E flag \in {"busy", "saving"} : flag \in DOMAIN page[t] /\ page[t][flag]
NeverStuck == \A t \in Tabs : Waits(t) ~> ~Waits(t)

=============================================================================
