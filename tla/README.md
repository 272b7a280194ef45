# Verification of the bank simulator

TLA+ modules, TLC runs and TLAPS proofs about the NestJS backend in
`src/apps/backend` and the Next.js frontend in `src/apps/frontend`.
`PROJECT.json` lists the components, the runs, the map from definitions to
source lines, the hazards and the theorems.

    cd tla
    tlc -workers 2 -config races.cfg MCPayments     # one run
    tlapm PaymentsProofs.tla                        # the proofs of one module

## 1. The system

A corporate net-banking simulator: a customer's users log in, maintain
beneficiaries, and make payments that a fraud gateway scores before the ledger
moves the money.  One Node process serves all requests; all durable state is in
PostgreSQL, reached through Prisma with the default isolation level (READ
COMMITTED).  Two services keep state in memory (the recovery rate limit and the
demo test runner).  The frontend keeps a token and a user in the browser, a
cache of query results, and the state of the page that is mounted.

| Component | State | Operations that change it | What makes it correct |
|---|---|---|---|
| Payments (`payments/`) | `payments` rows: status, amount, verdict, `reviewApproved`, `valueDate` | initiate, confirm, submit, update, remove | follows its lifecycle; never posted twice, unauthorised or over the limit; a settled payment is final |
| Ledger (`ledger/`) | `accounts` (balance, `holdAmount`), `ledger_entries`, the settlement account | postPayment, holdPayment, releaseHold, runCutoff | entries chain into balances; no money made or lost; held payments covered by holds |
| Analyst review (`analyst/`) | `reviewApproved`, status | release, reject | an approval is for what was reviewed |
| OTP engine (`otp/`) | `otp_challenges`: attempts, consumed, expiry, resends | issue, verify, resend | a challenge accepts once, burns at the limit, expires |
| Login and passwords (`auth/`) | failed attempts, lock, password hashes and history | login, changePassword, changeTxnPassword, updateProfile | locks at the limit; the last three passwords are not reused |
| Recovery (`recovery/`) | in-memory rate limit; uses OTP and auth | forgotUserId, forgotPassword, reset, unlock, resend | a lock comes off for a challenge of that user |
| Beneficiaries (`beneficiaries/`) | status, account number, names, `activatedAt` | create, update, activate, reject, remove | only a number that was activated is paid |
| Fraud gateway and scorers (`fraud/`) | none of their own; they log `fraud_events` | assess, decide, score | total decision table; monotone bands; fallback; the cooling period |
| Disputes (`disputes/`) | cases, customer status | report, grievance | a report freezes and opens a case |
| Demo test runner (`demo-tests/`) | in-memory runs, the active run, a child process | start, cancel, timeout, child events | one run at a time; every run ends; memory bounded |
| Session (`lib/api.ts`, `lib/auth-store.ts`, the layout) | the token, the persisted user, the query cache | login, logout, a 401, profile updates | requests are sent as the user the pages show |
| Pages (`app/`) | wizard steps, dialogs, drafts, verdicts, busy flags | buttons, answers | a dialog shows what is about its own payment, tells the truth, and lets its user go on |
| Sentinel proxy, accounts, dashboard, mailer | none | queries and pass-through | – |

How they interact.  A page sends a request and goes on when the answer comes,
by when it may have been changed, closed, or left.  In the backend
`PaymentsService` calls the gateway (HTTP, may fail over to a heuristic), the
OTP engine and the ledger; `AnalystService` calls the ledger; `RecoveryService`
calls the OTP engine and `AuthService`; nothing is published or subscribed.  All
coupling between two requests is through rows of the database, and *every*
`await` is a point where another request runs.  The hard behaviours follow from
that: checks made on a row that is written later, unlocked reads that balances
are computed from, chains of statements of which a death keeps a prefix, the few
row locks that a transaction takes; and, in the browser, answers that arrive
when the page, its dialog or the session is another one.

## 2. Plan

Order: money first, then what guards it, then the rest.

| # | Modules | State |
|---|---|---|
| 1 | `Payments`, with the abstract `PaymentLifecycle`, and its proofs; `Cutoff`, the job beside them | done |
| 2 | `DemoRunner`, `DemoPanel` (composes it with the pages that follow a run), `DemoProofs` | done |
| 3 | `Otp`, with the abstract `OtpToken`, and `OtpProofs` | done |
| 4 | `Access`: lockout, password changes, recovery; `AccessProofs` | done |
| 5 | `Beneficiaries` and `Scorer`; `Bank` composes them with the payments that refer to a payee | done |
| 6 | `Browser`, `Credentials`, `Desk`: the session and the pages, on `Bank` | done |
| 7 | `LifecycleProofs`, `LedgerProofs`: the refinement, approvals, the gate and the statements of `Payments` | done |
| 8 | `DeskProofs`, `SessionProofs`: all of `Desk`'s safety | done |
| 9 | The rate limit of `RecoveryService`, two tabs of one browser, grievances | if they earn a module |

Every module is written the same way, so that it can be proved about: constants
with named assumptions, one action per database statement (or per callback, or
per button), invariants as conjunctions of named parts, no recursive operators.

## 3. How the code becomes a model

* **A handler per request.**  `req[h]` says at which statement a request is and
  what it holds from earlier ones.  An action is what happens between two
  `await`s: a database statement (or a transaction that shows its writes at its
  commit), together with the synchronous code around it.  Where a call in
  between touches no modelled state (bcrypt, mail, the score over HTTP) its
  completion is the next action.
* **A call per request, seen from the browser.**  In `Bank` and the modules on it
  `calls[c]` is a request from the moment it is sent to the moment its page takes
  the answer.  It is served in one step, to its end or to a statement it dies at:
  what two requests do to each other statement by statement is the subject of the
  modules above.  The payee that initiate tests is the payee it inserts, although
  the two are statements of their own, and the age, name and number of a payee
  are those of one moment for all of a request.
* **Reads that refuse.**  A request that its first read refuses changes nothing.
  Where nobody looks at the answer it is not a step.
* **Deaths.**  `Fail` ends a request between two statements: an exception nobody
  catches, a lost connection or the end of the process.  What is committed
  stays.  There is no restart action: the database is all the backend keeps
  (the two in-memory services are named above), so a restart is the death of
  every request.  In `Payments` the requests about the payments in `Mortal` die, at
  any statement.  In `Bank` a request that has written something may die after
  any of its statements, and its page is refused or hears nothing: a verdict is
  stored and not acted on, a payment is blocked and its customer not frozen, an
  amount is written and not scored, a release leaves the payment NEW and not
  approved.  A challenge issued by a request that dies has an id that no page was
  told, and is not kept; a request that dies before its first write is a refused
  one.
* **Time.**  The payment cut-off is a choice at each submit; the age of a
  challenge, or of a payee's activation, is a column that grows; the runner's
  timer may fire at any moment.
* **Data.**  Amounts are small numbers around the limit (in the pages, rupees
  around the limit and the 50,000 of the cooling period), a verdict is any of
  the four levels or the one the heuristics draw, a password is a model value,
  a code is right or wrong, a form is filled in when it is sent.
* **Bounds.**  `MaxRequests`, `Challenges`, `MaxClicks` and `Runs`, and in a scene
  `budget` and `width`, bound what the environment does, and are guards; nothing
  the program limits itself (attempts, resends, log lines, kept runs) is bounded
  otherwise.
* **History variables.**  `reviewed` (Payments; the amount last released, or
  `Absent` once a request about the payment has died since), `accepted` and `missed` (Otp),
  `opened` (Access), `vetted` (Beneficiaries), the fields `cool`, `named` and
  `paid` of a payment (Bank) and `over` (Browser) record what has happened for
  the properties; no guard reads them.
* Definitions marked `\* mutant` stand for a plausible bug in the definition that
  follows them.  No specification uses one; each shows, put in place of that
  definition, that a property would notice.

## 4. The modules

### Payments, PaymentLifecycle

The pipeline of `payments.service.ts`, `ledger.service.ts`, `analyst.service.ts`
and the calls they make to the OTP engine and the gateway.

| Request | Actions, in order | Code |
|---|---|---|
| initiate | `Initiate` | one insert |
| confirm | `BeginConfirm`, `Score`, then by verdict `Block`-`Freeze`-`OpenCase`, `HoldRead`-`HoldCommit`, or `IssueOtp` (`MarkChallenged`) | `confirm`, `decide`, `freezeAccount`, `holdPayment` |
| submit | `BeginSubmit`, `VerifyRead` or `VerifyRefused`, `Consume`, `Dispatch`, then `HoldRead`-`HoldCommit` or `PostRead`-`SourceRead`-`PostDebit`-`PostCommit` (`PostConflict`) | `submit`, `verify`, `holdPayment`, `postPayment` |
| update | `BeginUpdate`, `UpdateWrite`, `Rescore` | `update` |
| remove | `BeginRemove`, `RemoveWrite` | `remove` |
| release, reject | `BeginRelease`, `ReleaseCommit`, `Approve`; `BeginReject`, `RejectCommit` | `AnalystService`, `releaseHold` |

The posting transaction is the one that is split, because it reads before it
writes under READ COMMITTED.  From its write of the source row to its commit it
owns the row (`Locked`), and other writers of that row wait.  The settlement
account is created by the first posting; the loser of a race to create it is
rolled back (`PostConflict`).  The cut-off job is left out of `Next`: its query
selects held payments that have no level, and a held payment has one (the lemma
`HeldIsScored`), so that it changes nothing.

`PaymentLifecycle` is what a reader of the status enum expects: which status
follows which, and that money moves in one step, once.  `LifecycleSpec` is that
`Payments` implements it, with `posted` mapped to the payments that have a debit
entry in the journal.

### Cutoff

`runCutoff` beside the requests of `Payments`: `CutoffRun` is the evening and its
query, `CutoffRelease` the decrement of the hold for one of the payments it
found, after which the handler `Cron` posts it by the statements of `Payments`,
and `CutoffEnd` the end of the loop.  `ValueDate` is the next working day, which a
submit that holds the payment again puts off (`Postponed`).

### DemoRunner, DemoPanel

`DemoTestsService` has no `await`: its actions are the callbacks `Start`
(`StartUnspawned`, `StartThrows`), `Cancel`, `Timeout`, `Output`, `Close`.  `child`
is the process *tree*: SIGKILL goes to npx alone (`Signalled`), and "close" comes
when everything that holds its output is gone.  `DemoPanel` adds the pages: a
click is a POST whose answer (`Accepted`, `Refused`, `Broken`) comes later, then
the event stream is opened, which has no replay, so that a run may have ended by
then; the stream may be lost and the page left.

### Otp, OtpToken

`OtpService`, one action per statement: `Draw`-`Create` for issue (the id is looked
up, then inserted; the insert fails on a duplicate), `VerifyWrong`-`Count` and
`VerifyRight`-`Consume`, `ResendRead`-`Renew`, and `Age`.  `seen` is the attempts
count that a verification read before the bcrypt call and from which it later
computes what it writes.  `OtpToken` is what a client sees of one challenge: open,
accepted, burned or lapsed, with misses since the last sending and sendings.
`TokenSpec` is that a challenge with one request at a time implements it.

### Access

`AuthService` and `RecoveryService`.  login: `LoginWrong`-`FailCount`-`Lock`, or
`LoginRight`-`Welcome`.  Password changes: `BeginChange`-`CheckHistory`-`Write`.
Recovery: `Ask`-`Issue`; `BeginReset`-`Consume`-`ReadPurpose`-`CheckHistory`-`Write`;
`BeginUnlock`-`Consume`-`Unlock`.  A user is in `Serial` if one request at a time
is sent about it, and in `Mortal` if its requests may die.

### Scorer

`heuristic-scorer.ts`, the bands of `sentinel-adapter.ts` and the fallback of
`http-scorer.ts` as functions, with the decision table of the gateway.  A score
is the sum of five reasons; what the payment's own event does not determine
(how many payments the last hour had, and their mean) is a choice of `Bank`.
`Verdicts` is what `score()` may return: any level from the model if it is
enabled, and the heuristics' if it is not, fails, times out or leaves the event
unscored.

### Beneficiaries

`BeneficiariesService`.  Each operation is one statement after a read that no
other operation makes false, and so one step: `CreatePayee`, `UpdatePayee`
(PENDING again, whatever the status was), `ActivatePayees`, `RejectPayees` and
`RemovePayees` (one `updateMany` each, on the rows in the status it asks for), and
`Ripen`, the thirty minutes.  `vetted` remembers the numbers a payee was
activated with.

### Bank

The backend as a page sees it.  `calls[c]` holds the request, the token it was
sent with and, once `ServeCall` has served it, its answer: done, refused, or 401.
`Initiate`, `Confirm`, `Submit`, `Update`, `Remove`, `Review`, `Resend`,
`KeepPayee`, `ChangePayees`, `FetchName`, `Report`, `Score1`, `SendCode`,
`Recover`, `ChangeOwn` and `SignIn` are the controllers' methods with what they
call.  Here a payment knows its payee, so that a verdict depends on the payee's
age and name, and `paid` is the number that `postPayment`'s payment names when it
is posted.

### Browser, Credentials, Desk

`Browser` is the frontend's shell: `page[t]`, the page of tab `t` and its
component state; `cache`, the lists TanStack Query keeps; `token`, `store` and
`contact`, the session.  `Turn` changes the page, `Ask` sends a request as well,
`Push` is the router (the document and its cache stay, answers still come, to
nobody), `Reload` is a new document, and `Bounce` is what the interceptor does
with a 401.  A request of a document that is gone may still be served, or vanish.

`Credentials` and `Desk` are the pages: one action per button and field that
matters, and one `...After` function per page that says what it makes of an
answer.  `Desk` composes them: `Answer` hands an answer to the page that sent the
request, or, if that is not mounted, to what still runs without it (the session
of a login, the user of the store, a navigation).  `Break` is a lost connection:
the page hears an error, and the server may or may not have been reached.

| Page | State | Buttons |
|---|---|---|
| payments/initiate | mode, step, draft, verdict, modal, busy | `PickMode` ... `CloseModal` |
| payments/modify | the payment in each dialog, verdict, result, busy, saving | `OpenSend` ... `CloseDelete` |
| analyst | busy | `PressReview` |
| beneficiary/* | form, step, row and whether it is edited, fetched name, selection | `StartAdd` ... `CloseErase` |
| sentinel, command | preset and result, results | `ApplyPreset`, `PressScore`, `RunAll` |
| disputes/report | result | `PressReport` |
| login, forgot-password, unlock, change-password, transaction-password, profile | step, request id, busy; editing, confirm | `PressLogin`, `RequestCode` ... `CloseConfirm` |

## 5. The runs

| Run | Instance | Question, and answer |
|---|---|---|
| `races` | 2 payments, 2 handlers, 2 accounts with funds for one payment each and the settlement account, 2 challenges, amounts 0, 1 and 2 around the limit 1, 6 requests, overlap and deaths | What survives every interleaving and every death?  The types with positive amounts, that every posting has a consumed challenge of its own payment, and that a payment that stays blocked has its customer suspended and a case, unless a request about it died. |
| `turns` | the same with one account of 3, one request at a time about a payment; p1 is on a batch rail, requests about p1 may die and p2 may be edited; fairness | What holds if a payment's requests take turns while two payments run side by side?  No second posting, none over the limit, approvals match what was reviewed and only LOW, MEDIUM or approved payments are posted (where no request died since), settled payments are final, the lifecycle is implemented, and every request is answered. |
| `serial` | 1 handler, 3 challenges, 7 requests, deaths, no edits, money also out of the settlement account | What does the ledger owe?  Statements chain into balances, money is conserved, holds cover held payments. |
| `answers` | fairness, no deaths, 6 requests, p1 never edited | What must eventually happen, and what may be posted?  Every request is answered, a block is followed by suspension and case, approvals match what was reviewed, only LOW, MEDIUM or approved payments are posted. |
| `demo` | 2 pages, 3 clicks, 3 runs of which 1 is kept, 2 log lines | Does the runner keep its promise of one run, and do pages settle?  Yes, with the truthful verdict. |
| `otp` | 1 challenge with a request at a time, 1 with two, 3 attempts, 1 resend, 8 requests, deaths | What does a challenge promise?  Bounded acceptance, resends and refusals; consumption and ownership are final; the token is implemented. |
| `access` | 1 mortal user with a request at a time, 1 with two; limit 2, window 2, 3 passwords, 2 challenges, 5 requests | Does the lockout hold under overlap, and do password rules hold across deaths?  Yes, where stated. |
| `desk` | 13 scenes (below): 1 payee, 2 payments, 2 account numbers, 2 tabs, 1 or 2 requests in flight, 2 to 4 sent by hand; fairness | What do the pages make of it?  Dialogs and pages tell the truth about their own payment, requests are sent as the user that is shown, money goes to reviewed accounts, the cooling period holds, and the buttons come back. |
| `v_double_post` | 1 payment, 2 handlers | *Violated*: `PostedOnce`.  Two submits with one code both read the challenge unconsumed, and both post. |
| `v_lost_update` | 2 payments of one account | *Violated*: `StatementChain`.  Two postings compute balances from the same read. |
| `v_edited_hold` | 1 payment, 1 handler | *Violated*: `HeldFundsReserved`.  An edit of a held payment leaves the hold as it was. |
| `v_cutoff` | 1 payment, 1 handler and the job; fairness | *Violated*: `CutoffReleases`.  A payment that submit has held has a level, the job asks for none: no evening releases it. |
| `v_two_suites` | 2 runs, 1 page | *Violated*: `OneSuite`.  A cancel frees the mutex before the suite is gone. |

Why the bounds are enough. Two handlers are the least that race, and every
hazard of the backend in `PROJECT.json` is between two. Six requests let one
payment be initiated, confirmed, held, released, confirmed again and submitted,
or two payments be initiated, confirmed and submitted side by side; seven add
the confirmation of a released one next to another payment. Amounts are one over
the limit, the limit itself, and the one that is refused; two sources are the
least of which the first postings race to create the settlement account. For a
challenge, eight requests are an issue, three wrong codes, a resend and three
more; the limits stay those of the code but for the resends. For a user, five
requests reach the limit of two, a lock, an unlock request and an unlock, or
three password changes over a window of two. The mutants confirm it: each
property, in its own run, is violated by a bug put into the code's definitions.

The scenes of `desk` (`MCDesk`).  All pages at once are out of reach, and most have
nothing to do with each other, so each behaviour begins with the choice of a
scene: who is signed in, which pages the tabs reach, which rows there are, and
what is typed.

| Scene | Who, and what may happen |
|---|---|
| `ByWizard`, `ByList` | a maker pays by the wizard, beside a checker who reviews, or from the list |
| `Held` | a payment that is held is released, edited, sent again |
| `Broken` | wizard and list over a connection that breaks |
| `Edited`, `Diverted`, `Opened` | a payee is edited before or while it is paid, or activated and paid at once |
| `Kept` | payees are added, looked up, selected, activated, rejected, removed |
| `Sessions` | login, expiry, logout, the address bar, broken connections |
| `Recovered`, `Contacts`, `Secrets` | codes are asked for and used; a profile is saved, a user leaves for another; passwords change |
| `Reporting` | the console, the command center and the fraud report |

Two requests in flight are the least that overtake each other; a tab that is left
and taken up again needs the second.  Two to four requests by hand pay for one
payment from its draft to its posting with one detour.  There is one tab per
browser, and the reference of a payment that was deleted, which the code lets be
used again, is not: payments are counted, not their references.

CHECK_DEADLOCK is off in every run because the request bounds let each instance
stop.  That nothing waits forever is `RequestsFinish`, `MutexReleased`,
`PanelSettles` and `NeverStuck`.

Fairness.  `FairSpec` of Payments is weak fairness of each handler's steps: the
event loop and PostgreSQL serve every pending statement, and a step that waits
for a row is enabled again for good when the owner commits.  Clients, the verdict
and deaths have none.  In `DemoPanel` the timer of a running run fires in the end
(Node's `setTimeout`), the server answers a POST, an opened stream is connected or
fails, and a page that is not reloaded receives what is sent to it; the child has
no fairness at all, so that `MutexReleased` rests on the timer alone.  In `Desk`
each slot has weak fairness of `Serve \/ Answer`: the server serves what has
arrived and the browser delivers the answer; users press nothing they do not want
to, and connections need not break.  `Otp` and `Access` have none, and state only
safety.

## 6. What is proved

`tlapm` checks every proof below, for any number of payments, accounts, handlers,
challenges, users, runs, panels, payees, tabs and requests in flight, and with no
bound on the requests.

| Module | Theorems | Argument |
|---|---|---|
| `PaymentsProofs` | `TypeCorrect`, `PostingsAuthorised`; where `~Overlap`: `NoSecondPosting`, `NoPostingOverLimit` | `TypeInv` adds to the types that a handler in flight is about a payment that exists.  Every step has the same shape (its own local record, its own payment's row), proved once (`StepShape`) and used by all.  `AuthInv` adds that a handler past `Consume` has a consumed challenge of its payment; `ScoredInv` that a held payment, and one that may become held, has been scored (`HeldIsScored`, why the job is left out); `TurnsInv` that handlers of one payment exclude each other, that a posted payment is COMPLETED, and that a handler in the posting stages holds an amount that was compared with the limit. |
| `LifecycleProofs` | `BlocksReported`; where `~Overlap`: `LifecycleImplemented`, `SettledStays`, `ApprovedAsReviewed`, `GateHolds` | `LifeInv` adds `StageInv`: the statuses a payment may have while its handler is at each stage, so that a write without a condition lands where it may.  Every step is then a lifecycle step or a stutter.  `ReviewInv` follows the reviewed amount through release and approval; `GateInv` the verdict of a payment nobody edits, through every challenge it has.  `ReportInv`: of a blocked payment that is whole, suspension and case are there or on their way.  A death makes a payment exempt, until the next release. |
| `LedgerProofs` | where postings take turns: `StatementsChain`, `MoneyConserved`; where `~Overlap` and no edit is about to write a held payment: `HoldsCovered`; with one handler and no edits: `BooksOfOneHandler`, all three | `LedgerInv`: the balances a posting has read are the ones it writes over, and an account that does not exist has none.  A commit appends two entries, and each continues its statement (`ChainGrows`), also where both are entries of the settlement account.  That the last entry before an index exists comes from the least-number principle, in the form of `WFMin`.  A posting moves one amount between two terms of the sum (`Conservation`).  `HoldInv`: a hold is at least the sum of the held payments, and a handler about to hold or release a payment has read the amount it has.  What a sum over a finite set does when one term changes is proved once, from its recursive function, and used by both. |
| `DemoProofs` | `MutexHeld`, `MemoryStaysBounded`, `VerdictStays`, `TypeCorrect`, `PanelsTellTheTruth` | `RunnerInv`: `Mutex`, the types and the bound together.  The bound needs the mutex: the one run that may be too many is the running one.  `PanelInv` adds `Following`: what a panel has in its inbox, and shows, is what its run ended with. |
| `OtpProofs` | `TypeCorrect`, `UsedStaysUsed`, `OwnerStays`, `AcceptsStayBounded`, `ResendsStayBounded`; for challenges in `Serial`: `RefusalsStayBounded`, `TokenImplemented` | `TypeInv` adds that a handler past its read is about a row that exists and saw a count below the limit; `SerialInv` that a count read is still the count stored, and that refusals, attempts and sendings add up.  `TokenInv` counts what has been accepted or sent again together with the requests that are about to, and says that what the one request in flight has read is still so; the second is what maps its steps to those of the token. |
| `AccessProofs` | `TypeCorrect`, `LimitLocks`, `GuessesLimited`, `UnlocksCost`, `PasswordsDiffer` | `LockInv`: the failures counted beyond the limit are covered by requests that read before the limit was reached (`Slack`).  `EarnInv`: the locks that came off are no more than the challenges of that user that were consumed (`Earned`).  `ReuseInv`: a password about to be written is in none of the last ones of the history (`Looked`). |
| `DeskProofs` | `PaymentsGoToReviewedAccounts`, `PayableIsVetted`, `DeskFollowsLifecycle`, `SuspicionRaisesVerdict`, `PagesTellTheTruth` | An active payee has a number it was activated with (`ActiveIsVetted`), and what a payment was initiated with had been (`NamedIsVetted`), whatever the pages do.  Every operation writes at most one row, along an edge of the lifecycle (`Edge`).  Each reason of the heuristics grows with what counts against a payment, and the bands keep the order of the sums (`ScoreGrows`).  `Truth` relates answers and pages to the rows: what an answer in flight says of a payment holds of its row when it is given and stays so, since no operation takes a payment out of COMPLETED or BLOCKED, nor lifts the suspension (`CallsHonest`); and a page shows only what such an answer said (`PagesSound`). |
| `SessionProofs` (on `DeskProofs`) | `RequestsActAsShown`, `DialogsOwnTheirAnswers`, `DeskTyped`, `DeskKeepsPayees`; where `OneMaker`: `CoolingPeriodKept` | `Inv`: a request whose page is still mounted is one of that page (`Homed`), a page without a session waits for one request at a time (`OneAtATime`), and the requests of a user who waits are those of the page he is on (`Awaited`), so that his profile is saved with his own token (`OwnProfile`) and no late answer is about someone else.  `Ownership` says what the verdict, the challenge and the result on a page are about (`PageOwns`), that an answer in flight is about what its request was (`Fitting`), and, for users who wait, that a dialog's one decisive request is about the payment or preset it shows (`Asks`, `Dialog`).  `Typed` follows what is filled in from a page through its request into a row.  `Cool`: while users wait, of a payment that could slip through if it were submitted now (`Ripe`) no dialog holds a challenge and no submit is on its way, nor a challenge but by a confirmation that stands alone (`Tidy`, `ConfirmAlone`), and a document that is gone has nothing left to be served but a resend (`Orphans`). |

The invariants are not inductive by themselves: `AuthorisedPosting`, for one, says
nothing about a handler that is about to post, and a step from an arbitrary state
that satisfies it may post without a challenge.  `Cool` was found with TLC, on the
scenes of `desk`, before it was proved.

Assumptions: those the modules name (`DataAssumption`, `NoneAssumption`,
`FiniteAssumption`, `RunnerAssumption`, `PanelAssumption`, `OtpAssumption`,
`AccessAssumption`, `PayeeAssumption`, `HolderAssumption`, `BankAssumption`,
`BrowserAssumption`, `DeskAssumption`, `SceneAssumption`), which TLC evaluates in
the runs of their modules, and what a theorem's own statement adds.  `FiniteAssumption` says that
accounts and payments are finitely many, so that there are sums of them.
`SceneAssumption` says that a scene begins with rows the operations leave behind,
none of which has got round the cooling period, and that its forms are filled
from the amounts, numbers and names there are.  The conditions in the theorems
are those under which the code keeps its promise, and each is needed:

* `~Overlap` (one request at a time about a payment): `v_double_post` shows what
  happens otherwise.
* `PostingsTakeTurns` (no two postings are at once between their read of the
  source and their commit): `v_lost_update`.
* `EditsSpareHolds` (no edit that is about to write finds its payment HELD):
  `v_edited_hold`.
* `OneMaker` (one tab at most reaches the pages that send and edit payments).  With
  two, a challenge is issued in one browser, the amount is edited in the other,
  and the first submits: each user has waited for every answer.

Only model-checked: liveness (`RequestsFinish`, `MutexReleased`, `PanelSettles`,
`NeverStuck`), which is beyond the prover, and the violations.  Every invariant and action property that a passing run checks is stated by a theorem,
under the conditions above where it needs one.

## 7. Where the code differs from what it says

Five disagreements have runs of their own (`v_*` above).  Others met on the way,
which the properties of the passing runs are stated around:

* An edit after a challenge was issued stores a HIGH or CRITICAL verdict and
  changes neither the status nor the challenge: the payment can be submitted.
  `RiskGate` speaks of payments that are not edited.
* A held payment that is removed, or confirmed again to another verdict, keeps its
  amount on hold; nothing returns it.
* An edit that dies in the gateway leaves the new amount with the old approval, a
  confirm that dies leaves a HIGH or CRITICAL verdict on a payment that an earlier
  challenge still pays, and one that dies between its three writes leaves a
  blocked payment unreported: `ApprovalFollowsReview`, `RiskGate` and
  `BlockedIsReported` leave out a payment a request about which has died since its
  last release.
* A payment over the limit that is released and submitted is held again: an
  approval skips the gateway and not the limit.
* `submit` never looks at the customer's status: a suspended customer is still
  debited for what was confirmed before.
* Where requests about one payment overlap, the CHALLENGED mark of a confirm, an
  edit or a removal may land on a payment that has been posted.
* Where verifications of one challenge overlap, wrong codes are counted once and
  the resend limit is passed by one for each request in flight.
* A login that was let in clears a lock that was set meanwhile; a death between
  the count and the lock leaves a user at the limit unlocked until the next
  failure; two overlapping password changes may set the same password.
* Neither a reset nor an unlock asks what the challenge was issued for, beyond
  which password to reset.
* A `start` that does not find the Playwright configuration keeps the mutex, for a
  run whose id nobody was told: the simulator root is looked up after the run is
  registered.
* The payee is tested at initiate alone.  One that is edited afterwards is paid at
  its new number, which nobody has activated; one that is rejected or removed is
  still paid, although the delete page says "They can no longer receive
  transfers" (`beneficiary/delete/page.tsx:92`).  `PaidAccountReviewed` leaves
  the edited payee out.
* The comment on activate says that the cooling period "is enforced later by the
  fraud gateway" (`beneficiaries.service.ts:147-148`).  It is a part of the
  heuristics' sum, which the model's verdict replaces; and a user who does not
  wait for the answer to an edit, or two who send and edit the same payment from
  two browsers, keep a challenge of the smaller amount.  `CoolingPeriod` speaks of
  the heuristics' verdicts and of one browser whose user waits.
* The wizard spreads the outcome of confirm over that of submit, so that a payment
  held at submit (`HELD_CUTOFF`) is shown as "Payment submitted", as is every
  payment that is not COMPLETED.
* A challenged payment whose answer is lost is a dead end in the list: its status
  is neither editable nor offered for sending again.
* In the list, the answer to an earlier confirm, save or resend, and in the
  console that to an earlier preset, is written into whatever dialog is open when
  it comes: a user who does not wait may see the verdict of another payment.
  `DialogOwnsAnswers` speaks of users who wait.
* A profile that is saved after its user has left writes his mail and phone into
  the store of the next user of the browser; `ActsAsShown` says so of users who
  wait.
* A 401 that comes late removes the token of whatever session is there by then;
  a 401 of the scoring model, passed on by the proxy, ends the session of a user
  whose token is valid.  Logout leaves the query cache, which the next user of the
  document sees until it is refreshed.

## 8. What is not modelled

Left for later: grievances (a case that only `track` reads), the forgotten user id
(which only sends mail), the rate limit of `RecoveryService`, and two tabs of one
browser, which share the token and not the store's memory.

Left out for good: the mailer, audit rows and the model clients, whose outcome no
state depends on; queries (accounts, dashboard, the lists but as the pages cache
them, `ready` and `metrics` of the proxy) and the pages that only show them; the
login's own scoring, which fails open and blocks nothing, and the stub scorer;
validation of forms beyond the amount; rendering; the seed beyond the initial
states; the training export, a batch tool that reads; and the end-to-end tests,
which are read for what they say.  Prisma's error mapping and HTTP codes are left
out but for the 401: a refused request is one that changes nothing.
