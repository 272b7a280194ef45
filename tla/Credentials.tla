---------------------------- MODULE Credentials ----------------------------
(***************************************************************************)
(* The pages about a user: forgot-password and unlock, which need no       *)
(* session, and the change of either password and of the contact details,  *)
(* which do.  Passwords, codes and names are typed when they are sent.     *)
(***************************************************************************)
EXTENDS Browser

Ok(k) == k.ans.is = "done"
Recovering == {"forgot", "unlock", "transaction", "profile"}

-----------------------------------------------------------------------------
(* forgot-password and unlock: ask for a code, then use it.                *)

OnRecovery(t, step) == page[t].at \in {"forgot", "unlock"} /\ page[t].step = step

RequestCode(t) ==
  /\ OnRecovery(t, 0) /\ ~page[t].busy
  /\ \E u \in Users :
       Ask(t, [page[t] EXCEPT !.busy = TRUE],
           IF page[t].at = "forgot" THEN "askreset" ELSE "askunlock", Nothing, u)
  /\ UNCHANGED over

UseCode(t) ==
  /\ OnRecovery(t, 1) /\ ~page[t].busy
  /\ Ask(t, [page[t] EXCEPT !.busy = TRUE],
         IF page[t].at = "forgot" THEN "reset" ELSE "unlock", Nothing, page[t].req)
  /\ UNCHANGED over

ResendCode(t) ==
  /\ OnRecovery(t, 1) /\ page[t].at = "forgot"
  /\ Ask(t, page[t], "resend", Nothing, page[t].req) /\ UNCHANGED over

-----------------------------------------------------------------------------
(* change-password and transaction-password.  Generating a code and        *)
(* resetting with it are not held back by a request in flight.             *)

ChangePassword(t) ==
  /\ page[t].at \in {"password", "transaction"} /\ ~page[t].busy
  /\ Ask(t, [page[t] EXCEPT !.busy = TRUE], "change", Nothing, Nothing) /\ UNCHANGED over

Generate(t) ==
  /\ page[t].at = "transaction"
  /\ Ask(t, page[t], "askreset", Nothing, store[t]) /\ UNCHANGED over

ResetWithOtp(t) ==
  /\ page[t].at = "transaction" /\ page[t].req # 0
  /\ Ask(t, page[t], "resettxn", Nothing, page[t].req) /\ UNCHANGED over

-----------------------------------------------------------------------------
(* profile: edit, confirm with the password, save.                         *)

EditContact(t) ==
  /\ page[t].at = "profile" /\ ~page[t].editing
  /\ Turn(t, [page[t] EXCEPT !.editing = TRUE]) /\ UNCHANGED over

CancelContact(t) ==
  /\ page[t].at = "profile" /\ page[t].editing /\ ~page[t].confirm
  /\ Turn(t, [page[t] EXCEPT !.editing = FALSE]) /\ Abandon(t)

RequestSave(t) ==
  /\ page[t].at = "profile" /\ page[t].editing /\ ~page[t].confirm
  /\ Turn(t, [page[t] EXCEPT !.confirm = TRUE]) /\ UNCHANGED over

\* The Enter key saves again while a save is in flight.
SaveContact(t) ==
  /\ page[t].at = "profile" /\ page[t].confirm
  /\ Ask(t, [page[t] EXCEPT !.busy = TRUE], "profile", Nothing, Nothing) /\ UNCHANGED over

CloseConfirm(t) ==
  /\ page[t].at = "profile" /\ page[t].confirm
  /\ Turn(t, [page[t] EXCEPT !.confirm = FALSE]) /\ Abandon(t)

\* updateUser: into the user of the store, whoever that is by now.
UpdateUser(t, u) ==
  /\ contact' = [contact EXCEPT ![t] = IF store[t] = NoUser THEN @ ELSE u]
  /\ UNCHANGED <<token, store>>

-----------------------------------------------------------------------------
\* What the pages make of an answer.  A code for a stranger is not sent, and
\* the answer names none; a code that has been used takes the user to login.
Sent(k) == Ok(k) /\ k.ans.got # 0

RecoverAfter(pg, k) ==
  LET free == [pg EXCEPT !.busy = FALSE] IN
  CASE k.kind = "resend" -> IF Ok(k) THEN [pg EXCEPT !.req = k.ans.got] ELSE pg
    [] k.kind = "profile" -> [free EXCEPT !.confirm = @ /\ ~Ok(k), !.editing = @ /\ ~Ok(k)]
    [] k.kind = "resettxn" -> IF Ok(k) THEN [pg EXCEPT !.req = 0] ELSE pg
    [] k.kind = "askreset" /\ pg.at = "transaction" ->
         IF Sent(k) THEN [pg EXCEPT !.req = k.ans.got] ELSE pg
    [] k.kind \in {"askreset", "askunlock"} /\ pg.at # "transaction" ->
         IF Sent(k) THEN [free EXCEPT !.step = 1, !.req = k.ans.got] ELSE free
    [] OTHER -> free

Identity(t) ==
  \/ RequestCode(t) \/ UseCode(t) \/ ResendCode(t)
  \/ ChangePassword(t) \/ Generate(t) \/ ResetWithOtp(t)
  \/ EditContact(t) \/ CancelContact(t) \/ RequestSave(t) \/ SaveContact(t) \/ CloseConfirm(t)

=============================================================================
