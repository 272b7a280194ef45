------------------------------- MODULE Access -------------------------------
(***************************************************************************)
(* Signing in: the lockout of AuthService.login, the change of the login   *)
(* and the transaction password, and the ways back in that RecoveryService *)
(* offers, statement by statement.                                         *)
(*                                                                         *)
(* Hashes are compared with what a statement has read, so a request is     *)
(* "right" or "wrong" from its first read on.  How a challenge is refused, *)
(* burned or expires is the business of Otp; here it is consumed once it   *)
(* has been read unused.  Rate limits, audit rows and mail are left out.   *)
(***************************************************************************)
EXTENDS Integers, Sequences, FiniteSets

CONSTANTS
  Users,
  Handlers,      \* requests that can be in flight at the same time
  Serial,        \* users about whom one request at a time is sent
  Mortal,        \* users whose requests may die between two statements
  Kinds,         \* "LOGIN" and "TXN"
  Passwords,
  Initial,       \* the seeded password, already in the history
  Challenges,    \* request ids; as many as can be issued (bound)
  Window,        \* entries of the history a new password must differ from (3)
  MaxFailures,   \* LOGIN_MAX_ATTEMPTS
  MaxRequests,   \* number of requests the clients send (bound)
  NoUser, NoOtp  \* "none" values

ASSUME AccessAssumption ==
  /\ Serial \subseteq Users /\ Mortal \subseteq Users /\ NoUser \notin Users
  /\ NoOtp \notin Challenges /\ Initial \in Passwords /\ Kinds = {"LOGIN", "TXN"}
  /\ IsFiniteSet(Handlers) /\ IsFiniteSet(Challenges)
  /\ Window \in Nat \ {0} /\ MaxFailures \in Nat \ {0} /\ MaxRequests \in Nat

VARIABLES
  user,      \* user[u]: failedAttempts and whether lockedAt is set
  secret,    \* secret[u][k]: the current password of kind k
  history,   \* history[u][k]: the rows of PasswordHistory, oldest first
  chal,      \* chal[c]: whose challenge, for what, and whether consumed
  req,       \* req[h]: where handler h is, and what it has read
  served,    \* requests begun so far (bounded by MaxRequests)
  opened     \* history: opened[u] times a lock of u has been taken off

passwordVars == <<secret, history>>
vars == <<user, passwordVars, chal, req, served, opened>>

Purposes == {"PAYMENT", "PASSWORD_RESET", "TXN_PASSWORD", "UNLOCK"}

\* The count that locks.
PastLimit(n) == n > MaxFailures                           \* mutant
AtLimit(n) == n >= MaxFailures

\* The entries assertNotReused compares with.
RecentShort(s) == {s[i] : i \in {j \in DOMAIN s : j > Len(s) - Window + 1}}   \* mutant
Recent(s) == {s[i] : i \in {j \in DOMAIN s : j > Len(s) - Window}}

\* The password a challenge resets.
KindOf(purpose) == IF purpose = "TXN_PASSWORD" THEN "TXN" ELSE "LOGIN"

-----------------------------------------------------------------------------
(* The handlers.                                                           *)

Stages == {"idle", "fail", "lock", "welcome", "history", "write", "issue",
           "consume", "purpose", "unlock"}
Goals == {"", "change", "reset", "unlock"} \union Purposes

\* goal: what the request is for; kind and new: which password it sets, to what.
Idle == [at |-> "idle", on |-> NoUser, goal |-> "", kind |-> "LOGIN", new |-> Initial, otp |-> NoOtp]

Goto(h, stage) == req' = [req EXCEPT ![h].at = stage]
Finish(h) == req' = [req EXCEPT ![h] = Idle]

Begin(h, u, local) ==
  /\ served < MaxRequests
  /\ req[h].at = "idle"
  /\ u \in Serial => \A g \in Handlers : req[g].on # u
  /\ served' = served + 1
  /\ req' = [req EXCEPT ![h] = local]

At(stage, u) == [Idle EXCEPT !.at = stage, !.on = u]

\* failedAttempts: 0, lockedAt: null.
Cleared(u) == user' = [user EXCEPT ![u] = [failed |-> 0, locked |-> FALSE]]
Opens(u) == opened' = [opened EXCEPT ![u] = IF user[u].locked THEN @ + 1 ELSE @]

-----------------------------------------------------------------------------
(* login.                                                                  *)

\* The user is not locked and the customer or the password is wrong ...
LoginWrong(h, u) ==
  /\ ~user[u].locked
  /\ Begin(h, u, At("fail", u))
  /\ UNCHANGED <<user, passwordVars, chal, opened>>

\* ... or both are right.
LoginRight(h, u) ==
  /\ ~user[u].locked
  /\ Begin(h, u, At("welcome", u))
  /\ UNCHANGED <<user, passwordVars, chal, opened>>

\* registerFailure increments and gets the row back; the lock is a second
\* statement.
FailCount(h) ==
  LET u == req[h].on IN
  /\ req[h].at = "fail"
  /\ user' = [user EXCEPT ![u].failed = @ + 1]
  /\ IF AtLimit(user[u].failed + 1) /\ ~user[u].locked THEN Goto(h, "lock") ELSE Finish(h)
  /\ UNCHANGED <<passwordVars, chal, served, opened>>

Lock(h) ==
  /\ req[h].at = "lock"
  /\ user' = [user EXCEPT ![req[h].on].locked = TRUE]
  /\ Finish(h)
  /\ UNCHANGED <<passwordVars, chal, served, opened>>

\* A login that was right clears the counter and the lock, also one that was
\* set after it looked.
Welcome(h) ==
  /\ req[h].at = "welcome"
  /\ Cleared(req[h].on) /\ Opens(req[h].on)
  /\ Finish(h)
  /\ UNCHANGED <<passwordVars, chal, served>>

-----------------------------------------------------------------------------
(* changePassword, changeTxnPassword and the last part of a reset.         *)

\* The old password is right.
BeginChange(h, u, k, new) ==
  /\ Begin(h, u, [At("history", u) EXCEPT !.goal = "change", !.kind = k, !.new = new])
  /\ UNCHANGED <<user, passwordVars, chal, opened>>

\* assertNotReused.
CheckHistory(h) ==
  /\ req[h].at = "history"
  /\ IF req[h].new \in Recent(history[req[h].on][req[h].kind]) THEN Finish(h) ELSE Goto(h, "write")
  /\ UNCHANGED <<user, passwordVars, chal, served, opened>>

\* One transaction; a reset of the login password also unlocks.
Write(h) ==
  LET u == req[h].on
      k == req[h].kind
  IN
  /\ req[h].at = "write"
  /\ secret' = [secret EXCEPT ![u][k] = req[h].new]
  /\ history' = [history EXCEPT ![u][k] = Append(@, req[h].new)]
  /\ IF req[h].goal = "reset" /\ k = "LOGIN"
     THEN Cleared(u) /\ Opens(u) ELSE UNCHANGED <<user, opened>>
  /\ Finish(h)
  /\ UNCHANGED <<chal, served>>

-----------------------------------------------------------------------------
(* Recovery.                                                               *)

\* A challenge is asked for: to unlock, only if the user is locked.  Confirming
\* a payment asks for one of the same kind of row.
Ask(h, u, purpose) ==
  /\ purpose = "UNLOCK" => user[u].locked
  /\ Begin(h, u, [At("issue", u) EXCEPT !.goal = purpose])
  /\ UNCHANGED <<user, passwordVars, chal, opened>>

Issue(h) ==
  /\ req[h].at = "issue"
  /\ \E c \in Challenges :
       /\ chal[c].user = NoUser
       /\ chal' = [chal EXCEPT ![c] = [user |-> req[h].on, purpose |-> req[h].goal, used |-> FALSE]]
  /\ Finish(h)
  /\ UNCHANGED <<user, passwordVars, served, opened>>

\* A reset or an unlock names a challenge: any that exists, is not consumed, and
\* whose code is right.  What it was issued for is not asked.
KnownOrNot(c) == ~chal[c].used                            \* mutant
Known(c) == chal[c].user # NoUser /\ ~chal[c].used

BeginReset(h, c, new) ==
  /\ Known(c)
  /\ Begin(h, chal[c].user,
           [At("consume", chal[c].user) EXCEPT !.goal = "reset", !.new = new, !.otp = c])
  /\ UNCHANGED <<user, passwordVars, chal, opened>>

BeginUnlock(h, c) ==
  /\ Known(c)
  /\ Begin(h, chal[c].user, [At("consume", chal[c].user) EXCEPT !.goal = "unlock", !.otp = c])
  /\ UNCHANGED <<user, passwordVars, chal, opened>>

ConsumeForgotten(h) ==                                    \* mutant
  /\ req[h].at = "consume"
  /\ Goto(h, IF req[h].goal = "unlock" THEN "unlock" ELSE "purpose")
  /\ UNCHANGED <<user, passwordVars, chal, served, opened>>
Consume(h) ==
  /\ req[h].at = "consume"
  /\ chal' = [chal EXCEPT ![req[h].otp].used = TRUE]
  /\ Goto(h, IF req[h].goal = "unlock" THEN "unlock" ELSE "purpose")
  /\ UNCHANGED <<user, passwordVars, served, opened>>

\* The challenge is read again for its purpose; a password that is refused
\* later has cost the challenge.
ReadPurpose(h) ==
  /\ req[h].at = "purpose"
  /\ req' = [req EXCEPT ![h] = [@ EXCEPT !.at = "history", !.kind = KindOf(chal[req[h].otp].purpose)]]
  /\ UNCHANGED <<user, passwordVars, chal, served, opened>>

Unlock(h) ==
  /\ req[h].at = "unlock"
  /\ Cleared(req[h].on) /\ Opens(req[h].on)
  /\ Finish(h)
  /\ UNCHANGED <<passwordVars, chal, served>>

\* A request dies between two statements.
Fail(h) ==
  /\ req[h].on \in Mortal
  /\ Finish(h)
  /\ UNCHANGED <<user, passwordVars, chal, served, opened>>

-----------------------------------------------------------------------------
Init ==
  /\ user = [u \in Users |-> [failed |-> 0, locked |-> FALSE]]
  /\ secret = [u \in Users |-> [k \in Kinds |-> Initial]]
  /\ history = [u \in Users |-> [k \in Kinds |-> <<Initial>>]]
  /\ chal = [c \in Challenges |-> [user |-> NoUser, purpose |-> "UNLOCK", used |-> FALSE]]
  /\ req = [h \in Handlers |-> Idle]
  /\ served = 0
  /\ opened = [u \in Users |-> 0]

Request(h) ==
  \/ \E u \in Users :
       \/ LoginWrong(h, u) \/ LoginRight(h, u)
       \/ \E k \in Kinds, new \in Passwords : BeginChange(h, u, k, new)
       \/ \E purpose \in Purposes : Ask(h, u, purpose)
  \/ \E c \in Challenges : BeginUnlock(h, c) \/ \E new \in Passwords : BeginReset(h, c, new)

Step(h) ==
  \/ FailCount(h) \/ Lock(h) \/ Welcome(h)
  \/ CheckHistory(h) \/ Write(h)
  \/ Issue(h) \/ Consume(h) \/ ReadPurpose(h) \/ Unlock(h)

Next == \E h \in Handlers : Request(h) \/ Step(h) \/ Fail(h)

Spec == Init /\ [][Next]_vars

-----------------------------------------------------------------------------
(* The properties.                                                         *)

\* Every column has its type, and every request is about a user that exists.
Locals ==
  [at : Stages, on : Users \union {NoUser}, goal : Goals, kind : {"LOGIN", "TXN"},
   new : Passwords, otp : Challenges \union {NoOtp}]

TypeOK ==
  /\ user \in [Users -> [failed : Nat, locked : BOOLEAN]]
  /\ secret \in [Users -> [Kinds -> Passwords]]
  /\ history \in [Users -> [Kinds -> Seq(Passwords)]]
  /\ chal \in [Challenges -> [user : Users \union {NoUser}, purpose : Purposes, used : BOOLEAN]]
  /\ req \in [Handlers -> Locals]
  /\ served \in Nat /\ opened \in [Users -> Nat]
  /\ \A h \in Handlers : req[h].at # "idle" => req[h].on \in Users

\* A user whose count has reached the limit is locked or about to be, whatever
\* logins and unlocks run beside the ones that failed.
LockedAtLimit ==
  \A u \in Users \ Mortal :
    user[u].failed >= MaxFailures =>
      user[u].locked \/ \E h \in Handlers : req[h].at = "lock" /\ req[h].on = u

\* No more passwords are tried than the limit, and where logins overlap at most
\* one more for every other request in flight.
FailuresBounded ==
  \A u \in Users \ Mortal :
    user[u].failed <= MaxFailures + (IF u \in Serial THEN 0 ELSE Cardinality(Handlers) - 1)

\* Every time a lock comes off, a challenge of that user has been consumed for
\* it, unless a login that was let in earlier overlaps the lock.
UnlocksEarned ==
  \A u \in Serial : opened[u] <= Cardinality({c \in Challenges : chal[c].user = u /\ chal[c].used})

\* A new password differs from the last ones, however it was set and whatever
\* died on the way.
NoReuse ==
  \A u \in Serial, k \in Kinds :
    LET s == history[u][k]
    IN  \A i, j \in DOMAIN s : i < j /\ j <= i + Window => s[i] # s[j]

=============================================================================
