--------------------------------- MODULE Otp ---------------------------------
(***************************************************************************)
(* OtpService: issue, verify and resend, statement by statement.  Between  *)
(* the read of a challenge and the write that follows there is a bcrypt    *)
(* call, and any other request may run.                                    *)
(*                                                                         *)
(* The code of every challenge is the same (the mock generateCode), so a   *)
(* client sends the right one or a wrong one, and a resend changes nothing *)
(* about which is right.  Time is the age of a challenge: "fresh" within   *)
(* the resend cooldown (30 s), "cool" after it, "expired" after the time   *)
(* to live (100 s); a statement takes no time on that scale.               *)
(***************************************************************************)
EXTENDS Integers, FiniteSets

CONSTANTS
  Ids,           \* request ids that can be drawn
  Users,         \* for whom a challenge is issued
  Handlers,      \* requests that can be in flight at the same time
  Serial,        \* ids about which one request at a time is sent
  MaxAttempts,   \* OTP_MAX_ATTEMPTS
  MaxResends,    \* MAX_RESENDS
  MaxRequests,   \* number of requests the clients send (bound)
  NoUser, NoId   \* "none" values

ASSUME OtpAssumption ==
  /\ Serial \subseteq Ids /\ NoId \notin Ids /\ NoUser \notin Users
  /\ MaxAttempts \in Nat \ {0} /\ MaxResends \in Nat /\ MaxRequests \in Nat
  /\ IsFiniteSet(Handlers) /\ Handlers # {}

VARIABLES
  otp,        \* otp[c]: the row of challenge c, if it has an owner
  req,        \* req[h]: where handler h is, and what it has read
  served,     \* requests begun so far (bounded by MaxRequests)
  accepted,   \* history: accepted[c] verifications of c have succeeded
  missed      \* history: missed[c] wrong codes have been refused for c

vars == <<otp, req, served, accepted, missed>>

Ages == {"fresh", "cool", "expired"}

Issued(u) == [owner |-> u, used |-> FALSE, attempts |-> 0, resent |-> 0, age |-> "fresh"]
NoRow == Issued(NoUser)
Exists(c) == otp[c].owner # NoUser

\* env.otpMaxAttempts.
BurnsLate(n) == n > MaxAttempts                           \* mutant
Burns(n) == n >= MaxAttempts

\* What a wrong code writes: the count it has computed from its own read, and
\* consumedAt only if it burns ("undefined" leaves the column alone).
CountedAnew(r, n) == [r EXCEPT !.attempts = n, !.used = Burns(n)]            \* mutant
Counted(r, n) == [r EXCEPT !.attempts = n, !.used = @ \/ Burns(n)]

\* What a resend writes; resentCount is incremented by the database.
Renewed(r) == [owner |-> r.owner, used |-> r.used, attempts |-> 0, resent |-> r.resent + 1,
               age |-> "fresh"]

\* What verify and resend ask of the row they read.
UsableLate(r) == ~r.used                                  \* mutant
Usable(r) == ~r.used /\ r.age # "expired"
ResendableOnceMore(r) == ~r.used /\ r.age # "fresh" /\ r.resent <= MaxResends   \* mutant
Resendable(r) == ~r.used /\ r.age # "fresh" /\ r.resent < MaxResends

-----------------------------------------------------------------------------
(* The handlers.                                                           *)

Stages == {"idle", "create", "count", "consume", "renew"}
Idle == [at |-> "idle", on |-> NoId, user |-> NoUser, seen |-> 0]

Finish(h) == req' = [req EXCEPT ![h] = Idle]

Begin(h, c, stage, u, n) ==
  /\ served < MaxRequests
  /\ req[h].at = "idle"
  /\ c \in Serial => \A g \in Handlers : req[g].on # c
  /\ served' = served + 1
  /\ req' = [req EXCEPT ![h] = [at |-> stage, on |-> c, user |-> u, seen |-> n]]

-----------------------------------------------------------------------------
(* issue.                                                                  *)

\* An id is drawn.  A drawn id has been looked up, but after ten that exist the
\* last digits of the clock are taken as they are: it may be any id.
Draw(h, c, u) ==
  /\ Begin(h, c, "create", u, 0)
  /\ UNCHANGED <<otp, accepted, missed>>

\* The insert fails on the unique request id if another has it by now.
CreateAnyway(h) ==                                        \* mutant
  /\ req[h].at = "create"
  /\ otp' = [otp EXCEPT ![req[h].on] = Issued(req[h].user)]
  /\ Finish(h)
  /\ UNCHANGED <<served, accepted, missed>>
Create(h) ==
  LET c == req[h].on IN
  /\ req[h].at = "create"
  /\ otp' = [otp EXCEPT ![c] = IF Exists(c) THEN @ ELSE Issued(req[h].user)]
  /\ Finish(h)
  /\ UNCHANGED <<served, accepted, missed>>

-----------------------------------------------------------------------------
(* verify.                                                                 *)

\* The row is read and is usable; the code is compared.
VerifyWrong(h, c) ==
  /\ Exists(c) /\ Usable(otp[c])
  /\ Begin(h, c, "count", NoUser, otp[c].attempts)
  /\ UNCHANGED <<otp, accepted, missed>>

VerifyRight(h, c) ==
  /\ Exists(c) /\ Usable(otp[c])
  /\ Begin(h, c, "consume", NoUser, 0)
  /\ UNCHANGED <<otp, accepted, missed>>

Count(h) ==
  /\ req[h].at = "count"
  /\ otp' = [otp EXCEPT ![req[h].on] = Counted(@, req[h].seen + 1)]
  /\ missed' = [missed EXCEPT ![req[h].on] = @ + 1]
  /\ Finish(h)
  /\ UNCHANGED <<served, accepted>>

ConsumeForgotten(h) ==                                    \* mutant
  /\ req[h].at = "consume"
  /\ accepted' = [accepted EXCEPT ![req[h].on] = @ + 1]
  /\ Finish(h)
  /\ UNCHANGED <<otp, served, missed>>
Consume(h) ==
  /\ req[h].at = "consume"
  /\ otp' = [otp EXCEPT ![req[h].on].used = TRUE]
  /\ accepted' = [accepted EXCEPT ![req[h].on] = @ + 1]
  /\ Finish(h)
  /\ UNCHANGED <<served, missed>>

-----------------------------------------------------------------------------
(* resend.  A challenge that has expired can be sent again.                *)

ResendRead(h, c) ==
  /\ Exists(c) /\ Resendable(otp[c])
  /\ Begin(h, c, "renew", NoUser, 0)
  /\ UNCHANGED <<otp, accepted, missed>>

Renew(h) ==
  /\ req[h].at = "renew"
  /\ otp' = [otp EXCEPT ![req[h].on] = Renewed(@)]
  /\ Finish(h)
  /\ UNCHANGED <<served, accepted, missed>>

-----------------------------------------------------------------------------
(* Time passes, and a request may die between two statements.              *)

Age(c) ==
  /\ Exists(c) /\ otp[c].age # "expired"
  /\ otp' = [otp EXCEPT ![c].age = IF @ = "fresh" THEN "cool" ELSE "expired"]
  /\ UNCHANGED <<req, served, accepted, missed>>

Fail(h) ==
  /\ req[h].at # "idle"
  /\ Finish(h)
  /\ UNCHANGED <<otp, served, accepted, missed>>

-----------------------------------------------------------------------------
Init ==
  /\ otp = [c \in Ids |-> NoRow]
  /\ req = [h \in Handlers |-> Idle]
  /\ served = 0
  /\ accepted = [c \in Ids |-> 0]
  /\ missed = [c \in Ids |-> 0]

Request(h, c) ==
  \/ \E u \in Users : Draw(h, c, u)
  \/ VerifyWrong(h, c) \/ VerifyRight(h, c) \/ ResendRead(h, c)

Step(h) == Create(h) \/ Count(h) \/ Consume(h) \/ Renew(h) \/ Fail(h)

Next ==
  \/ \E h \in Handlers, c \in Ids : Request(h, c)
  \/ \E h \in Handlers : Step(h)
  \/ \E c \in Ids : Age(c)

Spec == Init /\ [][Next]_vars

-----------------------------------------------------------------------------
(* The properties.                                                         *)

\* The stored count never passes the limit, also when several wrong codes are
\* counted from reads of their own.
OtpRows ==
  [owner : Users \union {NoUser}, used : BOOLEAN, attempts : 0 .. MaxAttempts,
   resent : Nat, age : Ages]
Locals ==
  [at : Stages, on : Ids \union {NoId}, user : Users \union {NoUser}, seen : 0 .. MaxAttempts - 1]

TypeOK ==
  /\ otp \in [Ids -> OtpRows]
  /\ req \in [Handlers -> Locals]
  /\ served \in Nat
  /\ accepted \in [Ids -> Nat] /\ missed \in [Ids -> Nat]

\* A challenge that has been used up, by a right code or by burning it, is
\* never usable again: a wrong code and a resend that read it earlier write
\* afterwards, and leave consumedAt alone.
UsedIsFinal == [][\A c \in Ids : otp[c].used => otp'[c].used]_vars

\* A request id stays with the user it was issued for, although the draw and
\* the insert are two statements.
BindingFinal == [][\A c \in Ids : Exists(c) => otp'[c].owner = otp[c].owner]_vars

\* A challenge accepts once; where requests about it overlap, at most once for
\* each request that was in flight.
AcceptedBounded ==
  \A c \in Ids : accepted[c] <= IF c \in Serial THEN 1 ELSE Cardinality(Handlers)

\* A challenge is sent again at most MaxResends times, and where requests about
\* it overlap at most once more for each other request in flight.
ResendsBounded ==
  \A c \in Ids :
    otp[c].resent <= MaxResends + (IF c \in Serial THEN 0 ELSE Cardinality(Handlers) - 1)

\* Of one request at a time, no more wrong codes are refused than MaxAttempts
\* for every sending: the count survives what a resend and a death do to it.
RefusalsBounded ==
  \A c \in Serial : missed[c] <= MaxAttempts * (otp[c].resent + 1)

\* A challenge nobody overlaps implements the token.
Verifying(c) == \E h \in Handlers : req[h].on = c /\ req[h].at \in {"count", "consume"}
StateOf(c) ==
  IF ~Exists(c) THEN "none"
  ELSE IF otp[c].used THEN IF accepted[c] > 0 THEN "accepted" ELSE "burned"
  ELSE IF otp[c].age = "expired" /\ ~Verifying(c) THEN "lapsed" ELSE "open"

Token == INSTANCE OtpToken WITH
  Ids <- Serial,
  state <- [c \in Serial |-> StateOf(c)],
  misses <- [c \in Serial |-> otp[c].attempts],
  sends <- [c \in Serial |-> otp[c].resent]

TokenSpec == Token!Spec

=============================================================================
