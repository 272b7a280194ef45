------------------------------ MODULE OtpProofs ------------------------------
(***************************************************************************)
(* Challenges, for any number of ids, users and requests in flight, and    *)
(* for any limits.                                                         *)
(***************************************************************************)
EXTENDS Otp, FiniteSetTheorems, TLAPS

\* What a handler that is about to write knows.
Aware ==
  \A h \in Handlers :
    /\ req[h].at # "idle" => req[h].on \in Ids
    /\ req[h].at = "create" => req[h].user \in Users
    /\ req[h].at \in {"count", "consume", "renew"} => Exists(req[h].on)

\* Rows before they are inserted, and burned ones.
Rows ==
  \A c \in Ids :
    /\ ~Exists(c) => otp[c] = NoRow /\ missed[c] = 0
    /\ otp[c].attempts >= MaxAttempts => otp[c].used

TypeInv == TypeOK /\ Aware /\ Rows

\* Of an id in Serial, the one request in flight has read what is stored.
Turns ==
  \A g, h \in Handlers : req[g].on = req[h].on /\ req[g].on \in Serial => g = h
Current ==
  \A h \in Handlers :
    req[h].at = "count" /\ req[h].on \in Serial => req[h].seen = otp[req[h].on].attempts
Counts ==
  \A c \in Serial : missed[c] <= MaxAttempts * otp[c].resent + otp[c].attempts

SerialInv == Turns /\ Current /\ Counts

-----------------------------------------------------------------------------
(* Rows.                                                                   *)

LEMMA IssuedShape ==
  ASSUME NEW u \in Users \union {NoUser}
  PROVE  /\ Issued(u) \in OtpRows /\ Issued(u).owner = u /\ ~Issued(u).used
         /\ Issued(u).attempts = 0 /\ Issued(u).resent = 0
  BY OtpAssumption DEF Issued, OtpRows, Ages

LEMMA CountedShape ==
  ASSUME NEW r \in OtpRows, NEW n \in 0 .. MaxAttempts
  PROVE  /\ Counted(r, n) \in OtpRows
         /\ Counted(r, n).owner = r.owner /\ Counted(r, n).resent = r.resent
         /\ Counted(r, n).attempts = n
         /\ r.used => Counted(r, n).used
         /\ n >= MaxAttempts => Counted(r, n).used
  BY DEF Counted, Burns, OtpRows

LEMMA RenewedShape ==
  ASSUME NEW r \in OtpRows
  PROVE  /\ Renewed(r) \in OtpRows
         /\ Renewed(r).owner = r.owner /\ Renewed(r).used = r.used
         /\ Renewed(r).attempts = 0 /\ Renewed(r).resent = r.resent + 1
  BY OtpAssumption DEF Renewed, OtpRows, Ages

LEMMA TypeInit == Init => TypeInv
<1> SUFFICES ASSUME Init PROVE TypeInv
  OBVIOUS
<1>1. NoRow \in OtpRows /\ NoRow.owner = NoUser /\ NoRow.attempts = 0
  BY IssuedShape DEF NoRow
<1>2. Idle \in Locals /\ Idle.at = "idle"
  BY OtpAssumption DEF Idle, Locals, Stages
<1>3. TypeOK
  BY <1>1, <1>2 DEF Init, TypeOK
<1>4. Aware /\ Rows
  BY <1>1, <1>2, OtpAssumption DEF Init, Aware, Rows, Exists
<1> QED
  BY <1>3, <1>4 DEF TypeInv

-----------------------------------------------------------------------------
(* The shape of the steps.                                                 *)

LEMMA FinishShape ==
  ASSUME TypeInv, NEW h \in Handlers, Finish(h)
  PROVE  /\ req' \in [Handlers -> Locals] /\ req'[h] = Idle
         /\ \A g \in Handlers \ {h} : req'[g] = req[g]
<1>1. Idle \in Locals
  BY OtpAssumption DEF Idle, Locals, Stages
<1> QED
  BY <1>1 DEF Finish, TypeInv, TypeOK

LEMMA BeginShape ==
  ASSUME TypeInv, NEW h \in Handlers, NEW c \in Ids, NEW stage \in Stages \ {"idle"},
         NEW u \in Users \union {NoUser}, NEW n \in 0 .. MaxAttempts - 1, Begin(h, c, stage, u, n)
  PROVE  /\ req' \in [Handlers -> Locals] /\ served' \in Nat
         /\ req'[h].at = stage /\ req'[h].on = c /\ req'[h].user = u /\ req'[h].seen = n
         /\ \A g \in Handlers \ {h} : req'[g] = req[g]
<1> DEFINE local == [at |-> stage, on |-> c, user |-> u, seen |-> n]
<1>1. local \in Locals
  BY DEF Locals
<1>2. req' = [req EXCEPT ![h] = local] /\ served' = served + 1
  BY DEF Begin
<1>3. local.at = stage /\ local.on = c /\ local.user = u /\ local.seen = n
  OBVIOUS
<1> HIDE DEF local
<1> QED
  BY <1>1, <1>2, <1>3 DEF TypeInv, TypeOK

\* What Begin is called with, whatever the request.
LEMMA RequestShape ==
  ASSUME TypeInv, NEW h \in Handlers, NEW c \in Ids, Request(h, c)
  PROVE  \E stage \in Stages \ {"idle"}, u \in Users \union {NoUser}, n \in 0 .. MaxAttempts - 1 :
           /\ Begin(h, c, stage, u, n)
           /\ UNCHANGED <<otp, accepted, missed>>
           /\ stage = "create" => u \in Users
           /\ stage # "create" => Exists(c)
           /\ stage = "count" => n = otp[c].attempts
           /\ stage \in {"count", "consume", "renew"} => ~otp[c].used
<1>1. 0 \in 0 .. MaxAttempts - 1
  BY OtpAssumption
<1>2. CASE \E u \in Users : Draw(h, c, u)
  BY <1>1, <1>2 DEF Draw, Stages
<1>3. CASE VerifyWrong(h, c)
  <2>1. otp[c].attempts \in 0 .. MaxAttempts - 1
    <3>1. otp[c].attempts \in 0 .. MaxAttempts /\ ~(otp[c].attempts >= MaxAttempts)
      BY <1>3 DEF VerifyWrong, Usable, TypeInv, TypeOK, OtpRows, Rows
    <3> QED
      BY <3>1, OtpAssumption
  <2> QED
    BY <1>3, <2>1 DEF VerifyWrong, Usable, Stages
<1>4. CASE VerifyRight(h, c) \/ ResendRead(h, c)
  BY <1>1, <1>4 DEF VerifyRight, ResendRead, Usable, Resendable, Stages
<1> QED
  BY <1>2, <1>3, <1>4 DEF Request

\* What a row may become: it keeps its owner once it has one, stays used, and
\* is used when the limit is reached; the row of a free id stays as it is.
Onward(r, q) ==
  /\ r.owner # NoUser => q.owner = r.owner
  /\ r.used => q.used
  /\ q.attempts >= MaxAttempts => q.used
  /\ q.owner = NoUser => q = r

LEMMA StepShape ==
  ASSUME TypeInv, NEW h \in Handlers, Step(h)
  PROVE  /\ Finish(h) /\ served' = served /\ req[h].at # "idle" /\ req[h].on \in Ids
         /\ \E q \in OtpRows :
              otp' = [otp EXCEPT ![req[h].on] = q] /\ Onward(otp[req[h].on], q)
         /\ accepted' \in [Ids -> Nat] /\ missed' \in [Ids -> Nat]
         /\ missed' = missed \/ (req[h].at = "count" /\ Count(h))
<1> DEFINE c == req[h].on
           r == otp[c]
<1>1. Finish(h) /\ served' = served /\ req[h].at # "idle"
  BY DEF Step, Create, Count, Consume, Renew, Fail
<1>2. c \in Ids /\ (req[h].at = "create" => req[h].user \in Users)
      /\ (req[h].at \in {"count", "consume", "renew"} => Exists(c))
  BY <1>1 DEF TypeInv, Aware
<1>3. r \in OtpRows /\ otp \in [Ids -> OtpRows] /\ (r.attempts >= MaxAttempts => r.used)
  BY <1>2 DEF TypeInv, TypeOK, Rows
<1>4. accepted' \in [Ids -> Nat] /\ missed' \in [Ids -> Nat]
  BY <1>2 DEF Step, Create, Count, Consume, Renew, Fail, TypeInv, TypeOK
<1>5. missed' = missed \/ (req[h].at = "count" /\ Count(h))
  BY DEF Step, Create, Count, Consume, Renew, Fail
<1>6. \E q \in OtpRows : otp' = [otp EXCEPT ![c] = q] /\ Onward(r, q)
  <2>0. Onward(r, r) /\ otp = [otp EXCEPT ![c] = r]
    BY <1>2, <1>3 DEF Onward
  <2>1. CASE Create(h)
    <3>1. CASE Exists(c)
      BY <2>0, <2>1, <3>1, <1>3 DEF Create
    <3>2. CASE ~Exists(c)
      <4> DEFINE q == Issued(req[h].user)
      <4>1. otp' = [otp EXCEPT ![c] = q]
        BY <2>1, <3>2 DEF Create
      <4>2. q \in OtpRows /\ q.owner \in Users /\ q.attempts = 0
        BY <1>2, <2>1, IssuedShape DEF Create
      <4>3. r.owner = NoUser /\ r = NoRow /\ ~r.used
        BY <3>2, <1>2, IssuedShape DEF Exists, TypeInv, Rows, NoRow
      <4> HIDE DEF q
      <4>4. Onward(r, q)
        BY <4>2, <4>3, OtpAssumption DEF Onward
      <4> QED
        BY <4>1, <4>2, <4>4
    <3> QED
      BY <3>1, <3>2
  <2>2. CASE Count(h)
    <3> DEFINE n == req[h].seen + 1
               q == Counted(r, n)
    <3>1. n \in 0 .. MaxAttempts
      BY OtpAssumption DEF TypeInv, TypeOK, Locals
    <3>2. Exists(c) /\ otp' = [otp EXCEPT ![c] = q]
      BY <2>2, <1>2 DEF Count
    <3>3. q \in OtpRows /\ q.owner = r.owner /\ (r.used => q.used) /\ (q.attempts >= MaxAttempts => q.used)
      BY <3>1, <1>3, CountedShape
    <3> HIDE DEF q
    <3>4. Onward(r, q)
      BY <3>2, <3>3 DEF Onward, Exists
    <3> QED
      BY <3>2, <3>3, <3>4
  <2>3. CASE Consume(h)
    <3> DEFINE q == [r EXCEPT !.used = TRUE]
    <3>1. Exists(c) /\ otp' = [otp EXCEPT ![c] = q]
      BY <2>3, <1>2, <1>3 DEF Consume
    <3>2. q \in OtpRows /\ q.owner = r.owner /\ q.used
      BY <1>3 DEF OtpRows
    <3> HIDE DEF q
    <3>3. Onward(r, q)
      BY <3>1, <3>2 DEF Onward, Exists
    <3> QED
      BY <3>1, <3>2, <3>3
  <2>4. CASE Renew(h)
    <3> DEFINE q == Renewed(r)
    <3>1. Exists(c) /\ otp' = [otp EXCEPT ![c] = q]
      BY <2>4, <1>2 DEF Renew
    <3>2. q \in OtpRows /\ q.owner = r.owner /\ q.used = r.used /\ q.attempts = 0
      BY <1>3, RenewedShape
    <3> HIDE DEF q
    <3>3. Onward(r, q)
      BY <3>1, <3>2, OtpAssumption DEF Onward, Exists
    <3> QED
      BY <3>1, <3>2, <3>3
  <2>5. CASE Fail(h)
    BY <2>0, <2>5, <1>3 DEF Fail
  <2> QED
    BY <2>1, <2>2, <2>3, <2>4, <2>5 DEF Step
<1> QED
  BY <1>1, <1>2, <1>4, <1>5, <1>6

LEMMA AgeShape ==
  ASSUME TypeInv, NEW c \in Ids, Age(c)
  PROVE  /\ UNCHANGED <<req, served, accepted, missed>> /\ Exists(c)
         /\ \E q \in OtpRows :
              /\ otp' = [otp EXCEPT ![c] = q] /\ Onward(otp[c], q)
              /\ q.attempts = otp[c].attempts /\ q.resent = otp[c].resent
<1> DEFINE a == IF otp[c].age = "fresh" THEN "cool" ELSE "expired"
           q == [otp[c] EXCEPT !.age = a]
<1>1. UNCHANGED <<req, served, accepted, missed>> /\ Exists(c) /\ otp' = [otp EXCEPT ![c] = q]
  BY DEF Age, TypeInv, TypeOK
<1>2. otp[c] \in OtpRows /\ a \in Ages /\ (otp[c].attempts >= MaxAttempts => otp[c].used)
  BY DEF Ages, TypeInv, TypeOK, Rows
<1> HIDE DEF a
<1>3. q \in OtpRows /\ q.owner = otp[c].owner /\ q.used = otp[c].used
      /\ q.attempts = otp[c].attempts /\ q.resent = otp[c].resent
  BY <1>2 DEF OtpRows
<1> HIDE DEF q
<1>4. Onward(otp[c], q)
  BY <1>1, <1>2, <1>3 DEF Onward, Exists
<1> QED
  BY <1>1, <1>3, <1>4

\* A row that is written keeps the invariant about rows.
LEMMA RowsStep ==
  ASSUME TypeInv, NEW c \in Ids, NEW q \in OtpRows,
         otp' = [otp EXCEPT ![c] = q], Onward(otp[c], q),
         \A d \in Ids : ~Exists(d)' => missed'[d] = missed[d]
  PROVE  /\ otp' \in [Ids -> OtpRows] /\ Rows'
         /\ \A d \in Ids : Exists(d) => Exists(d)' /\ otp'[d].owner = otp[d].owner
         /\ \A d \in Ids : otp[d].used => otp'[d].used
<1>1. otp' \in [Ids -> OtpRows] /\ otp'[c] = q /\ \A d \in Ids \ {c} : otp'[d] = otp[d]
  BY DEF TypeInv, TypeOK
<1>2. \A d \in Ids : Onward(otp[d], otp'[d])
  BY <1>1 DEF Onward, TypeInv, Rows
<1>3. \A d \in Ids : Exists(d) => Exists(d)' /\ otp'[d].owner = otp[d].owner
  BY <1>2 DEF Onward, Exists
<1>4. \A d \in Ids : otp[d].used => otp'[d].used
  BY <1>2 DEF Onward
<1>5. \A d \in Ids : ~Exists(d)' => otp'[d] = otp[d] /\ ~Exists(d)
  BY <1>2 DEF Onward, Exists
<1>6. Rows'
  <2> SUFFICES ASSUME NEW d \in Ids
               PROVE  /\ ~Exists(d)' => otp'[d] = NoRow /\ missed'[d] = 0
                      /\ otp'[d].attempts >= MaxAttempts => otp'[d].used
    BY DEF Rows, NoRow, Issued
  <2>1. otp'[d].attempts >= MaxAttempts => otp'[d].used
    BY <1>2 DEF Onward
  <2>2. ~Exists(d)' => otp'[d] = NoRow /\ missed'[d] = 0
    BY <1>5 DEF TypeInv, Rows
  <2> QED
    BY <2>1, <2>2
<1> QED
  BY <1>1, <1>3, <1>4, <1>6

-----------------------------------------------------------------------------
(* The types are kept, and so are owners and used challenges.              *)

Kept ==
  /\ \A c \in Ids : Exists(c) => Exists(c)' /\ otp'[c].owner = otp[c].owner
  /\ \A c \in Ids : otp[c].used => otp'[c].used

LEMMA AwareStep ==
  ASSUME TypeInv, NEW h \in Handlers, Kept,
         \A g \in Handlers \ {h} : req'[g] = req[g],
         req'[h].at # "idle" => req'[h].on \in Ids,
         req'[h].at = "create" => req'[h].user \in Users,
         req'[h].at \in {"count", "consume", "renew"} => Exists(req'[h].on)
  PROVE  Aware'
<1> SUFFICES ASSUME NEW g \in Handlers
             PROVE  /\ req'[g].at # "idle" => req'[g].on \in Ids
                    /\ req'[g].at = "create" => req'[g].user \in Users
                    /\ req'[g].at \in {"count", "consume", "renew"} => otp'[req'[g].on].owner # NoUser
  BY DEF Aware, Exists
<1>1. /\ req'[g].at # "idle" => req'[g].on \in Ids
      /\ req'[g].at = "create" => req'[g].user \in Users
      /\ req'[g].at \in {"count", "consume", "renew"} => otp[req'[g].on].owner # NoUser
  BY DEF TypeInv, Aware, Exists
<1>2. req'[g].at \in {"count", "consume", "renew"} => otp'[req'[g].on].owner # NoUser
  BY <1>1 DEF Kept, Exists
<1> QED
  BY <1>1, <1>2

LEMMA TypeStep ==
  ASSUME TypeInv, [Next]_vars
  PROVE  TypeInv' /\ Kept
<1>1. ASSUME NEW h \in Handlers, NEW c \in Ids, Request(h, c)
      PROVE  TypeInv' /\ Kept
  <2>1. PICK stage \in Stages \ {"idle"}, u \in Users \union {NoUser}, n \in 0 .. MaxAttempts - 1 :
          /\ Begin(h, c, stage, u, n)
          /\ UNCHANGED <<otp, accepted, missed>>
          /\ stage = "create" => u \in Users
          /\ stage # "create" => Exists(c)
    BY <1>1, RequestShape
  <2>2. TypeOK'
    BY <2>1, BeginShape DEF TypeInv, TypeOK
  <2>3. Rows' /\ Kept
    BY <2>1 DEF TypeInv, Rows, Kept, Exists
  <2>4. Aware'
    BY <2>1, <2>3, BeginShape, AwareStep
  <2> QED
    BY <2>2, <2>3, <2>4 DEF TypeInv
<1>2. ASSUME NEW h \in Handlers, Step(h)
      PROVE  TypeInv' /\ Kept
  <2> DEFINE c == req[h].on
  <2>1. PICK q \in OtpRows : otp' = [otp EXCEPT ![c] = q] /\ Onward(otp[c], q)
    BY <1>2, StepShape
  <2>2. c \in Ids /\ Finish(h) /\ served' = served
        /\ accepted' \in [Ids -> Nat] /\ missed' \in [Ids -> Nat]
    BY <1>2, StepShape
  <2>3. \A d \in Ids : ~Exists(d)' => missed'[d] = missed[d]
    <3>1. CASE missed' = missed
      BY <3>1
    <3>2. CASE Count(h)
      <4>1. Exists(c) /\ otp[c].owner # NoUser
        BY <3>2 DEF Count, TypeInv, Aware, Exists
      <4>2. otp'[c].owner # NoUser
        <5>1. otp'[c] = q
          BY <2>1, <2>2 DEF TypeInv, TypeOK
        <5> QED
          BY <2>1, <4>1, <5>1 DEF Onward
      <4>3. \A d \in Ids \ {c} : missed'[d] = missed[d]
        BY <2>2, <3>2 DEF Count, TypeInv, TypeOK
      <4> HIDE DEF c
      <4> QED
        BY <4>2, <4>3 DEF Exists
    <3> QED
      BY <3>1, <3>2, <1>2, StepShape
  <2> HIDE DEF c
  <2>4. otp' \in [Ids -> OtpRows] /\ Rows' /\ Kept
    BY <2>1, <2>2, <2>3, RowsStep DEF Kept
  <2>5. TypeOK'
    BY <2>2, <2>4, FinishShape DEF TypeInv, TypeOK
  <2>6. Aware'
    BY <2>2, <2>4, FinishShape, AwareStep DEF Idle
  <2> QED
    BY <2>4, <2>5, <2>6 DEF TypeInv
<1>3. ASSUME NEW c \in Ids, Age(c)
      PROVE  TypeInv' /\ Kept
  <2>1. UNCHANGED <<req, served, accepted, missed>>
    BY <1>3, AgeShape
  <2>2. PICK q \in OtpRows : otp' = [otp EXCEPT ![c] = q] /\ Onward(otp[c], q)
    BY <1>3, AgeShape
  <2>3. otp' \in [Ids -> OtpRows] /\ Rows' /\ Kept
    BY <2>1, <2>2, RowsStep DEF Kept
  <2>4. TypeOK'
    BY <2>1, <2>3 DEF TypeInv, TypeOK
  <2>5. Aware'
    BY <2>1, <2>3 DEF TypeInv, Aware, Kept, Exists
  <2> QED
    BY <2>3, <2>4, <2>5 DEF TypeInv
<1>4. CASE UNCHANGED vars
  BY <1>4 DEF vars, TypeInv, TypeOK, Aware, Rows, Kept, Exists
<1> QED
  BY <1>1, <1>2, <1>3, <1>4 DEF Next

LEMMA TypeAlways == Spec => []TypeInv
<1>1. TypeInv /\ [Next]_vars => TypeInv'
  BY TypeStep
<1> QED
  BY <1>1, TypeInit, PTL DEF Spec

-----------------------------------------------------------------------------
(* The ids about which one request at a time is sent.                      *)

LEMMA SerialInit == Init => SerialInv
<1> SUFFICES ASSUME Init PROVE SerialInv
  OBVIOUS
<1>1. NoRow.attempts = 0 /\ NoRow.resent = 0
  BY IssuedShape DEF NoRow
<1>2. Turns /\ Current
  BY OtpAssumption DEF Init, Idle, Turns, Current
<1>3. Counts
  BY <1>1, OtpAssumption DEF Init, Counts
<1> QED
  BY <1>2, <1>3 DEF SerialInv

LEMMA TurnsRequest ==
  ASSUME TypeInv, SerialInv, NEW h \in Handlers, NEW c \in Ids, Request(h, c)
  PROVE  SerialInv'
<1>1. PICK stage \in Stages \ {"idle"}, u \in Users \union {NoUser}, n \in 0 .. MaxAttempts - 1 :
        /\ Begin(h, c, stage, u, n)
        /\ UNCHANGED <<otp, accepted, missed>>
        /\ stage = "count" => n = otp[c].attempts
  BY RequestShape
<1>2. /\ req'[h].at = stage /\ req'[h].on = c /\ req'[h].seen = n
      /\ \A g \in Handlers \ {h} : req'[g] = req[g]
  BY <1>1, BeginShape
<1>3. c \in Serial => \A g \in Handlers : req[g].on # c
  BY <1>1 DEF Begin
<1>4. Turns'
  BY <1>2, <1>3 DEF SerialInv, Turns
<1>5. Current'
  BY <1>1, <1>2 DEF SerialInv, Current
<1>6. Counts'
  BY <1>1 DEF SerialInv, Counts
<1> QED
  BY <1>4, <1>5, <1>6 DEF SerialInv

\* A handler that finishes leaves its turn; if it is the only one about its
\* challenge nobody else has read what it writes.
LEMMA TurnsFinish ==
  ASSUME TypeInv, SerialInv, NEW h \in Handlers, Finish(h), req[h].at # "idle",
         \A d \in Ids : d # req[h].on => otp'[d] = otp[d]
  PROVE  Turns' /\ Current'
<1>1. req'[h] = Idle /\ \A g \in Handlers \ {h} : req'[g] = req[g]
  BY FinishShape
<1>2. Turns'
  BY <1>1, OtpAssumption DEF SerialInv, Turns, Idle
<1>3. ASSUME NEW g \in Handlers, req'[g].at = "count", req'[g].on \in Serial
      PROVE  req'[g].seen = otp'[req'[g].on].attempts
  <2>1. g # h /\ req'[g] = req[g]
    BY <1>1, <1>3 DEF Idle
  <2>2. req[g].on # req[h].on
    BY <2>1, <1>3 DEF SerialInv, Turns
  <2>3. req[g].on \in Ids
    BY <2>1, <1>3, OtpAssumption
  <2> QED
    BY <2>1, <2>2, <2>3, <1>3 DEF SerialInv, Current
<1> QED
  BY <1>2, <1>3 DEF Current

\* The count of refusals goes with the row of its challenge.
LEMMA CountsStep ==
  ASSUME TypeInv, SerialInv, NEW h \in Handlers, Step(h)
  PROVE  Counts'
<1> DEFINE c == req[h].on
<1>1. c \in Ids /\ req[h].at # "idle"
  BY StepShape
<1>2. \A d \in Ids \ {c} : otp'[d] = otp[d] /\ missed'[d] = missed[d]
  BY <1>1 DEF Step, Create, Count, Consume, Renew, Fail, TypeInv, TypeOK
<1>3. otp[c] \in OtpRows /\ missed[c] \in Nat
  BY <1>1 DEF TypeInv, TypeOK
<1>4. c \in Serial => missed[c] <= MaxAttempts * otp[c].resent + otp[c].attempts
  BY DEF SerialInv, Counts
<1>5. c \in Serial => missed'[c] <= MaxAttempts * otp'[c].resent + otp'[c].attempts
  <2> SUFFICES ASSUME c \in Serial
               PROVE  missed'[c] <= MaxAttempts * otp'[c].resent + otp'[c].attempts
    OBVIOUS
  <2>1. CASE Create(h)
    <3>1. CASE Exists(c)
      BY <2>1, <3>1, <1>1, <1>4 DEF Create, TypeInv, TypeOK
    <3>2. CASE ~Exists(c)
      <4>1. missed[c] = 0 /\ missed'[c] = missed[c]
        BY <2>1, <3>2, <1>1 DEF Create, TypeInv, Rows
      <4>2. otp'[c] = Issued(req[h].user) /\ req[h].user \in Users
        BY <2>1, <3>2, <1>1 DEF Create, TypeInv, TypeOK, Aware
      <4>3. otp'[c].attempts = 0 /\ otp'[c].resent = 0
        BY <4>2, IssuedShape
      <4> HIDE DEF c
      <4> QED
        BY <4>1, <4>3, OtpAssumption
    <3> QED
      BY <3>1, <3>2
  <2>2. CASE Count(h)
    <3> DEFINE n == req[h].seen + 1
    <3>1. n \in 0 .. MaxAttempts /\ n = otp[c].attempts + 1
      BY <2>2, OtpAssumption DEF Count, TypeInv, TypeOK, Locals, SerialInv, Current
    <3>2. otp'[c] = Counted(otp[c], n) /\ missed'[c] = missed[c] + 1
      BY <2>2, <1>1 DEF Count, TypeInv, TypeOK
    <3>3. otp'[c].attempts = n /\ otp'[c].resent = otp[c].resent
      BY <3>1, <3>2, <1>3, CountedShape
    <3>4. otp[c].attempts \in Nat /\ otp[c].resent \in Nat
      BY <1>3, OtpAssumption DEF OtpRows
    <3> HIDE DEF c, n
    <3> DEFINE k == MaxAttempts * otp[c].resent
    <3>5. k \in Nat /\ k = MaxAttempts * otp'[c].resent
      BY <3>3, <3>4, OtpAssumption
    <3> HIDE DEF k
    <3>6. missed[c] <= k + otp[c].attempts
      BY <1>4 DEF k
    <3> QED
      BY <3>1, <3>2, <3>3, <3>4, <3>5, <3>6, <1>3
  <2>3. CASE Consume(h)
    <3>1. missed'[c] = missed[c] /\ otp'[c] = [otp[c] EXCEPT !.used = TRUE]
      BY <2>3, <1>1 DEF Consume, TypeInv, TypeOK
    <3>2. otp'[c].attempts = otp[c].attempts /\ otp'[c].resent = otp[c].resent
      BY <3>1, <1>3 DEF OtpRows
    <3> QED
      BY <3>1, <3>2, <1>4
  <2>4. CASE Renew(h)
    <3>1. missed'[c] = missed[c] /\ otp'[c] = Renewed(otp[c])
      BY <2>4, <1>1 DEF Renew, TypeInv, TypeOK
    <3>2. otp'[c].attempts = 0 /\ otp'[c].resent = otp[c].resent + 1
      BY <3>1, <1>3, RenewedShape
    <3>3. otp[c].attempts \in 0 .. MaxAttempts /\ otp[c].resent \in Nat
      BY <1>3 DEF OtpRows
    <3> HIDE DEF c
    <3> DEFINE k == MaxAttempts * otp[c].resent
    <3>4. k \in Nat /\ MaxAttempts * (otp[c].resent + 1) = k + MaxAttempts
      BY <3>3, OtpAssumption
    <3> HIDE DEF k
    <3>5. missed[c] <= k + otp[c].attempts
      BY <1>4 DEF k
    <3> QED
      BY <3>1, <3>2, <3>3, <3>4, <3>5, <1>3, OtpAssumption
  <2>5. CASE Fail(h)
    BY <2>5, <1>4 DEF Fail
  <2> QED
    BY <2>1, <2>2, <2>3, <2>4, <2>5 DEF Step
<1> HIDE DEF c
<1> QED
  BY <1>2, <1>5, OtpAssumption DEF SerialInv, Counts

LEMMA SerialStep ==
  ASSUME TypeInv, SerialInv, [Next]_vars
  PROVE  SerialInv'
<1>1. ASSUME NEW h \in Handlers, NEW c \in Ids, Request(h, c)
      PROVE  SerialInv'
  BY <1>1, TurnsRequest
<1>2. ASSUME NEW h \in Handlers, Step(h)
      PROVE  SerialInv'
  <2>1. Finish(h) /\ req[h].at # "idle"
    BY <1>2, StepShape
  <2>2. \A d \in Ids : d # req[h].on => otp'[d] = otp[d]
    BY <1>2 DEF Step, Create, Count, Consume, Renew, Fail, TypeInv, TypeOK
  <2>3. Turns' /\ Current'
    BY <2>1, <2>2, TurnsFinish
  <2> QED
    BY <1>2, <2>3, CountsStep DEF SerialInv
<1>3. ASSUME NEW c \in Ids, Age(c)
      PROVE  SerialInv'
  <2>1. PICK q \in OtpRows :
          /\ otp' = [otp EXCEPT ![c] = q]
          /\ q.attempts = otp[c].attempts /\ q.resent = otp[c].resent
    BY <1>3, AgeShape
  <2>2. UNCHANGED <<req, missed>>
    BY <1>3, AgeShape
  <2>3. \A d \in Ids : otp'[d].attempts = otp[d].attempts /\ otp'[d].resent = otp[d].resent
    BY <2>1 DEF TypeInv, TypeOK
  <2>4. Turns'
    BY <2>2 DEF SerialInv, Turns
  <2>5. Current'
    BY <2>2, <2>3, OtpAssumption DEF SerialInv, Current
  <2>6. Counts'
    BY <2>2, <2>3, OtpAssumption DEF SerialInv, Counts
  <2> QED
    BY <2>4, <2>5, <2>6 DEF SerialInv
<1>4. CASE UNCHANGED vars
  BY <1>4 DEF vars, SerialInv, Turns, Current, Counts
<1> QED
  BY <1>1, <1>2, <1>3, <1>4 DEF Next

-----------------------------------------------------------------------------
(* The theorems.                                                           *)

\* Every column has its type, and the stored count of wrong codes never passes
\* the limit, whatever each request counts from.
THEOREM TypeCorrect == Spec => []TypeOK
<1>1. TypeInv => TypeOK
  BY DEF TypeInv
<1> QED
  BY <1>1, TypeAlways, PTL

\* A challenge that has been consumed or burned stays so, under any overlap of
\* verifications and resends.
THEOREM UsedStaysUsed == Spec => UsedIsFinal
<1>1. TypeInv /\ [Next]_vars => [\A c \in Ids : otp[c].used => otp'[c].used]_vars
  BY TypeStep DEF Kept
<1> QED
  BY <1>1, TypeAlways, PTL DEF Spec, UsedIsFinal

\* A request id is never taken over by another user, under any race of draws
\* and inserts.
THEOREM OwnerStays == Spec => BindingFinal
<1>1. TypeInv /\ [Next]_vars => [\A c \in Ids : Exists(c) => otp'[c].owner = otp[c].owner]_vars
  BY TypeStep DEF Kept
<1> QED
  BY <1>1, TypeAlways, PTL DEF Spec, BindingFinal

\* A challenge about which one request at a time is sent refuses no more wrong
\* codes than MaxAttempts for each of its sendings.
THEOREM RefusalsStayBounded == Spec => []RefusalsBounded
<1>1. TypeInv /\ SerialInv /\ [Next]_vars => SerialInv'
  BY SerialStep
<1>2. TypeInv /\ SerialInv => RefusalsBounded
  <2> SUFFICES ASSUME TypeInv, SerialInv, NEW c \in Serial
               PROVE  missed[c] <= MaxAttempts * (otp[c].resent + 1)
    BY DEF RefusalsBounded
  <2>1. c \in Ids
    BY OtpAssumption
  <2>2. missed[c] \in Nat /\ otp[c].attempts \in 0 .. MaxAttempts /\ otp[c].resent \in Nat
    BY <2>1 DEF TypeInv, TypeOK, OtpRows
  <2> DEFINE k == MaxAttempts * otp[c].resent
  <2>3. k \in Nat /\ MaxAttempts * (otp[c].resent + 1) = k + MaxAttempts
    BY <2>2, OtpAssumption
  <2> HIDE DEF k
  <2>4. missed[c] <= k + otp[c].attempts
    BY DEF SerialInv, Counts, k
  <2> QED
    BY <2>2, <2>3, <2>4, OtpAssumption
<1> QED
  BY <1>1, <1>2, SerialInit, TypeAlways, PTL DEF Spec

(***************************************************************************)
(* How often a challenge is accepted and sent again, under any overlap;    *)
(* and that a challenge nobody overlaps implements OtpToken.               *)
(***************************************************************************)
\* The handlers at a stage about challenge c, and how many there can be.
Of(r, c, stage) == {h \in Handlers : r[h].at = stage /\ r[h].on = c}
Spare(c) == IF c \in Serial THEN 1 ELSE Cardinality(Handlers)

\* What has been done and what is on its way stays within the spare requests.
Bounds ==
  \A c \in Ids :
    /\ ~otp[c].used => accepted[c] = 0
    /\ accepted[c] + Cardinality(Of(req, c, "consume")) <= Spare(c)
    /\ otp[c].resent + Cardinality(Of(req, c, "renew")) + 1 <= MaxResends + Spare(c)

\* What a request about an id in Serial has read is still so.
Sharp ==
  \A h \in Handlers : req[h].on \in Serial =>
    /\ req[h].at \in {"count", "consume", "renew"} => ~otp[req[h].on].used
    /\ req[h].at = "renew" => otp[req[h].on].resent < MaxResends

TokenInv == TypeInv /\ SerialInv /\ Bounds /\ Sharp

-----------------------------------------------------------------------------
(* Counting.                                                               *)

LEMMA OfBounded ==
  ASSUME NEW r, \A g, h \in Handlers : r[g].on = r[h].on /\ r[g].on \in Serial => g = h, NEW c, NEW stage
  PROVE  /\ IsFiniteSet(Of(r, c, stage)) /\ Cardinality(Of(r, c, stage)) \in Nat
         /\ Spare(c) \in Nat /\ Spare(c) >= 1
         /\ Cardinality(Of(r, c, stage)) <= Spare(c)
<1>1. IsFiniteSet(Handlers) /\ Cardinality(Handlers) \in Nat /\ Cardinality(Handlers) # 0
  BY OtpAssumption, FS_CardinalityType, FS_EmptySet
<1>2. Of(r, c, stage) \in SUBSET Handlers
  BY DEF Of
<1>3. /\ IsFiniteSet(Of(r, c, stage)) /\ Cardinality(Of(r, c, stage)) \in Nat
      /\ Cardinality(Of(r, c, stage)) <= Cardinality(Handlers)
  BY <1>1, <1>2, FS_Subset, FS_CardinalityType
<1>4. Spare(c) \in Nat /\ Spare(c) >= 1
  BY <1>1 DEF Spare
<1>5. CASE c \in Serial
  <2>1. CASE Of(r, c, stage) = {}
    BY <1>3, <1>4, <2>1, FS_EmptySet
  <2>2. CASE Of(r, c, stage) # {}
    <3>1. \E h \in Handlers : Of(r, c, stage) = {h}
      BY <1>5, <2>2 DEF Of
    <3>2. Cardinality(Of(r, c, stage)) = 1
      BY <3>1, FS_Singleton
    <3> QED
      BY <1>3, <1>4, <3>2
  <2> QED
    BY <2>1, <2>2
<1>6. CASE c \notin Serial
  BY <1>1, <1>3, <1>4, <1>6 DEF Spare
<1> QED
  BY <1>5, <1>6

\* A handler that finishes leaves its stage.
LEMMA OfFinish ==
  ASSUME TypeInv, SerialInv, NEW h \in Handlers, Finish(h), NEW c \in Ids,
         NEW stage \in {"consume", "renew"}
  PROVE  /\ Cardinality(Of(req', c, stage)) \in Nat
         /\ Cardinality(Of(req', c, stage)) <= Cardinality(Of(req, c, stage))
         /\ req[h].at = stage /\ req[h].on = c =>
              Cardinality(Of(req', c, stage)) = Cardinality(Of(req, c, stage)) - 1
<1>1. req'[h] = Idle /\ \A g \in Handlers \ {h} : req'[g] = req[g]
  BY FinishShape
<1>2. Of(req', c, stage) = Of(req, c, stage) \ {h}
  BY <1>1 DEF Of, Idle
<1>3. IsFiniteSet(Of(req, c, stage)) /\ Cardinality(Of(req, c, stage)) \in Nat
  BY OfBounded DEF SerialInv, Turns
<1>4. h \in Of(req, c, stage) <=> req[h].at = stage /\ req[h].on = c
  BY DEF Of
<1>5. CASE h \in Of(req, c, stage)
  <2>1. Cardinality(Of(req', c, stage)) = Cardinality(Of(req, c, stage)) - 1
    BY <1>2, <1>3, <1>5, FS_RemoveElement
  <2>2. IsFiniteSet(Of(req', c, stage))
    BY <1>2, <1>3, FS_RemoveElement
  <2>3. Cardinality(Of(req', c, stage)) \in Nat
    BY <2>2, FS_CardinalityType
  <2> QED
    BY <1>3, <2>1, <2>3
<1>6. CASE h \notin Of(req, c, stage)
  <2>1. Of(req', c, stage) = Of(req, c, stage)
    BY <1>2, <1>6
  <2> QED
    BY <1>3, <1>4, <1>6, <2>1
<1> QED
  BY <1>5, <1>6

-----------------------------------------------------------------------------
(* What a request has read.                                                *)

LEMMA RequestReads ==
  ASSUME TypeInv, NEW h \in Handlers, NEW c \in Ids, Request(h, c)
  PROVE  /\ req[h].at = "idle" /\ req'[h].on = c
         /\ \A g \in Handlers \ {h} : req'[g] = req[g]
         /\ c \in Serial => \A g \in Handlers : req[g].on # c
         /\ UNCHANGED <<otp, accepted, missed>>
         /\ req'[h].at \in {"create", "count", "consume", "renew"}
         /\ req'[h].at \in {"count", "consume", "renew"} => Exists(c) /\ ~otp[c].used
         /\ req'[h].at \in {"count", "consume"} => otp[c].age # "expired"
         /\ req'[h].at = "renew" => otp[c].resent < MaxResends
<1>1. PICK stage \in Stages \ {"idle"}, u \in Users \union {NoUser}, n \in 0 .. MaxAttempts - 1 :
        /\ Begin(h, c, stage, u, n)
        /\ UNCHANGED <<otp, accepted, missed>>
        /\ stage # "create" => Exists(c)
        /\ stage \in {"count", "consume", "renew"} => ~otp[c].used
  BY RequestShape
<1>2. /\ req'[h].at = stage /\ req'[h].on = c
      /\ \A g \in Handlers \ {h} : req'[g] = req[g]
  BY <1>1, BeginShape
<1>3. req[h].at = "idle" /\ (c \in Serial => \A g \in Handlers : req[g].on # c)
  BY <1>1 DEF Begin
<1>4. req' = [req EXCEPT ![h] = req'[h]] /\ h \in DOMAIN req
  BY <1>1 DEF Begin, TypeInv, TypeOK
<1>5. CASE \E u2 \in Users : Draw(h, c, u2)
  <2>1. req'[h].at = "create"
    BY <1>4, <1>5 DEF Draw, Begin
  <2> QED
    BY <1>1, <1>2, <1>3, <2>1
<1>6. CASE VerifyWrong(h, c) \/ VerifyRight(h, c)
  <2>1. req'[h].at \in {"count", "consume"} /\ otp[c].age # "expired"
    BY <1>4, <1>6 DEF VerifyWrong, VerifyRight, Begin, Usable
  <2> QED
    BY <1>1, <1>2, <1>3, <2>1
<1>7. CASE ResendRead(h, c)
  <2>1. req'[h].at = "renew" /\ otp[c].resent < MaxResends
    BY <1>4, <1>7 DEF ResendRead, Begin, Resendable
  <2> QED
    BY <1>1, <1>2, <1>3, <2>1
<1> QED
  BY <1>5, <1>6, <1>7 DEF Request

\* What a step writes: the row and the history of its own challenge.
LEMMA StepWrites ==
  ASSUME TypeInv, NEW h \in Handlers, Step(h)
  PROVE  /\ Finish(h) /\ req[h].on \in Ids /\ req[h].at # "idle"
         /\ \A d \in Ids : d # req[h].on => otp'[d] = otp[d] /\ accepted'[d] = accepted[d]
         /\ ~Consume(h) => accepted' = accepted
         /\ Consume(h) => /\ req[h].at = "consume" /\ accepted'[req[h].on] = accepted[req[h].on] + 1
                          /\ otp'[req[h].on] = [otp[req[h].on] EXCEPT !.used = TRUE]
         /\ Renew(h) => req[h].at = "renew" /\ otp'[req[h].on] = Renewed(otp[req[h].on])
         /\ Count(h) => req[h].at = "count" /\ otp'[req[h].on] = Counted(otp[req[h].on], req[h].seen + 1)
         /\ Create(h) => /\ req[h].at = "create"
                         /\ otp'[req[h].on] = IF Exists(req[h].on) THEN otp[req[h].on] ELSE Issued(req[h].user)
         /\ Fail(h) => otp' = otp
<1>1. Finish(h) /\ req[h].on \in Ids /\ req[h].at # "idle"
  BY StepShape
<1> QED
  BY <1>1 DEF Step, Create, Count, Consume, Renew, Fail, TypeInv, TypeOK

-----------------------------------------------------------------------------
(* The bounds.                                                             *)

LEMMA BoundsStep ==
  ASSUME TokenInv, SerialInv', NEW h \in Handlers, Step(h), NEW c \in Ids
  PROVE  /\ ~otp'[c].used => accepted'[c] = 0
         /\ accepted'[c] + Cardinality(Of(req', c, "consume")) <= Spare(c)
         /\ otp'[c].resent + Cardinality(Of(req', c, "renew")) + 1 <= MaxResends + Spare(c)
<1> DEFINE F == Cardinality(Of(req, c, "consume"))  G == Cardinality(Of(req', c, "consume"))
           R == Cardinality(Of(req, c, "renew"))    S == Cardinality(Of(req', c, "renew"))
<1>0. TypeInv /\ SerialInv
  BY DEF TokenInv
<1>1. /\ F \in Nat /\ R \in Nat /\ Spare(c) \in Nat /\ Spare(c) >= 1
  BY OfBounded DEF TokenInv, SerialInv, Turns
<1>2. Finish(h)
  BY <1>0, StepWrites
<1>3. /\ G \in Nat /\ S \in Nat /\ G <= F /\ S <= R
      /\ req[h].at = "consume" /\ req[h].on = c => G = F - 1
      /\ req[h].at = "renew" /\ req[h].on = c => S = R - 1
  BY <1>0, <1>2, OfFinish
<1>4. /\ otp[c] \in OtpRows /\ accepted[c] \in Nat /\ MaxResends \in Nat
      /\ otp[c].resent \in Nat
      /\ ~otp[c].used => accepted[c] = 0
      /\ accepted[c] + F <= Spare(c)
      /\ otp[c].resent + R + 1 <= MaxResends + Spare(c)
  BY OtpAssumption DEF TokenInv, Bounds, TypeInv, TypeOK, OtpRows
<1> HIDE DEF F, G, R, S
<1>5. ASSUME accepted'[c] = accepted[c], otp[c].used => otp'[c].used,
             otp'[c].resent \in Nat, otp'[c].resent <= otp[c].resent
      PROVE  /\ ~otp'[c].used => accepted'[c] = 0
             /\ accepted'[c] + G <= Spare(c)
             /\ otp'[c].resent + S + 1 <= MaxResends + Spare(c)
  BY <1>1, <1>3, <1>4, <1>5
<1>6. CASE req[h].on # c \/ Fail(h)
  <2>1. otp'[c] = otp[c] /\ accepted'[c] = accepted[c]
    BY <1>0, <1>6, StepWrites DEF Fail
  <2> QED
    BY <1>4, <1>5, <2>1 DEF G, S
<1>7. CASE req[h].on = c /\ Create(h)
  <2>1. accepted'[c] = accepted[c]
    BY <1>7 DEF Create
  <2>2. CASE Exists(c)
    <3>1. otp'[c] = otp[c]
      BY <1>0, <1>7, <2>2, StepWrites
    <3> QED
      BY <1>4, <1>5, <2>1, <3>1 DEF G, S
  <2>3. CASE ~Exists(c)
    <3>1. otp'[c] = Issued(req[h].user) /\ req[h].user \in Users /\ otp[c] = NoRow
      BY <1>0, <1>7, <2>3, StepWrites DEF TypeInv, Aware, Rows
    <3>2. otp'[c].resent = 0 /\ ~otp[c].used
      BY <3>1, IssuedShape DEF NoRow
    <3> QED
      BY <1>4, <1>5, <2>1, <3>2 DEF G, S
  <2> QED
    BY <2>2, <2>3
<1>8. CASE req[h].on = c /\ Count(h)
  <2>1. accepted'[c] = accepted[c]
    BY <1>8 DEF Count
  <2>2. otp'[c] = Counted(otp[c], req[h].seen + 1)
    BY <1>0, <1>8, StepWrites
  <2>3. req[h].seen + 1 \in 0 .. MaxAttempts
    BY <1>0, OtpAssumption DEF TypeInv, TypeOK, Locals
  <2>4. (otp[c].used => otp'[c].used) /\ otp'[c].resent = otp[c].resent
    BY <1>4, <2>2, <2>3, CountedShape
  <2> QED
    BY <1>4, <1>5, <2>1, <2>4 DEF G, S
<1>9. CASE req[h].on = c /\ Consume(h)
  <2>1. /\ req[h].at = "consume" /\ accepted'[c] = accepted[c] + 1
        /\ otp'[c] = [otp[c] EXCEPT !.used = TRUE]
    BY <1>0, <1>9, StepWrites
  <2>2. otp'[c].used /\ otp'[c].resent = otp[c].resent
    BY <1>4, <2>1 DEF OtpRows
  <2>3. accepted'[c] + G <= Spare(c)
    BY <1>1, <1>3, <1>4, <1>9, <2>1
  <2>4. otp'[c].resent + S + 1 <= MaxResends + Spare(c)
    BY <1>1, <1>3, <1>4, <2>2
  <2> QED
    BY <2>2, <2>3, <2>4 DEF G, S
<1>10. CASE req[h].on = c /\ Renew(h)
  <2>1. /\ req[h].at = "renew" /\ accepted'[c] = accepted[c]
        /\ otp'[c] = Renewed(otp[c])
    BY <1>0, <1>10, StepWrites DEF Renew
  <2>2. otp'[c].used = otp[c].used /\ otp'[c].resent = otp[c].resent + 1
    BY <1>4, <2>1, RenewedShape
  <2>3. accepted'[c] + G <= Spare(c)
    BY <1>1, <1>3, <1>4, <2>1
  <2>4. otp'[c].resent + S + 1 <= MaxResends + Spare(c)
    BY <1>1, <1>3, <1>4, <1>10, <2>1, <2>2
  <2> QED
    BY <1>4, <2>1, <2>2, <2>3, <2>4 DEF G, S
<1> QED
  BY <1>6, <1>7, <1>8, <1>9, <1>10 DEF Step

LEMMA BoundsRequest ==
  ASSUME TokenInv, SerialInv', NEW h \in Handlers, NEW d \in Ids, Request(h, d), NEW c \in Ids
  PROVE  /\ ~otp'[c].used => accepted'[c] = 0
         /\ accepted'[c] + Cardinality(Of(req', c, "consume")) <= Spare(c)
         /\ otp'[c].resent + Cardinality(Of(req', c, "renew")) + 1 <= MaxResends + Spare(c)
<1> DEFINE G == Cardinality(Of(req', c, "consume"))
           S == Cardinality(Of(req', c, "renew"))
<1>0. TypeInv /\ SerialInv
  BY DEF TokenInv
<1>1. /\ G \in Nat /\ S \in Nat /\ Spare(c) \in Nat /\ G <= Spare(c) /\ S <= Spare(c)
  BY OfBounded DEF SerialInv, Turns
<1>2. /\ otp' = otp /\ accepted' = accepted /\ req[h].at = "idle" /\ req'[h].on = d
      /\ \A g \in Handlers \ {h} : req'[g] = req[g]
      /\ req'[h].at \in {"count", "consume", "renew"} => ~otp[d].used
      /\ req'[h].at = "renew" => otp[d].resent < MaxResends
  BY <1>0, RequestReads
<1>3. /\ accepted[c] \in Nat /\ otp[c].resent \in Nat /\ MaxResends \in Nat
      /\ ~otp[c].used => accepted[c] = 0
      /\ accepted[c] + Cardinality(Of(req, c, "consume")) <= Spare(c)
      /\ otp[c].resent + Cardinality(Of(req, c, "renew")) + 1 <= MaxResends + Spare(c)
  BY OtpAssumption DEF TokenInv, Bounds, TypeInv, TypeOK, OtpRows
<1>4. CASE req'[h].at = "consume" /\ c = d
  <2>1. Of(req', c, "renew") = Of(req, c, "renew")
    BY <1>2, <1>4 DEF Of
  <2>2. accepted[c] = 0
    BY <1>2, <1>3, <1>4
  <2> HIDE DEF G
  <2>3. accepted'[c] + G <= Spare(c)
    BY <1>1, <1>2, <2>2
  <2> QED
    BY <1>2, <1>3, <2>1, <2>3 DEF G
<1>5. CASE req'[h].at = "renew" /\ c = d
  <2>1. Of(req', c, "consume") = Of(req, c, "consume")
    BY <1>2, <1>5 DEF Of
  <2>2. otp[c].resent < MaxResends
    BY <1>2, <1>5
  <2> HIDE DEF S
  <2>3. otp'[c].resent + S + 1 <= MaxResends + Spare(c)
    BY <1>1, <1>2, <1>3, <2>2
  <2> QED
    BY <1>2, <1>3, <2>1, <2>3 DEF S
<1>6. CASE req'[h].at \notin {"consume", "renew"} \/ c # d
  <2>1. Of(req', c, "consume") = Of(req, c, "consume") /\ Of(req', c, "renew") = Of(req, c, "renew")
    BY <1>2, <1>6 DEF Of
  <2> QED
    BY <1>2, <1>3, <2>1
<1> QED
  BY <1>4, <1>5, <1>6


LEMMA AgeKeeps ==
  ASSUME TypeInv, NEW c \in Ids, Age(c)
  PROVE  /\ UNCHANGED <<req, served, accepted, missed>> /\ Exists(c) /\ otp[c].age # "expired"
         /\ \A d \in Ids : d # c => otp'[d] = otp[d]
         /\ otp'[c].owner = otp[c].owner /\ otp'[c].used = otp[c].used
         /\ otp'[c].attempts = otp[c].attempts /\ otp'[c].resent = otp[c].resent
<1> DEFINE a == IF otp[c].age = "fresh" THEN "cool" ELSE "expired"
<1>1. /\ UNCHANGED <<req, served, accepted, missed>> /\ Exists(c) /\ otp[c].age # "expired"
      /\ otp' = [otp EXCEPT ![c].age = a]
  BY DEF Age
<1>2. otp \in [Ids -> OtpRows]
  BY DEF TypeInv, TypeOK
<1> HIDE DEF a
<1>3. /\ otp'[c] = [otp[c] EXCEPT !.age = a] /\ otp[c] \in OtpRows
      /\ \A d \in Ids : d # c => otp'[d] = otp[d]
  BY <1>1, <1>2
<1> QED
  BY <1>1, <1>3 DEF OtpRows

LEMMA SharpRequest ==
  ASSUME TokenInv, NEW h \in Handlers, NEW c \in Ids, Request(h, c)
  PROVE  Sharp'
<1>1. /\ req'[h].on = c /\ UNCHANGED otp
      /\ \A g \in Handlers \ {h} : req'[g] = req[g]
      /\ req'[h].at \in {"count", "consume", "renew"} => ~otp[c].used
      /\ req'[h].at = "renew" => otp[c].resent < MaxResends
  BY RequestReads DEF TokenInv
<1> QED
  BY <1>1 DEF TokenInv, Sharp

\* Nobody else is about a challenge in Serial that a step writes.
LEMMA SharpStep ==
  ASSUME TokenInv, NEW h \in Handlers, Step(h)
  PROVE  Sharp'
<1>0. TypeInv /\ Turns
  BY DEF TokenInv, SerialInv
<1>1. /\ Finish(h) /\ \A d \in Ids : d # req[h].on => otp'[d] = otp[d]
  BY <1>0, StepWrites
<1>2. req'[h] = Idle /\ \A g \in Handlers \ {h} : req'[g] = req[g]
  BY <1>0, <1>1, FinishShape
<1> SUFFICES ASSUME NEW g \in Handlers, req'[g].on \in Serial
             PROVE  /\ req'[g].at \in {"count", "consume", "renew"} => ~otp'[req'[g].on].used
                    /\ req'[g].at = "renew" => otp'[req'[g].on].resent < MaxResends
  BY DEF Sharp
<1>3. g # h
  BY <1>2, OtpAssumption DEF Idle
<1>4. req'[g] = req[g] /\ req[g].on # req[h].on /\ req[g].on \in Ids
  BY <1>0, <1>2, <1>3, OtpAssumption DEF Turns
<1> QED
  BY <1>1, <1>4 DEF TokenInv, Sharp

LEMMA TokenNext ==
  ASSUME TokenInv, [Next]_vars
  PROVE  TokenInv'
<1>0. TypeInv /\ SerialInv /\ TypeInv' /\ SerialInv'
  BY TypeStep, SerialStep DEF TokenInv
<1>1. ASSUME NEW h \in Handlers, NEW d \in Ids, Request(h, d)
      PROVE  Bounds' /\ Sharp'
  <2>1. Bounds'
    BY <1>0, <1>1, BoundsRequest DEF Bounds
  <2> QED
    BY <1>1, <2>1, SharpRequest
<1>2. ASSUME NEW h \in Handlers, Step(h)
      PROVE  Bounds' /\ Sharp'
  <2>1. Bounds'
    BY <1>0, <1>2, BoundsStep DEF Bounds
  <2> QED
    BY <1>2, <2>1, SharpStep
<1>3. ASSUME NEW c \in Ids, Age(c)
      PROVE  Bounds' /\ Sharp'
  <2>1. /\ UNCHANGED <<req, accepted>>
        /\ \A d \in Ids : otp'[d].used = otp[d].used /\ otp'[d].resent = otp[d].resent
    BY <1>0, <1>3, AgeKeeps
  <2>2. \A d \in Ids, stage \in {"consume", "renew"} : Of(req', d, stage) = Of(req, d, stage)
    BY <2>1
  <2>3. Bounds'
    BY <2>1, <2>2 DEF TokenInv, Bounds
  <2>4. Sharp'
    BY <2>1, OtpAssumption DEF TokenInv, Sharp
  <2> QED
    BY <2>3, <2>4
<1>4. CASE UNCHANGED vars
  <2>1. otp' = otp /\ req' = req /\ accepted' = accepted
    BY <1>4 DEF vars
  <2> QED
    BY <1>0, <2>1 DEF TokenInv, Bounds, Sharp
<1> QED
  BY <1>0, <1>1, <1>2, <1>3, <1>4 DEF Next, TokenInv

LEMMA TokenInit == Init => TokenInv
<1> SUFFICES ASSUME Init PROVE TokenInv
  OBVIOUS
<1>0. TypeInv /\ SerialInv
  BY TypeInit, SerialInit
<1>1. Bounds
  <2> SUFFICES ASSUME NEW c \in Ids
               PROVE  /\ accepted[c] = 0
                      /\ accepted[c] + Cardinality(Of(req, c, "consume")) <= Spare(c)
                      /\ otp[c].resent + Cardinality(Of(req, c, "renew")) + 1 <= MaxResends + Spare(c)
    BY DEF Bounds
  <2>1. Of(req, c, "consume") = {} /\ Of(req, c, "renew") = {}
    BY DEF Init, Of, Idle
  <2>2. Cardinality(Of(req, c, "consume")) = 0 /\ Cardinality(Of(req, c, "renew")) = 0
    BY <2>1, FS_EmptySet
  <2>3. accepted[c] = 0 /\ otp[c].resent = 0
    BY IssuedShape DEF Init, NoRow
  <2>4. Spare(c) \in Nat /\ Spare(c) >= 1 /\ MaxResends \in Nat
    BY <1>0, OfBounded, OtpAssumption DEF SerialInv, Turns
  <2> QED
    BY <2>2, <2>3, <2>4
<1>2. Sharp
  BY DEF Init, Idle, Sharp
<1> QED
  BY <1>0, <1>1, <1>2 DEF TokenInv

LEMMA TokenAlways == Spec => []TokenInv
<1>1. TokenInv /\ [Next]_vars => TokenInv'
  BY TokenNext
<1> QED
  BY <1>1, TokenInit, PTL DEF Spec

\* AcceptedBounded: however verifications overlap, a challenge is accepted once
\* for each request that can be in flight, and once where they take turns.
THEOREM AcceptsStayBounded == Spec => []AcceptedBounded
<1>1. TokenInv => AcceptedBounded
  <2> SUFFICES ASSUME TokenInv, NEW c \in Ids
               PROVE  accepted[c] <= Spare(c)
    BY DEF AcceptedBounded, Spare
  <2>1. Cardinality(Of(req, c, "consume")) \in Nat /\ Spare(c) \in Nat
    BY OfBounded DEF TokenInv, SerialInv, Turns
  <2>2. accepted[c] \in Nat /\ accepted[c] + Cardinality(Of(req, c, "consume")) <= Spare(c)
    BY DEF TokenInv, Bounds, TypeInv, TypeOK
  <2> QED
    BY <2>1, <2>2
<1> QED
  BY <1>1, TokenAlways, PTL

\* ResendsBounded: overlapping resends pass the limit by the other requests in
\* flight at most, and never where they take turns.
THEOREM ResendsStayBounded == Spec => []ResendsBounded
<1>1. TokenInv => ResendsBounded
  <2> SUFFICES ASSUME TokenInv, NEW c \in Ids
               PROVE  otp[c].resent <= MaxResends + (IF c \in Serial THEN 0 ELSE Cardinality(Handlers) - 1)
    BY DEF ResendsBounded
  <2>1. Cardinality(Of(req, c, "renew")) \in Nat /\ Spare(c) \in Nat /\ MaxResends \in Nat
    BY OfBounded, OtpAssumption DEF TokenInv, SerialInv, Turns
  <2>2. /\ otp[c].resent \in Nat
        /\ otp[c].resent + Cardinality(Of(req, c, "renew")) + 1 <= MaxResends + Spare(c)
    BY DEF TokenInv, Bounds, TypeInv, TypeOK, OtpRows
  <2>3. otp[c].resent <= MaxResends + (Spare(c) - 1)
    BY <2>1, <2>2
  <2>4. Spare(c) - 1 = IF c \in Serial THEN 0 ELSE Cardinality(Handlers) - 1
    BY DEF Spare
  <2> QED
    BY <2>3, <2>4
<1> QED
  BY <1>1, TokenAlways, PTL

-----------------------------------------------------------------------------
(* The refinement.                                                         *)

States == [c \in Serial |-> StateOf(c)]
Misses == [c \in Serial |-> otp[c].attempts]
Sends == [c \in Serial |-> otp[c].resent]

LEMMA Refined ==
  /\ Token!Spec <=> Token!Init /\ [][Token!Next]_<<States, Misses, Sends>>
  /\ Token!Init <=> /\ States = [c \in Serial |-> "none"]
                    /\ Misses = [c \in Serial |-> 0] /\ Sends = [c \in Serial |-> 0]
  BY DEF Token!Spec, Token!Init, States, Misses, Sends

\* What is the same for the token, and what one challenge becomes.
Same(c) ==
  /\ StateOf(c)' = StateOf(c)
  /\ otp'[c].attempts = otp[c].attempts /\ otp'[c].resent = otp[c].resent
Stutters == States' = States /\ Misses' = Misses /\ Sends' = Sends

LEMMA Stuttered ==
  ASSUME \A c \in Serial : Same(c)
  PROVE  Stutters
  BY DEF Same, Stutters, States, Misses, Sends

LEMMA Moved ==
  ASSUME NEW c \in Serial, \A d \in Serial : d # c => Same(d)
  PROVE  /\ States' = [States EXCEPT ![c] = StateOf(c)']
         /\ Misses' = [Misses EXCEPT ![c] = otp'[c].attempts]
         /\ Sends' = [Sends EXCEPT ![c] = otp'[c].resent]
  BY DEF Same, States, Misses, Sends

\* The handlers that take turns about a challenge.
LEMMA OthersSame ==
  ASSUME TypeInv, NEW h \in Handlers, NEW d \in Ids,
         \A g \in Handlers \ {h} : req'[g] = req[g],
         otp'[d] = otp[d], accepted'[d] = accepted[d],
         req[h].on # d \/ req[h].at = "idle", req'[h].on # d \/ req'[h].at = "idle"
  PROVE  Same(d)
<1>1. Verifying(d)' <=> Verifying(d)
  BY DEF Verifying
<1> QED
  BY <1>1 DEF Same, StateOf, Exists

LEMMA RequestRefines ==
  ASSUME TokenInv, NEW h \in Handlers, NEW c \in Ids, Request(h, c)
  PROVE  Stutters
<1>1. /\ req[h].at = "idle" /\ req'[h].on = c
      /\ \A g \in Handlers \ {h} : req'[g] = req[g]
      /\ c \in Serial => \A g \in Handlers : req[g].on # c
      /\ otp' = otp /\ accepted' = accepted
      /\ req'[h].at \in {"create", "count", "consume", "renew"}
      /\ req'[h].at \in {"count", "consume"} => otp[c].age # "expired"
  BY RequestReads DEF TokenInv
<1> SUFFICES ASSUME NEW d \in Serial PROVE Same(d)
  BY Stuttered
<1>2. d \in Ids
  BY OtpAssumption
<1>3. CASE d # c
  BY <1>1, <1>2, <1>3, OthersSame DEF TokenInv
<1>4. CASE d = c
  <2>1. ~Verifying(d)
    BY <1>1, <1>4 DEF Verifying
  <2>2. Verifying(d)' => otp[d].age # "expired"
    BY <1>1, <1>4 DEF Verifying
  <2> QED
    BY <1>1, <2>1, <2>2 DEF Same, StateOf, Exists
<1> QED
  BY <1>3, <1>4

LEMMA AgeRefines ==
  ASSUME TokenInv, NEW c \in Ids, Age(c)
  PROVE  Token!Next \/ Stutters
<1>1. /\ req' = req /\ accepted' = accepted /\ Exists(c) /\ otp[c].age # "expired"
      /\ \A d \in Ids : d # c => otp'[d] = otp[d]
      /\ otp'[c].owner = otp[c].owner /\ otp'[c].used = otp[c].used
      /\ otp'[c].attempts = otp[c].attempts /\ otp'[c].resent = otp[c].resent
  BY AgeKeeps DEF TokenInv
<1>2. \A d \in Serial : d # c => Same(d)
  BY <1>1, OtpAssumption DEF Same, StateOf, Exists, Verifying
<1>3. Verifying(c)' <=> Verifying(c)
  BY <1>1 DEF Verifying
<1>4. CASE c \notin Serial \/ StateOf(c)' = StateOf(c)
  BY <1>1, <1>2, <1>4, Stuttered DEF Same
<1>5. CASE c \in Serial /\ StateOf(c)' # StateOf(c)
  <2>1. StateOf(c) = "open" /\ StateOf(c)' = "lapsed"
    BY <1>1, <1>3, <1>5 DEF StateOf, Exists
  <2>2. /\ States' = [States EXCEPT ![c] = "lapsed"]
        /\ Misses' = [Misses EXCEPT ![c] = otp[c].attempts]
        /\ Sends' = [Sends EXCEPT ![c] = otp[c].resent]
    BY <1>1, <1>2, <1>5, <2>1, Moved
  <2>3. Token!Lapse(c)
    BY <1>5, <2>1, <2>2 DEF Token!Lapse, Token!Put, States, Misses, Sends
  <2> QED
    BY <1>5, <2>3 DEF Token!Next
<1> QED
  BY <1>4, <1>5

LEMMA StepRefines ==
  ASSUME TokenInv, NEW h \in Handlers, Step(h)
  PROVE  Token!Next \/ Stutters
<1>0. TypeInv /\ SerialInv /\ Turns
  BY DEF TokenInv, SerialInv
<1> PICK c \in Ids : c = req[h].on
  BY <1>0, StepWrites
<1>1. /\ req'[h] = Idle /\ req[h].at # "idle"
      /\ \A g \in Handlers \ {h} : req'[g] = req[g]
      /\ \A d \in Ids : d # c => otp'[d] = otp[d] /\ accepted'[d] = accepted[d]
  BY <1>0, StepWrites, FinishShape
<1>2. \A d \in Serial : d # c => Same(d)
  <2> SUFFICES ASSUME NEW d \in Serial, d # c PROVE Same(d)
    OBVIOUS
  <2>1. d \in Ids /\ req[h].on # d /\ req'[h].at = "idle"
    BY <1>1, OtpAssumption DEF Idle
  <2> QED
    BY <1>0, <1>1, <2>1, OthersSame
<1>3. CASE c \notin Serial
  BY <1>2, <1>3, Stuttered
<1>4. CASE c \in Serial
  <2> USE <1>4
  <2>1. \A g \in Handlers : req[g].on = c => g = h
    BY <1>0 DEF Turns
  <2>2. ~Verifying(c)' /\ (Verifying(c) <=> req[h].at \in {"count", "consume"})
    <3>1. \A g \in Handlers : req'[g].on # c
      BY <1>1, <2>1, OtpAssumption DEF Idle
    <3> QED
      BY <2>1, <3>1 DEF Verifying
  <2>3. /\ otp[c] \in OtpRows /\ accepted[c] \in Nat
        /\ ~otp[c].used => accepted[c] = 0
        /\ req[h].at \in {"count", "consume", "renew"} => Exists(c) /\ ~otp[c].used
        /\ req[h].at = "renew" => otp[c].resent < MaxResends
        /\ req[h].at = "count" => req[h].seen = otp[c].attempts
    BY <1>0 DEF TokenInv, TypeInv, TypeOK, Aware, Bounds, Sharp, SerialInv, Current
  <2>4. /\ States[c] = StateOf(c) /\ Misses[c] = otp[c].attempts /\ Sends[c] = otp[c].resent
        /\ States' = [States EXCEPT ![c] = StateOf(c)']
        /\ Misses' = [Misses EXCEPT ![c] = otp'[c].attempts]
        /\ Sends' = [Sends EXCEPT ![c] = otp'[c].resent]
        /\ Same(c) => Stutters
    BY <1>2, Moved, Stuttered DEF States, Misses, Sends
  <2>5. CASE Create(h)
    <3>1. req[h].at = "create" /\ accepted'[c] = accepted[c]
      BY <2>5 DEF Create
    <3>2. CASE Exists(c)
      <4>1. otp'[c] = otp[c]
        BY <1>0, <2>5, <3>2, StepWrites
      <4>2. Same(c)
        BY <2>2, <3>1, <4>1 DEF Same, StateOf, Exists
      <4> QED
        BY <2>4, <4>2
    <3>3. CASE ~Exists(c)
      <4>1. otp'[c] = Issued(req[h].user) /\ req[h].user \in Users
        BY <1>0, <2>5, <3>1, <3>3, StepWrites DEF TypeInv, Aware
      <4>2. /\ otp'[c].owner # NoUser /\ ~otp'[c].used /\ otp'[c].age = "fresh"
            /\ otp'[c].attempts = 0 /\ otp'[c].resent = 0
        BY <4>1, OtpAssumption DEF Issued
      <4>3. StateOf(c) = "none" /\ StateOf(c)' = "open"
        BY <3>3, <4>2 DEF StateOf, Exists
      <4>4. /\ States' = [States EXCEPT ![c] = "open"]
            /\ Misses' = [Misses EXCEPT ![c] = 0]
            /\ Sends' = [Sends EXCEPT ![c] = 0]
        BY <2>4, <4>2, <4>3
      <4>5. Token!Send(c)
        BY <4>3, <4>4 DEF Token!Send, Token!Put, States, Misses, Sends
      <4> QED
        BY <4>5 DEF Token!Next
    <3> QED
      BY <3>2, <3>3
  <2>6. CASE Count(h)
    <3>1. /\ req[h].at = "count" /\ accepted'[c] = 0
          /\ otp'[c] = Counted(otp[c], otp[c].attempts + 1)
          /\ otp[c].attempts + 1 \in 0 .. MaxAttempts
      BY <1>0, <2>3, <2>6, StepWrites, OtpAssumption DEF Count, TypeInv, TypeOK, Locals
    <3>2. StateOf(c) = "open"
      BY <2>2, <2>3, <3>1 DEF StateOf
    <3>3. /\ otp'[c].owner = otp[c].owner /\ otp'[c].resent = otp[c].resent
          /\ otp'[c].attempts = otp[c].attempts + 1
      BY <2>3, <3>1, CountedShape
    <3>4. Exists(c)'
      BY <2>3, <3>1, <3>3 DEF Exists
    <3>5. CASE otp[c].attempts + 1 < MaxAttempts
      <4>0. ~otp'[c].used
        BY <2>3, <3>1, <3>5, OtpAssumption DEF Counted, Burns, OtpRows
      <4>1. StateOf(c)' \in {"open", "lapsed"}
        BY <3>4, <4>0 DEF StateOf
      <4> PICK s \in {"open", "lapsed"} : s = StateOf(c)'
        BY <4>1
      <4>2. /\ States' = [States EXCEPT ![c] = s]
            /\ Misses' = [Misses EXCEPT ![c] = otp[c].attempts + 1]
            /\ Sends' = [Sends EXCEPT ![c] = otp[c].resent]
        BY <2>4, <3>3
      <4>3. Token!Miss(c)
        BY <3>2, <3>5, <4>2 DEF Token!Miss, Token!Put, States, Misses, Sends
      <4> QED
        BY <4>3 DEF Token!Next
    <3>6. CASE otp[c].attempts + 1 >= MaxAttempts
      <4>0. otp'[c].used
        BY <2>3, <3>1, <3>6, CountedShape
      <4>1. StateOf(c)' = "burned"
        BY <3>1, <3>4, <4>0 DEF StateOf
      <4>2. otp[c].attempts + 1 = MaxAttempts
        BY <3>1, <3>6, OtpAssumption
      <4>3. /\ States' = [States EXCEPT ![c] = "burned"]
            /\ Misses' = [Misses EXCEPT ![c] = MaxAttempts]
            /\ Sends' = [Sends EXCEPT ![c] = otp[c].resent]
        BY <2>4, <3>3, <4>1, <4>2
      <4>4. Token!Burn(c)
        BY <3>2, <4>2, <4>3 DEF Token!Burn, Token!Put, States, Misses, Sends
      <4> QED
        BY <4>4 DEF Token!Next
    <3> QED
      BY <3>1, <3>5, <3>6, OtpAssumption
  <2>7. CASE Consume(h)
    <3>1. /\ req[h].at = "consume" /\ accepted'[c] = accepted[c] + 1
          /\ otp'[c] = [otp[c] EXCEPT !.used = TRUE]
      BY <1>0, <2>7, StepWrites
    <3>2. /\ otp'[c].owner = otp[c].owner /\ otp'[c].used
          /\ otp'[c].attempts = otp[c].attempts /\ otp'[c].resent = otp[c].resent
      BY <2>3, <3>1 DEF OtpRows
    <3>3. accepted'[c] > 0
      BY <2>3, <3>1
    <3>4. StateOf(c) = "open" /\ StateOf(c)' = "accepted"
      BY <2>2, <2>3, <3>1, <3>2, <3>3 DEF StateOf, Exists
    <3>5. /\ States' = [States EXCEPT ![c] = "accepted"]
          /\ Misses' = [Misses EXCEPT ![c] = otp[c].attempts]
          /\ Sends' = [Sends EXCEPT ![c] = otp[c].resent]
      BY <2>4, <3>2, <3>4
    <3>6. Token!Accept(c)
      BY <3>4, <3>5 DEF Token!Accept, Token!Put, States, Misses, Sends
    <3> QED
      BY <3>6 DEF Token!Next
  <2>8. CASE Renew(h)
    <3>1. req[h].at = "renew" /\ otp'[c] = Renewed(otp[c])
      BY <1>0, <2>8, StepWrites
    <3>2. /\ otp'[c].owner = otp[c].owner /\ ~otp'[c].used /\ otp'[c].age = "fresh"
          /\ otp'[c].attempts = 0 /\ otp'[c].resent = otp[c].resent + 1
      BY <2>3, <3>1 DEF Renewed
    <3>3. StateOf(c) \in {"open", "lapsed"} /\ StateOf(c)' = "open"
      BY <2>3, <3>1, <3>2 DEF StateOf, Exists
    <3>4. /\ States' = [States EXCEPT ![c] = "open"]
          /\ Misses' = [Misses EXCEPT ![c] = 0]
          /\ Sends' = [Sends EXCEPT ![c] = otp[c].resent + 1]
      BY <2>4, <3>2, <3>3
    <3>5. Token!Resend(c)
      BY <2>3, <3>1, <3>3, <3>4 DEF Token!Resend, Token!Put, States, Misses, Sends
    <3> QED
      BY <3>5 DEF Token!Next
  <2>9. CASE Fail(h)
    <3>1. otp' = otp /\ accepted' = accepted
      BY <2>9 DEF Fail
    <3>2. CASE StateOf(c)' = StateOf(c)
      BY <2>4, <3>1, <3>2 DEF Same
    <3>3. CASE StateOf(c)' # StateOf(c)
      <4>1. StateOf(c) = "open" /\ StateOf(c)' = "lapsed"
        BY <2>2, <3>1, <3>3 DEF StateOf, Exists
      <4>2. /\ States' = [States EXCEPT ![c] = "lapsed"]
            /\ Misses' = [Misses EXCEPT ![c] = otp[c].attempts]
            /\ Sends' = [Sends EXCEPT ![c] = otp[c].resent]
        BY <2>4, <3>1, <4>1
      <4>3. Token!Lapse(c)
        BY <4>1, <4>2 DEF Token!Lapse, Token!Put, States, Misses, Sends
      <4> QED
        BY <4>3 DEF Token!Next
    <3> QED
      BY <3>2, <3>3
  <2> QED
    BY <2>5, <2>6, <2>7, <2>8, <2>9 DEF Step
<1> QED
  BY <1>3, <1>4

LEMMA NextRefines == TokenInv /\ [Next]_vars => [Token!Next]_<<States, Misses, Sends>>
<1> SUFFICES ASSUME TokenInv, [Next]_vars
             PROVE  Token!Next \/ Stutters
  BY DEF Stutters
<1>1. CASE UNCHANGED vars
  BY <1>1, Stuttered DEF vars, Same, StateOf, Exists, Verifying
<1> QED
  BY <1>1, RequestRefines, StepRefines, AgeRefines DEF Next

\* TokenSpec: whoever sends one request at a time about a challenge has a
\* token that is accepted or burned once, whatever is sent about the others.
THEOREM TokenImplemented == Spec => TokenSpec
<1>1. Init => Token!Init
  <2> SUFFICES ASSUME Init PROVE Token!Init
    OBVIOUS
  <2>1. \A c \in Serial : StateOf(c) = "none" /\ otp[c].attempts = 0 /\ otp[c].resent = 0
    BY IssuedShape, OtpAssumption DEF Init, StateOf, Exists, NoRow
  <2> QED
    BY <2>1, Refined DEF States, Misses, Sends
<1>2. TokenInv /\ [Next]_vars => [Token!Next]_<<States, Misses, Sends>>
  BY NextRefines
<1>3. Token!Spec <=> Token!Init /\ [][Token!Next]_<<States, Misses, Sends>>
  BY Refined
<1> QED
  BY <1>1, <1>2, <1>3, TokenAlways, PTL DEF Spec, TokenSpec

=============================================================================
