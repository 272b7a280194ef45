-------------------------- MODULE PaymentLifecycle --------------------------
(***************************************************************************)
(* What a payment promises: the statuses it goes through, and that money   *)
(* moves once, together with the step to COMPLETED.  The statuses are the  *)
(* enum PaymentStatus, the steps those that the editable and submittable   *)
(* lists of PaymentsService and the HELD check of LedgerService allow.     *)
(***************************************************************************)
CONSTANT Payments

VARIABLES
  status,     \* status[p]: "ABSENT" before the payment is created
  posted      \* payments that have been debited

Open == {"NEW", "HELD"}                \* editable
Ready == {"NEW", "CHALLENGED"}         \* submittable

Move(p, from, to) ==
  /\ status[p] \in from
  /\ status' = [status EXCEPT ![p] = to]
  /\ UNCHANGED posted

Create(p)    == Move(p, {"ABSENT"}, "NEW")
Stop(p)      == Move(p, Open, "BLOCKED") \/ Move(p, Open, "DELETED")
Hold(p)      == Move(p, Open \union {"PROCESSING"}, "HELD")
Challenge(p) == Move(p, Open, "CHALLENGED")
Dispatch(p)  == Move(p, Ready, "PROCESSING")
Review(p)    == Move(p, {"HELD"}, "NEW") \/ Move(p, {"HELD"}, "REJECTED")

\* The only step that moves money, from PROCESSING and never twice.
Post(p) ==
  /\ status[p] = "PROCESSING" /\ p \notin posted
  /\ status' = [status EXCEPT ![p] = "COMPLETED"]
  /\ posted' = posted \union {p}

Init ==
  /\ status = [p \in Payments |-> "ABSENT"]
  /\ posted = {}

Next ==
  \E p \in Payments :
    Create(p) \/ Stop(p) \/ Hold(p) \/ Challenge(p) \/ Dispatch(p) \/ Review(p) \/ Post(p)

Spec == Init /\ [][Next]_<<status, posted>>

=============================================================================
