---------------------------- MODULE Beneficiaries ----------------------------
(***************************************************************************)
(* The payees of one customer: BeneficiariesService.  Every operation is   *)
(* one statement on the rows, after a read that no other operation can     *)
(* make false, so each is one step.                                        *)
(*                                                                         *)
(* A payee is the account number money goes to, the name the customer gave *)
(* it and the name the bank fetched.  Rails, IFSC and addresses are left   *)
(* out: they decide whether a form is accepted, never which one.           *)
(***************************************************************************)
EXTENDS Integers, FiniteSets

CONSTANTS
  Payees,      \* identities of the rows, with their beneficiary codes
  Numbers,     \* account numbers
  Names,       \* names of account holders
  NoNumber, NoName   \* values of a row that does not exist

ASSUME PayeeAssumption == NoNumber \notin Numbers /\ NoName \notin Names

\* The holder of an account number, a digest of the number.
CONSTANT HolderOf
ASSUME HolderAssumption == HolderOf \in [Numbers -> Names]

VARIABLES
  payee,       \* payee[b]: the row of b
  vetted       \* history: the account numbers b had when it was activated

payeeVars == <<payee, vetted>>

PayeeStatuses == {"PENDING", "ACTIVE", "REJECTED", "DELETED"}
PayeeAges == {"never", "new", "aged"}        \* time since activatedAt

NoRow == [status |-> "ABSENT", number |-> NoNumber, name |-> NoName,
          fetched |-> NoName, age |-> "never"]

Mismatch(b) == payee[b].fetched # NoName /\ payee[b].name # payee[b].fetched

\* Activated payees, the ones initiate accepts; and those a list shows.
ActivePayees == {b \in Payees : payee[b].status = "ACTIVE"}
PendingPayees == {b \in Payees : payee[b].status = "PENDING"}
ListedPayees == {b \in Payees : payee[b].status \notin {"ABSENT", "DELETED"}}

-----------------------------------------------------------------------------
\* create.  The code is unique, whatever has become of the row that has it.
\* The name as fetched is the one the client sends, if it sends one.
CreatePayee(b, number, name, fetched) ==
  /\ payee[b].status = "ABSENT"
  /\ payee' = [payee EXCEPT ![b] =
       [status |-> "PENDING", number |-> number, name |-> name,
        fetched |-> IF fetched = NoName THEN HolderOf[number] ELSE fetched,
        age |-> "never"]]
  /\ UNCHANGED vetted

\* update.  Any row of the customer, whatever its status, becomes PENDING with
\* a new number and name; the fetched name and activatedAt stay.
UpdateKeeps(b, number, name) ==                           \* mutant
  /\ payee[b].status # "ABSENT"
  /\ payee' = [payee EXCEPT ![b].number = number, ![b].name = name]
  /\ UNCHANGED vetted
UpdatePayee(b, number, name) ==
  /\ payee[b].status # "ABSENT"
  /\ payee' = [payee EXCEPT ![b].status = "PENDING", ![b].number = number, ![b].name = name]
  /\ UNCHANGED vetted

\* activate, reject and remove.  One updateMany each, on the rows of the list
\* that are in the status it asks for.
ActivatePayees(B) ==
  LET hit == B \intersect PendingPayees IN
  /\ payee' = [b \in Payees |->
       IF b \in hit THEN [payee[b] EXCEPT !.status = "ACTIVE", !.age = "new"] ELSE payee[b]]
  /\ vetted' = [b \in Payees |->
       IF b \in hit THEN vetted[b] \union {payee[b].number} ELSE vetted[b]]

RejectPayees(B) ==
  /\ payee' = [b \in Payees |->
       IF b \in B \intersect PendingPayees THEN [payee[b] EXCEPT !.status = "REJECTED"] ELSE payee[b]]
  /\ UNCHANGED vetted

RemovePayees(B) ==
  /\ payee' = [b \in Payees |->
       IF b \in B \intersect ListedPayees THEN [payee[b] EXCEPT !.status = "DELETED"] ELSE payee[b]]
  /\ UNCHANGED vetted

\* Thirty minutes pass since the last activation.
Ripen(b) ==
  /\ payee[b].age = "new"
  /\ payee' = [payee EXCEPT ![b].age = "aged"]
  /\ UNCHANGED vetted

-----------------------------------------------------------------------------
InitPayees ==
  /\ payee = [b \in Payees |-> NoRow]
  /\ vetted = [b \in Payees |-> {}]

PayeeNext ==
  \/ \E b \in Payees, number \in Numbers, name \in Names :
       \/ \E fetched \in Names \union {NoName} : CreatePayee(b, number, name, fetched)
       \/ UpdatePayee(b, number, name)
  \/ \E B \in SUBSET Payees : ActivatePayees(B) \/ RejectPayees(B) \/ RemovePayees(B)
  \/ \E b \in Payees : Ripen(b)

PayeeSpec == InitPayees /\ [][PayeeNext]_payeeVars

PayeeRows ==
  [status : PayeeStatuses \union {"ABSENT"}, number : Numbers \union {NoNumber},
   name : Names \union {NoName}, fetched : Names \union {NoName}, age : PayeeAges]

PayeesTyped == payee \in [Payees -> PayeeRows] /\ vetted \in [Payees -> SUBSET Numbers]

\* A payee that can be paid has an account number that was its own when it was
\* activated: no order of edits, rejections, removals and activations makes an
\* unreviewed number payable.
ActiveIsVetted == \A b \in ActivePayees : payee[b].number \in vetted[b]

=============================================================================
