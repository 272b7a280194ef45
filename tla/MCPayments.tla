----------------------------- MODULE MCPayments -----------------------------
(* Payments on small instances: the values that a .cfg cannot write.       *)
EXTENDS Payments, TLC

CONSTANTS a1, a2, settle, p1

\* One account, of 4 units or of 3, or two of one unit, and the empty settlement
\* account.
OneAccount == (a1 :> 4) @@ (settle :> 0)
SmallAccount == (a1 :> 3) @@ (settle :> 0)
TwoAccounts == (a1 :> 1) @@ (a2 :> 1) @@ (settle :> 0)

\* What the clients do: everything, everything but edits, edits of all but
\* p1, or nothing but paying.
Everything == [p \in Payments |-> Kinds]
NoEdits == [p \in Payments |-> Kinds \ {"update"}]
SomeEdits == [p \in Payments |-> IF p = p1 THEN Kinds \ {"update"} ELSE Kinds]
Paying == [p \in Payments |-> {"initiate", "confirm", "submit"}]

\* Handlers and challenges are interchangeable; so are the payments where all
\* or none of them is on a batch rail, and accounts of the same balance.
Slots == Permutations(Handlers) \union Permutations(Challenges)
AllSlots == Slots \union Permutations(Payments)
EverySlot == AllSlots \union Permutations({a1, a2})

=============================================================================
