------------------------------ MODULE MCCutoff ------------------------------
(* Cutoff on a small instance: the values that a .cfg cannot write.        *)
EXTENDS Cutoff, TLC

CONSTANTS a1, settle

OneAccount == (a1 :> 4) @@ (settle :> 0)
Paying == [p \in Payments |-> {"initiate", "confirm", "submit"}]

=============================================================================
