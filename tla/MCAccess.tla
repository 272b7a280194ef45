------------------------------ MODULE MCAccess ------------------------------
(* Access on small instances.                                              *)
EXTENDS Access, TLC

CONSTANTS u1, u2, a

Alike == Permutations(Handlers) \union Permutations(Challenges) \union Permutations(Passwords \ {Initial})

=============================================================================
