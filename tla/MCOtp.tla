-------------------------------- MODULE MCOtp --------------------------------
(* Otp on small instances.                                                  *)
EXTENDS Otp, TLC

CONSTANT c1

UsersAlike == Permutations(Users)
HandlersAlike == Permutations(Handlers) \union UsersAlike

=============================================================================
